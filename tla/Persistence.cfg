SPECIFICATION Spec
CONSTANTS
    DB = {0, 1}
    None = None
    Lost = Lost
    Policies = {"always", "everysec"}
    Configs = {"on", "off"}
    MaxWrites = 3
    Events = {"write", "child", "config", "save", "rewrite", "exit", "power", "shutdown"}
    MaxEvents = 2
INVARIANTS TypeOK RestartFindsPrefix NothingMissing AckedInFile UncountedIsSaved
PROPERTIES WaitEnds ActsAsDurableLog
ACTION_CONSTRAINT RepliesLeaveAtOnce
CHECK_DEADLOCK FALSE
