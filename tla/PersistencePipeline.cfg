SPECIFICATION Spec
CONSTANTS
    DB = {0, 1}
    None = None
    Lost = Lost
    Policies = {"always"}
    Configs = {"on"}
    MaxWrites = 2
    Events = {"exit"}
    MaxEvents = 2
INVARIANT WrittenBeforeReply
CHECK_DEADLOCK FALSE
