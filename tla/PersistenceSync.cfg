SPECIFICATION Spec
CONSTANTS
    DB = {0, 1}
    None = None
    Lost = Lost
    Policies = {"everysec"}
    Configs = {"on"}
    MaxWrites = 2
    Events = {"exit"}
    MaxEvents = 2
PROPERTY SyncedAtLast
CHECK_DEADLOCK FALSE
