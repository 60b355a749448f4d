SPECIFICATION Spec
CONSTANTS
    DB = {0, 1}
    None = None
    Lost = Lost
    Policies = {"everysec"}
    Configs = {"on"}
    MaxWrites = 2
    Events = {"write", "rewrite"}
    MaxEvents = 2
PROPERTY WritesResume
CHECK_DEADLOCK FALSE
