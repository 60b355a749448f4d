SPECIFICATION Spec
CONSTANTS
    DB = {0}
    None = None
    Lost = Lost
    Policies = {"everysec"}
    Configs = {"on"}
    MaxWrites = 1
    Events = {"write","config"}
    MaxEvents = 3
PROPERTY AppendsAfterRewrite
CHECK_DEADLOCK FALSE
