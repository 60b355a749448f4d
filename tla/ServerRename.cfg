SPECIFICATION Spec
CONSTANTS
    C1 = C1
    C2 = C2
    C3 = C3
    K1 = K1
    K2 = K2
    Client = {C1, C2, C3}
    Key = {K1, K2}
    None = None
    Str = Str
    Commands <- MCCommands
    Watching <- MCWatching
    InMulti = {C1}
    MaxQueued = 2
    MaxPushes = 2
INVARIANT ReadyKeysAreServed
