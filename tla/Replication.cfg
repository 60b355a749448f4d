SPECIFICATION Spec
CONSTANTS
    M = M
    A = A
    B = B
    Node = {M, A, B}
    None = None
    DB = {0, 1}
    DefaultDB = 0
    Topologies <- Shapes
    BacklogSize = 1
    Orders <- Moves
    MaxWrites = 2
    Faults = {"break", "bgsave", "save", "restart", "slaveof"}
    Operated = {M}
    MaxFaults = 1
INVARIANTS TypeOK InStepOrAstray CachedInStep OffsetIsPlace WaitCountsHolders
PROPERTY Converges
CHECK_DEADLOCK FALSE
