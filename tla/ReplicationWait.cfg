SPECIFICATION Spec
CONSTANTS
    M = M
    A = A
    B = B
    Node = {M, A, B}
    None = None
    DB = {0, 1}
    DefaultDB = 0
    Topologies <- Stars
    BacklogSize = 1
    Orders <- Moves
    MaxWrites = 2
    Faults = {}
    Operated = {M}
    MaxFaults = 0
INVARIANT WaitMeansProcessed
CHECK_DEADLOCK FALSE
