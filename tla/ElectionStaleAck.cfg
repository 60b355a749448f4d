SPECIFICATION Spec
CONSTANTS
  A1 = A1 A2 = A2 A3 = A3 B1 = B1 C1 = C1 A = A B = B C = C None = None
  Node = {A1, A2, B1, C1}
  Shard = {A, B, C}
  ShardOf <- MCShardOf
  FirstMaster <- MCFirstMaster
  FirstEpoch <- MCFirstEpoch
  NameRank <- MCNameRank
  Linked <- WithoutA1
  Fallible = {A1}
  Forcible = {}
  Restartable = {}
  MaxEpoch = 5
  MaxRestarts = 0
INVARIANT WinBackedByMajority
CHECK_DEADLOCK FALSE
