SPECIFICATION FairSpec
CONSTANTS
  A1 = A1 A2 = A2 A3 = A3 B1 = B1 C1 = C1 A = A B = B C = C None = None
  Node = {A1, A2, B1, C1}
  Shard = {A, B, C}
  ShardOf <- MCShardOf
  FirstMaster <- MCFirstMaster
  FirstEpoch <- MCFreshEpoch
  NameRank <- MCNameRank
  Linked <- AllLinked
  Fallible = {}
  Forcible = {}
  Restartable = {}
  MaxEpoch = 6
  MaxRestarts = 0
PROPERTY EpochsBecomeDistinct
CHECK_DEADLOCK FALSE
