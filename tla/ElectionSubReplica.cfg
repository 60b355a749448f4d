SPECIFICATION FairSpec
CONSTANTS
  A1 = A1 A2 = A2 A3 = A3 B1 = B1 C1 = C1 A = A B = B C = C None = None
  Node = {A1, A2, A3}
  Shard = {A}
  ShardOf <- MCShardOf
  FirstMaster <- MCFirstMaster
  FirstEpoch <- MCFirstEpoch
  NameRank <- MCNameRank
  Linked <- AllLinked
  Fallible = {}
  Forcible = {A2}
  Restartable = {}
  MaxEpoch = 2
  MaxRestarts = 0
PROPERTY SlavesFollowOwner
CHECK_DEADLOCK FALSE
