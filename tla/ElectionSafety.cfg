SPECIFICATION Spec
CONSTANTS
  A1 = A1 A2 = A2 A3 = A3 B1 = B1 C1 = C1 A = A B = B C = C None = None
  Node = {A1, A2, A3, B1, C1}
  Shard = {A, B, C}
  ShardOf <- MCShardOf
  FirstMaster <- MCFirstMaster
  FirstEpoch <- MCFirstEpoch
  NameRank <- MCNameRank
  Linked <- SlavesToMasters
  Fallible = {A1}
  Forcible = {}
  Restartable = {A2, B1}
  MaxEpoch = 4
  MaxRestarts = 1
INVARIANT TypeOK
INVARIANT TwoWinnersNeedAGap
INVARIANT VotingInvariant
INVARIANT DoubleVoteWasForgotten
INVARIANT CurrentEpochIsHighest
PROPERTY NoEpochReuse
PROPERTY RestartKeepsConfig
CHECK_DEADLOCK FALSE
