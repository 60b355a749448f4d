CONSTANTS
  S1 = S1
  S2 = S2
  S3 = S3
  M = M
  X = X
  Y = Y
  None = None
  Sentinel = {S1, S2}
  Instance = {M, X, Y}
  FirstMaster = M
  Promotable = {X, Y}
  Quorum = 1
  Crashable = {M, Y}
  Recoverable = {M, Y}
  Candidate = {S1}
  Forcible = {S1}
  Restartable = {}
  Lossy = {}
  Noticing = {S1, S2}
  Newcomer = {S1}
  Slow = FALSE
  MaxEpoch = 1
SPECIFICATION Spec
INVARIANTS TypeOK AnnouncedIsSaved
PROPERTY Converges
CHECK_DEADLOCK FALSE
