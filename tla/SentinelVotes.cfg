CONSTANTS
  S1 = S1
  S2 = S2
  S3 = S3
  M = M
  X = X
  Y = Y
  None = None
  Sentinel = {S1, S2, S3}
  Instance = {M, X}
  FirstMaster = M
  Promotable = {}
  Quorum = 2
  Crashable = {M}
  Recoverable = {}
  Candidate = {S1, S2}
  Forcible = {}
  Restartable = {S3}
  Lossy = {S3}
  Noticing = {S1, S2}
  Newcomer = {}
  Slow = FALSE
  MaxEpoch = 2
SPECIFICATION Spec
SYMMETRY Candidates
INVARIANTS VotesOnce TwoLeadersNeedAGap
CHECK_DEADLOCK FALSE
