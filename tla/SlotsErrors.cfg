SPECIFICATION FairSpec
CONSTANTS
  S = S T = T O = O k1 = k1 c1 = c1 c2 = c2 v1 = v1 v2 = v2 None = None
  Node = {S, T, O}
  Key = {k1}
  Value = {v1, v2}
  Client = {c1}
  FirstOwner = S
  FirstEpoch <- MCCollision
  NameRank <- MCNameRank
  Reshards <- OneMove
  MayDie = FALSE
  Slow = {}
  Ops = {"set", "del"}
  MaxErrors = 2
INVARIANT KeysKept
PROPERTY RequestsAreServed
