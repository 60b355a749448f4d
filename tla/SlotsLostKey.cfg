SPECIFICATION Spec
CONSTANTS
  S = S T = T O = O k1 = k1 c1 = c1 c2 = c2 v1 = v1 v2 = v2 None = None
  Node = {S, T, O}
  Key = {k1}
  Value = {v1}
  Client = {}
  FirstOwner = S
  FirstEpoch <- MCEpochs
  NameRank <- MCNameRank
  Reshards <- TwoMoves
  MayDie = FALSE
  Slow = {}
  Ops = {"get", "set", "del"}
  MaxErrors = 0
INVARIANT KeysKept
