SPECIFICATION Spec
CONSTANTS
  M1 = M1 M2 = M2 M3 = M3 M4 = M4 M5 = M5 E1 = E1 S1 = S1
  Node = {M1, M2, M3, M4, M5}
  Serving = {M1, M2, M3, M4, M5}
  Empty = {}
  Breakable = {M3}
  Suspects = {M3}
  MaxBreaks = 1
  MaxRestarts = 1
INVARIANT MajorityOfMasters
CHECK_DEADLOCK FALSE
