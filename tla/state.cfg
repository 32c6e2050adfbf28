CONSTANTS
  m1 = m1
  m2 = m2
  Msg <- MCMsg
  MaxChanges = 5
  MaxFaults = 1
SPECIFICATION Spec
SYMMETRY Symmetry
INVARIANTS StateIsHonest NoRefreshStorm
