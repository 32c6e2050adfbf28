SPECIFICATION Spec
CONSTANTS
  Base = {b1, b2}
  Deployments <- BothDaemons
  ImapView = {i1, i2}
  JmapView = {j1}
  Flag = {"plain"}
  NoFlag = "plain"
  MaxOpens = 3
  MaxStores = 0
  MaxCrashes = 0
  MaxFaults = 0
  MaxReturns = 0
  MaxTime = 1
SYMMETRY Symmetry
INVARIANT OneMessagePerUid
CHECK_DEADLOCK FALSE
