SPECIFICATION MCSpec
CONSTANTS
  Base = {b1, b2}
  Deployments <- MCDeployments
  ImapView = {i1, i2}
  JmapView = {j1}
  Flag = {"plain", "seen"}
  NoFlag = "plain"
  MaxOpens = 3
  MaxStores = 1
  MaxCrashes = 1
  MaxFaults = 1
  MaxReturns = 1
  MaxTime = 2
SYMMETRY Symmetry
INVARIANTS SidecarAndScan AloneOneMessagePerUid
PROPERTIES AloneScanRegisters RowsKept
CHECK_DEADLOCK FALSE
