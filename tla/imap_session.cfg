CONSTANTS
  alice = alice
  bob = bob
  Scenarios <- MCScenarios
  Msg <- MCMsg
  Initial = 2
  Faults = TRUE
SYMMETRY MCSymmetry
SPECIFICATION Spec
INVARIANTS
  NumbersAgree
  LeavesOnRequest
  NoFlagLost
CHECK_DEADLOCK FALSE
