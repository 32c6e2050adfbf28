SPECIFICATION Spec
CONSTANTS
  Scenarios <- MCScenarios
  MaxConn = 2
  MaxLost = 1
  MaxFlight = 3
  MaxRcpts = 2
  RawCap = 4
  Chunk = 2
  MaxFails = 2
INVARIANTS
  VerdictSound
  CredentialsOnlyVerified
  NoStall
  TransactionTrue
CHECK_DEADLOCK FALSE
