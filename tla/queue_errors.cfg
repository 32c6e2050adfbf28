SPECIFICATION Spec
CONSTANTS
  MaxMsgid = 1
  MaxDests = 2
  RelayAttempts = 1
  ReplyAttempts = 2
  Batch = 1
  MetaMaxRows = 3
  SetMaxRows = 4
  MaxTime = 1
  MaxFaults = 2
  MaxReplays = 1
  StoreErrors = TRUE
INVARIANTS NoAcceptedLoss ActiveHasBody NextDueExact DuplicatesBounded
