SPECIFICATION FairSpec
CONSTANTS
  MaxMsgid = 2
  MaxDests = 1
  RelayAttempts = 1
  ReplyAttempts = 2
  Batch = 1
  MetaMaxRows = 3
  SetMaxRows = 4
  MaxTime = 1
  MaxFaults = 2
  MaxReplays = 1
  StoreErrors = FALSE
INVARIANTS TypeOK FreshMsgid ReplyRouteStable
PROPERTIES RefinesAtLeastOnce EventuallySettled
