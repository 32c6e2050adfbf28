CONSTANTS
  Email <- MCEmail
  Rcpts <- MCRcpts
  Size <- MCSize
  QueueJobs = 2
  QueueBytes = 1
  LedgerMax = 1
  MaxCreates = 3
  MaxTrouble = 1
SPECIFICATION FairSpec
CHECK_DEADLOCK FALSE
INVARIANTS AtMostOnce SentIsRecorded SlotsSound
PROPERTY RequestsSettle
