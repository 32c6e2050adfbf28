CONSTANTS
  Msg <- MCMsg
  Rcpts <- MCRcpts
  Size <- MCSize
  MaxJobs = 1
  MaxBytes = 2
  MaxAttempts = 3
  MaxFaults = 2
SPECIFICATION FairSpec
INVARIANT QueueSound
PROPERTY WorkEnds
CHECK_DEADLOCK FALSE
