SPECIFICATION CopiesSpec
CONSTANTS
  Configs <- MCConfigs
  Addresses <- MCAddresses
  Dests = {"x"}
  Wrap = 16
  REVMAP_TTL_SEC = 3
  LOG_RETENTION_SEC = 4
  Hour = 2
  Start = 12
  MaxElapsed = 8
  MaxBack = 1
  MaxMail = 2
  Questions = {"x", "y"}
  Resolvers = {"one", "two"}
  Slots = 2
  NEG_TTL = 1
  MAX_TTL = 2
  Answers <- MCAnswers
  DnsTimeout = 1
  MaxClock = 5
  MaxGen = 1
INVARIANT IdsRoundTrip
CHECK_DEADLOCK FALSE
