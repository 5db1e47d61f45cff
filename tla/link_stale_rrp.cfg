SPECIFICATION CSpec
CONSTANTS
  MAX_LINK_BUF = 6
  MAX_RETRY_BUF = 10
  MAX_LNG = 4
  NUM_OF_IRTRY = 2
  RETRY_ATTEMPT_LIMIT = 2
  CRC_DELAY = 1
  FLIT_TIME = 4
  CPU_CLK_PERIOD = 2
  linkPeriod = 1
  tCK = 2
  MaxNoise = 1
  NULL = NULL
  Workload <- MCLong
  Refusals = 0
INVARIANTS
  NothingLost
