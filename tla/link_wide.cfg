SPECIFICATION CSpec
CONSTANTS
  MAX_LINK_BUF = 8
  MAX_RETRY_BUF = 8
  MAX_LNG = 5
  NUM_OF_IRTRY = 2
  RETRY_ATTEMPT_LIMIT = 2
  CRC_DELAY = 1
  FLIT_TIME = 8
  CPU_CLK_PERIOD = 25
  linkPeriod = 2
  tCK = 20
  MaxNoise = 0
  NULL = NULL
  Workload <- MCLongShort
  Refusals = 0
INVARIANTS
  RetryOnlyAfterNoise
