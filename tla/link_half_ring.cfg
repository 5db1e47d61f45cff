SPECIFICATION CFairSpec
CONSTANTS
  MAX_LINK_BUF = 4
  MAX_RETRY_BUF = 4
  MAX_LNG = 2
  NUM_OF_IRTRY = 2
  RETRY_ATTEMPT_LIMIT = 2
  CRC_DELAY = 1
  FLIT_TIME = 4
  CPU_CLK_PERIOD = 2
  linkPeriod = 1
  tCK = 2
  MaxNoise = 0
  NULL = NULL
  Workload <- MCHalfRing
  Refusals = 0
PROPERTIES
  AcksReturn
