SPECIFICATION CSpec
CONSTANTS
  MAX_LINK_BUF = 4
  MAX_RETRY_BUF = 8
  MAX_LNG = 2
  NUM_OF_IRTRY = 2
  RETRY_ATTEMPT_LIMIT = 2
  CRC_DELAY = 1
  FLIT_TIME = 3
  CPU_CLK_PERIOD = 3
  linkPeriod = 2
  tCK = 4
  MaxNoise = 2
  NULL = NULL
  Workload <- MCOne
  Refusals = 0
INVARIANTS
  BackupReturns
