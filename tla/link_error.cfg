SPECIFICATION CFairSpec
CONSTANTS
  MAX_LINK_BUF = 2
  MAX_RETRY_BUF = 6
  MAX_LNG = 2
  NUM_OF_IRTRY = 2
  RETRY_ATTEMPT_LIMIT = 2
  CRC_DELAY = 1
  FLIT_TIME = 3
  CPU_CLK_PERIOD = 3
  linkPeriod = 2
  tCK = 2
  MaxNoise = 1
  NULL = NULL
  Workload <- MCPairs
  Refusals = 1
INVARIANTS
  AllAcknowledged
  BackupReturns
PROPERTIES
  ChannelLive
