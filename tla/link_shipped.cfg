SPECIFICATION CSpec
CONSTANTS
  MAX_LINK_BUF = 4
  MAX_RETRY_BUF = 4
  MAX_LNG = 2
  NUM_OF_IRTRY = 2
  RETRY_ATTEMPT_LIMIT = 2
  CRC_DELAY = 1
  FLIT_TIME = 32
  CPU_CLK_PERIOD = 25
  linkPeriod = 2
  tCK = 20
  MaxNoise = 0
  NULL = NULL
  Workload <- MCOne
  Refusals = 1
INVARIANTS
  TypeOK
  BuffersFramed
  RingDiscipline
  TokensConserved
PROPERTIES
  ChannelSpec
