SPECIFICATION FairSpec
CONSTANTS
  NUM_BANKS = 2
  BL = 2
  T <- MCShort
  MAX_CMD_QUE = 8
  MAX_VLT_BUF = 12
  MAX_ROW_ACCESSES = 3
  OPEN_PAGE = TRUE
  QUE_PER_BANK = TRUE
  USE_LOW_POWER = FALSE
  REFRESH_PERIOD = 30
  Templates <- MCLongRead
  MaxRequests = 4
  Refusals = 0
  MaxPending = 5
PROPERTIES
  ServiceLive
