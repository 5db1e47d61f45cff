SPECIFICATION FairSpec
CONSTANTS
  NUM_BANKS = 2
  BL = 1
  T <- MCShort
  MAX_CMD_QUE = 4
  MAX_VLT_BUF = 6
  MAX_ROW_ACCESSES = 3
  OPEN_PAGE = TRUE
  QUE_PER_BANK = FALSE
  USE_LOW_POWER = FALSE
  REFRESH_PERIOD = 30
  Templates <- MCTwoBanks
  MaxRequests = 3
  Refusals = 1
  MaxPending = 5
PROPERTIES
  ServiceLive
