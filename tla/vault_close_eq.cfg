SPECIFICATION FairSpec
CONSTANTS
  NUM_BANKS = 2
  BL = 2
  T <- MCShort
  MAX_CMD_QUE = 4
  MAX_VLT_BUF = 6
  MAX_ROW_ACCESSES = 3
  OPEN_PAGE = FALSE
  QUE_PER_BANK = TRUE
  USE_LOW_POWER = FALSE
  REFRESH_PERIOD = 30
  Templates <- MCEqual
  MaxRequests = 1
  Refusals = 1
  MaxPending = 5
PROPERTIES
  RefreshHappens
