SPECIFICATION Spec
CONSTANTS
  NUM_BANKS = 2
  BL = 2
  T <- MCShort
  MAX_CMD_QUE = 4
  MAX_VLT_BUF = 6
  MAX_ROW_ACCESSES = 3
  OPEN_PAGE = TRUE
  QUE_PER_BANK = TRUE
  USE_LOW_POWER = TRUE
  REFRESH_PERIOD = 14
  Templates <- MCAll
  MaxRequests = 2
  Refusals = 1
  MaxPending = 5
PROPERTIES
  RefreshCompletes
