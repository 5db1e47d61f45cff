SPECIFICATION Spec
CONSTANTS
  NUM_BANKS = 2
  BL = 8
  T <- MCShipped
  MAX_CMD_QUE = 4
  MAX_VLT_BUF = 6
  MAX_ROW_ACCESSES = 9
  OPEN_PAGE = TRUE
  QUE_PER_BANK = TRUE
  USE_LOW_POWER = FALSE
  REFRESH_PERIOD = 9750
  Templates <- MCReadWrite
  MaxRequests = 2
  Refusals = 0
  MaxPending = 5
INVARIANTS
  NoExit
