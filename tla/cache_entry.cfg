SPECIFICATION Spec
CONSTANTS
  BLOCK_BYTES = 4
  NUM_ROWS = 2
  NUM_WAYS = 1
  NUM_BANKS = 2
  BANK_BYTES = 8
  MISS_TIME = 1
  HIT_TIME = 2
  MAX_REQ_BUF = 2
  MaxRequests = 3
  UNSIGNED = 16
  Addresses <- MCAddresses
  Garbage <- MCGarbage
INVARIANTS
  EntryRemoved
