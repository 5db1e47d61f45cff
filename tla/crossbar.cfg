SPECIFICATION FairSpec
CONSTANTS
  NULL = NULL
  NUM_VAULTS = 2
  NUM_LINKS = 2
  ADDRESS_MAPPING = 2
  MAX_CROSS_BUF = 5
  MAX_VLT_BUF = 3
  MAX_LINK_BUF = 5
  MAX_TAG = 3
  LINK_PRIORITY <- MCSchemes
  AlwaysAwake <- MCAwake
  Requests <- MCRequests
  MaxRequests = 3
INVARIANTS
  SegmentsConserved
  ResponsesWhole
PROPERTIES
  ServiceLive
