SPECIFICATION Spec
CONSTANTS
 NUM_LINKS = 2
 MAX_REQ_BUF = 2
 MAX_LINK_BUF = 2
 AWAKE_REQ = 2
 COUNT_MAX = 4
 LINK_POWER <- MCPolicies
 LINK_PRIORITY <- MCSchemes
 Transactions <- MCTransactions
 MaxTransactions = 2
INVARIANTS
  ResponsePath
