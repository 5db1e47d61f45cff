SPECIFICATION Spec
CONSTANTS
  NUM_NULL = 12
  Links <- FullWidthLink
  MaxRequests = 1
INVARIANTS
  SleepIsShared
