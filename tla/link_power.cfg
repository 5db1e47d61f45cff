SPECIFICATION FairSpec
CONSTANTS
  NUM_NULL = 32
  Links <- ShippedLink
  MaxRequests = 1
INVARIANTS
  SleepIsShared
  WakeIsShared
PROPERTIES
  RetrainingEnds
  QuietAnswered
