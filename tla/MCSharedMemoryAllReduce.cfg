SPECIFICATION FairSpec
CONSTANTS
  Workloads <- OnePath
  MaxLen = 4
  EpochLimit = 4
  WordSize = 5
  MayTimeout = FALSE
  MayFail = FALSE
INVARIANT SlotExclusive
PROPERTY CallsComplete
PROPERTY Implements
CHECK_DEADLOCK FALSE
