SPECIFICATION Spec
CONSTANTS
  Workloads <- HostThenStream
  MaxLen = 3
  EpochLimit = 2
  WordSize = 3
  MayTimeout = TRUE
  MayFail = TRUE
INVARIANT TypeOK
INVARIANT SumOfSameCall
CHECK_DEADLOCK FALSE
