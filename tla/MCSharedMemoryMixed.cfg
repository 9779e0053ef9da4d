SPECIFICATION Spec
CONSTANTS
  Workloads <- AnyPath
  MaxLen = 3
  EpochLimit = 3
  WordSize = 4
  MayTimeout = FALSE
  MayFail = FALSE
INVARIANT SumOfSameCall
CHECK_DEADLOCK FALSE
