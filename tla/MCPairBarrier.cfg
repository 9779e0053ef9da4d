SPECIFICATION Spec
CONSTANTS
  MaxCalls = 4
  MayTimeout = TRUE
INVARIANT TypeOK
INVARIANT BarrierHolds
INVARIANT NotBothBlocked
INVARIANT LateWaiterSignalled
CHECK_DEADLOCK FALSE
