SPECIFICATION Spec
CONSTANTS
  MaxCalls = 3
  MayTimeout = TRUE
PROPERTY TimeoutMeansPeerAbsent
CHECK_DEADLOCK FALSE
