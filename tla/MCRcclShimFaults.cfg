SPECIFICATION Spec
CONSTANTS
  Configs <- FaultConfigs
  Counts = {0, 2, 8}
  SizeMax = 15
  MaxGroups = 3
  MaxCalls = 3
  MaxDepth = 2
  MayFail = TRUE
INVARIANT SuccessIsComplete
INVARIANT NothingLeaks
INVARIANT RoutedIsAccepted
INVARIANT GroupSum
INVARIANT NoUseAfterClose
CONSTRAINT FirstGroupAny
CHECK_DEADLOCK FALSE
