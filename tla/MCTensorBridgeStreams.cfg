SPECIFICATION Spec
CONSTANTS
  Threads = {t1, t2}
  Streams = {s1, s2}
  MaxCalls = 2
  MayFail = FALSE
INVARIANT TransferDelivers
CHECK_DEADLOCK FALSE
