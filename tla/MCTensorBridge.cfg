SPECIFICATION FairSpec
CONSTANTS
  Threads = {t1, t2, t3}
  Streams = {s1}
  MaxCalls = 1
  MayFail = TRUE
INVARIANT TypeOK
INVARIANT TransferDelivers
INVARIANT NoUseAfterClose
PROPERTY CallsReturn
CHECK_DEADLOCK FALSE
