SPECIFICATION FairSpec
CONSTANTS
  Calls = 3
  Streams = {s1, s2}
  MayFail = TRUE
  Later = 2
  OneStream = s1
INVARIANT TypeOK
INVARIANT SumOfSameCall
INVARIANT HeapExclusive
INVARIANT NoUseAfterClose
INVARIANT ConstructorAgrees
PROPERTY FenceMonotone
PROPERTY WorkloadCompletes
PROPERTY ConstructorReturns
PROPERTY Implements
CONSTRAINT Explored
CHECK_DEADLOCK FALSE
