SPECIFICATION FairSpec
CONSTANTS
  Settings <- MCSettings
  Blocks <- MCBlocks
  Length = 2
  MinBytes = 2
  MaxBytes = 3
  ShmMaxBytes = 4
  MaxFaults = 1
INVARIANT ResultsAreCollective
INVARIANT InputsKept
 
PROPERTY ConstructionEnds
 
CHECK_DEADLOCK FALSE
