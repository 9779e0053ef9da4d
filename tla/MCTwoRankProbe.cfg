SPECIFICATION Spec
CONSTANTS
  Names <- AllNames
  MaxFaults = 2
INVARIANTS PassedIsEarned SoundProbesPass  ImportedMemoryLives NobodyWaitsOnTheEnded InFlightIsHeld
PROPERTY MainReturns
CHECK_DEADLOCK FALSE
