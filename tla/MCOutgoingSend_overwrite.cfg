SPECIFICATION Spec
CONSTANTS
  MaxGeneration = 2
  MaxServerAttempts = 2
  MaxCrashes = 0
  MaxAttempts = 2
  MaxCycles = 1
CHECK_DEADLOCK FALSE
PROPERTY OldNeverOverwrites
