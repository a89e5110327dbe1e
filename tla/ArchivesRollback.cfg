SPECIFICATION Spec
CONSTANTS
  N = 2
  Directories <- MCDirectories
  MaxVersion = 2
  MaxArchives = 2
  MaxClock = 1
  MaxFaults = 1
INVARIANTS
  FailedRestoreRollsBack
CHECK_DEADLOCK FALSE
