SPECIFICATION Spec
CONSTANTS
  N = 2
  Directories <- MCDirectories
  MaxVersion = 2
  MaxArchives = 2
  MaxClock = 1
  MaxFaults = 2
INVARIANTS
  TypeOK
  CopiesAreWhole
  RestoreIsWhole

  
CHECK_DEADLOCK FALSE
