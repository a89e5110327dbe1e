SPECIFICATION FairSpec
CONSTANTS
  MaxSnapshots = 2
  MaxBatch = 2
  MaxImports = 1
  MaxResets = 1
  MaxCrashes = 2
INVARIANTS
  TypeOK
  PublicationHolds
PROPERTIES
  NeverResurrected
  
CHECK_DEADLOCK FALSE
