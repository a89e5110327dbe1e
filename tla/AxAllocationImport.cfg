SPECIFICATION Spec
CONSTANTS
  MaxSnapshots = 2
  MaxBatch = 2
  MaxImports = 1
  MaxResets = 1
  MaxCrashes = 2
INVARIANTS
  UncommittedIsDiscarded
CHECK_DEADLOCK FALSE
