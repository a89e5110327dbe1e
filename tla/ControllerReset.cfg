SPECIFICATION FairSpec
CONSTANTS
  Params = {p}
  Submissions <- MCSubmissions
  MaxTrials = 2
  MaxPending = 2
  MaxAge = 0
  LeasesEnabled = TRUE
  Commands <- ResetCommands
  MaxBatch = 2
  MaxSerial = 3
  MaxClock = 0
  MaxCrashes = 2
  MaxResets = 1
INVARIANTS
  FilesAgree
  NoForeignResult
  BestIsCurrent
PROPERTIES
  StateIsLedger
  
CHECK_DEADLOCK FALSE
