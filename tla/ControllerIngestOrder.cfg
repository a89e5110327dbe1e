SPECIFICATION Spec
CONSTANTS
  Params = {p}
  Submissions <- MCSubmissions
  MaxTrials = 2
  MaxPending = 2
  MaxAge = 1
  LeasesEnabled = FALSE
  Commands <- EvaluationCommands
  MaxBatch = 2
  MaxSerial = 3
  MaxClock = 1
  MaxCrashes = 1
  MaxResets = 0
INVARIANTS
  IngestManifestFollowsState
CHECK_DEADLOCK FALSE
