SPECIFICATION Spec
CONSTANTS
  Params = {p}
  Submissions <- MCOneSubmission
  MaxTrials = 2
  MaxPending = 2
  MaxAge = 1
  LeasesEnabled = FALSE
  Commands <- WorkerCommands
  MaxBatch = 2
  MaxSerial = 3
  MaxClock = 2
  MaxCrashes = 1
  MaxResets = 0
INVARIANTS
  TypeOK
  OneFatePerTrial
  AcknowledgedKept
  SuggestionKeepsItsTrial
  BudgetHeld
PROPERTIES
  StateIsLedger
  HeartbeatProtects
CHECK_DEADLOCK FALSE
