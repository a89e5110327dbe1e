SPECIFICATION FairSpec
CONSTANTS
  Procs = {p1, p2, p3}
  MaxUpdates = 2
  MaxRemovals = 1
INVARIANTS
  TypeOK
  Exclusion
  NoLostUpdate
PROPERTIES
  WaitingEnds
