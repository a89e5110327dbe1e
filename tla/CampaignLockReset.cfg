SPECIFICATION Spec
CONSTANTS
  Procs = {p1, p2}
  MaxUpdates = 2
  MaxRemovals = 1
SYMMETRY Symmetry
INVARIANTS
  MutualExclusion
