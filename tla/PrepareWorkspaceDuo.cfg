CONSTANTS
  p1 = p1  p2 = p2  n1 = n1  n2 = n2  c1 = c1  c2 = c2
  Procs <- TwoProcs
  Names <- TwoNames
  Conflicts <- MCConflicts
  MaxAttempts = 2
  MaxEdits = 2
  MaxFaults = 1
  MaxStops = 0
SPECIFICATION Spec
INVARIANTS
  PreparedIsUsable
PROPERTY ImplementsAtomicPrepare
SYMMETRY Interchangeable
CHECK_DEADLOCK FALSE
