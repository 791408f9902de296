CONSTANTS
  p1 = p1  p2 = p2  n1 = n1  n2 = n2  c1 = c1  c2 = c2
  Procs <- OneProc
  Names <- TwoNames
  Conflicts = {c1}
  MaxAttempts = 2
  MaxEdits = 0
  MaxFaults = 2
  MaxStops = 2
SPECIFICATION Spec
INVARIANTS
  TypeOK
  UsableHasTheCanvas
  FailureLeavesNothing
PROPERTY ImplementsAtomicPrepare
CHECK_DEADLOCK FALSE
