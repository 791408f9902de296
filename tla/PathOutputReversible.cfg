CONSTANTS
  Paths <- FewPaths
  JjDiagnosticLimit = 8
  MaxNameBytes = 4
SPECIFICATION Spec
INVARIANT Reversible
CHECK_DEADLOCK FALSE
