CONSTANTS
  Outputs <- UpToFive
  Capacity = 2
  Limit = 1
  MaxFaults = 1
SPECIFICATION Spec
INVARIANTS
  TypeOK
  OkIsWhole
  SuccessIsReported
  DiagnosticsAreComplete
PROPERTY Returns
CHECK_DEADLOCK FALSE
