CONSTANTS
  Paths <- SomePaths
  JjDiagnosticLimit = 8
  MaxNameBytes = 4
SPECIFICATION Spec
INVARIANTS
  ReversibleOutsideText
  DiagnosticsAreCutWhole
  ManifestReadsBack
CHECK_DEADLOCK FALSE
