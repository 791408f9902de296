CONSTANTS
  Sources <- MCSources
  Fillings <- MCFillings
  MaxSpan = 3
  MaxEdits = 2
SPECIFICATION Spec
INVARIANTS
  TypeOK
  AcceptedKeepsOutside
  RefusedForCause
  BlindOutputRefused
PROPERTY PreviewIsInstalled
CHECK_DEADLOCK FALSE
