CONSTANTS
  MinMarkerWidth = 2
  Lines <- AnyLines
  Given <- MCGiven
  Rests <- AnyRests
  Interiors <- OtherInteriors
SPECIFICATION Spec
INVARIANTS
  TypeOK
  ParsedAsDeclared
  RefusedIsMalformed
  ScanFindsTheParsed
  RemapKeepsOutside
  RendersAreParsed
CHECK_DEADLOCK FALSE
