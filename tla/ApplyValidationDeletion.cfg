CONSTANTS
  Sources <- OneConflict
  Fillings <- FewFillings
  MaxSpan = 2
  MaxEdits = 1
SPECIFICATION Spec
PROPERTY PreviewCanBeTakenBack
CHECK_DEADLOCK FALSE
