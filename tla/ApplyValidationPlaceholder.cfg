CONSTANTS
  Sources <- BlankBetween
  Fillings <- FewFillings
  MaxSpan = 2
  MaxEdits = 1
SPECIFICATION Spec
INVARIANT NoPlaceholderAccepted
CHECK_DEADLOCK FALSE
