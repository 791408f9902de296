CONSTANTS
  Preparers = {"p1"}
  Appliers = {"a1"}
  Names = {"n1", "n2"}
  Versions <- MCVersions
  Resolutions <- MCResolutions
  MaxEdits = 1
  MaxLosses = 1
  MaxFaults = 1
SPECIFICATION Spec
INVARIANT SuccessStands
PROPERTIES ImplementsConflictFile EventuallyResolved
CHECK_DEADLOCK FALSE
