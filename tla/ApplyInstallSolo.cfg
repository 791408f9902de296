CONSTANTS
  Procs = {p1}
  Data <- MCData
  Contents <- MCContents
  Accepts <- MCAccepts
  Metas = {meta1, meta2}
  Inodes = {1, 2, 3, 4, 5, 6}
  FirstIno <- MCFirstIno
  Dirs = {d1, d2}
  None = None
  MaxEdits = 2
  MaxLosses = 1
SYMMETRY Interchangeable
SPECIFICATION Spec
INVARIANTS
  TypeOK
  CommitMatchesValidation
  ReplacementKeepsMetadata
  ReportIsTruthful
  SourceIsWhole
  LeftoverIsReported
  ControllerNeverRejects
  IInv
  UndisturbedProceeds
PROPERTY ImplementsGuardedReplace
CHECK_DEADLOCK FALSE
