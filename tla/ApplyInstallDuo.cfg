CONSTANTS
  Procs = {p1, p2}
  Data <- MCData
  Contents <- MCContents
  Accepts <- MCAccepts
  Metas = {meta1, meta2}
  Inodes = {1, 2, 3, 4, 5, 6, 7}
  FirstIno <- MCFirstIno
  Dirs = {d1, d2}
  None = None
  MaxEdits = 0
  MaxLosses = 2
SYMMETRY Interchangeable
SPECIFICATION Spec
INVARIANTS
  AppliedOnce
  JInv
CHECK_DEADLOCK FALSE
