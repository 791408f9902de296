-------------------------- MODULE MCPrepareWorkspace ---------------------------
(* Instances of PrepareWorkspace for TLC.                                  *)
EXTENDS PrepareWorkspace, TLC

CONSTANTS p1, p2, n1, n2, c1, c2

MCConflicts == {c1, c2}
OneProc  == {p1}
TwoProcs == {p1, p2}
TwoNames == {n1, n2}

\* Invocations and names are only compared, never ordered or chosen.
Interchangeable == Permutations(TwoProcs) \cup Permutations(TwoNames)

===============================================================================
