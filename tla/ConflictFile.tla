------------------------------ MODULE ConflictFile -------------------------------
(***************************************************************************)
(* What jcw as a whole promises about one conflicted file to a user who     *)
(* knows nothing of workspaces, terminals and temporary files: a version    *)
(* with a conflict gives way only to a resolution of that version, what a   *)
(* loss of power can bring back is one of the two, and once the user is     *)
(* told that the conflict is resolved it stays so, until another program    *)
(* writes the file.                                                        *)
(*                                                                         *)
(* The reservation of the README is a part of the promise, `raced`: other   *)
(* programs have written files of a replacement that is past its last       *)
(* check.  When they do so is theirs to choose, and not specified.          *)
(***************************************************************************)
CONSTANTS
  Versions,    \* contents that have a conflict
  Resolutions  \* for each of them, the contents that resolve it

Resolved == UNION {Resolutions[v] : v \in Versions}

VARIABLES
  source,   \* contents of the file
  kept,     \* the contents it may come back with after a loss of power
  trusted,  \* the user was told that the conflict is resolved
  raced

vars == <<source, kept, trusted>>

\* A version is replaced, and is itself what a loss of power brings back.
Resolve ==
  /\ source \in Versions /\ kept = {source}
  /\ source' \in Resolutions[source]
  /\ kept' = {source, source'}
  /\ UNCHANGED trusted

\* A resolution that was accepted for another version; never a conflict.
Overrun ==
  /\ raced
  /\ source' \in Resolved
  /\ kept' = kept \cup {source'}
  /\ UNCHANGED trusted

Sync == kept' = {source} /\ UNCHANGED <<source, trusted>>

\* Nothing that is there, or can come back, has a conflict.
Announce ==
  /\ (kept \cup {source}) \cap Versions = {}
  /\ trusted' = TRUE
  /\ UNCHANGED <<source, kept>>

\* Another program writes the file.
Write ==
  /\ source' \in Versions \cup Resolved
  /\ kept' = {source'}
  /\ trusted' = FALSE

PowerLoss ==
  /\ source' \in kept
  /\ kept' = {source'}
  /\ UNCHANGED trusted

Init == source \in Versions /\ kept = {source} /\ trusted = FALSE

Next == Resolve \/ Overrun \/ Sync \/ Announce \/ Write \/ PowerLoss

Spec == Init /\ [][Next]_vars

===============================================================================
