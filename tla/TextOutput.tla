------------------------------- MODULE TextOutput -------------------------------
(***************************************************************************)
(* The three ways in which bytes that the program does not choose leave it  *)
(* as text, over the same bytes: the name of a file on a line of output, in *)
(* the manifest, and in what jj writes to its standard error.               *)
(***************************************************************************)
EXTENDS PathOutput, JjDiagnostics, ManifestCodec

CONSTANT MaxNameBytes  \* bound: bytes of a name in a manifest

\* prepare.rs:601: the diagnostics of jj are cut between two characters or escapes,
\* whichever bytes they are made of and wherever the limits fall in them.
DiagnosticsAreCutWhole == index = 0 => CutBetweenPieces(path)

\* prepare.rs:1014, apply.rs:507: what one side of the codec writes the other side
\* reads, quotes, backslashes, control bytes and bytes that are no text included, and
\* what make_manifest counts and names passes the checks of the reader.
ManifestReadsBack == index = 0 /\ Len(path) \in 1..MaxNameBytes => ReadsBack(path)

===============================================================================
