---------------------------- MODULE MCApplyInstall ----------------------------
(* Instances of ApplyInstall for TLC: one prepared workspace.              *)
EXTENDS ApplyInstall, TLC

\* The manifest, the source it was made from, two resolutions, one artifact, a
\* manifest without regions for a source that is its own resolution, and
\* contents that nothing was prepared from.
MCData == {Empty, Torn, "m", "m0", "s", "r", "r2", "a", "junk"}

MCContents == [manifest |-> {"m", "m0"}, source |-> {"s", "r", "junk"},
               resolved |-> {"r", "r2"}, artifact |-> {"a", "junk"}]

MCAccepts ==
  {[manifest |-> "m", source |-> "s", resolved |-> r, artifact |-> "a"] :
     r \in {"r", "r2"}}
  \cup {[manifest |-> "m0", source |-> "r", resolved |-> "r", artifact |-> "a"]}

MCFirstIno == [manifest |-> 1, source |-> 2, resolved |-> 3, artifact |-> 4]

Interchangeable == Permutations(Metas) \cup Permutations(Dirs)
===============================================================================
