------------------------------ MODULE MCTextOutput -----------------------------
(* Instances of TextOutput for TLC.                                        *)
EXTENDS TextOutput

MaxUnits == 4  \* bound: units of a path

\* Bytes that come together: the character is whole, without its last byte, or only
\* one of its bytes.
Units == {<<b>> : b \in Ascii \cup {Char[1], Char[4]}} \cup {SubSeq(Char, 1, 3), Char}

SomePaths == {FlattenSeq(units) : units \in SeqOf(Units, MaxUnits)}

\* What encode_bytes tells apart, with the digits of a continuation byte.
FewUnits == {<<b>> : b \in {"A", "9", "%", LF, Char[4]}} \cup {Char}

FewPaths == {FlattenSeq(units) : units \in SeqOf(FewUnits, MaxUnits)}

===============================================================================
