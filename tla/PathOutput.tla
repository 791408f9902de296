------------------------------- MODULE PathOutput -------------------------------
(***************************************************************************)
(* encode_bytes (path_output.rs): the loop that renders the bytes of a path *)
(* for one line of output.                                                  *)
(***************************************************************************)
EXTENDS ByteText, SequencesExt

CONSTANT Paths  \* the paths that are rendered

ASSUME PathOutputAssumption == Paths \subseteq Seq(Bytes)

VARIABLES path, index, output

vars == <<path, index, output>>

\* Mistake: "%" is printable.
LiteralPercent(b) == b \in Printable \cup {"%"}

Literal(b) == b \in Printable

\* What one iteration of the loop appends for the bytes that remain, and how
\* many of them it takes: text is taken whole, up to the first invalid byte.
Piece(rest) ==
  LET valid == ValidUpTo(rest) IN
  IF rest[1] \notin Ascii /\ valid > 0 THEN <<SubSeq(rest, 1, valid), valid>>
  ELSE <<IF Literal(rest[1]) THEN <<rest[1]>> ELSE Escape(rest[1]), 1>>

Init ==
  /\ path \in Paths
  /\ index = 0
  /\ output = <<>>

Encode ==
  /\ index < Len(path)
  /\ LET piece == Piece(SubSeq(path, index + 1, Len(path))) IN
     output' = output \o piece[1] /\ index' = index + piece[2]
  /\ UNCHANGED path

Spec == Init /\ [][Encode]_vars

-------------------------------------------------------------------------------
\* What a decoder of %HH reads.
Decoded(s) ==
  LET at[i \in 1..(Len(s) + 1)] ==
        IF i > Len(s) THEN <<>>
        ELSE LET escaped == {b \in Bytes \ Printable :
                               i + 2 <= Len(s) /\ SubSeq(s, i, i + 2) = Escape(b)}
             IN IF escaped # {} THEN <<CHOOSE b \in escaped : TRUE>> \o at[i + 3]
                ELSE <<s[i]>> \o at[i + 1]
  IN at[1]

Done == index = Len(path)

\* The bytes that are taken as text: each follows a character that is not ASCII,
\* with no invalid byte between them.
TakenAsText(i) ==
  \E j \in 1..i : path[j] \notin Ascii /\ IsUtf8(SubSeq(path, j, i))

\* Where no "%" and no control byte is taken as text, what was written so far
\* decodes to what was read so far, whatever invalid bytes stand in between,
\* and it is one line.
ReversibleOutsideText ==
  (\A i \in 1..index : path[i] \in {"%"} \cup Controls => ~TakenAsText(i)) =>
    /\ Decoded(output) = SubSeq(path, 1, index)
    /\ \A c \in Controls : ~Contains(output, c)

\* path_output.rs:1, README: the encoding of a path is reversible.
Reversible == Done => Decoded(output) = path

===============================================================================
