-------------------------- MODULE MCApplyValidation ---------------------------
(* Instances of ApplyValidation for TLC.                                   *)
EXTENDS ApplyValidation, TLC

Conflict(eol) == <<"<", LF, "term", LF, ">">> \o eol

\* A source from its outside segments and the line endings of its conflicts.
Layout(outside, eols) ==
  LET n == Len(eols)
      piece(i) == outside[i] \o Conflict(eols[i])
      before(i) == FlattenSeq([j \in 1..(i - 1) |-> piece(j)]) \o outside[i]
  IN [source |-> FlattenSeq([i \in 1..n |-> piece(i)]) \o outside[n + 1],
      regions |-> [i \in 1..n |->
                     [start |-> Len(before(i)),
                      end |-> Len(before(i)) + Len(Conflict(eols[i]))]]]

\* Without a conflict; one in the middle; one that ends the file, with and
\* without a line ending; two that share their separator's text with their
\* surroundings; two adjacent ones; three, with separators that begin like each
\* other and like the suffix.
MCSources ==
  {Layout(<<<<"x", LF>>>>, <<>>),
   Layout(<<<<"x", LF>>, <<"y", LF>>>>, <<<<LF>>>>),
   Layout(<<<<"x", LF>>, <<>>>>, <<<<>>>>),
   Layout(<<<<>>, <<"x", LF>>, <<"x", LF>>>>, <<<<LF>>, <<LF>>>>),
   Layout(<<<<"x", LF>>, <<LF>>, <<>>>>, <<<<LF>>, <<CRLF>>>>),
   Layout(<<<<>>, <<>>, <<"y", CRLF>>>>, <<<<LF>>, <<LF>>>>),
   Layout(<<<<>>, <<"x", LF>>, <<>>, <<LF>>>>, <<<<LF>>, <<LF>>, <<LF>>>>),
   Layout(<<<<>>, <<LF>>, <<LF, "x", LF>>, <<>>>>, <<<<LF>>, <<LF>>, <<LF>>>>),
   Layout(<<<<>>, <<"x", LF>>, <<LF>>, <<"x", LF>>>>, <<<<LF>>, <<LF>>, <<LF>>>>)}

\* Two conflicts with a blank line between them.
BlankBetween == {Layout(<<<<"x", LF>>, <<LF>>, <<"y", LF>>>>, <<<<LF>>, <<LF>>>>)}

\* One conflict between two lines.
OneConflict == {Layout(<<<<"x", LF>>, <<"y", LF>>>>, <<<<LF>>>>)}

\* Edits that bring no placeholder of their own.
FewFillings == {<<>>, <<"x", LF>>, <<LF>>}

MCFillings ==
  {<<>>, <<"x", LF>>, <<"x">>, <<LF>>, <<CRLF>>, <<"-", LF>>, <<"=", LF>>,
   <<Continuation>>, <<PlaceholderText[1], LF>>}

===============================================================================
