--------------------------- MODULE MCSnapshotGrammar ---------------------------
(* Instances of SnapshotGrammar for TLC: markers are two characters wide at  *)
(* least, runs up to four.                                                   *)
EXTENDS SnapshotGrammar, TLC

Text(rest, eol)    == Line("text", 0, rest, eol)
Marker(kind, w)    == Line(kind, w, "", LF)
Labelled(kind, w, label) == Line(kind, w, label, LF)


(***************************************************************************)
(* Any document: lines of each kind, shorter than a marker, as wide as the *)
(* narrowest one, and wider.                                               *)
(***************************************************************************)
AnyLines ==
  {Text("x", LF), Text("", NoEol),
   Marker("<", 1), Marker("<", 2), Marker("<", 3),
   Marker(">", 1), Marker(">", 2), Marker(">", 3),
   Line(">", 2, "", NoEol),
   Marker("+", 2), Marker("+", 3), Marker("-", 1), Marker("-", 2),
   Labelled("+", 2, NotUtf8),
   Marker("%", 1), Marker("=", 2), Marker("|", 3)}

\* Beginnings, all but the first with a conflict, read or being read.
Beginning(ls, n) == [lines |-> ls, more |-> n, conflicts |-> <<>>]

Beginnings ==
  {Beginning(<<>>, 5),
   Beginning(<<Marker("<", 2), Marker("+", 2), Marker("-", 2)>>, 4),
   Beginning(<<Text("x", LF), Marker("<", 3), Marker("+", 3), Text("x", LF)>>, 4),
   Beginning(<<Marker("<", 2), Marker("+", 2), Marker("-", 2), Marker(">", 2)>>, 4),
   Beginning(<<Marker("<", 3), Marker("+", 3), Marker("-", 3), Marker(">", 3),
               Marker("<", 3), Marker("+", 3)>>, 3)}

AnyRests ==
  {<<>>, <<Marker(">", 2)>>, <<Marker(">", 3)>>,
   <<Marker("+", 2), Marker("-", 2), Marker(">", 2)>>,
   <<Marker("-", 2), Marker(">", 2)>>,
   <<Text("x", LF), Marker("+", 3), Marker(">", 3)>>}

\* What the diff and Git styles put between the outer markers, with a run of >
\* shorter than them.
OtherInteriors ==
  {<<Marker("%", 2), Text("x", LF), Marker("+", 2), Text("x", LF)>>,
   <<Marker("|", 2), Marker("=", 2)>>,
   <<Marker("-", 3), Marker(">", 2), Marker("<", 2), Marker("+", 3)>>}

(***************************************************************************)
(* What jj renders: text, then conflicts of three terms with text between  *)
(* them.  The markers are wider than any run in a term; when a term of the *)
(* last conflict has no final line ending, every term of it is given a     *)
(* separator and its closing line has no line ending.                      *)
(***************************************************************************)
TermLines(eol) ==
  {<<>>, <<Text("a", eol)>>, <<Text("", eol)>>, <<Line("<", 2, "b", eol)>>,
   <<Line(">", 1, "", eol), Text("a", eol)>>, <<Line("=", 2, "", eol)>>}

Widest(terms) ==
  Max({MinMarkerWidth} \cup
      {l.width + 1 : l \in UNION {Range(terms[k]) : k \in DOMAIN terms}})

Kinds == <<"side", "base", "side">>
Header_(k, w, eol) == Line(IF Kinds[k] = "base" THEN "-" ELSE "+", w, "side", eol)

\* The conflict of three terms; `open` when the last line ending is missing.
Rendered(terms, w, eol, open) ==
  <<Line("<", w, "1", eol)>>
    \o FlattenSeq([k \in DOMAIN terms |-> <<Header_(k, w, eol)>> \o terms[k]])
    \o <<Line(">", w, "1", IF open THEN NoEol ELSE eol)>>

Read(terms, open) ==
  [k \in DOMAIN terms |->
     [kind |-> Kinds[k], label |-> "side", synthetic |-> open,
      bytes |-> Bytes(IF open THEN Unended(terms[k]) ELSE terms[k])]]

Triples(eol) == [1..3 -> TermLines(eol)]

Render(ls, cs) == [lines |-> ls, more |-> 0, conflicts |-> cs]

MCRenders ==
  {Render(Rendered(ts, Widest(ts), eol, open), <<Read(ts, open)>>) :
     <<ts, eol, open>> \in (Triples(LF) \X {LF} \X BOOLEAN)
                             \cup (Triples(CRLF) \X {CRLF} \X BOOLEAN)}
  \cup
  {Render(<<Text("x", LF)>> \o Rendered(ts, 3, LF, FALSE) \o <<Text("", LF)>>
            \o Rendered(ts, 3, LF, TRUE),
          <<Read(ts, FALSE), Read(ts, TRUE)>>) : ts \in Triples(LF)}

MCGiven == Beginnings \cup MCRenders

===============================================================================
