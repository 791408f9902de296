----------------------------- MODULE JjDiagnostics ------------------------------
(***************************************************************************)
(* render_bounded_jj_stderr (prepare.rs): what `prepare` shows of the       *)
(* standard error of a jj that failed.                                      *)
(***************************************************************************)
EXTENDS ByteText, SequencesExt

CONSTANT JjDiagnosticLimit  \* JJ_DIAGNOSTIC_LIMIT, of the bytes kept and of the text

\* Three tokens for its fourteen bytes: longer than what a final line ending takes.
TruncatedMarker == <<"...", "[truncated", "]">>

ASSUME JjDiagnosticLimitAssumption ==
  JjDiagnosticLimit \in Nat /\ JjDiagnosticLimit > Len(TruncatedMarker)

\* Text as it is, a character at its first byte; an escape for any other byte.
Pieces(bytes) ==
  [i \in DOMAIN bytes |->
     IF ~WellPlaced(bytes, i) THEN Escape(bytes[i])
     ELSE CASE bytes[i] \in Ascii  -> <<bytes[i]>>
            [] bytes[i] = Char[1] -> Char
            [] OTHER              -> <<>>]

Rendered(bytes) == FlattenSeq(Pieces(bytes))

WithoutFinalEol(text) ==
  LET n == Len(text)
      eol == IF n > 1 /\ text[n - 1] = CR /\ text[n] = LF THEN 2
             ELSE IF n > 0 /\ text[n] \in {CR, LF} THEN 1 ELSE 0
  IN SubSeq(text, 1, n - eol)

\* String::is_char_boundary
IsCharBoundary(text, k) == k = Len(text) \/ text[k + 1] \notin Continuation

CharBoundary(text, k) == Max({j \in 0..k : IsCharBoundary(text, j)})

\* Mistake: only the escape whose "%" is the last byte is noticed.
EscapeBoundaryOfOne(text, k) == IF k > 0 /\ text[k] = "%" THEN k - 1 ELSE k

\* An escape that would be cut in two is dropped.
EscapeBoundary(text, k) ==
  IF k > 0 /\ text[k] = "%" THEN k - 1
  ELSE IF k > 1 /\ text[k - 1] = "%" THEN k - 2 ELSE k

Diagnostics(bytes, truncated) ==
  LET text == WithoutFinalEol(Rendered(bytes))
      room == JjDiagnosticLimit - Len(TruncatedMarker)
      most == IF Len(text) < room THEN Len(text) ELSE room
  IN IF ~truncated /\ Len(text) <= JjDiagnosticLimit THEN text
     ELSE SubSeq(text, 1, EscapeBoundary(text, CharBoundary(text, most))) \o TruncatedMarker

\* drain_bounded_pipe has kept the first bytes.
DiagnosticsOf(stderr) ==
  LET kept == IF Len(stderr) > JjDiagnosticLimit
              THEN SubSeq(stderr, 1, JjDiagnosticLimit) ELSE stderr
  IN Diagnostics(kept, Len(stderr) > JjDiagnosticLimit)

\* What is shown is all of the rendering, or a part of it from the beginning that
\* ends between two characters or escapes, where the limits on the bytes and on
\* the text are: never half a character, whole where the limit on the bytes has
\* split it, never half an escape, and no more than five bytes shorter than there
\* is room for.
CutBetweenPieces(stderr) ==
  LET shown == DiagnosticsOf(stderr)
      whole == Rendered(stderr)
      part  == SubSeq(shown, 1, Len(shown) - Len(TruncatedMarker))
  IN /\ Len(shown) <= JjDiagnosticLimit
     /\ IF shown # <<>> /\ Last(shown) = Last(TruncatedMarker)
        THEN /\ \E k \in 0..Len(stderr) : part = FlattenSeq(SubSeq(Pieces(stderr), 1, k))
             /\ Len(whole) > JjDiagnosticLimit
             /\ Len(part) >= JjDiagnosticLimit - Len(TruncatedMarker) - 5
        ELSE shown = WithoutFinalEol(whole)

===============================================================================
