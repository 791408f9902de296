------------------------------ MODULE UnifiedDiff -------------------------------
(***************************************************************************)
(* render_unified_diff (core.rs): the plan of an `apply` as hunks of lines. *)
(* A byte sequence is a sequence of tokens, among them two line endings;    *)
(* how the bytes of a line are escaped for the terminal is left out.        *)
(***************************************************************************)
EXTENDS Integers, Sequences, SequencesExt, FiniteSets, FiniteSetsExt

LF   == "\n"
CRLF == "\r\n"
Eols == {LF, CRLF}

\* The bytes from a up to but not including b, counted from zero as in the code.
Slice(s, a, b) == SubSeq(s, a + 1, b)

\* The source with each hunk of the plan applied at its range.
Reconstructed(original, plan) ==
  LET from(k) == IF k = 0 THEN 0 ELSE plan[k].end IN
  FlattenSeq([k \in DOMAIN plan |->
                Slice(original, from(k - 1), plan[k].start) \o plan[k].replacement])
    \o Slice(original, from(Len(plan)), Len(original))

HasEol(line) == Last(line) \in Eols

\* One more byte: the line goes on unless it has ended.
WithByte(lines, b) ==
  IF lines = <<>> \/ HasEol(Last(lines)) THEN Append(lines, <<b>>)
  ELSE Append(Front(lines), Append(Last(lines), b))

\* diff_lines: a line ends with its line feed, or with the bytes.
DiffLines(s) ==
  LET lines[i \in 0..Len(s)] == IF i = 0 THEN <<>> ELSE WithByte(lines[i - 1], s[i])
  IN lines[Len(s)]

\* line_number_at
LineNumberAt(s, offset) == 1 + Cardinality({i \in DOMAIN s : i <= offset /\ s[i] \in Eols})

\* Mistake: the offset in the source is taken for the one in the resolved file.
ResolvedStartAsOriginal(plan, k) == plan[k].start

\* Where the replacement of a hunk stands in the resolved file: behind the
\* replacement before it, and the bytes of the source between the two.
ResolvedStart(plan, k) ==
  LET gap(j) == plan[j].start - (IF j = 1 THEN 0 ELSE plan[j - 1].end)
      cursor[j \in 0..(k - 1)] ==
        IF j = 0 THEN 0 ELSE cursor[j - 1] + gap(j) + Len(plan[j].replacement)
  IN cursor[k - 1] + gap(k)

\* "\ No newline at end of file" follows a line that has no line ending.
Diff(original, resolved, plan) ==
  [k \in DOMAIN plan |->
     [old_start |-> LineNumberAt(original, plan[k].start),
      old_lines |-> DiffLines(Slice(original, plan[k].start, plan[k].end)),
      new_start |-> LineNumberAt(resolved, ResolvedStart(plan, k)),
      new_lines |-> DiffLines(plan[k].replacement)]]

-------------------------------------------------------------------------------
(* How a reader, or patch(1), takes a diff: by line numbers, where a range  *)
(* without lines stands behind the line it names, which is 0 at the top.    *)

FirstLine(hunk) == IF hunk.old_lines = <<>> THEN hunk.old_start + 1 ELSE hunk.old_start
LastLine(hunk)  == FirstLine(hunk) + Len(hunk.old_lines) - 1

\* The lines that a hunk shows as old are where its range says.
Stands(file, hunk) ==
  LET lines == DiffLines(file) IN
  /\ LastLine(hunk) <= Len(lines)
  /\ SubSeq(lines, FirstLine(hunk), LastLine(hunk)) = hunk.old_lines

\* The old lines are all there, those of each hunk behind those of the one before it.
Fits(file, diff) ==
  \A k \in DOMAIN diff :
    /\ k > 1 => LastLine(diff[k - 1]) < FirstLine(diff[k])
    /\ Stands(file, diff[k])

\* A file with the new lines of each hunk in the place of its old ones.
Patched(file, diff) ==
  LET lines == DiffLines(file)
      from(k) == IF k = 0 THEN 1 ELSE LastLine(diff[k]) + 1
  IN FlattenSeq(
       FlattenSeq([k \in DOMAIN diff |->
                     SubSeq(lines, from(k - 1), FirstLine(diff[k]) - 1) \o diff[k].new_lines])
       \o SubSeq(lines, from(Len(diff)), Len(lines)))

Reversed(diff) ==
  [k \in DOMAIN diff |->
     [old_start |-> diff[k].new_start, old_lines |-> diff[k].new_lines,
      new_start |-> diff[k].old_start, new_lines |-> diff[k].old_lines]]

\* Every hunk keeps the final line ending where the lines it replaces have one.
KeepsFinalEols(diff) ==
  \A k \in DOMAIN diff :
    diff[k].new_lines # <<>> =>
      HasEol(Last(diff[k].new_lines)) \/ ~HasEol(Last(diff[k].old_lines))

\* Taken backwards, a diff of `before` makes it again of `after`.
TakesBack(before, after, diff) ==
  Fits(after, Reversed(diff)) /\ Patched(after, Reversed(diff)) = before

===============================================================================
