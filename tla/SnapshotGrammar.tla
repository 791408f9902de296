---------------------------- MODULE SnapshotGrammar ----------------------------
(***************************************************************************)
(* parse_snapshot (core.rs), line by line, and remap_regions_to_source,    *)
(* which finds the parsed conflicts again in a working copy that may use   *)
(* another style of conflict markers.                                      *)
(*                                                                         *)
(* A line is the run of marker characters it starts with, what follows the *)
(* run, and its line ending; a text line starts with no marker character.  *)
(***************************************************************************)
EXTENDS Integers, Sequences, SequencesExt, FiniteSets, FiniteSetsExt

CONSTANTS
  MinMarkerWidth,  \* MIN_MARKER_WIDTH
  Lines,           \* the lines that may come next
  Given,           \* [lines, more, conflicts]: a beginning of the input that is
                   \* chosen in advance, a bound on the lines that may follow it,
                   \* and the conflicts that jj renders as it, or <<>>
  Rests,           \* ways a refused input may go on
  Interiors        \* what another style may put between the outer markers

NoEol == ""
LF    == "\n"
CRLF  == "\r\n"

\* A label whose bytes are not UTF-8.
NotUtf8 == "?"

OtherStyles == {"%", "\\", "|", "="}
Markers == {"<", ">", "+", "-"} \cup OtherStyles

Line(kind, width, rest, eol) ==
  [kind |-> kind, width |-> width, rest |-> rest, eol |-> eol]

ASSUME GrammarAssumption ==
  /\ MinMarkerWidth \in Nat \ {0}
  /\ \A l \in Lines \cup (UNION {Range(g.lines) : g \in Given})
                 \cup (UNION {Range(interior) : interior \in Interiors}) :
       /\ l = Line(l.kind, l.width, l.rest, l.eol)
       /\ l.kind \in Markers \cup {"text"}
       /\ l.width \in Nat /\ (l.width = 0 <=> l.kind = "text")
       /\ l.eol \in {NoEol, LF, CRLF}
  /\ \A g \in Given : g.lines \in Seq(Range(g.lines)) /\ g.more \in Nat
  /\ \A ls \in Rests \cup Interiors : ls \in Seq(Range(ls))

VARIABLES
  given,     \* the beginning of the input
  input,     \* the lines read so far
  ahead,     \* the given lines that come next
  more,      \* how many lines may come after them
  width,     \* the width of the markers, 0 before the first
  at,        \* "outside", "opened" (a section must follow) or "inside" a conflict
  sections,  \* the sections of the conflict being read
  regions,   \* the conflicts read
  outcome

vars == <<given, input, ahead, more, width, at, sections, regions, outcome>>

\* marker_run: the width of the run of a marker that a line starts with.
Run(l, marker) == IF l.kind = marker THEN l.width ELSE 0

-------------------------------------------------------------------------------
(* build_term                                                              *)

\* The bytes of some lines: what they hold and their line endings.
Bytes(ls) ==
  FlattenSeq([i \in DOMAIN ls |->
    (IF ls[i].kind = "text" /\ ls[i].rest = "" THEN <<>>
     ELSE <<<<ls[i].kind, ls[i].width, ls[i].rest>>>>)
      \o (IF ls[i].eol = NoEol THEN <<>> ELSE <<ls[i].eol>>)])

\* Mistake: the separator of a section is taken for its own line ending.
LogicalWithSeparator(payload, synthetic) == Bytes(payload)

\* The lines without the line ending of the last one.
Unended(ls) ==
  IF ls = <<>> THEN <<>> ELSE Append(Front(ls), [Last(ls) EXCEPT !.eol = NoEol])

\* The bytes of a term: without one line ending when jj had to add one.
Logical(payload, synthetic) == Bytes(IF synthetic THEN Unended(payload) ELSE payload)

Term(section, end, synthetic) ==
  [kind |-> section.kind, label |-> section.label, synthetic |-> synthetic,
   bytes |-> Logical(SubSeq(input, section.header + 1, end - 1), synthetic)]

-------------------------------------------------------------------------------
(* parse_snapshot, parse_region                                            *)

Init ==
  /\ input = <<>>
  /\ given \in Given
  /\ ahead = given.lines
  /\ more = given.more
  /\ width = 0
  /\ at = "outside"
  /\ sections = <<>>
  /\ regions = <<>>
  /\ outcome = "reading"

\* The next line; only the last one may have no line ending.
Reads(l) ==
  /\ outcome = "reading"
  /\ input # <<>> => Last(input).eol # NoEol
  /\ \/ /\ ahead # <<>> /\ l = Head(ahead)
        /\ ahead' = Tail(ahead)
        /\ UNCHANGED more
     \/ /\ ahead = <<>> /\ more > 0 /\ l \in Lines
        /\ more' = more - 1
        /\ UNCHANGED ahead
  /\ input' = Append(input, l)
  /\ UNCHANGED given

Here == Len(input) + 1

Section(l) ==
  [kind |-> IF l.kind = "+" THEN "side" ELSE "base", label |-> l.rest, header |-> Here]

\* The line after the opening marker must be the header of a side.
OtherStyle(l) == at # "outside" /\ l.kind \in OtherStyles /\ l.width >= width
SideFirst(l)  == at = "opened" /\ Run(l, "+") = width
Header(l)     == at = "inside" /\ l.kind \in {"+", "-"} /\ l.width = width

\* Mistake: any closing marker of at least the width closes.
ClosingAtLeast(l) == at = "inside" /\ Run(l, ">") >= width

Closing(l) == at = "inside" /\ Run(l, ">") = width

\* Mistake: a run of < that could be a marker elsewhere is not allowed in a term.
MalformedShortRun(l) ==
  \/ at = "opened" /\ ~SideFirst(l)
  \/ at = "inside" /\ \/ Run(l, "<") >= MinMarkerWidth
                      \/ l.kind \in {">", "+", "-"} /\ l.width > width

\* A line inside a conflict that no rule allows there.
Malformed(l) ==
  \/ at = "opened" /\ ~SideFirst(l)
  \/ at = "inside" /\ \/ Run(l, "<") >= width
                      \/ l.kind \in {">", "+", "-"} /\ l.width > width

\* Mistake: the opening is counted as a section.
EnoughWithOpening == Len(sections) >= 2

\* The opening, and two sections.
Enough == Len(sections) >= 3

Refuse(l, why) ==
  /\ Reads(l)
  /\ outcome' = why
  /\ UNCHANGED <<width, at, sections, regions>>

\* Text outside the conflicts, where a short run of < is text too.
ReadOutside(l) ==
  /\ at = "outside"
  /\ Run(l, "<") < MinMarkerWidth
  /\ Reads(l)
  /\ UNCHANGED <<width, at, sections, regions, outcome>>

OpenRegion(l) ==
  /\ at = "outside"
  /\ Run(l, "<") >= MinMarkerWidth
  /\ width \in {0, l.width}
  /\ Reads(l)
  /\ width' = l.width
  /\ at' = "opened"
  /\ sections' = <<[kind |-> "opening", label |-> l.rest, header |-> Here]>>
  /\ UNCHANGED <<regions, outcome>>

OpenWithOtherWidth(l) ==
  /\ at = "outside"
  /\ Run(l, "<") >= MinMarkerWidth
  /\ width \notin {0, l.width}
  /\ Refuse(l, "invalid")

StartSection(l) ==
  /\ SideFirst(l) \/ Header(l)
  /\ Reads(l)
  /\ at' = "inside"
  /\ sections' = Append(sections, Section(l))
  /\ UNCHANGED <<width, regions, outcome>>

ReadPayload(l) ==
  /\ at = "inside"
  /\ ~OtherStyle(l) /\ ~Header(l) /\ ~Closing(l) /\ ~Malformed(l)
  /\ Reads(l)
  /\ UNCHANGED <<width, at, sections, regions, outcome>>

\* Two sections at least, and every label is UTF-8.
CloseRegion(l) ==
  LET headers == Tail(sections)
      end(k) == IF k = Len(headers) THEN Here ELSE headers[k + 1].header
  IN
  /\ Closing(l)
  /\ Enough
  /\ \A k \in DOMAIN headers : headers[k].label # NotUtf8
  /\ Reads(l)
  /\ at' = "outside"
  /\ sections' = <<>>
  /\ regions' = Append(regions,
       [first |-> Head(sections).header, last |-> Here,
        terms |-> [k \in DOMAIN headers |-> Term(headers[k], end(k), l.eol = NoEol)]])
  /\ UNCHANGED <<width, outcome>>

CloseTooSoon(l) ==
  /\ Closing(l)
  /\ ~Enough \/ \E k \in 2..Len(sections) : sections[k].label = NotUtf8
  /\ Refuse(l, "invalid")

RefuseStyle(l) == OtherStyle(l) /\ Refuse(l, "unsupported-style")

RefuseLine(l) == ~OtherStyle(l) /\ Malformed(l) /\ Refuse(l, "invalid")

\* ParsedDocument::validate, ConflictRegion::validate
ValidDocument ==
  \A k \in DOMAIN regions :
    /\ regions[k].first <= regions[k].last /\ regions[k].last <= Len(input)
    /\ k > 1 => regions[k - 1].last < regions[k].first
    /\ regions[k].terms # <<>>

EndOfInput ==
  /\ outcome = "reading"
  /\ ahead = <<>>
  /\ outcome' = IF at # "outside" THEN "unterminated"
                ELSE IF width = 0 THEN "no-conflict"
                ELSE IF ValidDocument THEN "parsed" ELSE "invalid"
  /\ UNCHANGED <<given, input, ahead, more, width, at, sections, regions>>

Next ==
  \/ \E l \in Lines \cup Range(ahead) :
       \/ ReadOutside(l) \/ OpenRegion(l) \/ OpenWithOtherWidth(l)
       \/ StartSection(l) \/ ReadPayload(l) \/ CloseRegion(l) \/ CloseTooSoon(l)
       \/ RefuseStyle(l) \/ RefuseLine(l)
  \/ EndOfInput

Spec == Init /\ [][Next]_vars

-------------------------------------------------------------------------------
(* scan_conflict_regions, remap_regions_to_source                          *)

\* Mistake: inside a conflict, any run of > that could be a marker closes it.
ScanLineShortCloser(source, w, scan, i) ==
  IF scan.opening # 0 /\ Run(source[i], ">") >= MinMarkerWidth
  THEN [scan EXCEPT !.opening = 0,
                    !.ranges = Append(@, [first |-> scan.opening, last |-> i])]
  ELSE IF scan.opening = 0 /\ Run(source[i], "<") = w
  THEN [scan EXCEPT !.opening = i] ELSE scan

\* One more line: the outer markers only, whatever the style of the sections.
ScanLine(source, w, scan, i) ==
  LET open == Run(source[i], "<")
      close == Run(source[i], ">")
  IN IF scan.failed THEN scan
     ELSE IF scan.opening = 0
     THEN IF open < MinMarkerWidth THEN scan
          ELSE IF open # w THEN [scan EXCEPT !.failed = TRUE]
          ELSE [scan EXCEPT !.opening = i]
     ELSE IF close > w \/ open >= w THEN [scan EXCEPT !.failed = TRUE]
     ELSE IF close = w
     THEN [scan EXCEPT !.opening = 0,
                       !.ranges = Append(@, [first |-> scan.opening, last |-> i])]
     ELSE scan

Scan(source, w) ==
  LET scans[i \in 0..Len(source)] ==
        IF i = 0 THEN [opening |-> 0, ranges |-> <<>>, failed |-> FALSE]
        ELSE ScanLine(source, w, scans[i - 1], i)
  IN scans[Len(source)]

\* The ranges of the parsed conflicts in the working copy, <<>> when it shows
\* other conflicts.
Remap(source) ==
  LET scan == Scan(source, width)
      sameLabels(k) ==
        /\ source[scan.ranges[k].first].rest = input[regions[k].first].rest
        /\ source[scan.ranges[k].last].rest = input[regions[k].last].rest
  IN IF /\ ~scan.failed /\ scan.opening = 0
        /\ Len(scan.ranges) = Len(regions)
        /\ \A k \in DOMAIN regions : sameLabels(k)
     THEN scan.ranges ELSE <<>>

-------------------------------------------------------------------------------
(* Properties.                                                             *)

\* Every variable has its type; the conflicts are ordered and do not overlap, and
\* each has two terms at least.
TypeOK ==
  /\ more \in 0..given.more
  /\ at \in {"outside", "opened", "inside"}
  /\ outcome \in {"reading", "parsed", "no-conflict", "unterminated", "invalid",
                  "unsupported-style"}
  /\ width = 0 \/ width >= MinMarkerWidth
  /\ at = "outside" <=> sections = <<>>
  /\ ValidDocument
  /\ \A k \in DOMAIN regions :
       regions[k].first < regions[k].last /\ Len(regions[k].terms) >= 2

(***************************************************************************)
(* The grammar, said once for a whole document instead of line by line.    *)
(***************************************************************************)
Openings(doc) == {i \in DOMAIN doc : Run(doc[i], "<") >= MinMarkerWidth}

WidthOf(doc) == doc[Min(Openings(doc))].width

Closings(doc, i, w) == {j \in DOMAIN doc : j > i /\ Run(doc[j], ">") >= w}

Headers(doc, i, j, w) ==
  {h \in (i + 1)..(j - 1) : doc[h].kind \in {"+", "-"} /\ doc[h].width >= w}

\* From line i to line j a conflict: a side first, then sections of the same
\* width, and nothing else that is as wide as a marker.
IsConflict(doc, i, j, w) ==
  LET headers == Headers(doc, i, j, w) IN
  /\ Run(doc[i], "<") = w /\ Run(doc[j], ">") = w
  /\ i + 1 \in headers /\ doc[i + 1].kind = "+"
  /\ Cardinality(headers) >= 2
  /\ \A h \in headers : doc[h].width = w /\ doc[h].rest # NotUtf8
  /\ \A k \in (i + 1)..(j - 1) : doc[k].kind \in Markers /\ doc[k].width >= w => k \in headers

\* The conflicts of a document: in order and disjoint, and every opening marker
\* is one's own or stands in one.
AreConflicts(doc, w, ranges) ==
  /\ ranges \in Seq([first : DOMAIN doc, last : DOMAIN doc])
  /\ \A k \in DOMAIN ranges :
       /\ ranges[k].first < ranges[k].last
       /\ \A j \in 1..(k - 1) : ranges[j].last < ranges[k].first
       /\ IsConflict(doc, ranges[k].first, ranges[k].last, w)
  /\ \A i \in Openings(doc) : \E k \in DOMAIN ranges : i \in ranges[k].first..ranges[k].last

\* The only lines they can be: each opening outside an earlier conflict has the
\* first closing marker after it.
Candidates(doc, w) ==
  LET next(from) == {i \in Openings(doc) : i > from}
      found[from \in 0..Len(doc)] ==
        IF next(from) = {} THEN <<>>
        ELSE LET i == Min(next(from))
                 ends == Closings(doc, i, w)
             IN IF ends = {} THEN <<[first |-> i, last |-> 0]>>
                ELSE <<[first |-> i, last |-> Min(ends)]>> \o found[Min(ends)]
  IN found[0]

WellFormed(doc) ==
  /\ Openings(doc) # {}
  /\ AreConflicts(doc, WidthOf(doc), Candidates(doc, WidthOf(doc)))

\* What the conflict on lines i to j declares: one term for each header, in their
\* order, with the bytes up to the next header or the closing marker.
Declares(doc, i, j, w, terms) ==
  LET headers    == Headers(doc, i, j, w)
      ordinal(h) == Cardinality({g \in headers : g <= h})
      next(h)    == Min({e \in headers \cup {j} : e > h})
      payload(h) == SubSeq(doc, h + 1, next(h) - 1)
      synthetic  == doc[j].eol = NoEol
  IN /\ Len(terms) = Cardinality(headers)
     /\ \A h \in headers :
          terms[ordinal(h)] =
            [kind |-> IF doc[h].kind = "+" THEN "side" ELSE "base",
             label |-> doc[h].rest, synthetic |-> synthetic,
             bytes |-> Bytes(IF synthetic THEN Unended(payload(h)) ELSE payload(h))]

\* The conflicts that a document of the grammar declares.
DeclaresAll(doc, conflicts) ==
  LET w      == WidthOf(doc)
      ranges == Candidates(doc, w)
  IN /\ WellFormed(doc)
     /\ Len(conflicts) = Len(ranges)
     /\ \A k \in DOMAIN ranges :
          Declares(doc, ranges[k].first, ranges[k].last, w, conflicts[k])

\* What jj renders is all of the input, and is a document of the grammar.
ASSUME RendersAssumption ==
  \A g \in Given : g.conflicts # <<>> =>
    /\ g.more = 0
    /\ DeclaresAll(g.lines, g.conflicts)
    /\ g.conflicts \in Seq(Range(g.conflicts))
    /\ \A terms \in Range(g.conflicts) : terms \in Seq(Range(terms))

Ranges == [k \in DOMAIN regions |-> [first |-> regions[k].first, last |-> regions[k].last]]

\* The line-by-line parser accepts only documents of the grammar and reads from
\* them what they declare: nothing of a conflict is lost, shared by two terms, or
\* taken from outside it.
ParsedAsDeclared ==
  /\ outcome = "no-conflict" => Openings(input) = {}
  /\ outcome = "parsed" =>
       LET w == WidthOf(input) IN
       /\ Openings(input) # {} /\ AreConflicts(input, w, Ranges)
       /\ \A k \in DOMAIN regions :
            Declares(input, regions[k].first, regions[k].last, w, regions[k].terms)

\* No document of the grammar is refused: a refusal at some line is final, no
\* lines after it could make a document of the grammar of what was read.
RefusedIsMalformed ==
  /\ outcome = "unterminated" => ~WellFormed(input)
  /\ outcome \in {"invalid", "unsupported-style"} =>
       \A rest \in Rests : ~WellFormed(input \o rest)

\* A working copy in the snapshot style itself: the scan for the outer markers
\* finds the conflicts the parser found.
ScanFindsTheParsed ==
  outcome = "parsed" =>
    Remap(input) = Ranges

\* The lines that are in none of the ranges.
Outside(doc, ranges) ==
  LET inside(i) == \E k \in DOMAIN ranges : i \in ranges[k].first..ranges[k].last
      kept[i \in 0..Len(doc)] ==
        IF i = 0 THEN <<>>
        ELSE IF inside(i) THEN kept[i - 1] ELSE Append(kept[i - 1], doc[i])
  IN kept[Len(doc)]

\* The input with other lines between the outer markers of every conflict.
Restyled(interior) ==
  LET from(k) == IF k = 0 THEN 0 ELSE regions[k].last
      n == Len(regions)
  IN FlattenSeq([k \in 1..n |->
        SubSeq(input, from(k - 1) + 1, regions[k].first)
          \o interior \o <<input[regions[k].last]>>])
       \o SubSeq(input, from(n) + 1, Len(input))

\* core.rs:597-603: a working copy of the same conflicts in any other style is
\* recognised, and the ranges found in it leave the same text outside.
RemapKeepsOutside ==
  outcome = "parsed" =>
    \A interior \in Interiors :
      LET source == Restyled(interior) IN
      (\A i \in DOMAIN interior : Run(interior[i], "<") < width /\ Run(interior[i], ">") < width)
      => /\ Remap(source) # <<>>
         /\ Outside(source, Remap(source)) = Outside(input, regions)

\* docs/implementation-tasks/02-snapshot-core.md: the parser preserves every
\* declared term's bytes, ordinal, kind, label and separator fact of what jj
\* renders, final newline or not, and refuses none of it.
RendersAreParsed ==
  outcome # "reading" /\ given.conflicts # <<>> =>
    /\ outcome = "parsed"
    /\ given.conflicts = [k \in DOMAIN regions |-> regions[k].terms]

-------------------------------------------------------------------------------
(* The inductive invariant of the proofs.                                  *)

Alphabet == Lines \cup UNION {Range(g.lines) : g \in Given}

RegionStart == sections[1].header

HeaderLines == {sections[k].header : k \in 2..Len(sections)}

SequencesInv ==
  /\ given \in Given /\ ahead \in Seq(Alphabet) /\ input \in Seq(Alphabet)
  /\ width \in Nat
  /\ sections \in Seq(Range(sections))
  /\ \A k \in DOMAIN sections : sections[k].header \in DOMAIN input
  /\ regions \in Seq(Range(regions))
  /\ \A k \in DOMAIN regions : {regions[k].first, regions[k].last} \subseteq DOMAIN input

\* All markers are as wide as the first opening.
WidthInv ==
  IF width = 0 THEN at = "outside" /\ regions = <<>> /\ Openings(input) = {}
  ELSE \E i \in Openings(input) :
         input[i].width = width /\ \A j \in Openings(input) : i <= j

\* What has been read of conflicts is what they declare.
RegionsInv ==
  \A k \in DOMAIN regions :
    LET r == regions[k] IN
    /\ IsConflict(input, r.first, r.last, width)
    /\ Declares(input, r.first, r.last, width, r.terms)
    /\ \A j \in 1..(k - 1) : regions[j].last < r.first
    /\ at # "outside" => r.last < RegionStart

\* No opening marker outside them has been passed over.
CoveredInv ==
  \A i \in Openings(input) :
    \/ \E k \in DOMAIN regions : i \in regions[k].first..regions[k].last
    \/ at # "outside" /\ RegionStart <= i

\* The sections of the conflict that is being read are all its lines that are as
\* wide as a marker.
SectionsInv ==
  at # "outside" =>
    /\ Run(input[RegionStart], "<") = width
    /\ at = "opened" => Len(sections) = 1 /\ RegionStart = Len(input)
    /\ at = "inside" =>
         /\ Len(sections) >= 2 /\ sections[2].header = RegionStart + 1
         /\ input[RegionStart + 1].kind = "+"
    /\ \A k \in 2..Len(sections) :
         LET h == sections[k].header IN
         /\ \A j \in 1..(k - 1) : sections[j].header < h
         /\ input[h].kind \in {"+", "-"} /\ input[h].width = width
         /\ sections[k].kind = IF input[h].kind = "+" THEN "side" ELSE "base"
         /\ sections[k].label = input[h].rest
    /\ \A i \in (RegionStart + 1)..Len(input) :
         input[i].kind \in Markers /\ input[i].width >= width => i \in HeaderLines

IInv ==
  /\ TypeOK /\ SequencesInv
  /\ outcome \notin {"invalid", "unsupported-style"} =>
       WidthInv /\ RegionsInv /\ CoveredInv /\ SectionsInv
  /\ outcome = "no-conflict" => width = 0
  /\ outcome = "parsed" => width # 0 /\ at = "outside"

===============================================================================
