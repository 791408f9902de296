---------------------------- MODULE ApplyValidation ----------------------------
(***************************************************************************)
(* validate_apply (core.rs): which edits of `resolved` may replace the     *)
(* source, and what they change, for a workspace whose canvas is edited    *)
(* step by step and validated at any time.                                 *)
(*                                                                         *)
(* A byte sequence is a sequence of tokens: a line ending, a marker run of *)
(* the active width, the text of a placeholder line, or other text.  The   *)
(* digest in the manifest stands for the bytes it was computed from.       *)
(***************************************************************************)
EXTENDS UnifiedDiff

CONSTANTS
  Sources,   \* [source, regions]: a source, and the range of each conflict
  Fillings,  \* what an edit may put in the place of a few tokens
  MaxSpan,   \* bound: tokens an edit replaces
  MaxEdits   \* bound: edits of resolved

\* The marker runs of reject_resolved_markers; a run of - is not one of them.
RejectedRuns == {"<", ">", "%", "+", "|", "="}

\* A line that continues a conflict label: "\\ to: LABEL".
Continuation == "\\to"

\* The text of the placeholder line of each region, without its line ending.
PlaceholderText == <<"JCW-000", "JCW-001", "JCW-002">>

\* Ranges of a source of some length, in order and disjoint.
Ordered(ranges, length) ==
  \A i \in DOMAIN ranges :
    /\ ranges[i].start <= ranges[i].end /\ ranges[i].end <= length
    /\ i > 1 => ranges[i - 1].end <= ranges[i].start

\* Manifest::validate: what it requires of the ranges.
ValidManifest(m) ==
  /\ Ordered(m.regions, Len(m.source))
  /\ \A i \in DOMAIN m.regions : m.regions[i].start # m.regions[i].end

\* ApplyPlan::new, ApplyPlan::validate
ValidPlan(hunks, length) == Ordered(hunks, length)

ASSUME SourcesAssumption ==
  \A m \in Sources :
    /\ m.source \in Seq(Range(m.source))
    /\ m.regions \in Seq([start : Nat, end : Nat])
    /\ ValidManifest(m)
    /\ Len(m.regions) <= Len(PlaceholderText)
    /\ \A r \in Range(m.regions) :
         /\ r.start = 0 \/ m.source[r.start] \in Eols
         /\ r.end = Len(m.source) \/ m.source[r.end] \in Eols

ASSUME EditsAssumption ==
  /\ {MaxSpan, MaxEdits} \subseteq Nat
  /\ \A f \in Fillings : f \in Seq(Range(f))

VARIABLES
  manifest,  \* the regions, and the source they were found in
  source,    \* the source file now
  resolved,
  verdict,   \* the answer to the last `apply`, "none" after an edit
  plan,      \* ApplyPlan.hunks
  edits

vars == <<manifest, source, resolved, verdict, plan, edits>>

-------------------------------------------------------------------------------
(* materialize_unresolved: the canvas `prepare` writes.                    *)

\* region_trailing_eol
TrailingEol(m, r) ==
  LET final == Slice(m.source, r.end - 1, r.end) IN
  IF final[1] \in Eols THEN final ELSE <<>>

\* region_seed
Seed(m, i) == <<PlaceholderText[i]>> \o TrailingEol(m, m.regions[i])

Materialize(m) ==
  LET n == Len(m.regions)
      from(i) == IF i = 0 THEN 0 ELSE m.regions[i].end
      gap(i) == Slice(m.source, from(i - 1), m.regions[i].start)
  IN FlattenSeq([i \in 1..n |-> gap(i) \o Seed(m, i)])
       \o Slice(m.source, from(n), Len(m.source))

-------------------------------------------------------------------------------
(* reject_resolved_markers                                                 *)

LineStarts(s) == {i \in DOMAIN s : i = 1 \/ s[i - 1] \in Eols}

HasRejectedMarker(s) ==
  \E i \in LineStarts(s) : s[i] \in RejectedRuns \cup {Continuation}

-------------------------------------------------------------------------------
(* conflict_groups: regions without a byte between them share a group.     *)

\* Mistake: any two regions share a group.
OneGroup(m) ==
  IF m.regions = <<>> THEN <<>>
  ELSE <<[start |-> m.regions[1].start, end |-> Last(m.regions).end]>>

\* A region joins the last group if no byte separates them.
Grouped(groups, r) ==
  IF groups # <<>> /\ Last(groups).end = r.start
  THEN [groups EXCEPT ![Len(groups)].end = r.end]
  ELSE Append(groups, [start |-> r.start, end |-> r.end])

Groups(m) ==
  LET groups[i \in 0..Len(m.regions)] ==
        IF i = 0 THEN <<>> ELSE Grouped(groups[i - 1], m.regions[i])
  IN groups[Len(m.regions)]

GroupOf(groups, r) ==
  CHOOSE k \in DOMAIN groups : groups[k].start <= r.start /\ r.end <= groups[k].end

Prefix(m)       == Slice(m.source, 0, m.regions[1].start)
Suffix(m)       == Slice(m.source, Last(m.regions).end, Len(m.source))
Separator(m, groups, k) == Slice(m.source, groups[k].end, groups[k + 1].start)

-------------------------------------------------------------------------------
(* map_resolved_groups, find_group_boundaries                              *)

\* Mistake: a resolution of a region is taken to be never empty.
CandidatesNonEmpty(s, sep, from, to) ==
  {c \in (from + 1)..to : c + Len(sep) <= Len(s) /\ Slice(s, c, c + Len(sep)) = sep}

\* Where the next separator may start.
Candidates(s, sep, from, to) ==
  {c \in from..to : c + Len(sep) <= Len(s) /\ Slice(s, c, c + Len(sep)) = sep}

\* A group that starts at `from` ends before the first separator behind which
\* there is a place for the rest of the groups.
Place(s, sep, from, to, rest) ==
  LET fits == {c \in Candidates(s, sep, from, to) : rest[c + Len(sep)] # <<>>} IN
  IF fits = {} THEN <<>>
  ELSE <<[start |-> from, end |-> Min(fits)]>> \o rest[Min(fits) + Len(sep)]

(***************************************************************************)
(* The ranges of resolved that stand for the groups, each as short as the  *)
(* groups after it allow; <<>> when there are none.  The last group takes  *)
(* the rest, up to the suffix, which its start may already have passed.    *)
(* place[n] has the places of the last group and the n before it.          *)
(***************************************************************************)
Boundaries(m, groups, s) ==
  LET n == Len(groups)
      suffixStart == Len(s) - Len(Suffix(m))
      place[i \in 0..(n - 1)] ==
        [from \in 0..Len(s) |->
           IF i = 0 THEN <<[start |-> from, end |-> suffixStart]>>
           ELSE Place(s, Separator(m, groups, n - i), from, suffixStart, place[i - 1])]
  IN place[n - 1][Len(Prefix(m))]

-------------------------------------------------------------------------------
(* validate_apply                                                          *)

\* Mistake: only a resolution that is nothing but the placeholder is refused.
ContainsSeedExactly(range, seed) == range = seed

\* The seed of a region is searched in the range of its own group.
ContainsSeed(range, seed) ==
  \E c \in 0..(Len(range) - Len(seed)) : Slice(range, c, c + Len(seed)) = seed

SuffixKept(m, s) == IsSuffix(Suffix(m), s)

Hunk(g, r, s) ==
  [start |-> g.start, end |-> g.end, replacement |-> Slice(s, r.start, r.end)]

\* A hunk for each group that is not resolved by what it was.
Hunks(m, groups, ranges, s) ==
  LET hunk(k) == Hunk(groups[k], ranges[k], s)
      hunks[k \in 0..Len(groups)] ==
        IF k = 0 THEN <<>>
        ELSE IF hunk(k).replacement = Slice(m.source, hunk(k).start, hunk(k).end)
        THEN hunks[k - 1]
        ELSE Append(hunks[k - 1], hunk(k))
  IN hunks[Len(groups)]

Refuse(why) == [verdict |-> why, plan |-> <<>>]

\* The plan, which ApplyPlan refuses when its hunks are not in order, and the
\* rendering of the diff when they do not make the resolved file.
Plan(m, groups, ranges, s) ==
  LET hunks == Hunks(m, groups, ranges, s) IN
  IF ~ValidPlan(hunks, Len(m.source)) THEN Refuse("invalid-plan")
  ELSE IF Reconstructed(m.source, hunks) # s THEN Refuse("diff")
  ELSE [verdict |-> "accepted", plan |-> hunks]

\* The seed check: the first region whose range is inverted, or that still
\* holds its seed, decides.
CheckSeeds(m, groups, ranges, s) ==
  LET range(i) == ranges[GroupOf(groups, m.regions[i])]
      inverted == {i \in DOMAIN m.regions : range(i).start > range(i).end}
      untouched == {i \in DOMAIN m.regions \ inverted :
                      ContainsSeed(Slice(s, range(i).start, range(i).end), Seed(m, i))}
  IN IF inverted \cup untouched = {}
     THEN Plan(m, groups, ranges, s)
     ELSE Refuse(IF Min(inverted \cup untouched) \in untouched
                 THEN "placeholder" ELSE "invalid")

Validate(m, src, s) ==
  IF src # m.source THEN Refuse("stale-source")
  ELSE IF HasRejectedMarker(s) THEN Refuse("marker")
  ELSE IF m.regions = <<>>
  THEN IF s = src THEN [verdict |-> "accepted", plan |-> <<>>] ELSE Refuse("no-region")
  ELSE LET groups == Groups(m)
           ranges == Boundaries(m, groups, s)
       IN IF ~IsPrefix(Prefix(m), s) THEN Refuse("prefix")
          ELSE IF ~SuffixKept(m, s) THEN Refuse("suffix")
          ELSE IF Len(Prefix(m)) + Len(Suffix(m)) > Len(s) THEN Refuse("overlap")
          ELSE IF ranges = <<>> THEN Refuse("between")
          ELSE CheckSeeds(m, groups, ranges, s)

-------------------------------------------------------------------------------
(* The workspace: edited, validated, installed.                            *)

Init ==
  /\ manifest \in Sources
  /\ source = manifest.source
  /\ resolved = Materialize(manifest)
  /\ verdict = "none"
  /\ plan = <<>>
  /\ edits = 0

\* An edit puts a filling in the place of a few tokens.
Edit ==
  /\ edits < MaxEdits /\ edits' = edits + 1
  /\ \E a \in 0..Len(resolved), span \in 0..MaxSpan, f \in Fillings :
       /\ a + span <= Len(resolved)
       /\ resolved' = Slice(resolved, 0, a) \o f
                        \o Slice(resolved, a + span, Len(resolved))
  /\ resolved' # resolved
  /\ verdict' = "none"
  /\ plan' = <<>>
  /\ UNCHANGED <<manifest, source>>

\* `jcw apply`
Apply ==
  /\ verdict = "none"
  /\ LET answer == Validate(manifest, source, resolved) IN
     verdict' = answer.verdict /\ plan' = answer.plan
  /\ UNCHANGED <<manifest, source, resolved, edits>>

\* Mistake: the plan outlives the installation it was made for.
InstallKeepsPlan ==
  /\ verdict = "accepted"
  /\ plan # <<>>
  /\ source' = resolved
  /\ verdict' = "none"
  /\ UNCHANGED <<manifest, resolved, plan, edits>>

\* `jcw apply --write`: the resolved bytes replace the source.
Install ==
  /\ verdict = "accepted"
  /\ plan # <<>>
  /\ source' = resolved
  /\ verdict' = "none"
  /\ plan' = <<>>
  /\ UNCHANGED <<manifest, resolved, edits>>

Next == Edit \/ Apply \/ Install

Spec == Init /\ [][Next]_vars

-------------------------------------------------------------------------------
(* Properties.                                                             *)

Verdicts == {"none", "accepted", "stale-source", "marker", "no-region", "prefix",
             "suffix", "overlap", "between", "placeholder", "invalid", "diff"}

\* Every variable has its type; a plan comes with an accepted file only.
TypeOK ==
  /\ manifest \in Sources
  /\ verdict \in Verdicts
  /\ edits \in 0..MaxEdits
  /\ plan # <<>> => verdict = "accepted"

\* Whether s is the source with something else in the place of its conflicts:
\* what separates them stands somewhere in s, in order and disjoint.
OutsideKept(m, s) ==
  LET n == Len(m.regions)
      between(k) == Slice(m.source, m.regions[k].end, m.regions[k + 1].start)
      prefix == Slice(m.source, 0, m.regions[1].start)
      suffix == Slice(m.source, m.regions[n].end, Len(m.source))
      first == Len(prefix)
      last == Len(s) - Len(suffix)
  IN IF n = 0 THEN s = m.source
     ELSE /\ IsPrefix(prefix, s) /\ IsSuffix(suffix, s)
          /\ first <= last
          /\ \E at \in [1..(n - 1) -> first..last] :
               \A k \in DOMAIN at :
                 LET end == at[k] + Len(between(k)) IN
                 /\ end <= IF k + 1 \in DOMAIN at THEN at[k + 1] ELSE last
                 /\ Slice(s, at[k], end) = between(k)

\* core.rs:816-820: an accepted file differs from the source only within the
\* conflicts, whatever alignment the search for the separators has settled on.
AcceptedKeepsOutside == verdict = "accepted" => OutsideKept(manifest, resolved)

\* No false refusal: a file that keeps the outside bytes and holds neither a
\* marker line nor a placeholder is accepted; the leftmost alignment never
\* hides another one that would do.
RefusedForCause ==
  verdict \in {"no-region", "prefix", "suffix", "overlap", "between", "invalid", "diff"} =>
    ~OutsideKept(manifest, resolved)

\* README: a blind, unedited prepare output can never be installed, even where
\* the blank line between two conflicts also ends the first placeholder.
BlindOutputRefused ==
  /\ resolved = Materialize(manifest) /\ manifest.regions # <<>>
  => verdict \notin {"accepted"}

\* What the dry run shows is what the write installs: the diff, taken by its
\* line numbers, fits the source and turns it into the bytes that replace it.
\* Its new ranges are those of the resolutions in these bytes, unless one that
\* lacks its final line ending has run into the next line; and where no
\* conflict is resolved to nothing, the diff read backwards gives the source back.
PreviewIsInstalled ==
  [][source' # source =>
       LET diff == Diff(source, resolved, plan)
           deletes == \E k \in DOMAIN diff : diff[k].new_lines = <<>>
       IN /\ Fits(source, diff) /\ Patched(source, diff) = source'
          /\ KeepsFinalEols(diff) =>
               /\ \A k \in DOMAIN diff :
                    diff[k].new_lines # <<>> => Stands(source', Reversed(diff)[k])
               /\ deletes \/ TakesBack(source, source', diff)]_vars

\* render_unified_diff: what it renders is a unified diff, so that the diff of
\* what was installed can be taken back, a deleted conflict included.
PreviewCanBeTakenBack ==
  [][source' # source =>
       LET diff == Diff(source, resolved, plan) IN
       KeepsFinalEols(diff) => TakesBack(source, source', diff)]_vars

\* README, Workspace layout: `apply` refuses the resolved file while any
\* placeholder remains.
NoPlaceholderAccepted ==
  verdict = "accepted" =>
    \A i \in DOMAIN resolved : \A k \in DOMAIN PlaceholderText :
      resolved[i] # PlaceholderText[k]

===============================================================================
