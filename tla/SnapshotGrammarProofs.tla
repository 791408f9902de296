------------------------- MODULE SnapshotGrammarProofs -------------------------
(***************************************************************************)
(* Proofs about SnapshotGrammar: what the line-by-line parser accepts is a *)
(* document of the grammar and is read as it declares; what the parser     *)
(* refuses is the beginning of no document of the grammar; what jj renders *)
(* is read back as it was rendered; and what the parser accepts is         *)
(* recognised in a working copy of any style.                              *)
(***************************************************************************)
EXTENDS SnapshotGrammar, Stepwise, FiniteSetTheorems

-------------------------------------------------------------------------------
(* Lines, and documents that begin with the same lines.                    *)

\* The document starts with the lines read so far.
Extends(doc, lines) ==
  /\ Len(lines) \in Nat /\ DOMAIN lines = 1..Len(lines)
  /\ Len(doc) \in Nat /\ DOMAIN doc = 1..Len(doc)
  /\ Len(lines) <= Len(doc)
  /\ \A i \in 1..Len(lines) : doc[i] = lines[i]

\* A line has one kind of marker, or none.
LEMMA LineType ==
  ASSUME NEW l \in Alphabet
  PROVE  /\ l.kind \in Markers \cup {"text"}
         /\ l.width \in Nat
         /\ \A marker : Run(l, marker) \in Nat
         /\ \A marker : Run(l, marker) > 0 => l.kind = marker /\ l.width = Run(l, marker)
BY GrammarAssumption DEF Alphabet, Run

\* A line that comes next is one of the alphabet.
LEMMA ReadsType ==
  ASSUME NEW l, SequencesInv, Reads(l)
  PROVE  /\ l \in Alphabet
         /\ ahead' \in Seq(Alphabet)
         /\ input' \in Seq(Alphabet) /\ input' = Append(input, l)
         /\ Len(input') = Here /\ Here \in Nat
         /\ input'[Here] = l
         /\ Extends(input', input)
<1>1. ASSUME ahead # <<>> /\ l = Head(ahead) /\ ahead' = Tail(ahead)
      PROVE  l \in Alphabet /\ ahead' \in Seq(Alphabet)
  BY <1>1, HeadTailProperties DEF SequencesInv
<1>2. ASSUME l \in Lines /\ ahead' = ahead
      PROVE  l \in Alphabet /\ ahead' \in Seq(Alphabet)
  BY <1>2 DEF SequencesInv, Alphabet
<1>3. l \in Alphabet /\ ahead' \in Seq(Alphabet)
  BY <1>1, <1>2 DEF Reads
<1> QED
  BY <1>3 DEF SequencesInv, Reads, Here, Extends

LEMMA ExtendsTrans ==
  ASSUME NEW d, NEW e, NEW f, Extends(e, d), Extends(f, e)
  PROVE  Extends(f, d)
BY DEF Extends

LEMMA ConcatExtends ==
  ASSUME NEW S, NEW T, NEW d \in Seq(S), NEW e \in Seq(T)
  PROVE  Extends(d \o e, d)
<1>1. d \in Seq(S \cup T) /\ e \in Seq(S \cup T)
  BY SeqMonotonic
<1> QED
  BY <1>1, ConcatProperties DEF Extends

\* The least element of a set of numbers.
LEMMA MinIs ==
  ASSUME NEW S \in SUBSET Int, NEW m \in S, \A x \in S : m <= x
  PROVE  Min(S) = m
<1>1. Min(S) \in S /\ \A y \in S : Min(S) =< y
  BY DEF Min
<1>2. Min(S) \in Int /\ m \in Int
  BY <1>1
<1>3. Min(S) <= m /\ m <= Min(S)
  BY <1>1
<1> QED
  BY <1>2, <1>3

\* What is inside the lines that both have is the same in both.
LEMMA SameHeaders ==
  ASSUME NEW d, NEW e, Extends(e, d), NEW i \in 1..Len(d), NEW j \in 1..(Len(d) + 1), NEW w
  PROVE  Headers(e, i, j, w) = Headers(d, i, j, w)
BY DEF Extends, Headers

LEMMA SameConflict ==
  ASSUME NEW d, NEW e, Extends(e, d), NEW i \in 1..Len(d), NEW j \in 1..Len(d), NEW w
  PROVE  IsConflict(e, i, j, w) <=> IsConflict(d, i, j, w)
<1> DEFINE H == Headers(d, i, j, w)
<1>1. Headers(e, i, j, w) = H
  BY SameHeaders DEF Extends
<1>2. \A k \in (i + 1)..(j - 1) : e[k] = d[k]
  BY DEF Extends
<1>3. H \subseteq (i + 1)..(j - 1)
  BY DEF Headers
<1>4. e[i] = d[i] /\ e[j] = d[j]
  BY DEF Extends
<1>5. i + 1 \in H => e[i + 1] = d[i + 1]
  BY <1>2, <1>3
<1> QED
  BY <1>1, <1>2, <1>3, <1>4, <1>5 DEF IsConflict

LEMMA SameSubSeq ==
  ASSUME NEW d, NEW e, Extends(e, d), NEW m \in Nat \ {0}, NEW n \in 0..Len(d)
  PROVE  SubSeq(e, m, n) = SubSeq(d, m, n)
<1> DEFINE S == {d[i] : i \in m..n}
<1>1. ASSUME n < m
      PROVE  SubSeq(e, m, n) = SubSeq(d, m, n)
  BY <1>1, SubSeqEmpty
<1>2. ASSUME m <= n
      PROVE  SubSeq(e, m, n) = SubSeq(d, m, n)
  <2>1. \A i \in m..n : d[i] \in S /\ e[i] = d[i]
    BY DEF Extends
  <2>2. /\ SubSeq(d, m, n) \in Seq(S)
        /\ Len(SubSeq(d, m, n)) = n - m + 1
        /\ \A i \in 1..(n - m + 1) : SubSeq(d, m, n)[i] = d[m + i - 1]
    BY <1>2, <2>1, SubSeqProperties
  <2>3. /\ SubSeq(e, m, n) \in Seq(S)
        /\ Len(SubSeq(e, m, n)) = n - m + 1
        /\ \A i \in 1..(n - m + 1) : SubSeq(e, m, n)[i] = e[m + i - 1]
    BY <1>2, <2>1, SubSeqProperties
  <2>4. \A i \in 1..(n - m + 1) : SubSeq(e, m, n)[i] = SubSeq(d, m, n)[i]
    BY <2>1, <2>2, <2>3
  <2> QED
    BY <2>2, <2>3, <2>4, SeqEqual
<1> QED
  BY <1>1, <1>2 DEF Extends

\* A term ends after its header, at the closing marker at the latest.
LEMMA NextHeader ==
  ASSUME NEW d, NEW i \in Nat, NEW j \in Nat, NEW w, NEW h \in Headers(d, i, j, w)
  PROVE  Min({e \in Headers(d, i, j, w) \cup {j} : e > h}) \in (h + 1)..j
<1> DEFINE E == {e \in Headers(d, i, j, w) \cup {j} : e > h}
<1>1. Headers(d, i, j, w) \subseteq (i + 1)..(j - 1)
  BY DEF Headers
<1>2. E \in SUBSET Nat /\ j \in E
  BY <1>1
<1>3. Min(E) \in E /\ Min(E) <= j
  BY <1>2, HasMin
<1> QED
  BY <1>1, <1>3

LEMMA SameDeclares ==
  ASSUME NEW d, NEW e, Extends(e, d), NEW i \in 1..Len(d), NEW j \in 1..Len(d),
         NEW w, NEW terms, Declares(d, i, j, w, terms)
  PROVE  Declares(e, i, j, w, terms)
<1> DEFINE H == Headers(d, i, j, w)
           next(h) == Min({g \in H \cup {j} : g > h})
<1>1. Headers(e, i, j, w) = H
  BY SameHeaders DEF Extends
<1>2. e[j] = d[j] /\ i \in Nat /\ j \in Nat /\ j <= Len(d) /\ Len(d) \in Nat
  BY DEF Extends
<1>3. ASSUME NEW h \in H
      PROVE  /\ e[h] = d[h]
             /\ SubSeq(e, h + 1, next(h) - 1) = SubSeq(d, h + 1, next(h) - 1)
  <2>1. h \in (i + 1)..(j - 1)
    BY DEF Headers
  <2>2. next(h) \in (h + 1)..j
    BY <1>2, NextHeader
  <2>3. h + 1 \in Nat \ {0} /\ next(h) - 1 \in 0..Len(d) /\ h \in 1..Len(d)
    BY <1>2, <2>1, <2>2
  <2> QED
    BY <2>3, SameSubSeq DEF Extends
<1> HIDE DEF next
<1>4. /\ Len(terms) = Cardinality(H)
      /\ \A h \in H :
           terms[Cardinality({g \in H : g <= h})] =
             [kind |-> IF d[h].kind = "+" THEN "side" ELSE "base",
              label |-> d[h].rest, synthetic |-> d[j].eol = NoEol,
              bytes |-> Logical(SubSeq(d, h + 1, next(h) - 1), d[j].eol = NoEol)]
  BY DEF Declares, next, Logical
<1>5. /\ Len(terms) = Cardinality(H)
      /\ \A h \in H :
           terms[Cardinality({g \in H : g <= h})] =
             [kind |-> IF e[h].kind = "+" THEN "side" ELSE "base",
              label |-> e[h].rest, synthetic |-> e[j].eol = NoEol,
              bytes |-> Logical(SubSeq(e, h + 1, next(h) - 1), e[j].eol = NoEol)]
  BY <1>2, <1>3, <1>4
<1> QED
  BY <1>1, <1>5 DEF Declares, next, Logical

\* Numbers in increasing order are as many as their positions, and as many of them
\* are at most the k-th as k says.
LEMMA Counting ==
  ASSUME NEW n \in Nat, NEW f \in [1..n -> Int],
         \A i, j \in 1..n : i < j => f[i] < f[j]
  PROVE  Cardinality({f[k] : k \in 1..n}) = n
<1> DEFINE S == {f[k] : k \in 1..n}
<1>1. f \in [1..n -> S] /\ (\A s \in S : \E k \in 1..n : f[k] = s)
  OBVIOUS
<1>2. \A i, j \in 1..n : f[i] = f[j] => i = j
  OBVIOUS
<1>3. ExistsBijection(1..n, S)
  BY <1>1, <1>2 DEF ExistsBijection, Bijection, Injection, Surjection, IsInjective
<1> QED
  BY <1>3, FS_CountingElements

LEMMA CountingUpTo ==
  ASSUME NEW n \in Nat, NEW f \in [1..n -> Int],
         \A i, j \in 1..n : i < j => f[i] < f[j],
         NEW k \in 1..n
  PROVE  Cardinality({g \in {f[i] : i \in 1..n} : g <= f[k]}) = k
<1> DEFINE g == [i \in 1..k |-> f[i]]
<1>1. {x \in {f[i] : i \in 1..n} : x <= f[k]} = {g[i] : i \in 1..k}
  <2>1. \A i \in 1..n : f[i] <= f[k] <=> i <= k
    OBVIOUS
  <2> QED
    BY <2>1
<1>2. g \in [1..k -> Int] /\ (\A i, j \in 1..k : i < j => g[i] < g[j])
  OBVIOUS
<1>3. k \in Nat
  OBVIOUS
<1> HIDE DEF g
<1> QED
  BY <1>1, <1>2, <1>3, Counting


\* The terms of a conflict, given with its headers in their order.
LEMMA DeclaresInOrder ==
  ASSUME NEW d, NEW i \in Nat, NEW j \in Nat, NEW w, NEW terms,
         NEW n \in Nat, NEW f \in [1..n -> Int],
         \A a, b \in 1..n : a < b => f[a] < f[b],
         Headers(d, i, j, w) = {f[k] : k \in 1..n},
         Len(terms) = n,
         \A k \in 1..n :
           terms[k] =
             [kind |-> IF d[f[k]].kind = "+" THEN "side" ELSE "base",
              label |-> d[f[k]].rest, synthetic |-> d[j].eol = NoEol,
              bytes |-> Logical(SubSeq(d, f[k] + 1, (IF k = n THEN j ELSE f[k + 1]) - 1),
                                d[j].eol = NoEol)]
  PROVE  Declares(d, i, j, w, terms)
<1> DEFINE H == Headers(d, i, j, w)
           next(h) == Min({g \in H \cup {j} : g > h})
           ordinal(h) == Cardinality({g \in H : g <= h})
<1>1. Cardinality(H) = n
  BY Counting
<1>2. H \subseteq (i + 1)..(j - 1) /\ \A h \in H : h < j
  BY DEF Headers
<1>3. ASSUME NEW k \in 1..n
      PROVE  ordinal(f[k]) = k /\ next(f[k]) = IF k = n THEN j ELSE f[k + 1]
  <2> DEFINE m == IF k = n THEN j ELSE f[k + 1]
             E == {g \in H \cup {j} : g > f[k]}
  <2>1. ordinal(f[k]) = k
    BY CountingUpTo
  <2>2. E \in SUBSET Int
    BY <1>2
  <2>3. /\ f[k] \in H /\ f[k] < j
        /\ k # n => k + 1 \in 1..n /\ f[k + 1] \in H /\ f[k] < f[k + 1] /\ f[k + 1] < j
    <3>1. k # n => k + 1 \in 1..n /\ k < k + 1
      OBVIOUS
    <3>2. f[k] \in H /\ (k # n => f[k + 1] \in H /\ f[k] < f[k + 1])
      BY <3>1
    <3> QED
      BY <1>2, <3>1, <3>2
  <2>4. m \in E /\ m <= j
    BY <2>3
  <2>5. ASSUME NEW g \in E
        PROVE  m <= g
    <3>1. CASE g = j
      BY <2>4, <3>1
    <3>2. ASSUME g # j
          PROVE  m <= g
      <4>1. PICK b \in 1..n : g = f[b]
        BY <3>2
      <4>2. k < b
        <5>1. f[k] < f[b] /\ f[k] \in Int /\ f[b] \in Int
          BY <4>1
        <5>2. b < k => f[b] < f[k]
          OBVIOUS
        <5> QED
          BY <5>1, <5>2
      <4>3. k # n /\ k + 1 \in 1..n /\ (b = k + 1 \/ k + 1 < b)
        BY <4>2
      <4>4. f[k + 1] <= f[b]
        BY <4>3, SMTT(20)
      <4> QED
        BY <4>1, <4>3, <4>4
    <3> QED
      BY <3>1, <3>2
  <2>6. next(f[k]) = m
    BY <2>2, <2>4, <2>5, MinIs
  <2> QED
    BY <2>1, <2>6
<1> HIDE DEF next, ordinal
<1>4. ASSUME NEW h \in H
      PROVE  terms[ordinal(h)] =
               [kind |-> IF d[h].kind = "+" THEN "side" ELSE "base",
                label |-> d[h].rest, synthetic |-> d[j].eol = NoEol,
                bytes |-> Logical(SubSeq(d, h + 1, next(h) - 1), d[j].eol = NoEol)]
  <2> DEFINE term(g, e) == [kind |-> IF d[g].kind = "+" THEN "side" ELSE "base",
                            label |-> d[g].rest, synthetic |-> d[j].eol = NoEol,
                            bytes |-> Logical(SubSeq(d, g + 1, e - 1), d[j].eol = NoEol)]
             m(k) == IF k = n THEN j ELSE f[k + 1]
  <2>1. \A k \in 1..n : terms[k] = term(f[k], m(k))
    OBVIOUS
  <2>2. \A k \in 1..n : ordinal(f[k]) = k /\ next(f[k]) = m(k)
    BY <1>3
  <2>3. PICK k \in 1..n : h = f[k]
    OBVIOUS
  <2>4. terms[ordinal(h)] = term(h, next(h))
    <3> HIDE DEF term, m
    <3> QED
      BY <2>1, <2>2, <2>3, Zenon
  <2> QED
    BY <2>4, Zenon
<1> QED
  BY <1>1, <1>4 DEF Declares, next, ordinal, Logical

-------------------------------------------------------------------------------
(* What is read stays read.                                                *)

LEMMA OpeningsRead ==
  ASSUME SequencesInv, NEW l, Reads(l)
  PROVE  /\ Openings(input) \subseteq 1..Len(input)
         /\ Run(l, "<") >= MinMarkerWidth => Openings(input') = Openings(input) \cup {Here}
         /\ Run(l, "<") < MinMarkerWidth => Openings(input') = Openings(input)
<1>1. /\ Len(input) \in Nat /\ DOMAIN input = 1..Len(input) /\ DOMAIN input' = 1..Here
      /\ Here = Len(input) + 1 /\ input'[Here] = l
      /\ \A i \in DOMAIN input : input'[i] = input[i]
  BY ReadsType DEF Extends, Here
<1>2. Run(l, "<") \in Nat /\ MinMarkerWidth \in Nat
  BY ReadsType, LineType, GrammarAssumption
<1>3. \A i \in DOMAIN input' : i \in DOMAIN input \/ i = Here
  BY <1>1
<1> QED
  BY <1>1, <1>2, <1>3 DEF Openings

LEMMA RegionsRead ==
  ASSUME SequencesInv, RegionsInv, NEW l, Reads(l), NEW k \in DOMAIN regions
  PROVE  /\ IsConflict(input', regions[k].first, regions[k].last, width)
         /\ Declares(input', regions[k].first, regions[k].last, width, regions[k].terms)
<1>1. Extends(input', input)
  BY ReadsType
<1>2. regions[k].first \in 1..Len(input) /\ regions[k].last \in 1..Len(input)
  BY DEF SequencesInv
<1>3. /\ IsConflict(input, regions[k].first, regions[k].last, width)
      /\ Declares(input, regions[k].first, regions[k].last, width, regions[k].terms)
  BY DEF RegionsInv
<1> QED
  BY <1>1, <1>2, <1>3, SameConflict, SameDeclares

\* Reading a line uses up what was given, then what may follow.
LEMMA MoreType ==
  ASSUME TypeOK, SequencesInv, NEW l, Reads(l)
  PROVE  more' \in 0..given'.more
<1>1. given \in Given /\ given' = given /\ given.more \in Nat /\ more \in 0..given.more
  BY GrammarAssumption DEF TypeOK, SequencesInv, Reads
<1>2. more' = more \/ (more > 0 /\ more' = more - 1)
  BY DEF Reads
<1> QED
  BY <1>1, <1>2

\* A line that changes neither the conflicts read nor whether one is being read.
LEMMA FrameTypes ==
  ASSUME TypeOK, SequencesInv, NEW l, Reads(l), UNCHANGED <<width, at, sections, regions>>
  PROVE  /\ ValidDocument'
         /\ more' \in 0..given'.more
         /\ SequencesInv'
<1>1. /\ Len(input) \in Nat /\ DOMAIN input = 1..Len(input) /\ DOMAIN input' = 1..Here
      /\ Here = Len(input) + 1 /\ Len(input') = Here
      /\ ahead' \in Seq(Alphabet) /\ input' \in Seq(Alphabet)
  BY ReadsType DEF Extends, Here
<1>2. given' = given /\ Alphabet' = Alphabet
  BY DEF Reads, Alphabet
<1>3. more' \in 0..given'.more
  BY MoreType
<1>4. ValidDocument'
  BY <1>1 DEF ValidDocument, TypeOK, SequencesInv
<1>5. SequencesInv'
  BY <1>1, <1>2 DEF SequencesInv
<1> QED
  BY <1>3, <1>4, <1>5

LEMMA FrameRegions ==
  ASSUME SequencesInv, RegionsInv, NEW l, Reads(l),
         UNCHANGED <<width, regions>>, at' # "outside" => at # "outside",
         at # "outside" => RegionStart' = RegionStart
  PROVE  RegionsInv'
BY RegionsRead DEF RegionsInv

-------------------------------------------------------------------------------
(* The invariant, step by step.                                            *)

LEMMA InitInv == Init => IInv
<1> SUFFICES ASSUME Init PROVE IInv
  OBVIOUS
<1>1. given \in Given /\ given.lines \in Seq(Range(given.lines)) /\ given.more \in Nat
  BY GrammarAssumption DEF Init
<1>2. Range(given.lines) \subseteq Alphabet
  BY <1>1 DEF Alphabet
<1>3. ahead \in Seq(Alphabet)
  BY <1>1, <1>2, SeqMonotonic DEF Init
<1>4. SequencesInv
  BY <1>1, <1>3 DEF Init, SequencesInv
<1>5. TypeOK
  BY <1>1 DEF Init, TypeOK, ValidDocument
<1>6. WidthInv /\ RegionsInv /\ CoveredInv /\ SectionsInv
  BY DEF Init, WidthInv, RegionsInv, CoveredInv, SectionsInv, Openings
<1> QED
  BY <1>4, <1>5, <1>6 DEF IInv, Init

LEMMA ReadOutsideInv ==
  ASSUME IInv, NEW l, ReadOutside(l)
  PROVE  IInv'
<1> USE DEF IInv
<1>1. Reads(l) /\ outcome = "reading" /\ outcome' = outcome /\ at = "outside"
  BY DEF ReadOutside, Reads
<1>2. UNCHANGED <<width, at, sections, regions>>
  BY DEF ReadOutside
<1>3. ValidDocument' /\ more' \in 0..given'.more /\ SequencesInv'
  BY <1>1, <1>2, FrameTypes
<1>4. TypeOK'
  BY <1>1, <1>2, <1>3 DEF TypeOK
<1>5. RegionsInv'
  BY <1>1, <1>2, FrameRegions
<1>6. /\ Openings(input') = Openings(input)
      /\ \A i \in Openings(input) : i \in DOMAIN input /\ input'[i] = input[i]
  BY <1>1, OpeningsRead, ReadsType DEF ReadOutside, Extends
<1>7. WidthInv'
  BY <1>1, <1>2, <1>6 DEF WidthInv
<1>8. CoveredInv'
  BY <1>1, <1>2, <1>6 DEF CoveredInv
<1>9. SectionsInv'
  BY <1>1, <1>2 DEF SectionsInv
<1> QED
  BY <1>1, <1>3, <1>4, <1>5, <1>7, <1>8, <1>9

LEMMA OpenRegionInv ==
  ASSUME IInv, NEW l, OpenRegion(l)
  PROVE  IInv'
<1> USE DEF IInv
<1>1. Reads(l) /\ outcome = "reading" /\ outcome' = outcome /\ at = "outside"
  BY DEF OpenRegion, Reads
<1>2. /\ Run(l, "<") = l.width /\ l.width \in Nat /\ l.width >= MinMarkerWidth
      /\ MinMarkerWidth > 0 /\ MinMarkerWidth \in Nat
      /\ width' = l.width /\ at' = "opened" /\ regions' = regions
      /\ sections' = <<[kind |-> "opening", label |-> l.rest, header |-> Here]>>
  BY <1>1, ReadsType, LineType, GrammarAssumption DEF OpenRegion
<1>3. /\ Len(input) \in Nat /\ DOMAIN input = 1..Len(input) /\ DOMAIN input' = 1..Here
      /\ Here = Len(input) + 1 /\ Len(input') = Here /\ input'[Here] = l
      /\ \A i \in DOMAIN input : input'[i] = input[i]
      /\ ahead' \in Seq(Alphabet) /\ input' \in Seq(Alphabet)
  BY <1>1, ReadsType DEF Extends, Here
<1>4. RegionStart' = Here /\ Len(sections') = 1 /\ DOMAIN sections' = {1}
  BY <1>2 DEF RegionStart
<1>5. SequencesInv'
  <2>1. given' = given /\ Alphabet' = Alphabet
    BY <1>1 DEF Reads, Alphabet
  <2>2. sections' \in Seq(Range(sections')) /\ sections'[1].header = Here
    BY <1>2 DEF Range
  <2>3. \A k \in DOMAIN regions' :
           {regions'[k].first, regions'[k].last} \subseteq DOMAIN input'
    BY <1>2, <1>3 DEF SequencesInv
  <2> QED
    BY <1>2, <1>3, <1>4, <2>1, <2>2, <2>3 DEF SequencesInv
<1>6. TypeOK'
  <2>1. more' \in 0..given'.more
    BY <1>1, MoreType
  <2>2. ValidDocument'
    BY <1>2, <1>3 DEF TypeOK, ValidDocument, SequencesInv
  <2>3. sections' # <<>>
    BY <1>2
  <2> QED
    BY <1>1, <1>2, <2>1, <2>2, <2>3 DEF TypeOK
<1>7. Openings(input') = Openings(input) \cup {Here} /\ Openings(input) \subseteq 1..Len(input)
  BY <1>1, OpeningsRead DEF OpenRegion
<1>8. WidthInv'
  <2>1. CASE width = 0
    <3>1. Openings(input') = {Here}
      BY <1>1, <1>7, <2>1 DEF WidthInv
    <3> QED
      BY <1>2, <1>3, <3>1 DEF WidthInv
  <2>2. CASE width # 0
    <3>1. width' = width
      BY <2>2 DEF OpenRegion
    <3>2. PICK i \in Openings(input) :
            input[i].width = width /\ \A j \in Openings(input) : i <= j
      BY <1>1, <2>2 DEF WidthInv
    <3>3. i \in Openings(input') /\ input'[i].width = width
      BY <1>3, <1>7, <3>2
    <3>4. \A j \in Openings(input') : i <= j
      BY <1>3, <1>7, <3>2
    <3> QED
      BY <2>2, <3>1, <3>3, <3>4 DEF WidthInv
  <2> QED
    BY <2>1, <2>2
<1>9. RegionsInv'
  <2>1. ASSUME NEW k \in DOMAIN regions
        PROVE  /\ width' = width
               /\ IsConflict(input', regions[k].first, regions[k].last, width')
               /\ Declares(input', regions[k].first, regions[k].last, width', regions[k].terms)
               /\ \A j \in 1..(k - 1) : regions[j].last < regions[k].first
               /\ regions[k].last < Here
    <3>1. width # 0
      BY <1>1 DEF WidthInv
    <3>2. width' = width
      BY <3>1 DEF OpenRegion
    <3>3. regions[k].last < Here
      BY <1>3 DEF SequencesInv
    <3> QED
      BY <1>1, <3>2, <3>3, RegionsRead DEF RegionsInv
  <2> QED
    BY <1>2, <1>4, <2>1 DEF RegionsInv
<1>10. CoveredInv'
  BY <1>1, <1>2, <1>3, <1>4, <1>7 DEF CoveredInv
<1>11. SectionsInv'
  BY <1>2, <1>3, <1>4 DEF SectionsInv
<1> QED
  BY <1>1, <1>5, <1>6, <1>8, <1>9, <1>10, <1>11

\* Inside a conflict there is an opening marker, on a line that has been read.
LEMMA InsideFacts ==
  ASSUME IInv, outcome = "reading", at # "outside", NEW l, Reads(l)
  PROVE  /\ width \in Nat /\ width >= MinMarkerWidth /\ width > 0
         /\ sections \in Seq(Range(sections)) /\ Len(sections) \in Nat \ {0}
         /\ DOMAIN sections = 1..Len(sections)
         /\ \A k \in 1..Len(sections) : sections[k].header \in 1..Len(input)
         /\ RegionStart \in 1..Len(input)
         /\ Len(input) \in Nat /\ DOMAIN input = 1..Len(input) /\ DOMAIN input' = 1..Here
         /\ Here = Len(input) + 1 /\ Len(input') = Here /\ input'[Here] = l
         /\ \A i \in 1..Len(input) : input'[i] = input[i]
<1> USE DEF IInv
<1>1. /\ Len(input) \in Nat /\ DOMAIN input = 1..Len(input) /\ DOMAIN input' = 1..Here
      /\ Here = Len(input) + 1 /\ Len(input') = Here /\ input'[Here] = l
      /\ \A i \in 1..Len(input) : input'[i] = input[i]
  BY ReadsType DEF Extends, Here
<1>2. width \in Nat /\ width >= MinMarkerWidth /\ width > 0
  BY GrammarAssumption DEF TypeOK, WidthInv, SequencesInv
<1>3. sections # <<>> /\ sections \in Seq(Range(sections))
  BY DEF TypeOK, SequencesInv
<1>4. Len(sections) \in Nat \ {0} /\ DOMAIN sections = 1..Len(sections)
  BY <1>3
<1>5. \A k \in 1..Len(sections) : sections[k].header \in 1..Len(input)
  BY <1>1, <1>4 DEF SequencesInv
<1> QED
  BY <1>1, <1>2, <1>3, <1>4, <1>5 DEF RegionStart

LEMMA FrameInside ==
  ASSUME IInv, outcome = "reading", at # "outside", NEW l, Reads(l),
         UNCHANGED <<width, regions>>, RegionStart' = RegionStart, at' # "outside"
  PROVE  WidthInv' /\ RegionsInv' /\ CoveredInv'
<1> USE DEF IInv
<1>1. RegionsInv'
  BY FrameRegions
<1>2. /\ Openings(input) \subseteq 1..Len(input)
      /\ \A i \in Openings(input') : i \in Openings(input) \/ i = Here
      /\ Openings(input) \subseteq Openings(input')
  <2>1. Run(l, "<") \in Nat /\ MinMarkerWidth \in Nat
    BY ReadsType, LineType, GrammarAssumption
  <2> QED
    BY <2>1, OpeningsRead
<1>3. WidthInv'
  <2>1. PICK i \in Openings(input) : input[i].width = width /\ \A j \in Openings(input) : i <= j
    BY InsideFacts DEF WidthInv
  <2>2. i \in Openings(input') /\ input'[i].width = width /\ \A j \in Openings(input') : i <= j
    BY <1>2, <2>1, InsideFacts
  <2> QED
    BY <2>2, InsideFacts DEF WidthInv
<1>4. CoveredInv'
  <2> SUFFICES ASSUME NEW i \in Openings(input')
               PROVE  \/ \E k \in DOMAIN regions : i \in regions[k].first..regions[k].last
                      \/ RegionStart <= i
    BY DEF CoveredInv
  <2>1. CASE i \in Openings(input)
    BY <2>1 DEF CoveredInv
  <2>2. CASE i = Here
    BY <2>2, InsideFacts
  <2> QED
    BY <1>2, <2>1, <2>2
<1> QED
  BY <1>1, <1>3, <1>4

LEMMA ReadPayloadInv ==
  ASSUME IInv, NEW l, ReadPayload(l)
  PROVE  IInv'
<1> USE DEF IInv
<1>1. Reads(l) /\ outcome = "reading" /\ outcome' = outcome /\ at = "inside"
  BY DEF ReadPayload, Reads
<1>2. UNCHANGED <<width, at, sections, regions>>
  BY DEF ReadPayload
<1>3. ValidDocument' /\ more' \in 0..given'.more /\ SequencesInv'
  BY <1>1, <1>2, FrameTypes
<1>4. TypeOK'
  BY <1>1, <1>2, <1>3 DEF TypeOK
<1>5. RegionStart' = RegionStart /\ HeaderLines' = HeaderLines
  BY <1>2 DEF RegionStart, HeaderLines
<1>6. WidthInv' /\ RegionsInv' /\ CoveredInv'
  BY <1>1, <1>2, <1>5, FrameInside
<1>7. ~(l.kind \in Markers /\ l.width >= width)
  <2>1. l.width \in Nat /\ (\A marker : Run(l, marker) = IF l.kind = marker THEN l.width ELSE 0)
    BY <1>1, ReadsType, LineType DEF Run
  <2>2. l.kind \in OtherStyles => l.width < width
    BY <1>1, <2>1, InsideFacts DEF ReadPayload, OtherStyle
  <2>3. l.kind = "<" => l.width < width
    BY <1>1, <2>1, InsideFacts DEF ReadPayload, Malformed
  <2>4. l.kind = ">" => l.width < width
    BY <1>1, <2>1, InsideFacts DEF ReadPayload, Malformed, Closing
  <2>5. l.kind \in {"+", "-"} => l.width < width
    BY <1>1, <2>1, InsideFacts DEF ReadPayload, Malformed, Header
  <2> QED
    BY <1>1, <2>1, <2>2, <2>3, <2>4, <2>5, InsideFacts DEF Markers
<1>8. SectionsInv'
  <2>1. /\ Run(input'[RegionStart], "<") = width
        /\ Len(sections) >= 2 /\ sections[2].header = RegionStart + 1
        /\ input'[RegionStart + 1].kind = "+"
    BY <1>1, InsideFacts DEF SectionsInv
  <2>2. ASSUME NEW k \in 2..Len(sections), NEW h, h = sections[k].header
        PROVE  /\ \A j \in 1..(k - 1) : sections[j].header < h
               /\ input'[h].kind \in {"+", "-"} /\ input'[h].width = width
               /\ sections[k].kind = IF input'[h].kind = "+" THEN "side" ELSE "base"
               /\ sections[k].label = input'[h].rest
    <3>1. h \in 1..Len(input) /\ input'[h] = input[h]
      BY <1>1, <2>2, InsideFacts
    <3> QED
      BY <1>1, <2>2, <3>1 DEF SectionsInv
  <2>3. ASSUME NEW i \in (RegionStart + 1)..Here,
               input'[i].kind \in Markers, input'[i].width >= width
        PROVE  i \in HeaderLines
    <3>1. i # Here
      BY <1>1, <1>7, <2>3, InsideFacts
    <3>2. /\ Here = Len(input) + 1 /\ Len(input) \in Nat /\ RegionStart \in 1..Len(input)
          /\ \A m \in 1..Len(input) : input'[m] = input[m]
      BY <1>1, InsideFacts
    <3>3. i \in (RegionStart + 1)..Len(input) /\ input'[i] = input[i]
      BY <3>1, <3>2
    <3> QED
      BY <1>1, <2>3, <3>3 DEF SectionsInv
  <2>4. Len(input') = Here
    BY <1>1, InsideFacts
  <2> QED
    BY <1>1, <1>2, <1>5, <2>1, <2>2, <2>3, <2>4 DEF SectionsInv
<1> QED
  BY <1>1, <1>3, <1>4, <1>6, <1>8

LEMMA StartSectionInv ==
  ASSUME IInv, NEW l, StartSection(l)
  PROVE  IInv'
<1> USE DEF IInv
<1> DEFINE n == Len(sections)
<1>1. /\ Reads(l) /\ outcome = "reading" /\ outcome' = outcome /\ at' = "inside"
      /\ UNCHANGED <<width, regions>>
  BY DEF StartSection, Reads
<1>2. at \in {"opened", "inside"}
  BY DEF StartSection, SideFirst, Header
<1>3. sections' = Append(sections, Section(l))
  BY DEF StartSection
<1>4. /\ Section(l).header = Here /\ Section(l).label = l.rest
      /\ Section(l).kind = IF l.kind = "+" THEN "side" ELSE "base"
      /\ l.kind \in {"+", "-"} /\ l.width = width /\ (at = "opened" => l.kind = "+")
  <2>1. l.width \in Nat /\ (\A marker : Run(l, marker) = IF l.kind = marker THEN l.width ELSE 0)
    BY <1>1, ReadsType, LineType DEF Run
  <2>2. width > 0
    BY <1>1, <1>2, InsideFacts
  <2> QED
    BY <2>1, <2>2 DEF StartSection, SideFirst, Header, Section
<1>5. /\ n \in Nat \ {0} /\ DOMAIN sections' = 1..(n + 1) /\ Len(sections') = n + 1
      /\ sections' \in Seq(Range(sections'))
      /\ \A k \in 1..n : sections'[k] = sections[k] /\ sections[k].header \in 1..Len(input)
      /\ sections'[n + 1] = Section(l)
  <2>1. sections \in Seq(Range(sections)) /\ n \in Nat \ {0}
        /\ \A k \in 1..n : sections[k].header \in 1..Len(input)
    BY <1>1, <1>2, InsideFacts
  <2>2. /\ DOMAIN sections' = 1..(n + 1) /\ Len(sections') = n + 1
        /\ \A k \in 1..n : sections'[k] = sections[k]
        /\ sections'[n + 1] = Section(l)
    BY <1>3, <2>1
  <2>3. sections' \in Seq(Range(sections) \cup {Section(l)})
    BY <1>3, <2>1, SeqMonotonic, AppendProperties
  <2>4. sections' \in Seq(Range(sections'))
    BY <2>3, SeqOfRange
  <2> QED
    BY <2>1, <2>2, <2>4
<1>6. RegionStart' = RegionStart
  BY <1>5 DEF RegionStart
<1>7. WidthInv' /\ RegionsInv' /\ CoveredInv'
  BY <1>1, <1>2, <1>6, FrameInside
<1>8. /\ Here = Len(input) + 1 /\ Len(input) \in Nat /\ RegionStart \in 1..Len(input)
      /\ \A m \in 1..Len(input) : input'[m] = input[m]
      /\ input'[Here] = l /\ Len(input') = Here /\ DOMAIN input' = 1..Here
      /\ DOMAIN input = 1..Len(input)
  BY <1>1, <1>2, InsideFacts
<1>9. SequencesInv'
  <2>1. given' = given /\ Alphabet' = Alphabet
    BY <1>1 DEF Reads, Alphabet
  <2>2. \A k \in DOMAIN sections' : sections'[k].header \in 1..Here
    BY <1>4, <1>5, <1>8
  <2>3. \A k \in DOMAIN regions : {regions[k].first, regions[k].last} \subseteq 1..Here
    BY <1>8 DEF SequencesInv
  <2>4. ahead' \in Seq(Alphabet) /\ input' \in Seq(Alphabet)
    BY <1>1, ReadsType
  <2> QED
    BY <1>1, <1>5, <1>8, <2>1, <2>2, <2>3, <2>4 DEF SequencesInv
<1>10. TypeOK'
  <2>1. more' \in 0..given'.more
    BY <1>1, MoreType
  <2>2. ValidDocument'
    BY <1>1, <1>8 DEF TypeOK, ValidDocument, SequencesInv
  <2>3. sections' # <<>>
    BY <1>5
  <2> QED
    BY <1>1, <2>1, <2>2, <2>3 DEF TypeOK
<1>11. SectionsInv'
  <2>1. /\ Run(input'[RegionStart], "<") = width
        /\ n + 1 >= 2 /\ sections'[2].header = RegionStart + 1
        /\ input'[RegionStart + 1].kind = "+"
    <3>1. Run(input'[RegionStart], "<") = width
      BY <1>2, <1>1, <1>8 DEF SectionsInv
    <3>2. CASE at = "opened"
      <4>1. n = 1 /\ RegionStart = Len(input)
        BY <1>1, <3>2 DEF SectionsInv
      <4>2. sections'[2].header = Here /\ l.kind = "+"
        BY <1>4, <1>5, <3>2, <4>1
      <4> QED
        BY <1>8, <3>1, <4>1, <4>2
    <3>3. CASE at = "inside"
      BY <1>1, <1>5, <1>8, <3>1, <3>3 DEF SectionsInv
    <3> QED
      BY <1>2, <3>2, <3>3
  <2>2. ASSUME NEW k \in 2..(n + 1), NEW h, h = sections'[k].header
        PROVE  /\ \A j \in 1..(k - 1) : sections'[j].header < h
               /\ input'[h].kind \in {"+", "-"} /\ input'[h].width = width
               /\ sections'[k].kind = IF input'[h].kind = "+" THEN "side" ELSE "base"
               /\ sections'[k].label = input'[h].rest
    <3>1. CASE k = n + 1
      BY <1>4, <1>5, <1>8, <2>2, <3>1
    <3>2. CASE k # n + 1
      <4>1. k \in 2..n /\ sections'[k] = sections[k] /\ h = sections[k].header
            /\ h \in 1..Len(input) /\ input'[h] = input[h]
            /\ \A j \in 1..(k - 1) : sections'[j] = sections[j]
        BY <1>5, <1>8, <2>2, <3>2
      <4> QED
        BY <1>1, <1>2, <4>1 DEF SectionsInv
    <3> QED
      BY <3>1, <3>2
  <2>3. ASSUME NEW i \in (RegionStart + 1)..Here,
               input'[i].kind \in Markers, input'[i].width >= width
        PROVE  i \in HeaderLines'
    <3>1. CASE i = Here
      BY <1>4, <1>5, <3>1 DEF HeaderLines
    <3>2. ASSUME i # Here
          PROVE  i \in HeaderLines'
      <4>1. i \in (RegionStart + 1)..Len(input) /\ input'[i] = input[i]
        BY <1>8, <3>2
      <4>2. i \in HeaderLines
        BY <1>1, <1>2, <2>3, <4>1 DEF SectionsInv
      <4>3. PICK k \in 2..n : i = sections[k].header
        BY <4>2 DEF HeaderLines
      <4>4. k \in 2..Len(sections') /\ i = sections'[k].header
        BY <1>5, <4>3
      <4> QED
        BY <4>4 DEF HeaderLines
    <3> QED
      BY <3>1, <3>2
  <2> HIDE DEF IInv
  <2>4. Len(input') = Here /\ Len(sections') = n + 1 /\ at' = "inside" /\ width' = width
    BY <1>1, <1>5, <1>8
  <2> QED
    BY <1>6, <2>1, <2>2, <2>3, <2>4 DEF SectionsInv
<1> QED
  BY <1>1, <1>7, <1>9, <1>10, <1>11

\* The lines of the headers of the conflict that is being read.
Ordered == [k \in 1..(Len(sections) - 1) |-> sections[k + 1].header]

LEMMA HeadersInOrder ==
  ASSUME IInv, outcome = "reading", at = "inside", NEW l, Reads(l),
         NEW doc, Extends(doc, input)
  PROVE  /\ Len(sections) - 1 \in Nat /\ Len(sections) >= 2
         /\ Ordered \in [1..(Len(sections) - 1) -> Int]
         /\ \A a, b \in 1..(Len(sections) - 1) : a < b => Ordered[a] < Ordered[b]
         /\ \A a \in 1..(Len(sections) - 1) : Ordered[a] \in (RegionStart + 1)..Len(input)
         /\ Headers(doc, RegionStart, Here, width) =
              {Ordered[k] : k \in 1..(Len(sections) - 1)}
         /\ HeaderLines = {Ordered[k] : k \in 1..(Len(sections) - 1)}
<1> USE DEF IInv
<1> DEFINE n == Len(sections) - 1
<1>1. /\ Len(sections) \in Nat \ {0} /\ RegionStart \in 1..Len(input)
      /\ Len(input) \in Nat /\ Here = Len(input) + 1 /\ width \in Nat
      /\ \A k \in 1..Len(sections) : sections[k].header \in 1..Len(input)
  BY InsideFacts
<1>2. n \in Nat /\ Len(sections) >= 2
  BY <1>1 DEF SectionsInv
<1>3. \A k \in 1..n : Ordered[k] = sections[k + 1].header /\ Ordered[k] \in 1..Len(input)
  BY <1>1, <1>2 DEF Ordered
<1>4. Ordered \in [1..n -> Int]
  BY <1>1, <1>3 DEF Ordered
<1>5. \A k \in 2..Len(sections) : \A j \in 1..(k - 1) : sections[j].header < sections[k].header
  BY DEF SectionsInv
<1>6. \A a, b \in 1..n : a < b => Ordered[a] < Ordered[b]
  BY <1>2, <1>3, <1>5, SMTT(20)
<1>7. \A a \in 1..n : Ordered[a] \in (RegionStart + 1)..Len(input)
  BY <1>1, <1>2, <1>3, <1>5 DEF RegionStart
<1>8. HeaderLines = {Ordered[k] : k \in 1..n}
  <2>1. \A k \in 2..Len(sections) : k - 1 \in 1..n /\ sections[k].header = Ordered[k - 1]
    BY <1>1, <1>2, <1>3
  <2>2. \A k \in 1..n : k + 1 \in 2..Len(sections) /\ sections[k + 1].header = Ordered[k]
    BY <1>1, <1>2, <1>3
  <2> QED
    BY <2>1, <2>2 DEF HeaderLines
<1>9. Headers(doc, RegionStart, Here, width) = HeaderLines
  <2>1. Headers(doc, RegionStart, Here, width) = Headers(input, RegionStart, Here, width)
    BY <1>1, SameHeaders
  <2>2. ASSUME NEW i \in Headers(input, RegionStart, Here, width)
        PROVE  i \in HeaderLines
    <3>1. i \in (RegionStart + 1)..Len(input) /\ input[i].kind \in Markers /\ input[i].width >= width
      BY <1>1, <2>2 DEF Headers, Markers
    <3> QED
      BY <3>1 DEF SectionsInv
  <2>3. ASSUME NEW i \in HeaderLines
        PROVE  i \in Headers(input, RegionStart, Here, width)
    <3>1. PICK k \in 2..Len(sections) : i = sections[k].header
      BY <2>3 DEF HeaderLines
    <3>2. input[i].kind \in {"+", "-"} /\ input[i].width = width
      BY <3>1 DEF SectionsInv
    <3>3. i \in (RegionStart + 1)..(Here - 1)
      BY <1>1, <1>7, <1>8, <2>3
    <3> QED
      BY <1>1, <3>2, <3>3 DEF Headers
  <2> QED
    BY <2>1, <2>2, <2>3
<1> QED
  BY <1>2, <1>4, <1>6, <1>7, <1>8, <1>9

\* A conflict that ends at the line that comes next.
LEMMA ClosedConflict ==
  ASSUME IInv, NEW l, CloseRegion(l)
  PROVE  IsConflict(input', RegionStart, Here, width)
<1> USE DEF IInv
<1> DEFINE n == Len(sections) - 1
           H == {Ordered[k] : k \in 1..n}
<1>1. Reads(l) /\ outcome = "reading" /\ at = "inside" /\ Extends(input', input)
  BY ReadsType DEF CloseRegion, Reads, Closing
<1>2. /\ n \in Nat /\ Ordered \in [1..n -> Int]
      /\ \A a, b \in 1..n : a < b => Ordered[a] < Ordered[b]
      /\ \A a \in 1..n : Ordered[a] \in (RegionStart + 1)..Len(input)
      /\ Headers(input', RegionStart, Here, width) = H /\ HeaderLines = H
  BY <1>1, HeadersInOrder
<1>3. /\ Here = Len(input) + 1 /\ Len(input) \in Nat /\ RegionStart \in 1..Len(input)
      /\ \A m \in 1..Len(input) : input'[m] = input[m]
      /\ input'[Here] = l
  BY <1>1, InsideFacts
<1>4. Run(input'[RegionStart], "<") = width /\ Run(input'[Here], ">") = width
  BY <1>1, <1>3 DEF SectionsInv, CloseRegion, Closing
<1>5. Len(sections) >= 3 /\ Len(sections) \in Nat
  BY <1>1, InsideFacts DEF CloseRegion, Enough
<1>6. Cardinality(H) = n /\ n >= 2
  BY <1>2, <1>5, Counting, SMTT(20)
<1>7. RegionStart + 1 \in H /\ input'[RegionStart + 1].kind = "+"
  <2>1. sections[2].header = RegionStart + 1 /\ input[RegionStart + 1].kind = "+"
    BY <1>1 DEF SectionsInv
  <2>2. RegionStart + 1 \in HeaderLines
    BY <1>5, <2>1 DEF HeaderLines
  <2>3. RegionStart + 1 \in 1..Len(input)
    BY <1>2, <1>3, <2>2
  <2> QED
    BY <1>2, <1>3, <2>1, <2>2, <2>3
<1>8. ASSUME NEW h \in H
      PROVE  input'[h].width = width /\ input'[h].rest # NotUtf8
  <2>1. PICK k \in 2..Len(sections) : h = sections[k].header
    BY <1>2 DEF HeaderLines
  <2>2. input[h].width = width /\ sections[k].label = input[h].rest
    BY <1>1, <2>1 DEF SectionsInv
  <2>3. h \in 1..Len(input)
    BY <1>2, <1>3
  <2>4. sections[k].label # NotUtf8
    <3>1. sections \in Seq(Range(sections)) /\ sections # <<>>
      BY <1>5 DEF SequencesInv
    <3>2. k - 1 \in DOMAIN Tail(sections) /\ Tail(sections)[k - 1] = sections[k]
      BY <1>5, <3>1, HeadTailProperties
    <3> QED
      BY <3>2 DEF CloseRegion
  <2> QED
    BY <1>3, <2>2, <2>3, <2>4
<1>9. ASSUME NEW k \in (RegionStart + 1)..(Here - 1),
             input'[k].kind \in Markers, input'[k].width >= width
      PROVE  k \in H
  <2>1. k \in (RegionStart + 1)..Len(input) /\ input'[k] = input[k]
    BY <1>3
  <2> QED
    BY <1>1, <1>2, <1>9, <2>1 DEF SectionsInv
<1> QED
  BY <1>2, <1>4, <1>6, <1>7, <1>8, <1>9 DEF IsConflict

\* The conflict that is recorded holds what its lines declare.
LEMMA ClosedTerms ==
  ASSUME IInv, NEW l, CloseRegion(l)
  PROVE  \E r : /\ regions' = Append(regions, r)
                /\ r.first = RegionStart /\ r.last = Here
                /\ Len(r.terms) >= 2 /\ r.terms # <<>>
                /\ Declares(input', RegionStart, Here, width, r.terms)
<1> USE DEF IInv
<1> DEFINE n == Len(sections) - 1
           headers == Tail(sections)
           end(k) == IF k = Len(headers) THEN Here ELSE headers[k + 1].header
           terms == [k \in DOMAIN headers |-> Term(headers[k], end(k), l.eol = NoEol)]
           r == [first |-> Head(sections).header, last |-> Here, terms |-> terms]
<1>1. Reads(l) /\ outcome = "reading" /\ at = "inside" /\ Extends(input', input)
  BY ReadsType DEF CloseRegion, Reads, Closing
<1>2. regions' = Append(regions, r)
  BY DEF CloseRegion
<1>3. /\ n \in Nat /\ Ordered \in [1..n -> Int]
      /\ \A a, b \in 1..n : a < b => Ordered[a] < Ordered[b]
      /\ \A a \in 1..n : Ordered[a] \in (RegionStart + 1)..Len(input)
      /\ Headers(input', RegionStart, Here, width) = {Ordered[k] : k \in 1..n}
  BY <1>1, HeadersInOrder
<1>4. /\ Here = Len(input) + 1 /\ Len(input) \in Nat /\ RegionStart \in 1..Len(input)
      /\ \A m \in 1..Len(input) : input'[m] = input[m]
      /\ input'[Here] = l
  BY <1>1, InsideFacts
<1>5. Len(sections) >= 3 /\ Len(sections) \in Nat /\ sections \in Seq(Range(sections))
  BY <1>1, InsideFacts DEF CloseRegion, Enough
<1>6. /\ Len(headers) = n /\ DOMAIN headers = 1..n /\ n >= 2
      /\ \A k \in 1..n : headers[k] = sections[k + 1]
      /\ Head(sections) = sections[1]
  BY <1>5, HeadTailProperties
<1>7. \A k \in 1..n : headers[k].header = Ordered[k]
  BY <1>6 DEF Ordered
<1>8. DOMAIN terms = 1..n /\ Len(terms) = n
  BY <1>3, <1>6
<1>9. ASSUME NEW k \in 1..n
      PROVE  terms[k] =
               [kind |-> IF input'[Ordered[k]].kind = "+" THEN "side" ELSE "base",
                label |-> input'[Ordered[k]].rest, synthetic |-> input'[Here].eol = NoEol,
                bytes |-> Logical(SubSeq(input', Ordered[k] + 1,
                                         (IF k = n THEN Here ELSE Ordered[k + 1]) - 1),
                                  input'[Here].eol = NoEol)]
  <2> DEFINE m == (IF k = n THEN Here ELSE Ordered[k + 1]) - 1
  <2>1. end(k) - 1 = m
    BY <1>3, <1>6, <1>7
  <2>2. m \in 0..Len(input)
    <3>1. CASE k = n
      BY <1>4, <3>1
    <3>2. CASE k # n
      <4>1. k + 1 \in 1..n
        BY <1>3, <3>2
      <4>2. Ordered[k + 1] \in (RegionStart + 1)..Len(input)
        BY <1>3, <4>1
      <4> QED
        BY <1>4, <3>2, <4>2
    <3> QED
      BY <3>1, <3>2
  <2>3. Ordered[k] \in 1..Len(input) /\ Ordered[k] + 1 \in Nat \ {0}
    BY <1>3, <1>4
  <2>4. SubSeq(input', Ordered[k] + 1, m) = SubSeq(input, Ordered[k] + 1, m)
    BY <1>1, <2>2, <2>3, SameSubSeq
  <2>5. /\ headers[k].kind = IF input'[Ordered[k]].kind = "+" THEN "side" ELSE "base"
        /\ headers[k].label = input'[Ordered[k]].rest
    <3>1. k + 1 \in 2..Len(sections)
      BY <1>3
    <3>2. /\ sections[k + 1].kind =
               IF input[sections[k + 1].header].kind = "+" THEN "side" ELSE "base"
          /\ sections[k + 1].label = input[sections[k + 1].header].rest
      BY <1>1, <3>1 DEF SectionsInv
    <3>3. /\ sections[k + 1].header = Ordered[k] /\ headers[k] = sections[k + 1]
          /\ input'[Ordered[k]] = input[Ordered[k]]
      BY <1>4, <1>6, <1>7, <2>3
    <3> HIDE DEF headers
    <3> QED
      BY <3>2, <3>3
  <2>6. terms[k] = Term(headers[k], end(k), l.eol = NoEol)
    BY <1>8
  <2> HIDE DEF headers, end, terms, m
  <2>7. Term(headers[k], end(k), l.eol = NoEol) =
          [kind |-> headers[k].kind, label |-> headers[k].label,
           synthetic |-> l.eol = NoEol,
           bytes |-> Logical(SubSeq(input, headers[k].header + 1, end(k) - 1), l.eol = NoEol)]
    BY DEF Term
  <2>8. SubSeq(input, headers[k].header + 1, end(k) - 1) = SubSeq(input', Ordered[k] + 1, m)
    BY <1>7, <2>1, <2>4
  <2>9. terms[k] =
          [kind |-> IF input'[Ordered[k]].kind = "+" THEN "side" ELSE "base",
           label |-> input'[Ordered[k]].rest, synthetic |-> input'[Here].eol = NoEol,
           bytes |-> Logical(SubSeq(input', Ordered[k] + 1, m), input'[Here].eol = NoEol)]
    BY <1>4, <2>5, <2>6, <2>7, <2>8
  <2> QED
    BY <2>9 DEF m
<1>10. r.first = RegionStart /\ r.last = Here /\ r.terms = terms
  BY <1>6 DEF RegionStart
<1> HIDE DEF terms, r
<1>11. Declares(input', RegionStart, Here, width, terms)
  <2>1. RegionStart \in Nat /\ Here \in Nat
    BY <1>4
  <2> QED
    BY <1>3, <1>8, <1>9, <2>1, DeclaresInOrder
<1>12. Len(terms) >= 2 /\ terms # <<>>
  BY <1>6, <1>8
<1> QED
  BY <1>2, <1>10, <1>11, <1>12

LEMMA CloseRegionInv ==
  ASSUME IInv, NEW l, CloseRegion(l)
  PROVE  IInv'
<1> USE DEF IInv
<1> DEFINE n == Len(regions)
<1>1. /\ Reads(l) /\ outcome = "reading" /\ outcome' = outcome /\ at = "inside"
      /\ at' = "outside" /\ sections' = <<>> /\ width' = width
  BY DEF CloseRegion, Reads, Closing
<1>2. PICK r : /\ regions' = Append(regions, r)
               /\ r.first = RegionStart /\ r.last = Here
               /\ Len(r.terms) >= 2 /\ r.terms # <<>>
               /\ Declares(input', RegionStart, Here, width, r.terms)
  BY ClosedTerms
<1>3. IsConflict(input', RegionStart, Here, width)
  BY ClosedConflict
<1>4. /\ Here = Len(input) + 1 /\ Len(input) \in Nat /\ RegionStart \in 1..Len(input)
      /\ \A m \in 1..Len(input) : input'[m] = input[m]
      /\ input'[Here] = l /\ Len(input') = Here /\ DOMAIN input' = 1..Here
      /\ DOMAIN input = 1..Len(input) /\ width > 0 /\ width \in Nat
  BY <1>1, InsideFacts
<1>5. /\ n \in Nat /\ DOMAIN regions = 1..n
      /\ DOMAIN regions' = 1..(n + 1) /\ Len(regions') = n + 1
      /\ regions' \in Seq(Range(regions'))
      /\ \A k \in 1..n : regions'[k] = regions[k]
      /\ regions'[n + 1] = r
  <2>1. regions \in Seq(Range(regions)) /\ n \in Nat /\ DOMAIN regions = 1..n
    BY DEF SequencesInv
  <2>2. /\ DOMAIN regions' = 1..(n + 1) /\ Len(regions') = n + 1
        /\ \A k \in 1..n : regions'[k] = regions[k]
        /\ regions'[n + 1] = r
    BY <1>2, <2>1
  <2>3. regions' \in Seq(Range(regions) \cup {r})
    BY <1>2, <2>1, SeqMonotonic, AppendProperties
  <2> QED
    BY <2>1, <2>2, <2>3, SeqOfRange
<1>6. ASSUME NEW k \in 1..n
      PROVE  /\ {regions[k].first, regions[k].last} \subseteq 1..Len(input)
             /\ regions[k].last < RegionStart
             /\ IsConflict(input', regions[k].first, regions[k].last, width)
             /\ Declares(input', regions[k].first, regions[k].last, width, regions[k].terms)
             /\ \A j \in 1..(k - 1) : regions[j].last < regions[k].first
  <2>1. {regions[k].first, regions[k].last} \subseteq 1..Len(input)
    BY <1>4, <1>5 DEF SequencesInv
  <2>2. /\ regions[k].last < RegionStart
        /\ \A j \in 1..(k - 1) : regions[j].last < regions[k].first
    BY <1>1, <1>5 DEF RegionsInv
  <2> QED
    BY <1>1, <1>5, <2>1, <2>2, RegionsRead
<1>7. SequencesInv'
  <2>1. given' = given /\ Alphabet' = Alphabet
    BY <1>1 DEF Reads, Alphabet
  <2>2. sections' \in Seq(Range(sections')) /\ DOMAIN sections' = {}
    BY <1>1
  <2>3. \A k \in 1..(n + 1) : {regions'[k].first, regions'[k].last} \subseteq 1..Here
    BY <1>2, <1>4, <1>5, <1>6
  <2>4. ahead' \in Seq(Alphabet) /\ input' \in Seq(Alphabet)
    BY <1>1, ReadsType
  <2> QED
    BY <1>1, <1>4, <1>5, <2>1, <2>2, <2>3, <2>4 DEF SequencesInv
<1>8. TypeOK'
  <2>1. more' \in 0..given'.more
    BY <1>1, MoreType
  <2>2. ASSUME NEW k \in 1..(n + 1)
        PROVE  /\ regions'[k].first < regions'[k].last /\ regions'[k].last <= Here
               /\ k > 1 => regions'[k - 1].last < regions'[k].first
               /\ regions'[k].terms # <<>> /\ Len(regions'[k].terms) >= 2
    <3>1. CASE k = n + 1
      <4>1. regions'[k] = r
        BY <1>5, <3>1
      <4>2. k > 1 => k - 1 \in 1..n /\ regions'[k - 1] = regions[k - 1]
        BY <1>5, <3>1
      <4> QED
        BY <1>2, <1>4, <1>6, <4>1, <4>2
    <3>2. CASE k # n + 1
      <4>1. k \in 1..n /\ regions'[k] = regions[k]
        BY <1>5, <3>2
      <4>2. k > 1 => k - 1 \in 1..n /\ regions'[k - 1] = regions[k - 1]
        BY <1>5, <4>1
      <4>3. /\ regions[k].first < regions[k].last /\ regions[k].last <= Len(input)
            /\ k > 1 => regions[k - 1].last < regions[k].first
            /\ regions[k].terms # <<>> /\ Len(regions[k].terms) >= 2
        BY <1>5, <4>1 DEF TypeOK, ValidDocument
      <4>4. regions[k].last \in Nat
        BY <1>4, <1>6, <4>1
      <4> QED
        BY <1>4, <4>1, <4>2, <4>3, <4>4
    <3> QED
      BY <3>1, <3>2
  <2>3. ASSUME NEW k \in 1..(n + 1)
        PROVE  regions'[k].first <= regions'[k].last
    <3>1. {regions'[k].first, regions'[k].last} \subseteq 1..Here
      BY <1>4, <1>5, <1>7 DEF SequencesInv
    <3> QED
      BY <1>4, <2>2, <3>1
  <2>4. ValidDocument'
    BY <1>4, <1>5, <2>2, <2>3 DEF ValidDocument
  <2>5. width' = 0 \/ width' >= MinMarkerWidth
    BY <1>1 DEF TypeOK
  <2> HIDE DEF IInv
  <2> QED
    BY <1>1, <1>5, <2>1, <2>2, <2>4, <2>5 DEF TypeOK
<1>9. RegionsInv'
  <2>1. ASSUME NEW k \in 1..(n + 1)
        PROVE  /\ IsConflict(input', regions'[k].first, regions'[k].last, width)
               /\ Declares(input', regions'[k].first, regions'[k].last, width, regions'[k].terms)
               /\ \A j \in 1..(k - 1) : regions'[j].last < regions'[k].first
    <3>1. CASE k = n + 1
      BY <1>2, <1>3, <1>5, <1>6, <3>1
    <3>2. CASE k # n + 1
      <4>1. k \in 1..n /\ regions'[k] = regions[k]
            /\ \A j \in 1..(k - 1) : regions'[j] = regions[j]
        BY <1>5, <3>2
      <4> QED
        BY <1>6, <4>1
    <3> QED
      BY <3>1, <3>2
  <2> HIDE DEF IInv
  <2> QED
    BY <1>1, <1>5, <2>1 DEF RegionsInv
<1>10. /\ Openings(input) \subseteq 1..Len(input)
       /\ Openings(input') = Openings(input)
  <2>1. Run(l, "<") = 0
    BY <1>4, <1>1 DEF CloseRegion, Closing, Run
  <2> QED
    BY <1>1, <2>1, OpeningsRead, GrammarAssumption
<1>11. WidthInv'
  BY <1>1, <1>4, <1>10 DEF WidthInv
<1>12. CoveredInv'
  <2> SUFFICES ASSUME NEW i \in Openings(input)
               PROVE  \E k \in 1..(n + 1) : i \in regions'[k].first..regions'[k].last
    BY <1>5, <1>10 DEF CoveredInv
  <2>1. CASE RegionStart <= i
    BY <1>2, <1>4, <1>5, <1>10, <2>1
  <2>2. ASSUME NEW k \in 1..n, i \in regions[k].first..regions[k].last
        PROVE  \E m \in 1..(n + 1) : i \in regions'[m].first..regions'[m].last
    BY <1>5, <2>2
  <2> QED
    BY <1>1, <1>5, <2>1, <2>2 DEF CoveredInv
<1>13. SectionsInv'
  BY <1>1 DEF SectionsInv
<1> QED
  BY <1>1, <1>7, <1>8, <1>9, <1>11, <1>12, <1>13

LEMMA RefuseInv ==
  ASSUME IInv, NEW l, NEW why \in {"invalid", "unsupported-style"}, Refuse(l, why)
  PROVE  IInv'
<1> USE DEF IInv
<1>1. Reads(l) /\ outcome' = why /\ UNCHANGED <<width, at, sections, regions>>
  BY DEF Refuse
<1>2. ValidDocument' /\ more' \in 0..given'.more /\ SequencesInv'
  BY <1>1, FrameTypes
<1>3. TypeOK'
  BY <1>1, <1>2 DEF TypeOK
<1> QED
  BY <1>1, <1>2, <1>3

LEMMA EndOfInputInv ==
  ASSUME IInv, EndOfInput
  PROVE  IInv'
<1> USE DEF IInv
<1>1. /\ outcome = "reading" /\ UNCHANGED <<given, input, ahead, more, width, at, sections, regions>>
      /\ outcome' = IF at # "outside" THEN "unterminated"
                    ELSE IF width = 0 THEN "no-conflict" ELSE "parsed"
  BY DEF EndOfInput, TypeOK
<1>2. TypeOK'
  BY <1>1 DEF TypeOK, ValidDocument
<1>3. SequencesInv' /\ WidthInv' /\ RegionsInv' /\ CoveredInv' /\ SectionsInv'
  <2>1. SequencesInv'
    BY <1>1 DEF SequencesInv, Alphabet
  <2>2. RegionStart' = RegionStart /\ HeaderLines' = HeaderLines
    BY <1>1 DEF RegionStart, HeaderLines
  <2>3. WidthInv' /\ RegionsInv' /\ CoveredInv' /\ SectionsInv'
    BY <1>1, <2>2 DEF WidthInv, RegionsInv, CoveredInv, SectionsInv
  <2> QED
    BY <2>1, <2>3
<1> QED
  BY <1>1, <1>2, <1>3

LEMMA StutterInv ==
  ASSUME IInv, UNCHANGED vars
  PROVE  IInv'
<1> USE DEF IInv
<1>1. TypeOK'
  BY DEF TypeOK, ValidDocument, vars
<1>2. SequencesInv'
  BY DEF SequencesInv, Alphabet, vars
<1>3. RegionStart' = RegionStart /\ HeaderLines' = HeaderLines
  BY DEF RegionStart, HeaderLines, vars
<1>4. (WidthInv' <=> WidthInv) /\ (RegionsInv' <=> RegionsInv)
      /\ (CoveredInv' <=> CoveredInv) /\ (SectionsInv' <=> SectionsInv)
  BY <1>3 DEF WidthInv, RegionsInv, CoveredInv, SectionsInv, vars
<1> QED
  BY <1>1, <1>2, <1>4 DEF vars

LEMMA StepInv == IInv /\ [Next]_vars => IInv'
<1> SUFFICES ASSUME IInv, [Next]_vars PROVE IInv'
  OBVIOUS
<1>1. ASSUME NEW l, ReadOutside(l)                   PROVE IInv'  BY <1>1, ReadOutsideInv
<1>2. ASSUME NEW l, OpenRegion(l)                    PROVE IInv'  BY <1>2, OpenRegionInv
<1>3. ASSUME NEW l, OpenWithOtherWidth(l)            PROVE IInv'
  BY <1>3, RefuseInv DEF OpenWithOtherWidth
<1>4. ASSUME NEW l, StartSection(l)                  PROVE IInv'  BY <1>4, StartSectionInv
<1>5. ASSUME NEW l, ReadPayload(l)                   PROVE IInv'  BY <1>5, ReadPayloadInv
<1>6. ASSUME NEW l, CloseRegion(l)                   PROVE IInv'  BY <1>6, CloseRegionInv
<1>7. ASSUME NEW l, CloseTooSoon(l)                  PROVE IInv'
  BY <1>7, RefuseInv DEF CloseTooSoon
<1>8. ASSUME NEW l, RefuseStyle(l) \/ RefuseLine(l)  PROVE IInv'
  BY <1>8, RefuseInv DEF RefuseStyle, RefuseLine
<1>9. CASE EndOfInput                                BY <1>9, EndOfInputInv
<1>10. CASE UNCHANGED vars                           BY <1>10, StutterInv
<1> QED
  BY <1>1, <1>2, <1>3, <1>4, <1>5, <1>6, <1>7, <1>8, <1>9, <1>10 DEF Next

LEMMA Invariant == Spec => []IInv
BY InitInv, StepInv, PTL DEF Spec

(***************************************************************************)
(* The types of the parser's variables; the conflicts read are ordered and *)
(* disjoint, with two terms at least (ParsedDocument::validate).           *)
(***************************************************************************)
THEOREM TypeCorrect == Spec => []TypeOK
<1>1. IInv => TypeOK
  BY DEF IInv
<1> QED
  BY <1>1, Invariant, PTL

LEMMA WidthIs ==
  ASSUME IInv, outcome \notin {"invalid", "unsupported-style"}, width # 0,
         NEW doc, Extends(doc, input)
  PROVE  WidthOf(doc) = width /\ Openings(input) # {} /\ Openings(doc) # {}
<1> USE DEF IInv
<1>1. PICK i \in Openings(input) : input[i].width = width /\ \A j \in Openings(input) : i <= j
  BY DEF WidthInv
<1>2. i \in DOMAIN input /\ i \in Openings(doc) /\ doc[i] = input[i] /\ DOMAIN input = 1..Len(input)
  BY DEF Openings, Extends
<1>3. Openings(doc) \in SUBSET Int
  BY DEF Openings, Extends
<1>4. ASSUME NEW j \in Openings(doc)
      PROVE  i <= j
  <2>1. CASE j <= Len(input)
    <3>1. j \in Openings(input)
      BY <1>4, <2>1 DEF Openings, Extends
    <3> QED
      BY <1>1, <3>1
  <2>2. CASE ~(j <= Len(input))
    BY <1>2, <1>3, <2>2 DEF Extends
  <2> QED
    BY <2>1, <2>2
<1>5. Min(Openings(doc)) = i
  BY <1>2, <1>3, <1>4, MinIs
<1> QED
  BY <1>1, <1>2, <1>5 DEF WidthOf

LEMMA Declared ==
  ASSUME IInv
  PROVE  ParsedAsDeclared
<1> USE DEF IInv
<1>1. outcome = "no-conflict" => Openings(input) = {}
  BY DEF WidthInv
<1>2. ASSUME outcome = "parsed"
      PROVE  LET w == WidthOf(input) IN
             /\ Openings(input) # {} /\ AreConflicts(input, w, Ranges)
             /\ \A k \in DOMAIN regions :
                  Declares(input, regions[k].first, regions[k].last, w, regions[k].terms)
  <2>1. Extends(input, input)
    BY DEF SequencesInv, Extends
  <2>2. WidthOf(input) = width /\ Openings(input) # {}
    BY <1>2, <2>1, WidthIs
  <2>3. Ranges \in Seq([first : DOMAIN input, last : DOMAIN input])
    <3>1. regions \in Seq(Range(regions))
      BY DEF SequencesInv
    <3>2. Len(regions) \in Nat /\ DOMAIN regions = 1..Len(regions)
      BY <3>1
    <3>3. Ranges \in [1..Len(regions) -> [first : DOMAIN input, last : DOMAIN input]]
      BY <3>2 DEF Ranges, SequencesInv
    <3> QED
      BY <3>2, <3>3, SeqDef
  <2>4. /\ DOMAIN Ranges = DOMAIN regions
        /\ \A k \in DOMAIN regions :
             Ranges[k].first = regions[k].first /\ Ranges[k].last = regions[k].last
    BY DEF Ranges
  <2>5. \A k \in DOMAIN regions : k \in 1..Len(regions) /\ \A j \in 1..(k - 1) : j \in DOMAIN regions
    BY DEF SequencesInv
  <2>6. \A k \in DOMAIN regions : regions[k].first < regions[k].last
    BY DEF TypeOK
  <2>7. \A i \in Openings(input) :
           \E k \in DOMAIN regions : i \in regions[k].first..regions[k].last
    BY <1>2 DEF CoveredInv
  <2>8. \A k \in DOMAIN regions :
           /\ IsConflict(input, regions[k].first, regions[k].last, width)
           /\ Declares(input, regions[k].first, regions[k].last, width, regions[k].terms)
           /\ \A j \in 1..(k - 1) : regions[j].last < regions[k].first
    BY <1>2 DEF RegionsInv
  <2>9. AreConflicts(input, width, Ranges)
    BY <2>3, <2>4, <2>5, <2>6, <2>7, <2>8 DEF AreConflicts
  <2> QED
    BY <2>2, <2>8, <2>9
<1> QED
  BY <1>1, <1>2 DEF ParsedAsDeclared

(***************************************************************************)
(* Whatever the lines: when the parser accepts a document, its conflicts   *)
(* are the conflicts of the grammar, none is missed, and their terms hold  *)
(* the kinds, labels and bytes that their lines declare (parse_snapshot).  *)
(***************************************************************************)
THEOREM ParsedIsDeclared == Spec => []ParsedAsDeclared
<1>1. IInv => ParsedAsDeclared
  BY Declared
<1> QED
  BY <1>1, Invariant, PTL

-------------------------------------------------------------------------------
(* What the lines read say of every document that starts with them.        *)

\* The conflicts of such a document start with the ones that have been read, and
\* then with the one that is being read.
Begun(ranges) ==
  /\ \A k \in DOMAIN regions :
       /\ k \in DOMAIN ranges
       /\ ranges[k].first = regions[k].first /\ ranges[k].last = regions[k].last
  /\ at # "outside" =>
       /\ Len(regions) + 1 \in DOMAIN ranges
       /\ ranges[Len(regions) + 1].first = RegionStart

ForcedInv ==
  outcome = "reading" /\ width # 0 =>
    \A doc, ranges : Extends(doc, input) /\ AreConflicts(doc, width, ranges) => Begun(ranges)

LEMMA RangesType ==
  ASSUME NEW doc, NEW lines, Extends(doc, lines), NEW w, NEW ranges,
         AreConflicts(doc, w, ranges)
  PROVE  /\ Len(ranges) \in Nat /\ DOMAIN ranges = 1..Len(ranges)
         /\ \A k \in DOMAIN ranges :
              /\ ranges[k].first \in 1..Len(doc) /\ ranges[k].last \in 1..Len(doc)
              /\ ranges[k].first < ranges[k].last
         /\ \A k \in DOMAIN ranges : \A j \in 1..(k - 1) : ranges[j].last < ranges[k].first
<1>1. ranges \in Seq([first : DOMAIN doc, last : DOMAIN doc]) /\ DOMAIN doc = 1..Len(doc)
  BY DEF AreConflicts, Extends
<1>2. /\ Len(ranges) \in Nat /\ DOMAIN ranges = 1..Len(ranges)
      /\ \A k \in 1..Len(ranges) : ranges[k] \in [first : DOMAIN doc, last : DOMAIN doc]
  BY <1>1, LenProperties, ElementOfSeq
<1> QED
  BY <1>1, <1>2 DEF AreConflicts

\* An opening marker outside every conflict read is the start of the next one.
LEMMA NextOpens ==
  ASSUME IInv, ForcedInv, outcome = "reading", at = "outside",
         NEW l, Reads(l), Run(l, "<") >= MinMarkerWidth,
         NEW w \in Nat, w >= MinMarkerWidth, width \in {0, w},
         NEW doc, NEW ranges, Extends(doc, input'), AreConflicts(doc, w, ranges)
  PROVE  /\ \A k \in DOMAIN regions :
              /\ k \in DOMAIN ranges
              /\ ranges[k].first = regions[k].first /\ ranges[k].last = regions[k].last
         /\ Len(regions) + 1 \in DOMAIN ranges
         /\ ranges[Len(regions) + 1].first = Here
         /\ l.width = w
<1> USE DEF IInv
<1> DEFINE n == Len(regions)
<1>1. /\ Len(input) \in Nat /\ DOMAIN input = 1..Len(input)
      /\ Here = Len(input) + 1 /\ Len(input') = Here /\ input'[Here] = l
      /\ Extends(doc, input) /\ doc[Here] = l /\ Here \in DOMAIN doc
  <2>1. /\ Extends(input', input) /\ Here = Len(input) + 1 /\ Len(input') = Here
        /\ input'[Here] = l /\ Here \in Nat
    BY ReadsType DEF Here
  <2>2. Extends(doc, input)
    BY <2>1, ExtendsTrans
  <2>3. Len(input) \in Nat /\ DOMAIN input = 1..Len(input)
    BY <2>1 DEF Extends
  <2>4. Here \in 1..Here /\ Here <= Len(doc)
    BY <2>1, <2>3 DEF Extends
  <2>5. doc[Here] = l /\ Here \in DOMAIN doc
    BY <2>1, <2>4 DEF Extends
  <2> QED
    BY <2>1, <2>2, <2>3, <2>5
<1>2. n \in Nat /\ DOMAIN regions = 1..n
  BY DEF SequencesInv
<1>3. ASSUME NEW k \in DOMAIN regions
      PROVE  /\ k \in DOMAIN ranges
             /\ ranges[k].first = regions[k].first /\ ranges[k].last = regions[k].last
             /\ regions[k].last \in 1..Len(input) /\ regions[k].first \in 1..Len(input)
  <2>1. width # 0
    BY DEF WidthInv
  <2>2. Begun(ranges)
    BY <1>1, <2>1 DEF ForcedInv
  <2> QED
    BY <1>1, <2>2 DEF Begun, SequencesInv
<1>4. /\ Len(ranges) \in Nat /\ DOMAIN ranges = 1..Len(ranges)
      /\ \A k \in DOMAIN ranges :
           /\ ranges[k].first \in 1..Len(doc) /\ ranges[k].last \in 1..Len(doc)
           /\ ranges[k].first < ranges[k].last
      /\ \A k \in DOMAIN ranges : \A j \in 1..(k - 1) : ranges[j].last < ranges[k].first
  BY RangesType
<1>5. Here \in Openings(doc)
  BY <1>1 DEF Openings
<1>6. PICK m \in DOMAIN ranges : Here \in ranges[m].first..ranges[m].last
  BY <1>5 DEF AreConflicts
<1>7. m > n
  BY <1>1, <1>2, <1>3, <1>4, <1>6
<1>8. n + 1 \in DOMAIN ranges /\ n + 1 <= m
  BY <1>2, <1>4, <1>7
<1> DEFINE f == ranges[n + 1].first
<1>9. f \in 1..Len(doc) /\ f <= Here
  <2>1. CASE m = n + 1
    BY <1>1, <1>4, <1>6, <2>1
  <2>2. CASE m # n + 1
    <3>1. n + 1 \in 1..(m - 1)
      BY <1>2, <1>4, <1>8, <2>2
    <3>2. ranges[n + 1].last < ranges[m].first
      BY <1>4, <3>1
    <3>3. ranges[m].first <= Here
      BY <1>1, <1>4, <1>6
    <3> QED
      BY <1>1, <1>4, <1>8, <3>2, <3>3
  <2> QED
    BY <2>1, <2>2
<1>10. Run(doc[f], "<") = w
  BY <1>8 DEF AreConflicts, IsConflict
<1>11. f = Here
  <2> SUFFICES ASSUME f < Here PROVE FALSE
    BY <1>1, <1>9
  <2>1. f \in 1..Len(input) /\ doc[f] = input[f]
    BY <1>1, <1>9 DEF Extends
  <2>2. f \in Openings(input)
    BY <1>1, <1>10, <2>1 DEF Openings
  <2>3. PICK k \in DOMAIN regions : f \in regions[k].first..regions[k].last
    BY <2>2 DEF CoveredInv
  <2>4. k \in 1..((n + 1) - 1)
    BY <1>2, <2>3
  <2>5. ranges[k].last < f
    BY <1>4, <1>8, <2>4
  <2> QED
    BY <1>3, <2>1, <2>3, <2>5
<1>12. l.width = w
  <2>1. w > 0
    BY GrammarAssumption
  <2> QED
    BY <1>1, <1>10, <1>11, <2>1 DEF Run
<1> QED
  BY <1>3, <1>8, <1>11, <1>12

\* The conflict that is being read ends after the lines read.
LEMMA EndsLater ==
  ASSUME IInv, ForcedInv, outcome = "reading", at # "outside",
         NEW doc, NEW ranges, Extends(doc, input), AreConflicts(doc, width, ranges)
  PROVE  /\ Begun(ranges)
         /\ Len(regions) + 1 \in DOMAIN ranges
         /\ ranges[Len(regions) + 1].last \in (Len(input) + 1)..Len(doc)
         /\ IsConflict(doc, RegionStart, ranges[Len(regions) + 1].last, width)
<1> USE DEF IInv
<1> DEFINE q == Len(regions) + 1
           e == ranges[q].last
<1>1. /\ width \in Nat /\ width > 0
      /\ Len(input) \in Nat /\ DOMAIN input = 1..Len(input) /\ RegionStart \in 1..Len(input)
  <2>1. width \in Nat /\ width > 0
    BY GrammarAssumption DEF TypeOK, WidthInv, SequencesInv
  <2>2. sections # <<>> /\ sections \in Seq(Range(sections))
    BY DEF TypeOK, SequencesInv
  <2>3. 1 \in DOMAIN sections
    BY <2>2
  <2> QED
    BY <2>1, <2>3 DEF SequencesInv, RegionStart
<1>2. Begun(ranges) /\ q \in DOMAIN ranges /\ ranges[q].first = RegionStart
  BY <1>1 DEF ForcedInv, Begun
<1>3. e \in 1..Len(doc) /\ RegionStart < e
  BY <1>2, RangesType
<1>4. IsConflict(doc, RegionStart, e, width)
  BY <1>2 DEF AreConflicts
<1>5. ~(e <= Len(input))
  <2> SUFFICES ASSUME e <= Len(input) PROVE FALSE
    OBVIOUS
  <2>1. e \in (RegionStart + 1)..Len(input) /\ doc[e] = input[e]
    BY <1>1, <1>3 DEF Extends
  <2>2. input[e].kind = ">" /\ input[e].width = width
    BY <1>1, <1>4, <2>1 DEF IsConflict, Run
  <2>3. input[e].kind \in Markers /\ input[e].width >= width
    BY <1>1, <2>2 DEF Markers
  <2> HIDE DEF e
  <2>4. e \in HeaderLines
    BY <2>1, <2>3 DEF SectionsInv
  <2>5. PICK k \in 2..Len(sections) : e = sections[k].header
    BY <2>4 DEF HeaderLines
  <2>6. input[e].kind \in {"+", "-"}
    BY <2>5 DEF SectionsInv
  <2> QED
    BY <2>2, <2>6
<1> QED
  BY <1>1, <1>2, <1>3, <1>4, <1>5 DEF Extends

\* What the next line may be.
LEMMA NextLine ==
  ASSUME IInv, ForcedInv, outcome = "reading", at # "outside", NEW l, Reads(l),
         NEW doc, NEW ranges, Extends(doc, input'), AreConflicts(doc, width, ranges)
  PROVE  /\ Begun(ranges)
         /\ ranges[Len(regions) + 1].last = Here => Run(l, ">") = width
         /\ ranges[Len(regions) + 1].last # Here =>
              (l.kind \in Markers /\ l.width >= width => l.kind \in {"+", "-"} /\ l.width = width)
         /\ at = "opened" => l.kind = "+" /\ l.width = width
<1> DEFINE e == ranges[Len(regions) + 1].last
           H == Headers(doc, RegionStart, e, width)
<1>1. /\ width \in Nat /\ width > 0
      /\ Len(input) \in Nat /\ RegionStart \in 1..Len(input)
      /\ Here = Len(input) + 1 /\ Len(input') = Here /\ input'[Here] = l
  BY InsideFacts
<1>2. Extends(doc, input) /\ doc[Here] = l /\ Len(doc) \in Nat
  BY <1>1, ReadsType, ExtendsTrans DEF Extends, IInv
<1>3. Begun(ranges) /\ e \in Here..Len(doc) /\ IsConflict(doc, RegionStart, e, width)
  BY <1>1, <1>2, EndsLater
<1>4. e = Here => Run(l, ">") = width
  BY <1>2, <1>3 DEF IsConflict
<1>5. Here \in H => l.kind \in {"+", "-"} /\ l.width = width
  BY <1>2, <1>3 DEF IsConflict, Headers
<1>6. ASSUME e # Here, l.kind \in Markers, l.width >= width
      PROVE  Here \in H
  <2>1. Here \in (RegionStart + 1)..(e - 1)
    BY <1>1, <1>2, <1>3, <1>6
  <2> QED
    BY <1>2, <1>3, <1>6, <2>1 DEF IsConflict
<1>7. ASSUME at = "opened"
      PROVE  l.kind = "+" /\ l.width = width
  <2>1. RegionStart + 1 = Here
    BY <1>1, <1>7 DEF IInv, SectionsInv
  <2> QED
    BY <1>2, <1>3, <1>5, <2>1 DEF IsConflict
<1> QED
  BY <1>3, <1>4, <1>5, <1>6, <1>7

LEMMA ForcedFrame ==
  ASSUME IInv, ForcedInv, NEW l, Reads(l), UNCHANGED <<width, regions>>,
         at' # "outside" <=> at # "outside", at # "outside" => RegionStart' = RegionStart
  PROVE  ForcedInv'
<1> SUFFICES ASSUME width # 0, NEW doc, NEW ranges,
                    Extends(doc, input'), AreConflicts(doc, width, ranges)
             PROVE  Begun(ranges)'
  BY DEF ForcedInv
<1>1. outcome = "reading" /\ Extends(doc, input)
  BY ReadsType, ExtendsTrans DEF IInv, Reads
<1>2. Begun(ranges)
  BY <1>1 DEF ForcedInv
<1> QED
  BY <1>2 DEF Begun

LEMMA ForcedOpen ==
  ASSUME IInv, ForcedInv, NEW l, OpenRegion(l)
  PROVE  ForcedInv'
<1>1. /\ Reads(l) /\ outcome = "reading" /\ at = "outside" /\ regions' = regions
      /\ Run(l, "<") >= MinMarkerWidth /\ width \in {0, l.width} /\ width' = l.width
      /\ sections' = <<[kind |-> "opening", label |-> l.rest, header |-> Here]>>
  BY DEF OpenRegion, Reads
<1>2. l.width \in Nat /\ l.width >= MinMarkerWidth
  BY <1>1, ReadsType, LineType, GrammarAssumption DEF Run, IInv
<1>3. RegionStart' = Here
  BY <1>1 DEF RegionStart
<1> SUFFICES ASSUME NEW doc, NEW ranges,
                    Extends(doc, input'), AreConflicts(doc, l.width, ranges)
             PROVE  Begun(ranges)'
  BY <1>1 DEF ForcedInv
<1>4. /\ \A k \in DOMAIN regions :
           /\ k \in DOMAIN ranges
           /\ ranges[k].first = regions[k].first /\ ranges[k].last = regions[k].last
      /\ Len(regions) + 1 \in DOMAIN ranges
      /\ ranges[Len(regions) + 1].first = Here
  BY <1>1, <1>2, NextOpens
<1> QED
  BY <1>1, <1>3, <1>4 DEF Begun

LEMMA ForcedClose ==
  ASSUME IInv, ForcedInv, NEW l, CloseRegion(l)
  PROVE  ForcedInv'
<1>1. /\ Reads(l) /\ outcome = "reading" /\ at = "inside" /\ width' = width
      /\ at' = "outside"
  BY DEF CloseRegion, Reads, Closing
<1>2. PICK r : regions' = Append(regions, r) /\ r.first = RegionStart /\ r.last = Here
  BY ClosedTerms
<1>3. Len(regions) \in Nat /\ regions \in Seq(Range(regions)) /\ DOMAIN regions = 1..Len(regions)
  BY DEF IInv, SequencesInv
<1>4. l.kind = ">" /\ l.width = width
  BY <1>1, InsideFacts DEF CloseRegion, Closing, Run
<1> SUFFICES ASSUME NEW doc, NEW ranges,
                    Extends(doc, input'), AreConflicts(doc, width, ranges)
             PROVE  Begun(ranges)'
  BY <1>1 DEF ForcedInv
<1>5. width \in Nat
  BY DEF IInv, SequencesInv
<1>6. ranges[Len(regions) + 1].last = Here /\ Begun(ranges)
  BY <1>1, <1>4, <1>5, NextLine DEF Markers
<1>7. /\ DOMAIN regions' = 1..(Len(regions) + 1)
      /\ \A k \in 1..Len(regions) : regions'[k] = regions[k]
      /\ regions'[Len(regions) + 1] = r
  BY <1>2, <1>3
<1>8. ASSUME NEW k \in DOMAIN regions'
      PROVE  /\ k \in DOMAIN ranges
             /\ ranges[k].first = regions'[k].first /\ ranges[k].last = regions'[k].last
  <2>1. CASE k = Len(regions) + 1
    BY <1>1, <1>2, <1>6, <1>7, <2>1 DEF Begun
  <2>2. CASE k # Len(regions) + 1
    <3>1. k \in DOMAIN regions /\ regions'[k] = regions[k]
      BY <1>3, <1>7, <2>2
    <3> QED
      BY <1>6, <3>1 DEF Begun
  <2> QED
    BY <2>1, <2>2
<1> QED
  BY <1>1, <1>8 DEF Begun

LEMMA ForcedStep == IInv /\ ForcedInv /\ [Next]_vars => ForcedInv'
<1> SUFFICES ASSUME IInv, ForcedInv, [Next]_vars PROVE ForcedInv'
  OBVIOUS
<1>1. ASSUME NEW l, ReadOutside(l) \/ ReadPayload(l)
      PROVE  ForcedInv'
  BY <1>1, ForcedFrame DEF ReadOutside, ReadPayload, RegionStart
<1>2. ASSUME NEW l, StartSection(l)
      PROVE  ForcedInv'
  <2>1. at # "outside" /\ at' # "outside" /\ Reads(l) /\ outcome = "reading"
        /\ UNCHANGED <<width, regions>>
    BY <1>2 DEF StartSection, SideFirst, Header, Reads
  <2>2. sections \in Seq(Range(sections)) /\ Len(sections) \in Nat \ {0}
    BY <2>1, InsideFacts
  <2>3. RegionStart' = RegionStart
    BY <1>2, <2>2 DEF StartSection, RegionStart
  <2> QED
    BY <2>1, <2>3, ForcedFrame
<1>3. ASSUME NEW l, OpenRegion(l)   PROVE ForcedInv'  BY <1>3, ForcedOpen
<1>4. ASSUME NEW l, CloseRegion(l)  PROVE ForcedInv'  BY <1>4, ForcedClose
<1>5. ASSUME NEW l, \/ OpenWithOtherWidth(l) \/ CloseTooSoon(l)
                    \/ RefuseStyle(l) \/ RefuseLine(l)
      PROVE  ForcedInv'
  BY <1>5 DEF ForcedInv, OpenWithOtherWidth, CloseTooSoon, RefuseStyle, RefuseLine, Refuse
<1>6. CASE EndOfInput
  BY <1>6 DEF ForcedInv, EndOfInput
<1>7. CASE UNCHANGED vars
  BY <1>7 DEF ForcedInv, Begun, RegionStart, vars
<1> QED
  BY <1>1, <1>2, <1>3, <1>4, <1>5, <1>6, <1>7 DEF Next

-------------------------------------------------------------------------------
(* What is refused.                                                        *)

\* A line that is refused continues no document of the grammar.
LEMMA RefusedLine ==
  ASSUME IInv, ForcedInv, NEW l,
         OpenWithOtherWidth(l) \/ CloseTooSoon(l) \/ RefuseStyle(l) \/ RefuseLine(l),
         NEW doc, NEW ranges, Extends(doc, input')
  PROVE  width # 0 /\ ~AreConflicts(doc, width, ranges)
<1>1. Reads(l) /\ outcome = "reading"
  BY DEF OpenWithOtherWidth, CloseTooSoon, RefuseStyle, RefuseLine, Refuse, Reads
<1>2. CASE OpenWithOtherWidth(l)
  <2>1. /\ at = "outside" /\ Run(l, "<") >= MinMarkerWidth /\ width # 0 /\ l.width # width
        /\ width \in Nat /\ width >= MinMarkerWidth
    BY <1>2 DEF OpenWithOtherWidth, IInv, TypeOK, SequencesInv
  <2> QED
    BY <1>1, <2>1, NextOpens
<1>3. ASSUME ~OpenWithOtherWidth(l)
      PROVE  width # 0 /\ ~AreConflicts(doc, width, ranges)
  <2>1. at # "outside" /\ at \in {"opened", "inside"}
    BY <1>3 DEF CloseTooSoon, RefuseStyle, RefuseLine, Closing, OtherStyle, Malformed, IInv, TypeOK
  <2>2. width \in Nat /\ width > 0
    BY <1>1, <2>1, InsideFacts
  <2>3. l.width \in Nat /\ (\A marker : Run(l, marker) = IF l.kind = marker THEN l.width ELSE 0)
    BY <1>1, ReadsType, LineType DEF IInv, Run
  <2> SUFFICES ASSUME AreConflicts(doc, width, ranges) PROVE FALSE
    BY <2>2
  <2> DEFINE e == ranges[Len(regions) + 1].last
  <2>4. /\ Begun(ranges)
        /\ e = Here => Run(l, ">") = width
        /\ e # Here => (l.kind \in Markers /\ l.width >= width
                          => l.kind \in {"+", "-"} /\ l.width = width)
        /\ at = "opened" => l.kind = "+" /\ l.width = width
    BY <1>1, <2>1, NextLine
  <2> HIDE DEF e
  <2>5. CASE RefuseStyle(l)
    <3>1. l.kind \in OtherStyles /\ l.width >= width
      BY <2>5 DEF RefuseStyle, OtherStyle
    <3>2. l.kind \in Markers /\ l.kind \notin {"+", "-", ">"}
      BY <3>1 DEF OtherStyles, Markers
    <3> QED
      BY <2>2, <2>3, <2>4, <3>1, <3>2
  <2>6. CASE RefuseLine(l)
    <3>1. at = "inside"
      BY <2>1, <2>3, <2>4, <2>6 DEF RefuseLine, Malformed, SideFirst
    <3>2. Run(l, "<") >= width \/ (l.kind \in {">", "+", "-"} /\ l.width > width)
      BY <2>6, <3>1 DEF RefuseLine, Malformed
    <3>3. l.kind \in {"<", ">", "+", "-"} /\ l.width >= width
      BY <2>2, <2>3, <3>2
    <3>4. l.kind \in Markers
      BY <3>3 DEF Markers
    <3> QED
      BY <2>2, <2>3, <2>4, <3>2, <3>3, <3>4
  <2>7. CASE CloseTooSoon(l)
    <3>1. at = "inside" /\ l.kind = ">" /\ l.width = width
      BY <2>2, <2>3, <2>7 DEF CloseTooSoon, Closing
    <3>2. e = Here
      BY <2>2, <2>4, <3>1 DEF Markers
    <3>3. /\ Extends(input', input) /\ Extends(doc, input)
          /\ Len(input) \in Nat /\ Here = Len(input) + 1 /\ Len(input') = Here
      BY <1>1, <2>1, ReadsType, ExtendsTrans, InsideFacts DEF IInv
    <3>4. IsConflict(doc, RegionStart, Here, width)
      BY <1>1, <2>1, <3>2, <3>3, EndsLater DEF e
    <3> DEFINE n == Len(sections) - 1
               H == {Ordered[k] : k \in 1..n}
    <3>5. /\ n \in Nat /\ Ordered \in [1..n -> Int]
          /\ \A a, b \in 1..n : a < b => Ordered[a] < Ordered[b]
          /\ \A a \in 1..n : Ordered[a] \in (RegionStart + 1)..Len(input)
          /\ Headers(doc, RegionStart, Here, width) = H
      BY <1>1, <3>1, <3>3, HeadersInOrder
    <3>6. Cardinality(H) >= 2 /\ \A h \in H : doc[h].rest # NotUtf8
      BY <3>4, <3>5 DEF IsConflict
    <3>7. Cardinality(H) = n
      BY <3>5, Counting
    <3>8. Len(sections) \in Nat /\ Enough
      BY <1>1, <2>1, <3>6, <3>7, InsideFacts DEF Enough
    <3>9. PICK k \in 2..Len(sections) : sections[k].label = NotUtf8
      BY <2>7, <3>8 DEF CloseTooSoon
    <3>10. k - 1 \in 1..n /\ Ordered[k - 1] = sections[k].header
      BY <3>8 DEF Ordered
    <3>11. sections[k].header \in 1..Len(input) /\ sections[k].header \in H
      BY <1>1, <2>1, <3>8, <3>10, InsideFacts
    <3>12. doc[sections[k].header].rest = NotUtf8
      BY <1>1, <3>1, <3>3, <3>9, <3>11 DEF Extends, IInv, SectionsInv
    <3> QED
      BY <3>6, <3>11, <3>12
  <2> QED
    BY <1>3, <2>5, <2>6, <2>7
<1> QED
  BY <1>2, <1>3

LEMMA WellFormedIs ==
  ASSUME IInv, outcome = "reading", width # 0, NEW doc, Extends(doc, input), WellFormed(doc)
  PROVE  \E ranges : AreConflicts(doc, width, ranges)
<1>1. WidthOf(doc) = width
  BY WidthIs
<1> QED
  BY <1>1 DEF WellFormed

LEMMA RefusedStep ==
  IInv /\ ForcedInv /\ RefusedIsMalformed /\ [Next]_vars => RefusedIsMalformed'
<1> SUFFICES ASSUME IInv, ForcedInv, RefusedIsMalformed, [Next]_vars
             PROVE  RefusedIsMalformed'
  OBVIOUS
<1>1. ASSUME NEW l, \/ OpenWithOtherWidth(l) \/ CloseTooSoon(l)
                    \/ RefuseStyle(l) \/ RefuseLine(l)
      PROVE  RefusedIsMalformed'
  <2>1. Reads(l) /\ outcome = "reading" /\ outcome' \in {"invalid", "unsupported-style"}
    BY <1>1 DEF OpenWithOtherWidth, CloseTooSoon, RefuseStyle, RefuseLine, Refuse, Reads
  <2> SUFFICES ASSUME NEW rest \in Rests, WellFormed(input' \o rest) PROVE FALSE
    BY <2>1 DEF RefusedIsMalformed
  <2> DEFINE doc == input' \o rest
  <2>2. Extends(doc, input')
    <3>1. input' \in Seq(Alphabet)
      BY <2>1, ReadsType DEF IInv
    <3>2. rest \in Seq(Range(rest))
      BY GrammarAssumption
    <3> QED
      BY <3>1, <3>2, ConcatExtends
  <2>3. Extends(doc, input)
    BY <2>1, <2>2, ReadsType, ExtendsTrans DEF IInv
  <2> HIDE DEF doc
  <2>4. width # 0 /\ \A ranges : ~AreConflicts(doc, width, ranges)
    BY <1>1, <2>2, RefusedLine
  <2>5. WellFormed(doc)
    BY DEF doc
  <2> QED
    BY <2>1, <2>3, <2>4, <2>5, WellFormedIs
<1>2. ASSUME EndOfInput
      PROVE  RefusedIsMalformed'
  <2>1. /\ outcome = "reading" /\ input' = input
        /\ outcome' = IF at # "outside" THEN "unterminated"
                      ELSE IF width = 0 THEN "no-conflict" ELSE "parsed"
    BY <1>2 DEF EndOfInput, IInv, TypeOK
  <2> SUFFICES ASSUME at # "outside", WellFormed(input) PROVE FALSE
    BY <2>1 DEF RefusedIsMalformed
  <2>2. width # 0
    BY <2>1 DEF IInv, WidthInv
  <2>3. Extends(input, input)
    BY DEF IInv, SequencesInv, Extends
  <2>4. PICK ranges : AreConflicts(input, width, ranges)
    BY <2>1, <2>2, <2>3, WellFormedIs
  <2>5. ranges[Len(regions) + 1].last \in (Len(input) + 1)..Len(input)
    BY <2>1, <2>3, <2>4, EndsLater
  <2> QED
    BY <2>3, <2>5 DEF Extends
<1>3. ASSUME NEW l, \/ ReadOutside(l) \/ OpenRegion(l) \/ StartSection(l)
                    \/ ReadPayload(l) \/ CloseRegion(l)
      PROVE  RefusedIsMalformed'
  <2>1. outcome' = "reading"
    BY <1>3 DEF ReadOutside, OpenRegion, StartSection, ReadPayload, CloseRegion, Reads
  <2> QED
    BY <2>1 DEF RefusedIsMalformed
<1>4. CASE UNCHANGED vars
  BY <1>4 DEF RefusedIsMalformed, vars
<1> QED
  BY <1>1, <1>2, <1>3, <1>4 DEF Next

(***************************************************************************)
(* Whatever the lines: a line is refused only when no document of the      *)
(* grammar starts with the lines read, and the end of the input only when  *)
(* the lines are no document of the grammar (parse_snapshot).              *)
(***************************************************************************)
THEOREM RefusedForGood == Spec => []RefusedIsMalformed
<1>1. Init => ForcedInv /\ RefusedIsMalformed
  BY DEF Init, ForcedInv, RefusedIsMalformed
<1> QED
  BY <1>1, InitInv, StepInv, ForcedStep, RefusedStep, PTL DEF Spec

-------------------------------------------------------------------------------
(* The scan for the outer markers.                                         *)

ScanState == [opening : Nat, ranges : Seq([first : Nat, last : Nat]), failed : BOOLEAN]

AtStart == [opening |-> 0, ranges |-> <<>>, failed |-> FALSE]

\* What the scan knows after each line.
ScansOf(c, doc, w) ==
  /\ c[0] = AtStart
  /\ \A i \in 1..Len(doc) : c[i] = ScanLine(doc, w, c[i - 1], i)
  /\ Scan(doc, w) = c[Len(doc)]

LEMMA ScanLineType ==
  ASSUME NEW doc, NEW w, NEW i \in Nat, NEW s \in ScanState
  PROVE  ScanLine(doc, w, s, i) \in ScanState
<1> DEFINE open == Run(doc[i], "<")
           close == Run(doc[i], ">")
<1>1. [s EXCEPT !.failed = TRUE] \in ScanState /\ [s EXCEPT !.opening = i] \in ScanState
  BY DEF ScanState
<1>2. [s EXCEPT !.opening = 0,
                !.ranges = Append(@, [first |-> s.opening, last |-> i])] \in ScanState
  <2>1. s.opening \in Nat /\ s.ranges \in Seq([first : Nat, last : Nat])
    BY DEF ScanState
  <2>2. [first |-> s.opening, last |-> i] \in [first : Nat, last : Nat]
    BY <2>1
  <2>3. Append(s.ranges, [first |-> s.opening, last |-> i]) \in Seq([first : Nat, last : Nat])
    BY <2>1, <2>2, AppendProperties
  <2>4. ASSUME NEW rs \in Seq([first : Nat, last : Nat])
        PROVE  [s EXCEPT !.opening = 0, !.ranges = rs] \in ScanState
    BY DEF ScanState
  <2> QED
    BY <2>3, <2>4
<1> HIDE DEF open, close
<1>3. ScanLine(doc, w, s, i) \in
        {s, [s EXCEPT !.failed = TRUE], [s EXCEPT !.opening = i],
         [s EXCEPT !.opening = 0,
                   !.ranges = Append(@, [first |-> s.opening, last |-> i])]}
  BY DEF ScanLine, open, close
<1> QED
  BY <1>1, <1>2, <1>3

LEMMA ScansAre ==
  ASSUME NEW doc, Len(doc) \in Nat, NEW w
  PROVE  \E c : ScansOf(c, doc, w)
<1> DEFINE n == Len(doc)
           T == ScanState
           next(i, s) == ScanLine(doc, w, s, i)
           step == [i \in 1..n |-> [s \in T |-> next(i, s)]]
           from(f) == [i \in 0..n |-> IF i = 0 THEN [opening |-> 0, ranges |-> <<>>, failed |-> FALSE]
                                      ELSE ScanLine(doc, w, f[i - 1], i)]
           c == CHOOSE f : f = from(f)
<1>1. n \in Nat
  OBVIOUS
<1>2. Scan(doc, w) = c[n]
  BY DEF Scan
<1>3. step \in [1..n -> [T -> T]] /\ AtStart \in T
  <2>1. AtStart \in T
    BY DEF AtStart, ScanState
  <2>2. \A i \in 1..n : \A s \in T : next(i, s) \in T
    BY ScanLineType
  <2> HIDE DEF next, T
  <2> QED
    BY <2>1, <2>2
<1>4. PICK g : Iterates(g, n, T, AtStart, step)
  <2> HIDE DEF step, T, n
  <2> QED
    BY <1>1, <1>3, Recursion
<1>5. \A f : from(f) = [i \in 0..n |-> IF i = 0 THEN AtStart ELSE next(i, f[i - 1])]
  BY DEF AtStart
<1> HIDE DEF from
<1>6. g = from(g)
  <2>1. g \in [0..n -> T] /\ g[0] = AtStart /\ \A i \in 1..n : g[i] = step[i][g[i - 1]]
    <3> HIDE DEF step, T, n
    <3> QED
      BY <1>4 DEF Iterates
  <2>2. ASSUME NEW i \in 0..n
        PROVE  g[i] = IF i = 0 THEN AtStart ELSE next(i, g[i - 1])
    <3>1. CASE i = 0
      BY <3>1, <2>1
    <3>2. CASE i # 0
      <4>1. i \in 1..n /\ i - 1 \in 0..n
        BY <3>2, <1>1
      <4>2. g[i] = step[i][g[i - 1]] /\ g[i - 1] \in T
        <5> HIDE DEF step, T
        <5> QED
          BY <2>1, <4>1
      <4> HIDE DEF next, T
      <4> QED
        BY <3>2, <4>1, <4>2
    <3> QED
      BY <3>1, <3>2
  <2>3. g = [i \in 0..n |-> g[i]]
    BY <2>1
  <2> HIDE DEF next, n
  <2>4. [i \in 0..n |-> g[i]] = [i \in 0..n |-> IF i = 0 THEN AtStart ELSE next(i, g[i - 1])]
    BY <2>2
  <2> QED
    BY <1>5, <2>3, <2>4
<1>7. c = from(c)
  BY <1>6
<1> HIDE DEF c
<1>8. \A i \in 0..n : c[i] = IF i = 0 THEN AtStart ELSE next(i, c[i - 1])
  <2> HIDE DEF next
  <2> QED
    BY <1>5, <1>7
<1>9. c[0] = AtStart /\ \A i \in 1..n : c[i] = next(i, c[i - 1])
  <2> HIDE DEF next
  <2> QED
    BY <1>1, <1>8
<1>10. ScansOf(c, doc, w)
  BY <1>2, <1>9 DEF ScansOf
<1> QED
  BY <1>10

\* In order and disjoint, within n lines.
InOrder(ranges, n) ==
  /\ ranges \in Seq([first : Nat, last : Nat])
  /\ \A k \in 1..Len(ranges) :
       /\ 1 <= ranges[k].first /\ ranges[k].first < ranges[k].last /\ ranges[k].last <= n
       /\ \A j \in 1..(k - 1) : ranges[j].last < ranges[k].first

LEMMA InOrderType ==
  ASSUME NEW ranges, NEW n, InOrder(ranges, n)
  PROVE  /\ Len(ranges) \in Nat
         /\ DOMAIN ranges = 1..Len(ranges)
         /\ \A k \in 1..Len(ranges) : ranges[k] \in [first : Nat, last : Nat]
<1>1. ranges \in Seq([first : Nat, last : Nat])
  BY DEF InOrder
<1>2. Len(ranges) \in Nat /\ DOMAIN ranges = 1..Len(ranges)
  BY <1>1
<1>3. \A k \in 1..Len(ranges) : ranges[k] \in [first : Nat, last : Nat]
  BY <1>1, ElementOfSeq
<1> QED
  BY <1>2, <1>3

InSome(i, ranges) == \E k \in DOMAIN ranges : i \in ranges[k].first..ranges[k].last

\* The outer markers of the document are those of the ranges.
Marked(doc, w, ranges) ==
  /\ \A k \in 1..Len(ranges) :
       /\ Run(doc[ranges[k].first], "<") = w
       /\ Run(doc[ranges[k].last], ">") = w /\ Run(doc[ranges[k].last], "<") < w
       /\ \A i \in (ranges[k].first + 1)..(ranges[k].last - 1) :
            Run(doc[i], "<") < w /\ Run(doc[i], ">") < w
  /\ \A i \in 1..Len(doc) : ~InSome(i, ranges) => Run(doc[i], "<") < MinMarkerWidth

Found(opening, ranges) == [opening |-> opening, ranges |-> ranges, failed |-> FALSE]

\* After i lines the scan has the ranges that end there, and has opened the one
\* that has begun.
Scanned(ranges, i, c, s) ==
  /\ c \in 0..Len(ranges)
  /\ \A k \in 1..c : ranges[k].last <= i
  /\ \A k \in (c + 1)..Len(ranges) : i < ranges[k].last
  /\ s = Found(IF c < Len(ranges) /\ ranges[c + 1].first <= i THEN ranges[c + 1].first ELSE 0,
               SubSeq(ranges, 1, c))

LEMMA ScanLineIs ==
  ASSUME NEW doc, NEW w \in Nat, w >= MinMarkerWidth, NEW i \in Nat \ {0},
         Run(doc[i], "<") \in Nat, Run(doc[i], ">") \in Nat, NEW o, NEW rs
  PROVE  LET open  == Run(doc[i], "<")
             close == Run(doc[i], ">")
             next  == ScanLine(doc, w, Found(o, rs), i)
         IN /\ o = 0 /\ open < MinMarkerWidth => next = Found(o, rs)
            /\ o = 0 /\ open = w => next = Found(i, rs)
            /\ o # 0 /\ open < w /\ close < w => next = Found(o, rs)
            /\ o # 0 /\ open < w /\ close = w =>
                 next = Found(0, Append(rs, [first |-> o, last |-> i]))
<1> DEFINE open  == Run(doc[i], "<")
           close == Run(doc[i], ">")
           s == Found(o, rs)
           next  == ScanLine(doc, w, s, i)
<1>1. MinMarkerWidth \in Nat \ {0} /\ open \in Nat /\ close \in Nat
  BY GrammarAssumption
<1>2. s.failed = FALSE /\ s.opening = o
  BY DEF Found
<1>10. ASSUME NEW f, NEW p, NEW t, t = [opening |-> o, ranges |-> rs, failed |-> f]
      PROVE  [t EXCEPT !.opening = p] = [opening |-> p, ranges |-> rs, failed |-> f]
  BY <1>10
<1>11. ASSUME NEW f, NEW p, NEW q, NEW t, t = [opening |-> o, ranges |-> rs, failed |-> f],
             NEW u, u = [t EXCEPT !.opening = p, !.ranges = q]
      PROVE  u = [opening |-> p, ranges |-> q, failed |-> f]
  <2>1. u.opening = p /\ u.ranges = q /\ u.failed = f
    BY <1>11
  <2>2. u = [opening |-> u.opening, ranges |-> u.ranges, failed |-> u.failed]
    BY <1>11
  <2> QED
    BY <2>1, <2>2
<1>3. [s EXCEPT !.opening = i] = Found(i, rs)
  BY <1>10 DEF Found
<1>4. [s EXCEPT !.opening = 0, !.ranges = Append(@, [first |-> s.opening, last |-> i])]
        = Found(0, Append(rs, [first |-> o, last |-> i]))
  <2>1. s.ranges = rs
    BY DEF Found
  <2> DEFINE q == Append(rs, [first |-> o, last |-> i])
  <2>2. SUFFICES ASSUME NEW u, u = [s EXCEPT !.opening = 0, !.ranges = q]
                 PROVE  u = Found(0, q)
    BY <1>2, <2>1
  <2>3. s = [opening |-> o, ranges |-> rs, failed |-> FALSE]
    BY DEF Found
  <2> HIDE DEF s, q
  <2>4. u = [opening |-> 0, ranges |-> q, failed |-> FALSE]
    BY <1>11, <2>2, <2>3
  <2> QED
    BY <2>4 DEF Found
<1>5. next = IF o = 0
             THEN IF open < MinMarkerWidth THEN s
                  ELSE IF open # w THEN [s EXCEPT !.failed = TRUE]
                  ELSE [s EXCEPT !.opening = i]
             ELSE IF close > w \/ open >= w THEN [s EXCEPT !.failed = TRUE]
             ELSE IF close = w
             THEN [s EXCEPT !.opening = 0,
                            !.ranges = Append(@, [first |-> s.opening, last |-> i])]
             ELSE s
  <2> HIDE DEF s, open, close
  <2> QED
    BY <1>2, Zenon DEF ScanLine, open, close
<1> HIDE DEF s, open, close, next
<1>6. o = 0 /\ open < MinMarkerWidth => next = s
  BY <1>5
<1>7. o = 0 /\ open = w => next = Found(i, rs)
  BY <1>1, <1>3, <1>5
<1>8. o # 0 /\ open < w /\ close < w => next = s
  BY <1>1, <1>5
<1>9. o # 0 /\ open < w /\ close = w => next = Found(0, Append(rs, [first |-> o, last |-> i]))
  BY <1>1, <1>4, <1>5
<1> QED
  BY <1>6, <1>7, <1>8, <1>9 DEF s, open, close, next

LEMMA ScanStep ==
  ASSUME NEW doc, Len(doc) \in Nat,
         \A j \in 1..Len(doc) : Run(doc[j], "<") \in Nat /\ Run(doc[j], ">") \in Nat,
         NEW w \in Nat, w >= MinMarkerWidth,
         NEW ranges, InOrder(ranges, Len(doc)), Marked(doc, w, ranges),
         NEW i \in 1..Len(doc), NEW c, NEW s, Scanned(ranges, i - 1, c, s)
  PROVE  \E d : Scanned(ranges, i, d, ScanLine(doc, w, s, i))
<1> DEFINE n == Len(ranges)
           F(k) == ranges[k].first
           L(k) == ranges[k].last
           R(k) == SubSeq(ranges, 1, k)
           open == Run(doc[i], "<")
           close == Run(doc[i], ">")
           begun(k, j) == IF k < n /\ F(k + 1) <= j THEN F(k + 1) ELSE 0
           next == ScanLine(doc, w, s, i)
<1>1. /\ n \in Nat /\ c \in 0..n
      /\ \A k \in 1..n : F(k) \in Nat /\ L(k) \in Nat /\ 1 <= F(k) /\ F(k) < L(k)
      /\ \A k \in 1..n : \A j \in 1..(k - 1) : L(j) < F(k)
      /\ \A k \in 1..c : L(k) <= i - 1
      /\ \A k \in (c + 1)..n : i - 1 < L(k)
  <2>1. ranges \in Seq([first : Nat, last : Nat])
    BY DEF InOrder
  <2>2. n \in Nat /\ \A k \in 1..n : ranges[k] \in [first : Nat, last : Nat]
    BY InOrderType
  <2> QED
    BY <2>2 DEF InOrder, Scanned
<1>2. s = Found(begun(c, i - 1), R(c))
  BY DEF Scanned
<1>3. /\ n \in Nat /\ open \in Nat /\ close \in Nat /\ i \in Nat \ {0}
      /\ \A k \in 1..n : k \in Nat
  BY <1>1
<1>4. ASSUME NEW o, NEW rs
      PROVE  LET t == ScanLine(doc, w, Found(o, rs), i)
             IN /\ o = 0 /\ open < MinMarkerWidth => t = Found(o, rs)
                /\ o = 0 /\ open = w => t = Found(i, rs)
                /\ o # 0 /\ open < w /\ close < w => t = Found(o, rs)
                /\ o # 0 /\ open < w /\ close = w =>
                     t = Found(0, Append(rs, [first |-> o, last |-> i]))
  BY <1>3, ScanLineIs
<1>5. ASSUME NEW d \in 0..n, \A k \in 1..d : L(k) <= i, \A k \in (d + 1)..n : i < L(k),
             next = Found(begun(d, i), R(d))
      PROVE  Scanned(ranges, i, d, next)
  BY <1>5 DEF Scanned
<1>6. \A k \in 1..n : F(k) = i => open = w
  BY DEF Marked
<1>7. \A k \in 1..n : L(k) = i => open < w /\ close = w
  BY DEF Marked
<1>8. \A k \in 1..n : i \in (F(k) + 1)..(L(k) - 1) => open < w /\ close < w
  BY DEF Marked
<1>9. (\A k \in 1..n : i \notin F(k)..L(k)) => open < MinMarkerWidth
  BY InOrderType DEF Marked, InSome
<1>10. \A k \in 1..n : L(k) = i => Append(R(k - 1), [first |-> F(k), last |-> i]) = R(k)
  <2> SUFFICES ASSUME NEW k \in 1..n, L(k) = i
               PROVE  Append(R(k - 1), [first |-> F(k), last |-> i]) = R(k)
    OBVIOUS
  <2>1. ranges \in Seq([first : Nat, last : Nat]) /\ ranges[k] \in [first : Nat, last : Nat]
    BY InOrderType DEF InOrder
  <2>2. ranges[k] = [first |-> F(k), last |-> i]
    BY <2>1
  <2>3. R(k) = Append(R(k - 1), ranges[k])
    BY <2>1, PrefixGrows
  <2> HIDE DEF F, L, R
  <2> QED
    BY <2>2, <2>3
<1>11. \A k \in 1..c : L(k) <= i
  <2> HIDE DEF L, F, n
  <2>1. \A k \in 1..c : k \in 1..n
    BY <1>1
  <2> QED
    BY <1>1, <2>1
<1> HIDE DEF n, F, L, R, open, close, next
<1>12. \A j \in 1..n : \A k \in (j + 1)..n : L(j) < F(k) /\ L(j) < L(k)
  <2> SUFFICES ASSUME NEW j \in 1..n, NEW k \in (j + 1)..n PROVE L(j) < F(k) /\ L(j) < L(k)
    OBVIOUS
  <2>1. k \in 1..n /\ j \in 1..(k - 1)
    BY <1>1
  <2> QED
    BY <1>1, <2>1
<1>13. CASE c < n /\ F(c + 1) = i
  <2>1. c + 1 \in 1..n
    BY <1>1, <1>13
  <2>2. open = w /\ i < L(c + 1)
    BY <1>1, <1>6, <1>13, <2>1
  <2>3. begun(c, i - 1) = 0 /\ begun(c, i) = i
    BY <1>1, <1>13, <2>1
  <2>4. next = Found(i, R(c))
    BY <1>2, <1>4, <2>2, <2>3 DEF next
  <2>5. ASSUME NEW k \in (c + 1)..n PROVE i < L(k)
    <3>1. k = c + 1 \/ k \in ((c + 1) + 1)..n
      BY <1>1
    <3>2. k \in 1..n /\ L(k) \in Nat /\ L(c + 1) \in Nat
      BY <1>1, <2>1
    <3>3. k \in ((c + 1) + 1)..n => L(c + 1) < L(k)
      BY <1>12, <2>1
    <3> QED
      BY <1>3, <2>2, <3>1, <3>2, <3>3
  <2> QED
    BY <1>1, <1>5, <1>11, <2>3, <2>4, <2>5 DEF next
<1>14. CASE c < n => i < F(c + 1)
  <2>1. begun(c, i - 1) = 0 /\ begun(c, i) = 0
    BY <1>1, <1>14
  <2>2. ASSUME NEW k \in (c + 1)..n PROVE i < F(k) /\ i < L(k)
    <3>1. c < n /\ c + 1 \in 1..n /\ k \in 1..n
      BY <1>1
    <3>2. k = c + 1 \/ k \in (c + 1 + 1)..n
      BY <1>1
    <3>3. i < F(k)
      BY <1>1, <1>12, <1>14, <3>1, <3>2
    <3> QED
      BY <1>1, <3>1, <3>3
  <2>3. ASSUME NEW k \in 1..n PROVE i \notin F(k)..L(k)
    <3>1. k \in 1..c \/ k \in (c + 1)..n
      BY <1>1
    <3> QED
      BY <1>1, <2>2, <3>1
  <2>4. next = s
    BY <1>2, <1>4, <1>9, <2>1, <2>3 DEF next
  <2> QED
    BY <1>1, <1>2, <1>5, <1>11, <2>1, <2>2, <2>4 DEF next
<1>15. CASE c < n /\ F(c + 1) < i /\ L(c + 1) = i
  <2>1. c + 1 \in 1..n /\ c + 1 \in 0..n /\ (c + 1) - 1 = c
    BY <1>1, <1>15
  <2>2. open < w /\ close = w
    BY <1>7, <1>15, <2>1
  <2>3. begun(c, i - 1) = F(c + 1) /\ F(c + 1) # 0
    BY <1>1, <1>15, <2>1
  <2>4. next = Found(0, Append(R(c), [first |-> F(c + 1), last |-> i]))
    BY <1>2, <1>4, <2>2, <2>3 DEF next
  <2>5. Append(R(c), [first |-> F(c + 1), last |-> i]) = R(c + 1)
    BY <1>10, <1>15, <2>1
  <2>6. ASSUME NEW k \in 1..(c + 1) PROVE L(k) <= i
    <3>1. k \in 1..c \/ k = c + 1
      BY <1>1
    <3>2. L(c + 1) \in Nat
      BY <1>1, <2>1
    <3> QED
      BY <1>11, <1>15, <3>1, <3>2
  <2>7. ASSUME NEW k \in ((c + 1) + 1)..n PROVE i < F(k) /\ i < L(k)
    BY <1>12, <1>15, <2>1
  <2>8. begun(c + 1, i) = 0
    <3>1. c + 1 < n => (c + 1) + 1 \in ((c + 1) + 1)..n /\ (c + 1) + 1 \in 1..n
      BY <1>1
    <3>2. c + 1 < n => i < F((c + 1) + 1) /\ F((c + 1) + 1) \in Nat
      BY <1>1, <2>7, <3>1
    <3> QED
      BY <1>1, <3>2
  <2> QED
    BY <1>5, <2>1, <2>4, <2>5, <2>6, <2>7, <2>8 DEF next
<1>16. CASE c < n /\ F(c + 1) < i /\ L(c + 1) # i
  <2>1. c + 1 \in 1..n /\ c + 1 \in (c + 1)..n
    BY <1>1, <1>16
  <2>2. i < L(c + 1) /\ i \in (F(c + 1) + 1)..(L(c + 1) - 1)
    BY <1>1, <1>16, <2>1
  <2>3. open < w /\ close < w
    BY <1>8, <2>1, <2>2
  <2>4. begun(c, i - 1) = F(c + 1) /\ begun(c, i) = F(c + 1) /\ F(c + 1) # 0
    BY <1>1, <1>16, <2>1
  <2>5. next = s
    BY <1>2, <1>4, <2>3, <2>4 DEF next
  <2>6. ASSUME NEW k \in (c + 1)..n PROVE i < L(k)
    <3>1. k = c + 1 \/ k \in ((c + 1) + 1)..n
      BY <1>1
    <3>2. k \in 1..n /\ L(k) \in Nat /\ L(c + 1) \in Nat
      BY <1>1, <2>1
    <3>3. k \in ((c + 1) + 1)..n => L(c + 1) < L(k)
      BY <1>12, <2>1
    <3> QED
      BY <1>3, <2>2, <3>1, <3>2, <3>3
  <2> QED
    BY <1>1, <1>2, <1>5, <1>11, <2>4, <2>5, <2>6 DEF next
<1>17. c < n => c + 1 \in 1..n
  BY <1>1
<1>18. c < n => F(c + 1) \in Nat
  BY <1>1, <1>17
<1> QED
  BY <1>13, <1>14, <1>15, <1>16, <1>18 DEF next

\* The scan finds the ranges.
LEMMA ScanFinds ==
  ASSUME NEW doc, Len(doc) \in Nat,
         \A j \in 1..Len(doc) : Run(doc[j], "<") \in Nat /\ Run(doc[j], ">") \in Nat,
         NEW w \in Nat, w >= MinMarkerWidth,
         NEW ranges, InOrder(ranges, Len(doc)), Marked(doc, w, ranges)
  PROVE  Scan(doc, w) = [opening |-> 0, ranges |-> ranges, failed |-> FALSE]
<1> DEFINE m == Len(doc)
           n == Len(ranges)
<1>1. PICK f : ScansOf(f, doc, w)
  BY ScansAre
<1> DEFINE A == {i \in 0..m : \E c : Scanned(ranges, i, c, f[i])}
<1>2. n \in Nat /\ ranges \in Seq([first : Nat, last : Nat])
      /\ \A k \in 1..n : /\ ranges[k].first \in Nat /\ ranges[k].last \in Nat
                         /\ 1 <= ranges[k].first /\ ranges[k].first < ranges[k].last
                         /\ ranges[k].last <= m
  <2>1. ranges \in Seq([first : Nat, last : Nat])
    BY DEF InOrder
  <2>2. n \in Nat /\ \A k \in 1..n : ranges[k] \in [first : Nat, last : Nat]
    BY InOrderType
  <2> QED
    BY <2>1, <2>2 DEF InOrder
<1>3. 0 \in A
  <2>1. SubSeq(ranges, 1, 0) = <<>>
    BY SubSeqEmpty
  <2>2. \A k \in 1..n : 0 < ranges[k].last
    BY <1>2
  <2>3. ~(0 < n /\ ranges[0 + 1].first <= 0)
    <3>1. 0 < n => 0 + 1 \in 1..n
      BY <1>2
    <3> QED
      BY <1>2, <3>1
  <2>4. f[0] = Found(0, <<>>)
    BY <1>1 DEF ScansOf, AtStart, Found
  <2>5. Scanned(ranges, 0, 0, f[0])
    <3>1. 0 \in 0..n /\ 1..0 = {}
      BY <1>2
    <3>2. \A k \in (0 + 1)..n : 0 < ranges[k].last
      BY <2>2
    <3> QED
      BY <2>1, <2>3, <2>4, <3>1, <3>2 DEF Scanned
  <2> QED
    BY <2>5
<1>4. ASSUME NEW i \in 0..(m - 1), i \in A
      PROVE  i + 1 \in A
  <2>1. i + 1 \in 1..m /\ (i + 1) - 1 = i /\ i + 1 \in 0..m
    OBVIOUS
  <2>2. f[i + 1] = ScanLine(doc, w, f[i], i + 1)
    BY <1>1, <2>1 DEF ScansOf
  <2>3. PICK c : Scanned(ranges, (i + 1) - 1, c, f[i])
    BY <1>4, <2>1
  <2>4. \E d : Scanned(ranges, i + 1, d, ScanLine(doc, w, f[i], i + 1))
    BY <2>1, <2>3, ScanStep
  <2> QED
    BY <2>1, <2>2, <2>4
<1>5. m \in A
  <2>1. \A i \in 0..(m - 1) : i \in A => i + 1 \in A
    BY <1>4
  <2> HIDE DEF A
  <2>2. 0..m \subseteq A
    BY <1>3, <2>1, Induction
  <2> QED
    BY <2>2
<1>6. PICK c : Scanned(ranges, m, c, f[m])
  BY <1>5
<1>7. c = n
  <2>1. c \in 0..n /\ \A k \in (c + 1)..n : m < ranges[k].last
    BY <1>6 DEF Scanned
  <2>2. c # n => c + 1 \in (c + 1)..n /\ c + 1 \in 1..n
    BY <1>2, <2>1
  <2> QED
    BY <1>2, <2>1, <2>2
<1>8. SubSeq(ranges, 1, n) = ranges
  BY <1>2
<1>9. Scan(doc, w) = f[m]
  BY <1>1 DEF ScansOf
<1>10. ~(n < n)
  BY <1>2
<1> QED
  BY <1>6, <1>7, <1>8, <1>9, <1>10 DEF Scanned, Found

\* The ranges of a document's conflicts are marked, and nothing else is.
LEMMA ConflictsMarked ==
  ASSUME NEW doc \in Seq(Alphabet), NEW w \in Nat, w >= MinMarkerWidth,
         NEW ranges, AreConflicts(doc, w, ranges)
  PROVE  InOrder(ranges, Len(doc)) /\ Marked(doc, w, ranges)
<1> DEFINE n == Len(ranges)
           F(k) == ranges[k].first
           L(k) == ranges[k].last
<1>1. Extends(doc, doc) /\ DOMAIN doc = 1..Len(doc) /\ Len(doc) \in Nat
  BY DEF Extends
<1>2. /\ n \in Nat /\ DOMAIN ranges = 1..n
      /\ \A k \in 1..n : F(k) \in 1..Len(doc) /\ L(k) \in 1..Len(doc) /\ F(k) < L(k)
      /\ \A k \in 1..n : \A j \in 1..(k - 1) : L(j) < F(k)
  BY <1>1, RangesType
<1>3. InOrder(ranges, Len(doc))
  <2> DEFINE S == [first : DOMAIN doc, last : DOMAIN doc]
             T == [first : Nat, last : Nat]
  <2>1. ranges \in Seq(S)
    BY DEF AreConflicts
  <2>2. S \subseteq T
    BY <1>1
  <2> HIDE DEF S, T
  <2>3. ranges \in Seq(T)
    BY <2>1, <2>2, SeqMonotonic
  <2> QED
    BY <1>1, <1>2, <2>3 DEF InOrder, T
<1>4. ASSUME NEW i \in 1..Len(doc)
      PROVE  /\ doc[i].width \in Nat
             /\ \A marker : Run(doc[i], marker) \in Nat
             /\ \A marker : Run(doc[i], marker) > 0 => doc[i].kind = marker /\ doc[i].width = Run(doc[i], marker)
  <2>1. doc[i] \in Alphabet
    BY <1>1, ElementOfSeq
  <2> QED
    BY <2>1, LineType
<1>5. w > 0 /\ MinMarkerWidth \in Nat \ {0}
  BY GrammarAssumption
<1>6. ASSUME NEW k \in 1..n
      PROVE  IsConflict(doc, F(k), L(k), w)
  BY <1>2 DEF AreConflicts
<1>7. ASSUME NEW k \in 1..n
      PROVE  Run(doc[F(k)], "<") = w /\ Run(doc[L(k)], ">") = w /\ Run(doc[L(k)], "<") < w
  <2>1. Run(doc[F(k)], "<") = w /\ Run(doc[L(k)], ">") = w
    BY <1>6 DEF IsConflict
  <2>2. doc[L(k)].kind = ">"
    <3>1. L(k) \in 1..Len(doc) /\ Run(doc[L(k)], ">") > 0
      BY <1>2, <1>5, <2>1
    <3> QED
      BY <1>4, <3>1
  <2>3. Run(doc[L(k)], "<") = 0
    BY <2>2 DEF Run
  <2> QED
    BY <1>5, <2>1, <2>3
<1>8. ASSUME NEW k \in 1..n, NEW i \in (F(k) + 1)..(L(k) - 1), NEW marker \in {"<", ">"}
      PROVE  Run(doc[i], marker) < w
  <2>1. i \in 1..Len(doc)
    BY <1>1, <1>2
  <2> DEFINE run == Run(doc[i], marker)
  <2>10. run \in Nat /\ (run > 0 => doc[i].kind = marker /\ doc[i].width = run)
    BY <1>4, <2>1
  <2> HIDE DEF run
  <2>2. SUFFICES ASSUME run >= w PROVE FALSE
    BY <2>10 DEF run
  <2>3. doc[i].kind = marker /\ doc[i].width >= w
    BY <1>5, <2>10, <2>2
  <2>4. doc[i].kind \in Markers
    BY <2>3 DEF Markers
  <2>5. i \in Headers(doc, F(k), L(k), w)
    BY <1>6, <2>3, <2>4 DEF IsConflict
  <2>6. doc[i].kind \in {"+", "-"}
    BY <2>5 DEF Headers
  <2> QED
    BY <2>3, <2>6
<1>9. ASSUME NEW i \in 1..Len(doc), ~InSome(i, ranges)
      PROVE  Run(doc[i], "<") < MinMarkerWidth
  <2>10. Run(doc[i], "<") \in Nat
    BY <1>4
  <2>1. SUFFICES ASSUME Run(doc[i], "<") >= MinMarkerWidth PROVE FALSE
    BY <1>5, <2>10
  <2>2. i \in Openings(doc)
    BY <1>1, <2>1 DEF Openings
  <2>3. \E k \in DOMAIN ranges : i \in ranges[k].first..ranges[k].last
    BY <2>2 DEF AreConflicts
  <2> QED
    BY <1>2, <1>9, <2>3 DEF InSome
<1>10. Marked(doc, w, ranges)
  BY <1>7, <1>8, <1>9 DEF Marked
<1> QED
  BY <1>3, <1>10

\* What the parser leaves when it accepts.
LEMMA ParsedFacts ==
  ASSUME IInv, outcome = "parsed"
  PROVE  /\ input \in Seq(Alphabet) /\ width \in Nat /\ width >= MinMarkerWidth
         /\ Len(regions) \in Nat /\ DOMAIN regions = 1..Len(regions)
         /\ Len(Ranges) = Len(regions) /\ DOMAIN Ranges = 1..Len(regions)
         /\ \A k \in 1..Len(regions) :
              /\ Ranges[k].first = regions[k].first /\ Ranges[k].last = regions[k].last
         /\ AreConflicts(input, width, Ranges)
         /\ Len(regions) # 0
<1> USE DEF IInv
<1>1. input \in Seq(Alphabet) /\ width \in Nat /\ width # 0
  BY DEF SequencesInv
<1>2. width >= MinMarkerWidth
  BY <1>1 DEF TypeOK
<1>3. Len(regions) \in Nat /\ DOMAIN regions = 1..Len(regions)
  <2>1. regions \in Seq(Range(regions))
    BY DEF SequencesInv
  <2> QED
    BY <2>1
<1>4. DOMAIN Ranges = 1..Len(regions)
      /\ \A k \in 1..Len(regions) :
           /\ Ranges[k].first = regions[k].first /\ Ranges[k].last = regions[k].last
  BY <1>3 DEF Ranges
<1>5. AreConflicts(input, width, Ranges)
  <2>1. Extends(input, input)
    BY <1>1 DEF Extends
  <2>2. WidthOf(input) = width
    BY <1>1, <2>1, WidthIs
  <2> QED
    BY <2>2, Declared DEF ParsedAsDeclared
<1>6. Len(Ranges) = Len(regions)
  <2>1. Ranges \in Seq([first : DOMAIN input, last : DOMAIN input])
    BY <1>5 DEF AreConflicts
  <2>2. Len(Ranges) \in Nat /\ DOMAIN Ranges = 1..Len(Ranges)
    BY <2>1
  <2> QED
    BY <1>3, <1>4, <2>2
<1>7. Len(regions) # 0
  <2>1. Openings(input) # {}
    BY Declared DEF ParsedAsDeclared
  <2>2. PICK i \in Openings(input) : TRUE
    BY <2>1
  <2>3. \E k \in DOMAIN Ranges : i \in Ranges[k].first..Ranges[k].last
    BY <1>5, <2>2 DEF AreConflicts
  <2> QED
    BY <1>3, <1>4, <2>3
<1> QED
  BY <1>1, <1>2, <1>3, <1>4, <1>5, <1>6, <1>7

\* The lines of a document of the alphabet have runs.
LEMMA RunType ==
  ASSUME NEW doc \in Seq(Alphabet)
  PROVE  /\ Len(doc) \in Nat
         /\ \A j \in 1..Len(doc) : Run(doc[j], "<") \in Nat /\ Run(doc[j], ">") \in Nat
<1>1. \A j \in 1..Len(doc) : doc[j] \in Alphabet
  BY ElementOfSeq
<1>2. Len(doc) \in Nat
  OBVIOUS
<1> QED
  BY <1>1, <1>2, LineType

\* A scan that finds as many ranges as there are conflicts, with their labels, is
\* what the remapping returns.
LEMMA RemapIs ==
  ASSUME NEW source, NEW ranges, Len(ranges) = Len(regions),
         Scan(source, width) = [opening |-> 0, ranges |-> ranges, failed |-> FALSE],
         \A k \in DOMAIN regions :
           /\ source[ranges[k].first].rest = input[regions[k].first].rest
           /\ source[ranges[k].last].rest = input[regions[k].last].rest
  PROVE  Remap(source) = ranges
<1> DEFINE scan == Scan(source, width)
<1>1. scan.opening = 0 /\ scan.ranges = ranges /\ scan.failed = FALSE
  OBVIOUS
<1> HIDE DEF scan
<1> QED
  BY <1>1, Zenon DEF Remap, scan

(***************************************************************************)
(* In a working copy in the snapshot style, of any length and with any     *)
(* number of conflicts, remap_regions_to_source finds exactly the          *)
(* conflicts that parse_snapshot found: the two readings of the same text  *)
(* never disagree.                                                         *)
(***************************************************************************)
THEOREM ScanIsRight == Spec => []ScanFindsTheParsed
<1>1. ASSUME IInv
      PROVE  ScanFindsTheParsed
  <2>1. SUFFICES ASSUME outcome = "parsed" PROVE Remap(input) = Ranges
    BY DEF ScanFindsTheParsed
  <2>2. /\ input \in Seq(Alphabet) /\ width \in Nat /\ width >= MinMarkerWidth
        /\ Len(Ranges) = Len(regions) /\ DOMAIN regions = 1..Len(regions)
        /\ \A k \in 1..Len(regions) :
             /\ Ranges[k].first = regions[k].first /\ Ranges[k].last = regions[k].last
        /\ AreConflicts(input, width, Ranges)
    BY <1>1, <2>1, ParsedFacts
  <2>3. InOrder(Ranges, Len(input)) /\ Marked(input, width, Ranges)
    BY <2>2, ConflictsMarked
  <2>4. Scan(input, width) = [opening |-> 0, ranges |-> Ranges, failed |-> FALSE]
    BY <2>2, <2>3, RunType, ScanFinds
  <2> QED
    BY <2>2, <2>4, RemapIs
<1> QED
  BY <1>1, Invariant, PTL

-------------------------------------------------------------------------------
(* The lines outside some ranges.                                          *)

\* What is kept of the first lines, for each number of them.
KeptOf(c, doc, ranges) ==
  /\ c[0] = <<>>
  /\ \A i \in 1..Len(doc) :
       c[i] = IF InSome(i, ranges) THEN c[i - 1] ELSE Append(c[i - 1], doc[i])
  /\ Outside(doc, ranges) = c[Len(doc)]

LEMMA KeptIs ==
  ASSUME NEW S, NEW doc \in Seq(S), NEW ranges
  PROVE  \E c : KeptOf(c, doc, ranges)
<1> DEFINE n == Len(doc)
           T == Seq(S)
           inside(i) == \E k \in DOMAIN ranges : i \in ranges[k].first..ranges[k].last
           next(i, ls) == IF inside(i) THEN ls ELSE Append(ls, doc[i])
           step == [i \in 1..n |-> [ls \in T |-> next(i, ls)]]
           from(f) == [i \in 0..n |->
                         IF i = 0 THEN <<>>
                         ELSE IF inside(i) THEN f[i - 1] ELSE Append(f[i - 1], doc[i])]
           c == CHOOSE f : f = from(f)
<1>1. n \in Nat
  OBVIOUS
<1>2. Outside(doc, ranges) = c[n]
  BY DEF Outside
<1>3. step \in [1..n -> [T -> T]] /\ <<>> \in T
  <2>1. \A i \in 1..n : \A ls \in T : next(i, ls) \in T
    <3>1. \A i \in 1..n : doc[i] \in S
      BY ElementOfSeq
    <3> HIDE DEF inside
    <3> QED
      BY <3>1
  <2> HIDE DEF next
  <2> QED
    BY <2>1
<1>4. PICK g : Iterates(g, n, T, <<>>, step)
  <2> HIDE DEF step, T, n
  <2> QED
    BY <1>1, <1>3, Recursion
<1>5. \A f : from(f) = [i \in 0..n |-> IF i = 0 THEN <<>> ELSE next(i, f[i - 1])]
  OBVIOUS
<1> HIDE DEF from
<1>6. g = from(g)
  <2>1. g \in [0..n -> T] /\ g[0] = <<>> /\ \A i \in 1..n : g[i] = step[i][g[i - 1]]
    <3> HIDE DEF step, T, n
    <3> QED
      BY <1>4 DEF Iterates
  <2>2. ASSUME NEW i \in 0..n
        PROVE  g[i] = IF i = 0 THEN <<>> ELSE next(i, g[i - 1])
    <3>1. CASE i = 0
      BY <3>1, <2>1
    <3>2. CASE i # 0
      <4>1. i \in 1..n /\ i - 1 \in 0..n
        BY <3>2, <1>1
      <4>2. g[i] = step[i][g[i - 1]] /\ g[i - 1] \in T
        <5> HIDE DEF step, T
        <5> QED
          BY <2>1, <4>1
      <4> HIDE DEF next, T
      <4> QED
        BY <3>2, <4>1, <4>2
    <3> QED
      BY <3>1, <3>2
  <2>3. g = [i \in 0..n |-> g[i]]
    BY <2>1
  <2> HIDE DEF next, n
  <2>4. [i \in 0..n |-> g[i]] = [i \in 0..n |-> IF i = 0 THEN <<>> ELSE next(i, g[i - 1])]
    BY <2>2
  <2> QED
    BY <1>5, <2>3, <2>4
<1>7. c = from(c)
  BY <1>6
<1> HIDE DEF c
<1>8. \A i \in 0..n : c[i] = IF i = 0 THEN <<>> ELSE next(i, c[i - 1])
  <2> HIDE DEF next
  <2> QED
    BY <1>5, <1>7
<1>9. c[0] = <<>> /\ \A i \in 1..n : c[i] = next(i, c[i - 1])
  <2> HIDE DEF next
  <2> QED
    BY <1>1, <1>8
<1>10. KeptOf(c, doc, ranges)
  BY <1>2, <1>9 DEF KeptOf, InSome
<1> QED
  BY <1>10

\* As much is kept of the first x lines of one document as of y of the other.
KeptAlike(c, x, d, y) == c[x] = d[y]

\* Two documents that have kept the same so far, and whose next lines are the same
\* and outside, have kept the same after them.
LEMMA KeptTogether ==
  ASSUME NEW a, NEW ra, NEW c, KeptOf(c, a, ra), NEW b, NEW rb, NEW d, KeptOf(d, b, rb),
         NEW i \in Nat, NEW j \in Nat, NEW m \in Nat,
         Len(a) \in Nat, i + m <= Len(a), Len(b) \in Nat, j + m <= Len(b), c[i] = d[j],
         \A h \in 1..m : ~InSome(i + h, ra) /\ ~InSome(j + h, rb) /\ a[i + h] = b[j + h]
  PROVE  KeptAlike(c, i + m, d, j + m)
<1> DEFINE A == {h \in 0..m : c[i + h] = d[j + h]}
<1>1. 0 \in A
  <2>1. i + 0 = i /\ j + 0 = j
    OBVIOUS
  <2> QED
    BY <2>1
<1>2. ASSUME NEW h \in 0..(m - 1), h \in A
      PROVE  h + 1 \in A
  <2> DEFINE p == i + (h + 1)
             q == j + (h + 1)
  <2>1. /\ h + 1 \in 0..m /\ h + 1 \in 1..m
        /\ p \in 1..Len(a) /\ q \in 1..Len(b) /\ p - 1 = i + h /\ q - 1 = j + h
    OBVIOUS
  <2>2. ~InSome(p, ra) /\ ~InSome(q, rb) /\ a[p] = b[q]
    BY <2>1
  <2> HIDE DEF p, q
  <2>3. c[p] = Append(c[p - 1], a[p]) /\ d[q] = Append(d[q - 1], b[q])
    BY <2>1, <2>2 DEF KeptOf
  <2>4. c[p - 1] = d[q - 1]
    BY <1>2, <2>1
  <2>5. c[p] = d[q]
    BY <2>2, <2>3, <2>4
  <2> QED
    BY <2>1, <2>5 DEF p, q
<1>3. 0..m \subseteq A
  <2>1. \A h \in 0..(m - 1) : h \in A => h + 1 \in A
    BY <1>2
  <2> HIDE DEF A
  <2> QED
    BY <1>1, <2>1, Induction
<1>4. m \in A
  BY <1>3
<1> QED
  BY <1>4 DEF KeptAlike

\* Lines inside are not kept.
LEMMA KeptBehind ==
  ASSUME NEW a, NEW ra, NEW c, KeptOf(c, a, ra), Len(a) \in Nat,
         NEW i \in Nat, NEW m \in Nat, i + m <= Len(a), \A h \in 1..m : InSome(i + h, ra)
  PROVE  KeptAlike(c, i + m, c, i)
<1> DEFINE A == {h \in 0..m : c[i + h] = c[i]}
<1>1. 0 \in A
  <2>1. i + 0 = i
    OBVIOUS
  <2> QED
    BY <2>1
<1>2. ASSUME NEW h \in 0..(m - 1), h \in A
      PROVE  h + 1 \in A
  <2> DEFINE p == i + (h + 1)
  <2>1. h + 1 \in 0..m /\ h + 1 \in 1..m /\ p \in 1..Len(a) /\ p - 1 = i + h
    OBVIOUS
  <2>2. InSome(p, ra)
    BY <2>1
  <2> HIDE DEF p
  <2>3. c[p] = c[p - 1]
    BY <2>1, <2>2 DEF KeptOf
  <2>4. c[p] = c[i]
    BY <1>2, <2>1, <2>3
  <2> QED
    BY <2>1, <2>4 DEF p
<1>3. 0..m \subseteq A
  <2>1. \A h \in 0..(m - 1) : h \in A => h + 1 \in A
    BY <1>2
  <2> HIDE DEF A
  <2> QED
    BY <1>1, <2>1, Induction
<1>4. m \in A
  BY <1>3
<1> QED
  BY <1>4 DEF KeptAlike

\* Where the lines before the k-th range end that are behind the one before it.
EndsBefore(ranges, k) == IF k = 0 THEN 0 ELSE ranges[k].last

LEMMA BetweenRanges ==
  ASSUME NEW ranges, NEW N \in Nat, InOrder(ranges, N)
  PROVE  LET n == Len(ranges) IN
         /\ \A k \in 0..n : EndsBefore(ranges, k) \in 0..N
         /\ \A k \in 1..n : EndsBefore(ranges, k - 1) < ranges[k].first
         /\ \A k \in 1..n : \A i \in (EndsBefore(ranges, k - 1) + 1)..(ranges[k].first - 1) :
              ~InSome(i, ranges)
         /\ \A i \in (EndsBefore(ranges, n) + 1)..N : ~InSome(i, ranges)
<1> DEFINE n == Len(ranges)
           F(k) == ranges[k].first
           L(k) == ranges[k].last
           E(k) == EndsBefore(ranges, k)
<1>1. /\ n \in Nat /\ DOMAIN ranges = 1..n
      /\ \A k \in 1..n : F(k) \in Nat /\ L(k) \in Nat /\ 1 <= F(k) /\ F(k) < L(k) /\ L(k) <= N
      /\ \A k \in 1..n : \A j \in 1..(k - 1) : L(j) < F(k)
  <2>1. n \in Nat /\ DOMAIN ranges = 1..n /\ \A k \in 1..n : ranges[k] \in [first : Nat, last : Nat]
    BY InOrderType
  <2> QED
    BY <2>1 DEF InOrder
<1>2. E(0) = 0 /\ \A k \in 1..n : E(k) = L(k)
  BY <1>1 DEF EndsBefore
<1>3. \A i : InSome(i, ranges) <=> \E k \in 1..n : i \in F(k)..L(k)
  BY <1>1 DEF InSome
<1> HIDE DEF n, F, L, E
<1>4. \A j, k \in 1..n : j < k => L(j) < F(k)
  BY <1>1
<1>5. \A k \in 0..n : E(k) \in 0..N
  <2> SUFFICES ASSUME NEW k \in 0..n PROVE E(k) \in 0..N
    OBVIOUS
  <2>1. k = 0 \/ k \in 1..n
    BY <1>1
  <2> QED
    BY <1>1, <1>2, <2>1
<1>6. \A k \in 1..n : E(k - 1) < F(k)
  <2> SUFFICES ASSUME NEW k \in 1..n PROVE E(k - 1) < F(k)
    OBVIOUS
  <2>1. k = 1 \/ k - 1 \in 1..n
    BY <1>1
  <2>2. CASE k = 1
    <3>1. k - 1 = 0 /\ F(k) \in Nat /\ 1 <= F(k)
      BY <1>1, <2>2
    <3> QED
      BY <1>2, <3>1
  <2>3. CASE k - 1 \in 1..n
    <3>1. k - 1 < k
      BY <1>1
    <3> QED
      BY <1>2, <1>4, <2>3, <3>1
  <2> QED
    BY <2>1, <2>2, <2>3
<1>7. ASSUME NEW k \in 1..n, NEW i \in (E(k - 1) + 1)..(F(k) - 1)
      PROVE  ~InSome(i, ranges)
  <2> SUFFICES ASSUME NEW j \in 1..n, i \in F(j)..L(j) PROVE FALSE
    BY <1>3
  <2>1. k - 1 \in 0..n /\ E(k - 1) \in Nat /\ F(j) \in Nat /\ F(k) \in Nat /\ L(j) \in Nat /\ L(k) \in Nat
    BY <1>1, <1>5
  <2>2. F(j) <= i /\ i <= L(j) /\ E(k - 1) < i /\ i < F(k)
    BY <2>1
  <2>3. ~(k < j)
    <3>1. SUFFICES ASSUME k < j PROVE FALSE
      OBVIOUS
    <3>2. L(k) < F(j) /\ F(k) < L(k)
      BY <1>1, <1>4, <3>1
    <3> QED
      BY <2>1, <2>2, <3>2
  <2>4. j # k
    BY <2>1, <2>2
  <2>5. j < k
    BY <2>3, <2>4
  <2>6. j = k - 1 \/ j < k - 1
    BY <2>5
  <2>7. k - 1 \in 1..n /\ E(k - 1) = L(k - 1)
    <3>1. k - 1 \in 1..n
      BY <1>1, <2>5
    <3> QED
      BY <1>2, <3>1
  <2>8. L(j) <= L(k - 1)
    <3>1. L(k - 1) \in Nat /\ F(k - 1) \in Nat /\ F(k - 1) < L(k - 1)
      BY <1>1, <2>7
    <3>2. j < k - 1 => L(j) < F(k - 1)
      BY <1>4, <2>7
    <3> QED
      BY <2>1, <2>6, <3>1, <3>2
  <2> QED
    BY <2>1, <2>2, <2>7, <2>8
<1>8. ASSUME NEW i \in (E(n) + 1)..N
      PROVE  ~InSome(i, ranges)
  <2> SUFFICES ASSUME NEW j \in 1..n, i \in F(j)..L(j) PROVE FALSE
    BY <1>3
  <2>1. n \in 1..n /\ E(n) = L(n) /\ L(n) \in Nat /\ L(j) \in Nat /\ F(n) \in Nat /\ F(n) < L(n)
    <3>1. n \in 1..n
      BY <1>1
    <3> QED
      BY <1>1, <1>2, <3>1
  <2>2. j < n => L(j) < F(n)
    BY <1>4, <2>1
  <2>3. L(j) <= L(n)
    <3>1. j = n \/ j < n
      BY <1>1
    <3> QED
      BY <2>1, <2>2, <3>1
  <2>4. i <= L(j) /\ L(n) < i
    BY <1>1, <2>1
  <2> QED
    BY <2>1, <2>3, <2>4
<1> QED
  BY <1>5, <1>6, <1>7, <1>8 DEF n, F, L, E

-------------------------------------------------------------------------------
(* A working copy in another style.                                        *)

\* How many lines of the document come up to the opening marker of a range.
Lead(ranges, k) == ranges[k].first - EndsBefore(ranges, k - 1)

\* The source has the document's lines, and other lines between the outer
\* markers; the k-th conflict ends on line p[k].
Restyles(p, doc, ranges, interior, source) ==
  LET n == Len(ranges)
      m == Len(interior)
      E(k) == EndsBefore(ranges, k)
  IN /\ p \in [0..n -> Nat] /\ p[0] = 0
     /\ \A k \in 1..n :
          /\ p[k] = p[k - 1] + (Lead(ranges, k) + (m + 1))
          /\ \A j \in 1..Lead(ranges, k) : source[p[k - 1] + j] = doc[E(k - 1) + j]
          /\ \A j \in 1..m : source[p[k - 1] + (Lead(ranges, k) + j)] = interior[j]
          /\ source[p[k]] = doc[ranges[k].last]
     /\ Len(source) = p[n] + (Len(doc) - E(n))
     /\ \A j \in 1..(Len(doc) - E(n)) : source[p[n] + j] = doc[E(n) + j]

\* A stretch of the document, the interior and a line, one behind the other.
IsPiece(piece, doc, interior, line, e, f) ==
  LET m == Len(interior)
  IN /\ Len(piece) = (f - e) + (m + 1)
     /\ \A j \in 1..(f - e) : piece[j] = doc[e + j]
     /\ \A j \in 1..m : piece[(f - e) + j] = interior[j]
     /\ piece[(f - e) + (m + 1)] = line

LEMMA PieceIs ==
  ASSUME NEW S, NEW doc \in Seq(S), NEW interior \in Seq(S), NEW line \in S,
         NEW e \in Nat, NEW f \in Nat, e < f, f <= Len(doc)
  PROVE  LET piece == SubSeq(doc, e + 1, f) \o interior \o <<line>>
         IN piece \in Seq(S) /\ IsPiece(piece, doc, interior, line, e, f)
<1> DEFINE head == SubSeq(doc, e + 1, f)
           both == head \o interior
           tail == <<line>>
           piece == both \o tail
           m == Len(interior)
           l == f - e
<1>1. m \in Nat /\ l \in Nat
  OBVIOUS
<1>2. head \in Seq(S) /\ Len(head) = l /\ \A j \in 1..l : head[j] = doc[e + j]
  <2>1. \A i \in (e + 1)..f : doc[i] \in S
    <3>1. \A i \in (e + 1)..f : i \in 1..Len(doc)
      OBVIOUS
    <3> QED
      BY <3>1, ElementOfSeq
  <2>2. /\ head \in Seq(S)
        /\ Len(head) = IF e + 1 <= f THEN f - (e + 1) + 1 ELSE 0
        /\ \A j \in 1..(f - (e + 1) + 1) : head[j] = doc[(e + 1) + j - 1]
    BY <2>1, SubSeqProperties
  <2>3. e + 1 <= f /\ f - (e + 1) + 1 = l
    OBVIOUS
  <2>4. \A j \in 1..l : (e + 1) + j - 1 = e + j
    OBVIOUS
  <2> HIDE DEF head
  <2> QED
    BY <2>2, <2>3, <2>4
<1>3. tail \in Seq(S) /\ Len(tail) = 1 /\ tail[1] = line
  OBVIOUS
<1> HIDE DEF head, tail, m, l
<1>4. /\ both \in Seq(S) /\ Len(both) = l + m
      /\ \A i \in 1..(l + m) : both[i] = IF i <= l THEN head[i] ELSE interior[i - l]
  BY <1>2, ConcatProperties DEF m
<1> HIDE DEF both
<1>5. /\ piece \in Seq(S) /\ Len(piece) = (l + m) + 1
      /\ \A i \in 1..((l + m) + 1) : piece[i] = IF i <= l + m THEN both[i] ELSE tail[i - (l + m)]
  <2>1. /\ piece \in Seq(S) /\ Len(piece) = Len(both) + Len(tail)
        /\ \A i \in 1..(Len(both) + Len(tail)) :
             piece[i] = IF i <= Len(both) THEN both[i] ELSE tail[i - Len(both)]
    BY <1>3, <1>4, ConcatProperties
  <2> HIDE DEF piece
  <2> QED
    BY <1>3, <1>4, <2>1
<1> HIDE DEF piece
<1>6. ASSUME NEW j \in 1..l PROVE piece[j] = doc[e + j]
  <2>1. j \in 1..((l + m) + 1) /\ j <= l + m /\ j \in 1..(l + m) /\ j <= l
    BY <1>1
  <2> QED
    BY <1>2, <1>4, <1>5, <2>1
<1>7. ASSUME NEW j \in 1..m PROVE piece[l + j] = interior[j]
  <2>1. /\ l + j \in 1..((l + m) + 1) /\ l + j <= l + m /\ l + j \in 1..(l + m) /\ ~(l + j <= l)
        /\ (l + j) - l = j
    BY <1>1
  <2> QED
    BY <1>4, <1>5, <2>1
<1>8. piece[l + (m + 1)] = line
  <2> DEFINE i == l + (m + 1)
  <2>1. i \in 1..((l + m) + 1) /\ ~(i <= l + m) /\ i - (l + m) = 1
    BY <1>1
  <2> HIDE DEF i
  <2>2. piece[i] = tail[1]
    BY <1>5, <2>1
  <2> QED
    BY <1>3, <2>2 DEF i
<1>9. Len(piece) = l + (m + 1)
  BY <1>1, <1>5
<1> QED
  BY <1>5, <1>6, <1>7, <1>8, <1>9 DEF IsPiece, piece, both, head, tail, m, l

\* What Restyled makes.
LEMMA RestyledIs ==
  ASSUME IInv, outcome = "parsed", NEW interior \in Interiors
  PROVE  /\ Restyled(interior) \in Seq(Alphabet \cup Range(interior))
         /\ \E p : Restyles(p, input, Ranges, interior, Restyled(interior))
<1> DEFINE n == Len(regions)
           m == Len(interior)
           N == Len(input)
           S == Alphabet \cup Range(interior)
           E(k) == EndsBefore(Ranges, k)
           F(k) == Ranges[k].first
           L(k) == Ranges[k].last
           piece(k) == SubSeq(input, E(k - 1) + 1, F(k)) \o interior \o <<input[L(k)]>>
           pieces == [k \in 1..n |-> piece(k)]
           rest == SubSeq(input, E(n) + 1, N)
           flat == FlattenSeq(pieces)
<1>1. /\ input \in Seq(Alphabet) /\ width \in Nat /\ width >= MinMarkerWidth
      /\ n \in Nat /\ Len(Ranges) = n /\ DOMAIN Ranges = 1..n
      /\ \A k \in 1..n : F(k) = regions[k].first /\ L(k) = regions[k].last
      /\ AreConflicts(input, width, Ranges) /\ n # 0
  BY ParsedFacts
<1>2. N \in Nat /\ input \in Seq(S) /\ m \in Nat /\ interior \in Seq(S)
  <2>1. interior \in Seq(Range(interior))
    BY GrammarAssumption
  <2>2. Alphabet \subseteq S /\ Range(interior) \subseteq S
    OBVIOUS
  <2> HIDE DEF S
  <2>3. input \in Seq(S) /\ interior \in Seq(S)
    BY <1>1, <2>1, <2>2, SeqMonotonic
  <2> QED
    BY <2>3
<1>3. InOrder(Ranges, N)
  BY <1>1, ConflictsMarked
<1>4. \A k \in 1..n : F(k) \in Nat /\ L(k) \in Nat /\ 1 <= F(k) /\ F(k) < L(k) /\ L(k) <= N
  <2>1. \A k \in 1..n : Ranges[k] \in [first : Nat, last : Nat]
    BY <1>1, <1>3, InOrderType
  <2> QED
    BY <1>1, <1>3, <2>1 DEF InOrder
<1>5. /\ \A k \in 0..n : E(k) \in 0..N
      /\ \A k \in 1..n : E(k - 1) < F(k)
  BY <1>1, <1>2, <1>3, BetweenRanges
<1>6. Restyled(interior) = flat \o rest
  <2>1. \A k \in 0..n : E(k) = IF k = 0 THEN 0 ELSE regions[k].last
    BY <1>1 DEF EndsBefore
  <2>2. \A k \in 1..n : E(k - 1) = IF k - 1 = 0 THEN 0 ELSE regions[k - 1].last
    <3>1. \A k \in 1..n : k - 1 \in 0..n
      BY <1>1
    <3> HIDE DEF E
    <3> QED
      BY <2>1, <3>1
  <2> DEFINE from(k) == IF k = 0 THEN 0 ELSE regions[k].last
             old == [k \in 1..n |-> SubSeq(input, from(k - 1) + 1, regions[k].first)
                                      \o interior \o <<input[regions[k].last]>>]
  <2>3. Restyled(interior) = FlattenSeq(old) \o SubSeq(input, from(n) + 1, N)
    BY DEF Restyled
  <2>4. \A k \in 1..n : E(k - 1) = from(k - 1) /\ F(k) = regions[k].first /\ L(k) = regions[k].last
    BY <1>1, <2>2
  <2>5. E(n) = from(n)
    BY <1>1, <2>1
  <2>6. pieces = old
    <3> HIDE DEF E, F, L, from
    <3> QED
      BY <2>4
  <2> HIDE DEF old, pieces, E, from
  <2> QED
    BY <2>3, <2>5, <2>6
<1> HIDE DEF E, F, L, S, N, n, m
<1>7. ASSUME NEW k \in 1..n
      PROVE  /\ piece(k) \in Seq(S) /\ Len(piece(k)) = (F(k) - E(k - 1)) + (m + 1)
             /\ \A j \in 1..(F(k) - E(k - 1)) : piece(k)[j] = input[E(k - 1) + j]
             /\ \A j \in 1..m : piece(k)[(F(k) - E(k - 1)) + j] = interior[j]
             /\ piece(k)[(F(k) - E(k - 1)) + (m + 1)] = input[L(k)]
  <2>1. k - 1 \in 0..n /\ L(k) \in 1..N
    BY <1>1, <1>2, <1>4
  <2>2. E(k - 1) \in Nat /\ F(k) \in Nat /\ E(k - 1) < F(k) /\ F(k) <= Len(input)
    BY <1>2, <1>4, <1>5, <2>1 DEF N
  <2>3. input[L(k)] \in S
    BY <1>2, <2>1, ElementOfSeq DEF N
  <2>4. piece(k) \in Seq(S) /\ IsPiece(piece(k), input, interior, input[L(k)], E(k - 1), F(k))
    BY <1>2, <2>2, <2>3, PieceIs
  <2> HIDE DEF piece
  <2> QED
    BY <2>4 DEF IsPiece, m
<1>8. pieces \in [1..n -> Seq(S)] /\ \A k \in 1..n : pieces[k] = piece(k)
  <2> HIDE DEF piece
  <2> QED
    BY <1>7
<1>9. flat \in Seq(S)
  <2> HIDE DEF pieces
  <2> QED
    BY <1>1, <1>8, FlattenType
<1>10. PICK p : Spread(p, n, pieces, flat)
  <2> HIDE DEF pieces
  <2> QED
    BY <1>1, <1>8, FlattenAt
<1> HIDE DEF pieces, piece, flat
<1>11. /\ p \in [0..n -> Nat] /\ p[0] = 0 /\ Len(flat) = p[n]
       /\ \A k \in 1..n : p[k] = p[k - 1] + Len(piece(k))
       /\ \A k \in 1..n : \A j \in 1..Len(piece(k)) : flat[p[k - 1] + j] = piece(k)[j]
  BY <1>8, <1>10 DEF Spread
<1>12. rest \in Seq(S) /\ Len(rest) = N - E(n) /\ \A j \in 1..(N - E(n)) : rest[j] = input[E(n) + j]
  <2>1. n \in 0..n /\ E(n) \in 0..N
    BY <1>1, <1>5
  <2>2. \A i \in (E(n) + 1)..N : input[i] \in S
    <3>1. \A i \in (E(n) + 1)..N : i \in 1..Len(input)
      BY <1>2, <2>1 DEF N
    <3> QED
      BY <1>2, <3>1, ElementOfSeq
  <2>3. /\ rest \in Seq(S)
        /\ Len(rest) = IF E(n) + 1 <= N THEN N - (E(n) + 1) + 1 ELSE 0
        /\ \A j \in 1..(N - (E(n) + 1) + 1) : rest[j] = input[(E(n) + 1) + j - 1]
    BY <1>2, <2>1, <2>2, SubSeqProperties
  <2>4. N - (E(n) + 1) + 1 = N - E(n)
    BY <1>2, <2>1
  <2>5. \A j \in 1..(N - E(n)) : (E(n) + 1) + j - 1 = E(n) + j
    BY <1>2, <2>1
  <2>6. ~(E(n) + 1 <= N) => N - E(n) = 0
    BY <1>2, <2>1
  <2> HIDE DEF rest
  <2> QED
    BY <2>3, <2>4, <2>5, <2>6
<1> HIDE DEF rest
<1> DEFINE source == flat \o rest
<1>13. /\ Len(source) = p[n] + (N - E(n))
       /\ \A i \in 1..p[n] : source[i] = flat[i]
       /\ \A j \in 1..(N - E(n)) : source[p[n] + j] = input[E(n) + j]
  <2>1. p[n] \in Nat /\ N - E(n) \in Nat
    <3>1. n \in 0..n /\ E(n) \in 0..N
      BY <1>1, <1>5
    <3> QED
      BY <1>2, <1>11, <3>1
  <2>2. /\ Len(source) = Len(flat) + Len(rest)
        /\ \A i \in 1..(Len(flat) + Len(rest)) :
             source[i] = IF i <= Len(flat) THEN flat[i] ELSE rest[i - Len(flat)]
    BY <1>9, <1>12, ConcatProperties
  <2> HIDE DEF source
  <2>3. ASSUME NEW i \in 1..p[n] PROVE source[i] = flat[i]
    <3>1. i \in 1..(p[n] + (N - E(n))) /\ i <= p[n]
      BY <2>1
    <3> QED
      BY <1>11, <1>12, <2>2, <3>1
  <2>4. ASSUME NEW j \in 1..(N - E(n)) PROVE source[p[n] + j] = input[E(n) + j]
    <3> DEFINE i == p[n] + j
    <3>1. i \in 1..(p[n] + (N - E(n))) /\ ~(i <= p[n]) /\ i - p[n] = j
      BY <2>1
    <3> HIDE DEF i
    <3>2. source[i] = rest[j]
      BY <1>11, <1>12, <2>2, <3>1
    <3> QED
      BY <1>12, <3>2 DEF i
  <2> QED
    BY <1>11, <1>12, <2>2, <2>3, <2>4
<1> HIDE DEF source
<1>14. \A k \in 1..n : p[k - 1] \in Nat /\ p[k] \in Nat /\ p[k] <= p[n]
  <2>1. ASSUME NEW k \in 1..n PROVE p[k - 1] <= p[k] /\ p[k - 1] \in Nat /\ p[k] \in Nat
    <3>1. k - 1 \in 0..n /\ k \in 0..n
      BY <1>1
    <3>2. Len(piece(k)) \in Nat
      BY <1>7
    <3> QED
      BY <1>11, <3>1, <3>2
  <2>2. ASSUME NEW k \in 1..n PROVE p[k] <= p[n]
    <3>1. k \in 0..n /\ n \in k..n
      BY <1>1
    <3> QED
      BY <1>1, <1>11, <2>1, <3>1, Ascending
  <2> QED
    BY <2>1, <2>2
<1>15. ASSUME NEW k \in 1..n, NEW j \in 1..Len(piece(k))
       PROVE  source[p[k - 1] + j] = piece(k)[j]
  <2>1. Len(piece(k)) \in Nat
    BY <1>7
  <2>2. p[k - 1] + j \in 1..p[n]
    <3> DEFINE l == Len(piece(k))
    <3>1. p[k] = p[k - 1] + l /\ l \in Nat /\ j \in 1..l
      BY <1>11, <2>1
    <3>2. p[n] \in Nat
      <4>1. n \in 0..n
        BY <1>1
      <4> QED
        BY <1>11, <4>1
    <3> HIDE DEF l
    <3> QED
      BY <1>14, <3>1, <3>2
  <2> QED
    BY <1>11, <1>13, <2>2
<1>16. ASSUME NEW k \in 1..n
       PROVE  LET lead == F(k) - E(k - 1) IN
              /\ p[k] = p[k - 1] + (lead + (m + 1))
              /\ \A j \in 1..lead : source[p[k - 1] + j] = input[E(k - 1) + j]
              /\ \A j \in 1..m : source[p[k - 1] + (lead + j)] = interior[j]
              /\ source[p[k]] = input[L(k)]
  <2> DEFINE lead == F(k) - E(k - 1)
  <2>1. lead \in Nat /\ m \in Nat
    <3>1. k - 1 \in 0..n
      BY <1>1
    <3>2. E(k - 1) \in Nat /\ F(k) \in Nat /\ E(k - 1) < F(k)
      BY <1>2, <1>4, <1>5, <3>1
    <3> QED
      BY <1>2, <3>2
  <2>2. /\ Len(piece(k)) = lead + (m + 1)
        /\ \A j \in 1..lead : piece(k)[j] = input[E(k - 1) + j]
        /\ \A j \in 1..m : piece(k)[lead + j] = interior[j]
        /\ piece(k)[lead + (m + 1)] = input[L(k)]
    BY <1>7
  <2> HIDE DEF lead
  <2>3. p[k] = p[k - 1] + (lead + (m + 1))
    BY <1>11, <2>2
  <2>4. /\ \A j \in 1..lead : j \in 1..Len(piece(k))
        /\ \A j \in 1..m : lead + j \in 1..Len(piece(k))
        /\ lead + (m + 1) \in 1..Len(piece(k))
    BY <2>1, <2>2
  <2>5. \A j \in 1..lead : source[p[k - 1] + j] = input[E(k - 1) + j]
    BY <1>15, <2>2, <2>4
  <2>6. \A j \in 1..m : source[p[k - 1] + (lead + j)] = interior[j]
    BY <1>15, <2>2, <2>4
  <2>7. source[p[k]] = input[L(k)]
    BY <1>15, <2>2, <2>3, <2>4
  <2> QED
    BY <2>3, <2>5, <2>6, <2>7 DEF lead
<1>17. Restyles(p, input, Ranges, interior, source)
  BY <1>1, <1>11, <1>13, <1>16 DEF Restyles, Lead, E, F, L, N, n, m
<1>18. source \in Seq(S)
  BY <1>9, <1>12, ConcatProperties DEF source
<1> QED
  BY <1>6, <1>17, <1>18 DEF source, S

\* Where the conflicts are in it.
Moved(p, ranges) ==
  [k \in 1..Len(ranges) |-> [first |-> p[k - 1] + Lead(ranges, k), last |-> p[k]]]

LEMMA MovedInOrder ==
  ASSUME NEW doc, NEW N \in Nat, Len(doc) = N, NEW ranges, InOrder(ranges, N),
         NEW interior, Len(interior) \in Nat, NEW p, NEW source,
         Restyles(p, doc, ranges, interior, source)
  PROVE  LET n == Len(ranges)
             m == Len(interior)
             moved == Moved(p, ranges)
         IN /\ InOrder(moved, Len(source)) /\ Len(moved) = n /\ Len(source) \in Nat
            /\ \A k \in 0..n : EndsBefore(moved, k) = p[k] /\ p[k] \in Nat /\ p[k] <= Len(source)
            /\ \A k \in 1..n :
                 /\ Lead(ranges, k) \in Nat \ {0}
                 /\ moved[k].first = p[k - 1] + Lead(ranges, k)
                 /\ moved[k].last = p[k] /\ p[k] = moved[k].first + (m + 1)
<1> DEFINE n == Len(ranges)
           m == Len(interior)
           moved == Moved(p, ranges)
           E(k) == EndsBefore(ranges, k)
           lead(k) == Lead(ranges, k)
           F(k) == moved[k].first
<1>1. n \in Nat /\ \A k \in 1..n : ranges[k].first \in Nat
  <2>1. n \in Nat /\ \A k \in 1..n : ranges[k] \in [first : Nat, last : Nat]
    BY InOrderType
  <2> QED
    BY <2>1
<1>2. /\ \A k \in 0..n : E(k) \in 0..N
      /\ \A k \in 1..n : E(k - 1) < ranges[k].first
  BY BetweenRanges
<1>3. \A k \in 1..n : k - 1 \in 0..n /\ k \in 0..n /\ k \in Nat
  BY <1>1
<1>4. ASSUME NEW k \in 1..n PROVE lead(k) \in Nat \ {0}
  <2>1. E(k - 1) \in Nat /\ E(k - 1) < ranges[k].first /\ ranges[k].first \in Nat
    BY <1>1, <1>2, <1>3
  <2>2. lead(k) = ranges[k].first - E(k - 1)
    BY DEF Lead
  <2> HIDE DEF E, lead
  <2> QED
    BY <2>1, <2>2
<1>5. /\ p \in [0..n -> Nat] /\ p[0] = 0 /\ Len(source) = p[n] + (N - E(n))
      /\ \A k \in 1..n : p[k] = p[k - 1] + (lead(k) + (m + 1))
  BY DEF Restyles
<1>6. /\ DOMAIN moved = 1..n
      /\ \A k \in 1..n : F(k) = p[k - 1] + lead(k) /\ moved[k].last = p[k]
                         /\ moved[k] = [first |-> F(k), last |-> p[k]]
  BY DEF Moved
<1> HIDE DEF n, m, moved, E, lead
<1>7. m \in Nat
  BY DEF m
<1>8. ASSUME NEW k \in 1..n
      PROVE  /\ p[k - 1] \in Nat /\ p[k] \in Nat /\ F(k) \in Nat
             /\ p[k - 1] < F(k) /\ 1 <= F(k) /\ F(k) < p[k] /\ p[k] = F(k) + (m + 1)
  <2>1. p[k - 1] \in Nat /\ p[k] \in Nat /\ lead(k) \in Nat \ {0}
    BY <1>3, <1>4, <1>5
  <2>2. F(k) = p[k - 1] + lead(k) /\ p[k] = p[k - 1] + (lead(k) + (m + 1))
    BY <1>5, <1>6
  <2> HIDE DEF F
  <2> QED
    BY <1>7, <2>1, <2>2
<1>9. ASSUME NEW j \in 0..n, NEW k \in j..n PROVE p[j] <= p[k]
  <2>1. \A h \in 1..n : p[h - 1] <= p[h]
    <3> SUFFICES ASSUME NEW h \in 1..n PROVE p[h - 1] <= p[h]
      OBVIOUS
    <3>1. p[h - 1] \in Nat /\ p[h] \in Nat /\ F(h) \in Nat /\ p[h - 1] < F(h) /\ F(h) < p[h]
      BY <1>8
    <3> HIDE DEF F
    <3> QED
      BY <3>1
  <2> QED
    BY <1>1, <1>5, <2>1, Ascending
<1>10. p[n] \in Nat /\ Len(source) \in Nat /\ p[n] <= Len(source)
  <2>1. n \in 0..n
    BY <1>1
  <2>2. p[n] \in Nat /\ E(n) \in 0..N
    BY <1>2, <1>5, <2>1
  <2> QED
    BY <1>5, <2>2
<1>11. \A k \in 0..n : p[k] \in Nat /\ p[k] <= Len(source)
  <2> SUFFICES ASSUME NEW k \in 0..n PROVE p[k] \in Nat /\ p[k] <= Len(source)
    OBVIOUS
  <2>1. n \in k..n /\ p[k] \in Nat
    BY <1>1, <1>5
  <2> QED
    BY <1>9, <1>10, <2>1
<1>12. moved \in Seq([first : Nat, last : Nat]) /\ Len(moved) = n
  <2>1. \A k \in 1..n : moved[k] \in [first : Nat, last : Nat]
    <3> SUFFICES ASSUME NEW k \in 1..n PROVE moved[k] \in [first : Nat, last : Nat]
      OBVIOUS
    <3>1. F(k) \in Nat /\ p[k] \in Nat /\ moved[k] = [first |-> F(k), last |-> p[k]]
      BY <1>6, <1>8
    <3> HIDE DEF F
    <3> QED
      BY <3>1
  <2>2. moved = [k \in 1..n |-> moved[k]]
    BY DEF moved, Moved, n
  <2> DEFINE T == [first : Nat, last : Nat]
  <2>3. moved \in [1..n -> T]
    BY <2>1, <2>2
  <2> HIDE DEF T
  <2>4. moved \in Seq(T) /\ Len(moved) = n
    BY <1>1, <2>3, IsASeq
  <2> QED
    BY <2>4 DEF T
<1>13. InOrder(moved, Len(source))
  <2>1. ASSUME NEW k \in 1..n
        PROVE  1 <= F(k) /\ F(k) < moved[k].last /\ moved[k].last <= Len(source)
    BY <1>3, <1>6, <1>8, <1>11
  <2>2. ASSUME NEW k \in 1..n, NEW j \in 1..(k - 1)
        PROVE  moved[j].last < F(k)
    <3>1. j \in 1..n /\ k - 1 \in j..n /\ j \in 0..n
      BY <1>1
    <3>2. p[j] <= p[k - 1]
      BY <1>9, <3>1
    <3>3. p[j] \in Nat /\ p[k - 1] \in Nat /\ F(k) \in Nat /\ p[k - 1] < F(k)
      BY <1>8, <3>1
    <3>4. moved[j].last = p[j]
      BY <1>6, <3>1
    <3> HIDE DEF F
    <3> QED
      BY <3>2, <3>3, <3>4
  <2> QED
    BY <1>12, <2>1, <2>2 DEF InOrder
<1>14. \A k \in 0..n : EndsBefore(moved, k) = p[k]
  <2> SUFFICES ASSUME NEW k \in 0..n PROVE EndsBefore(moved, k) = p[k]
    OBVIOUS
  <2>1. k = 0 \/ k \in 1..n
    BY <1>1
  <2> QED
    BY <1>5, <1>6, <2>1 DEF EndsBefore
<1> QED
  BY <1>4, <1>6, <1>8, <1>10, <1>11, <1>12, <1>13, <1>14 DEF n, m, moved, lead

\* A line of the source that is in none of them is a line of the document that is
\* outside, too.
LEMMA OutsideLines ==
  ASSUME NEW doc, NEW N \in Nat, Len(doc) = N, NEW ranges, InOrder(ranges, N),
         NEW interior, Len(interior) \in Nat, NEW p, NEW source,
         Restyles(p, doc, ranges, interior, source),
         NEW i \in 1..Len(source), ~InSome(i, Moved(p, ranges))
  PROVE  \E h \in 1..N : ~InSome(h, ranges) /\ source[i] = doc[h]
<1> DEFINE n == Len(ranges)
           m == Len(interior)
           moved == Moved(p, ranges)
           E(k) == EndsBefore(ranges, k)
           lead(k) == Lead(ranges, k)
           F(k) == moved[k].first
<1>1. /\ InOrder(moved, Len(source)) /\ Len(moved) = n /\ Len(source) \in Nat
      /\ \A k \in 0..n : p[k] \in Nat /\ p[k] <= Len(source)
      /\ \A k \in 1..n :
           /\ lead(k) \in Nat \ {0} /\ F(k) = p[k - 1] + lead(k)
           /\ moved[k].last = p[k] /\ p[k] = F(k) + (m + 1)
  BY MovedInOrder
<1>2. /\ n \in Nat /\ DOMAIN moved = 1..n
      /\ \A k \in 1..n : ranges[k].first \in Nat /\ ranges[k].first <= N
  <2>1. n \in Nat /\ \A k \in 1..n : ranges[k] \in [first : Nat, last : Nat]
    BY InOrderType
  <2>2. \A k \in 1..n : ranges[k].first < ranges[k].last /\ ranges[k].last <= N
    BY DEF InOrder
  <2>3. DOMAIN moved = 1..n
    BY <1>1, InOrderType
  <2> QED
    BY <2>1, <2>2, <2>3
<1>3. /\ \A k \in 0..n : E(k) \in 0..N
      /\ \A k \in 1..n : E(k - 1) < ranges[k].first
      /\ \A k \in 1..n : \A h \in (E(k - 1) + 1)..(ranges[k].first - 1) : ~InSome(h, ranges)
      /\ \A h \in (E(n) + 1)..N : ~InSome(h, ranges)
  BY BetweenRanges
<1>4. /\ p \in [0..n -> Nat] /\ p[0] = 0 /\ Len(source) = p[n] + (N - E(n))
      /\ \A k \in 1..n : \A j \in 1..lead(k) : source[p[k - 1] + j] = doc[E(k - 1) + j]
      /\ \A j \in 1..(N - E(n)) : source[p[n] + j] = doc[E(n) + j]
  BY DEF Restyles
<1>5. \A k \in 1..n : lead(k) = ranges[k].first - E(k - 1)
  BY DEF Lead
<1>6. \A k \in 1..n : ~(F(k) <= i /\ i <= p[k])
  <2> SUFFICES ASSUME NEW k \in 1..n, F(k) <= i, i <= p[k] PROVE FALSE
    OBVIOUS
  <2>1. F(k) \in Nat /\ p[k] \in Nat
    <3>1. k \in 0..n /\ k - 1 \in 0..n
      BY <1>2
    <3>2. p[k - 1] \in Nat /\ p[k] \in Nat /\ lead(k) \in Nat /\ F(k) = p[k - 1] + lead(k)
      BY <1>1, <3>1
    <3> HIDE DEF F, lead
    <3> QED
      BY <3>2
  <2>2. i \in F(k)..moved[k].last
    <3>1. moved[k].last = p[k]
      BY <1>1
    <3> HIDE DEF F
    <3> QED
      BY <1>1, <2>1, <3>1
  <2> QED
    BY <1>2, <2>2 DEF InSome
<1> HIDE DEF n, m, moved, E, lead, F
<1>7. CASE i <= p[n]
  <2>10. i \in Nat /\ 0 < i
    BY <1>1
  <2>1. PICK k \in 1..n : p[k - 1] < i /\ i <= p[k]
    BY <1>2, <1>4, <1>7, <2>10, Reached
  <2> DEFINE j == i - p[k - 1]
             h == E(k - 1) + j
             f == ranges[k].first
  <2>2. k - 1 \in 0..n /\ k \in 0..n
    BY <1>2
  <2>3. p[k - 1] \in Nat /\ p[k] \in Nat /\ lead(k) \in Nat /\ F(k) = p[k - 1] + lead(k) /\ i < F(k)
    BY <1>1, <1>6, <2>1, <2>2
  <2>4. j \in 1..(lead(k) - 1) /\ j \in 1..lead(k) /\ p[k - 1] + j = i
    BY <1>1, <2>1, <2>3
  <2>5. E(k - 1) \in Nat /\ f \in Nat /\ lead(k) = f - E(k - 1) /\ f <= N
    BY <1>2, <1>3, <1>5, <2>2
  <2> HIDE DEF j, f
  <2>6. h \in (E(k - 1) + 1)..(f - 1) /\ h \in 1..N
    BY <2>4, <2>5
  <2>7. ~InSome(h, ranges)
    BY <1>3, <2>6 DEF f
  <2>8. source[i] = doc[h]
    BY <1>4, <2>4
  <2> QED
    BY <2>6, <2>7, <2>8
<1>8. CASE ~(i <= p[n])
  <2> DEFINE j == i - p[n]
             h == E(n) + j
  <2>1. n \in 0..n
    BY <1>2
  <2>2. p[n] \in Nat /\ E(n) \in 0..N
    BY <1>1, <1>3, <2>1
  <2>3. j \in 1..(N - E(n)) /\ p[n] + j = i
    BY <1>1, <1>4, <1>8, <2>2
  <2> HIDE DEF j
  <2>4. h \in (E(n) + 1)..N /\ h \in 1..N
    BY <2>2, <2>3
  <2>5. ~InSome(h, ranges) /\ source[i] = doc[h]
    BY <1>3, <1>4, <2>3, <2>4
  <2> QED
    BY <2>4, <2>5
<1> QED
  BY <1>7, <1>8

\* The outer markers of the source are those of the document, with the interior
\* between them.
SameMarkers(doc, ranges, interior, source, moved) ==
  \A k \in 1..Len(ranges) :
    /\ source[moved[k].first] = doc[ranges[k].first]
    /\ source[moved[k].last] = doc[ranges[k].last]
    /\ \A i \in (moved[k].first + 1)..(moved[k].last - 1) :
         \E j \in 1..Len(interior) : source[i] = interior[j]

LEMMA MovedMarkers ==
  ASSUME NEW doc, NEW N \in Nat, Len(doc) = N, NEW ranges, InOrder(ranges, N),
         NEW interior, Len(interior) \in Nat,
         NEW p, NEW source, Restyles(p, doc, ranges, interior, source)
  PROVE  SameMarkers(doc, ranges, interior, source, Moved(p, ranges))
<1> DEFINE n == Len(ranges)
           m == Len(interior)
           moved == Moved(p, ranges)
           lead(k) == Lead(ranges, k)
<1>1. /\ Len(moved) = n /\ n \in Nat
      /\ \A k \in 0..n : p[k] \in Nat
      /\ \A k \in 1..n :
           /\ lead(k) \in Nat \ {0} /\ moved[k].first = p[k - 1] + lead(k)
           /\ moved[k].last = p[k] /\ p[k] = moved[k].first + (m + 1)
  BY MovedInOrder, InOrderType
<1>2. \A k \in 1..n :
        /\ \A j \in 1..lead(k) : source[p[k - 1] + j] = doc[EndsBefore(ranges, k - 1) + j]
        /\ \A j \in 1..m : source[p[k - 1] + (lead(k) + j)] = interior[j]
        /\ source[p[k]] = doc[ranges[k].last]
  BY DEF Restyles
<1>3. \A k \in 1..n : EndsBefore(ranges, k - 1) + lead(k) = ranges[k].first
  <2> SUFFICES ASSUME NEW k \in 1..n
               PROVE  EndsBefore(ranges, k - 1) + lead(k) = ranges[k].first
    OBVIOUS
  <2> DEFINE e == EndsBefore(ranges, k - 1)
             f == ranges[k].first
  <2>1. e \in Nat /\ f \in Nat
    <3>1. k - 1 \in 0..n
      BY <1>1
    <3>2. e \in 0..N
      BY <3>1, BetweenRanges
    <3>3. ranges[k] \in [first : Nat, last : Nat]
      BY InOrderType
    <3> QED
      BY <3>2, <3>3
  <2>2. lead(k) = f - e
    BY DEF Lead
  <2> HIDE DEF e, f, lead
  <2>3. e + lead(k) = f
    BY <2>1, <2>2
  <2> QED
    BY <2>3 DEF e, f
<1> HIDE DEF moved, lead
<1>4. ASSUME NEW k \in 1..n
      PROVE  source[moved[k].first] = doc[ranges[k].first]
  <2>1. lead(k) \in 1..lead(k)
    BY <1>1
  <2>2. source[p[k - 1] + lead(k)] = doc[EndsBefore(ranges, k - 1) + lead(k)]
    BY <1>2, <2>1
  <2> QED
    BY <1>1, <1>3, <2>2
<1>5. ASSUME NEW k \in 1..n, NEW i \in (moved[k].first + 1)..(moved[k].last - 1)
      PROVE  \E j \in 1..m : source[i] = interior[j]
  <2> DEFINE a == p[k - 1]
             b == lead(k)
             j == i - (a + b)
  <2>1. k - 1 \in 0..n
    BY <1>1
  <2>2. a \in Nat /\ b \in Nat /\ m \in Nat
    BY <1>1, <2>1
  <2>3. moved[k].first = a + b /\ moved[k].last = (a + b) + (m + 1)
    BY <1>1
  <2>4. \A h \in 1..m : source[a + (b + h)] = interior[h]
    BY <1>2
  <2> DEFINE f == moved[k].first
             l == moved[k].last
  <2>5. i \in (f + 1)..(l - 1) /\ f = a + b /\ l = (a + b) + (m + 1)
    BY <2>3
  <2> HIDE DEF a, b, m, f, l
  <2>6. j \in 1..m /\ a + (b + j) = i
    BY <2>2, <2>5
  <2> HIDE DEF j
  <2> QED
    BY <2>4, <2>6
<1>6. \A k \in 1..n : source[moved[k].last] = doc[ranges[k].last]
  BY <1>1, <1>2
<1> QED
  BY <1>4, <1>5, <1>6 DEF SameMarkers, moved, n, m

LEMMA MovedMarked ==
  ASSUME NEW doc, NEW N \in Nat, Len(doc) = N, NEW w, NEW ranges, InOrder(ranges, N),
         Marked(doc, w, ranges), NEW interior, Len(interior) \in Nat,
         \A j \in 1..Len(interior) : Run(interior[j], "<") < w /\ Run(interior[j], ">") < w,
         NEW p, NEW source, Restyles(p, doc, ranges, interior, source)
  PROVE  Marked(source, w, Moved(p, ranges))
<1> DEFINE n == Len(ranges)
           moved == Moved(p, ranges)
<1>1. Len(moved) = n
  BY MovedInOrder
<1>2. SameMarkers(doc, ranges, interior, source, moved)
  BY MovedMarkers
<1> HIDE DEF moved
<1>3. ASSUME NEW k \in 1..n
      PROVE  /\ Run(source[moved[k].first], "<") = w
             /\ Run(source[moved[k].last], ">") = w /\ Run(source[moved[k].last], "<") < w
             /\ \A i \in (moved[k].first + 1)..(moved[k].last - 1) :
                  Run(source[i], "<") < w /\ Run(source[i], ">") < w
  <2>1. /\ source[moved[k].first] = doc[ranges[k].first]
        /\ source[moved[k].last] = doc[ranges[k].last]
    BY <1>2 DEF SameMarkers
  <2>2. /\ Run(doc[ranges[k].first], "<") = w
        /\ Run(doc[ranges[k].last], ">") = w /\ Run(doc[ranges[k].last], "<") < w
    BY DEF Marked
  <2>3. ASSUME NEW i \in (moved[k].first + 1)..(moved[k].last - 1)
        PROVE  Run(source[i], "<") < w /\ Run(source[i], ">") < w
    BY <1>2 DEF SameMarkers
  <2> QED
    BY <2>1, <2>2, <2>3
<1>4. ASSUME NEW i \in 1..Len(source), ~InSome(i, moved)
      PROVE  Run(source[i], "<") < MinMarkerWidth
  <2>1. PICK h \in 1..N : ~InSome(h, ranges) /\ source[i] = doc[h]
    BY <1>4, OutsideLines DEF moved
  <2> QED
    BY <2>1 DEF Marked
<1>5. Marked(source, w, moved)
  BY <1>1, <1>3, <1>4 DEF Marked
<1> QED
  BY <1>5 DEF moved

\* The same is kept of both.
LEMMA MovedOutside ==
  ASSUME NEW S, NEW doc \in Seq(S), NEW N \in Nat, Len(doc) = N,
         NEW ranges, InOrder(ranges, N), NEW same, \A i : InSome(i, same) <=> InSome(i, ranges),
         NEW interior, Len(interior) \in Nat,
         NEW p, NEW source \in Seq(S), Restyles(p, doc, ranges, interior, source)
  PROVE  Outside(source, Moved(p, ranges)) = Outside(doc, same)
<1> DEFINE n == Len(ranges)
           m == Len(interior)
           moved == Moved(p, ranges)
           E(k) == EndsBefore(ranges, k)
           lead(k) == Lead(ranges, k)
           F(k) == ranges[k].first
           G(k) == moved[k].first
           M == Len(source)
<1>1. /\ InOrder(moved, M) /\ Len(moved) = n /\ M \in Nat
      /\ \A k \in 0..n : EndsBefore(moved, k) = p[k] /\ p[k] \in Nat /\ p[k] <= M
      /\ \A k \in 1..n :
           /\ lead(k) \in Nat \ {0} /\ G(k) = p[k - 1] + lead(k)
           /\ moved[k].last = p[k] /\ p[k] = G(k) + (m + 1)
  BY MovedInOrder
<1>2. /\ n \in Nat /\ DOMAIN ranges = 1..n /\ DOMAIN moved = 1..n
      /\ \A k \in 1..n : /\ F(k) \in Nat /\ ranges[k].last \in Nat /\ F(k) < ranges[k].last
                         /\ ranges[k].last <= N
  <2>1. n \in Nat /\ DOMAIN ranges = 1..n /\ \A k \in 1..n : ranges[k] \in [first : Nat, last : Nat]
    BY InOrderType
  <2>2. \A k \in 1..n : F(k) < ranges[k].last /\ ranges[k].last <= N
    BY DEF InOrder
  <2>3. DOMAIN moved = 1..n
    BY <1>1, InOrderType
  <2> QED
    BY <2>1, <2>2, <2>3
<1>3. /\ \A k \in 0..n : E(k) \in 0..N
      /\ \A k \in 1..n : E(k - 1) < F(k)
      /\ \A k \in 1..n : \A h \in (E(k - 1) + 1)..(F(k) - 1) : ~InSome(h, ranges)
      /\ \A h \in (E(n) + 1)..N : ~InSome(h, ranges)
  BY BetweenRanges
<1>4. /\ \A k \in 1..n : \A h \in (p[k - 1] + 1)..(G(k) - 1) : ~InSome(h, moved)
      /\ \A h \in (p[n] + 1)..M : ~InSome(h, moved)
  <2>1. /\ \A k \in 1..n : \A h \in (EndsBefore(moved, k - 1) + 1)..(G(k) - 1) : ~InSome(h, moved)
        /\ \A h \in (EndsBefore(moved, n) + 1)..M : ~InSome(h, moved)
    BY <1>1, BetweenRanges
  <2>2. n \in 0..n /\ \A k \in 1..n : k - 1 \in 0..n
    BY <1>2
  <2>3. EndsBefore(moved, n) = p[n] /\ \A k \in 1..n : EndsBefore(moved, k - 1) = p[k - 1]
    BY <1>1, <2>2
  <2> HIDE DEF G, moved
  <2> QED
    BY <2>1, <2>3
<1>5. /\ p[0] = 0 /\ M = p[n] + (N - E(n))
      /\ \A k \in 1..n : \A j \in 1..lead(k) : source[p[k - 1] + j] = doc[E(k - 1) + j]
      /\ \A j \in 1..(N - E(n)) : source[p[n] + j] = doc[E(n) + j]
  BY DEF Restyles
<1>6. \A k \in 1..n : lead(k) = F(k) - E(k - 1)
  BY DEF Lead
<1>7. \A k \in 1..n : E(k) = ranges[k].last
  BY <1>2 DEF EndsBefore
<1>8. \A k \in 1..n : \A i \in F(k)..ranges[k].last : InSome(i, same)
  BY <1>2 DEF InSome
<1>9. \A k \in 1..n : \A i \in G(k)..moved[k].last : InSome(i, moved)
  BY <1>2 DEF InSome
<1>10. PICK c : KeptOf(c, doc, same)
  BY KeptIs
<1>11. PICK d : KeptOf(d, source, moved)
  BY KeptIs
<1>12. E(0) = 0
  BY DEF EndsBefore
<1> HIDE DEF n, m, moved, E, lead, F, G, M
<1>18. ASSUME NEW i \in Nat, NEW j \in Nat, NEW s \in Nat, i + s <= N, j + s <= M, c[i] = d[j],
              \A h \in 1..s :
                ~InSome(i + h, same) /\ ~InSome(j + h, moved) /\ doc[i + h] = source[j + h]
       PROVE  KeptAlike(c, i + s, d, j + s)
  <2>1. /\ Len(doc) \in Nat /\ i + s <= Len(doc)
        /\ Len(source) \in Nat /\ j + s <= Len(source)
    BY <1>1, <1>18 DEF M
  <2> QED
    BY <1>10, <1>11, <1>18, <2>1, KeptTogether
<1>19. ASSUME NEW i \in Nat, NEW r \in Nat, i + r <= N, \A h \in 1..r : InSome(i + h, same)
       PROVE  KeptAlike(c, i + r, c, i)
  BY <1>10, <1>19, KeptBehind
<1>20. ASSUME NEW i \in Nat, NEW r \in Nat, i + r <= M, \A h \in 1..r : InSome(i + h, moved)
       PROVE  KeptAlike(d, i + r, d, i)
  BY <1>1, <1>11, <1>20, KeptBehind DEF M
<1> DEFINE A == {k \in 0..n : c[E(k)] = d[p[k]]}
<1>13. 0 \in A
  <2>1. c[0] = <<>> /\ d[0] = <<>>
    BY <1>10, <1>11 DEF KeptOf
  <2> QED
    BY <1>2, <1>5, <1>12, <2>1
<1>14. ASSUME NEW k \in 0..(n - 1), k \in A
       PROVE  k + 1 \in A
  <2> DEFINE e == E(k)
             q == p[k]
             f == F(k + 1)
             g == G(k + 1)
             l == ranges[k + 1].last
             t == p[k + 1]
             b == lead(k + 1)
             s == b - 1
  <2>1. k + 1 \in 1..n /\ k + 1 \in 0..n /\ k \in 0..n /\ (k + 1) - 1 = k
    BY <1>2
  <2>2. /\ e \in Nat /\ q \in Nat /\ f \in Nat /\ l \in Nat /\ t \in Nat /\ m \in Nat
        /\ t <= M /\ b \in Nat \ {0} /\ f < l /\ l <= N /\ e < f
    <3>1. q \in Nat /\ t \in Nat /\ t <= M /\ b \in Nat \ {0}
      BY <1>1, <2>1
    <3>2. f \in Nat /\ l \in Nat /\ f < l /\ l <= N
      BY <1>2, <2>1
    <3>3. e \in 0..N
      BY <1>3, <2>1
    <3>4. E((k + 1) - 1) < f
      BY <1>3, <2>1
    <3>5. m \in Nat
      BY DEF m
    <3> QED
      BY <2>1, <3>1, <3>2, <3>3, <3>4, <3>5
  <2>3. g = q + b /\ t = g + (m + 1) /\ b = f - e /\ E(k + 1) = l
    BY <1>1, <1>6, <1>7, <2>1
  <2>4. \A h \in (e + 1)..(f - 1) : ~InSome(h, same)
    BY <1>3, <2>1
  <2>5. \A h \in (q + 1)..(g - 1) : ~InSome(h, moved)
    BY <1>4, <2>1
  <2>6. \A j \in 1..b : source[q + j] = doc[e + j]
    BY <1>5, <2>1
  <2>7. \A i \in f..l : InSome(i, same)
    BY <1>8, <2>1
  <2>8. \A i \in g..t : InSome(i, moved)
    <3>1. moved[k + 1].last = t
      BY <1>1, <2>1
    <3> QED
      BY <1>9, <2>1, <3>1
  <2>9. c[e] = d[q]
    BY <1>14
  <2> HIDE DEF e, q, f, g, l, t, b
  <2>10. s \in Nat /\ e + s = f - 1 /\ q + s = g - 1 /\ g \in Nat
    BY <2>2, <2>3
  <2>11. e + s <= N /\ q + s <= M
    BY <1>1, <2>2, <2>3, <2>10
  <2>12. ASSUME NEW h \in 1..s
         PROVE  ~InSome(e + h, same) /\ ~InSome(q + h, moved) /\ doc[e + h] = source[q + h]
    <3>1. e + h \in (e + 1)..(f - 1) /\ q + h \in (q + 1)..(g - 1) /\ h \in 1..b
      BY <2>2, <2>10
    <3> QED
      BY <2>4, <2>5, <2>6, <3>1
  <2> HIDE DEF s
  <2>13. c[e + s] = d[q + s]
    <3>1. KeptAlike(c, e + s, d, q + s)
      BY <1>18, <2>2, <2>9, <2>10, <2>11, <2>12
    <3> QED
      BY <3>1 DEF KeptAlike
  <2>14. c[l] = c[f - 1]
    <3> DEFINE r == l - (f - 1)
    <3>1. f - 1 \in Nat /\ r \in Nat /\ (f - 1) + r = l
      BY <2>2
    <3>0. (f - 1) + r <= N
      BY <2>2, <3>1
    <3>2. ASSUME NEW h \in 1..r PROVE InSome((f - 1) + h, same)
      <4>1. (f - 1) + h \in f..l
        BY <2>2
      <4> QED
        BY <2>7, <4>1
    <3> HIDE DEF r
    <3>3. c[(f - 1) + r] = c[f - 1]
      <4>1. KeptAlike(c, (f - 1) + r, c, f - 1)
        BY <1>19, <3>0, <3>1, <3>2
      <4> QED
        BY <4>1 DEF KeptAlike
    <3> QED
      BY <3>1, <3>3
  <2>15. d[t] = d[g - 1]
    <3> DEFINE r == t - (g - 1)
    <3>1. g - 1 \in Nat /\ r \in Nat /\ (g - 1) + r = t
      BY <2>2, <2>3, <2>10
    <3>0. (g - 1) + r <= M
      BY <2>2, <3>1
    <3>2. ASSUME NEW h \in 1..r PROVE InSome((g - 1) + h, moved)
      <4>1. (g - 1) + h \in g..t
        BY <2>2, <2>10
      <4> QED
        BY <2>8, <4>1
    <3> HIDE DEF r
    <3>3. d[(g - 1) + r] = d[g - 1]
      <4>1. KeptAlike(d, (g - 1) + r, d, g - 1)
        BY <1>20, <3>0, <3>1, <3>2
      <4> QED
        BY <4>1 DEF KeptAlike
    <3> QED
      BY <3>1, <3>3
  <2>16. c[E(k + 1)] = d[p[k + 1]]
    BY <2>3, <2>10, <2>13, <2>14, <2>15 DEF l, t
  <2> QED
    BY <2>1, <2>16
<1>15. c[E(n)] = d[p[n]]
  <2>1. \A k \in 0..(n - 1) : k \in A => k + 1 \in A
    BY <1>14
  <2> HIDE DEF A
  <2>2. 0..n \subseteq A
    BY <1>2, <1>13, <2>1, Induction
  <2>3. n \in A
    BY <1>2, <2>2
  <2> QED
    BY <2>3 DEF A
<1>16. c[N] = d[M]
  <2> DEFINE e == E(n)
             q == p[n]
             s == N - e
  <2>1. e \in 0..N /\ q \in Nat /\ M = q + s
    <3>1. n \in 0..n
      BY <1>2
    <3> QED
      BY <1>1, <1>3, <1>5, <3>1
  <2>2. /\ \A h \in (e + 1)..N : ~InSome(h, same)
        /\ \A h \in (q + 1)..M : ~InSome(h, moved)
        /\ \A j \in 1..s : source[q + j] = doc[e + j]
    BY <1>3, <1>4, <1>5
  <2>3. c[e] = d[q]
    BY <1>15
  <2> HIDE DEF e, q
  <2>4. s \in Nat /\ e + s = N /\ e \in Nat
    BY <2>1
  <2>5. ASSUME NEW h \in 1..s
        PROVE  ~InSome(e + h, same) /\ ~InSome(q + h, moved) /\ doc[e + h] = source[q + h]
    <3>1. e + h \in (e + 1)..N /\ q + h \in (q + 1)..M
      BY <2>1, <2>4
    <3> QED
      BY <2>2, <3>1
  <2> HIDE DEF s
  <2>6. c[e + s] = d[q + s]
    <3>1. e + s <= N /\ q + s <= M
      BY <1>1, <2>1, <2>4
    <3>2. KeptAlike(c, e + s, d, q + s)
      BY <1>18, <2>1, <2>3, <2>4, <2>5, <3>1
    <3> QED
      BY <3>2 DEF KeptAlike
  <2> QED
    BY <2>1, <2>4, <2>6
<1>17. Outside(doc, same) = c[N] /\ Outside(source, moved) = d[M]
  BY <1>10, <1>11 DEF KeptOf, M
<1> QED
  BY <1>16, <1>17 DEF moved

(***************************************************************************)
(* Whatever another style puts between the outer markers, as long as       *)
(* nothing in it is an outer marker: remap_regions_to_source recognises    *)
(* the conflicts of the snapshot in that working copy, and the lines       *)
(* outside the ranges that it finds are those outside the parsed           *)
(* conflicts, all of them and in their order (core.rs:597-603).            *)
(***************************************************************************)
THEOREM OutsideIsRecognised == Spec => []RemapKeepsOutside
<1>1. ASSUME IInv
      PROVE  RemapKeepsOutside
  <2>1. SUFFICES ASSUME outcome = "parsed", NEW interior \in Interiors,
                        \A i \in DOMAIN interior :
                          Run(interior[i], "<") < width /\ Run(interior[i], ">") < width
                 PROVE  LET source == Restyled(interior) IN
                        /\ Remap(source) # <<>>
                        /\ Outside(source, Remap(source)) = Outside(input, regions)
    BY DEF RemapKeepsOutside
  <2> DEFINE n == Len(regions)
             N == Len(input)
             S == Alphabet \cup Range(interior)
             source == Restyled(interior)
  <2>2. /\ input \in Seq(Alphabet) /\ width \in Nat /\ width >= MinMarkerWidth
        /\ n \in Nat /\ DOMAIN regions = 1..n /\ Len(Ranges) = n /\ DOMAIN Ranges = 1..n
        /\ \A k \in 1..n :
             /\ Ranges[k].first = regions[k].first /\ Ranges[k].last = regions[k].last
        /\ AreConflicts(input, width, Ranges) /\ n # 0
    BY <1>1, <2>1, ParsedFacts
  <2>3. /\ N \in Nat /\ input \in Seq(S) /\ Len(interior) \in Nat
        /\ DOMAIN interior = 1..Len(interior)
    <3>1. interior \in Seq(Range(interior))
      BY GrammarAssumption
    <3>2. Alphabet \subseteq S
      OBVIOUS
    <3> HIDE DEF S
    <3>3. input \in Seq(S)
      BY <2>2, <3>2, SeqMonotonic
    <3> QED
      BY <2>2, <3>1, <3>3
  <2>4. InOrder(Ranges, N) /\ Marked(input, width, Ranges)
    BY <2>2, ConflictsMarked
  <2>5. source \in Seq(S) /\ \E p : Restyles(p, input, Ranges, interior, source)
    BY <1>1, <2>1, RestyledIs
  <2>6. PICK p : Restyles(p, input, Ranges, interior, source)
    BY <2>5
  <2> DEFINE moved == Moved(p, Ranges)
  <2> HIDE DEF N, source, S
  <2>7. /\ InOrder(moved, Len(source)) /\ Len(moved) = n /\ Len(source) \in Nat
    BY <2>2, <2>3, <2>4, <2>6, MovedInOrder DEF N
  <2>8. Marked(source, width, moved)
    BY <2>1, <2>3, <2>4, <2>6, MovedMarked DEF N
  <2>9. SameMarkers(input, Ranges, interior, source, moved)
    BY <2>3, <2>4, <2>6, MovedMarkers DEF N
  <2>10. \A i : InSome(i, regions) <=> InSome(i, Ranges)
    BY <2>2 DEF InSome
  <2>11. Outside(source, moved) = Outside(input, regions)
    BY <2>3, <2>4, <2>5, <2>6, <2>10, MovedOutside DEF N
  <2> HIDE DEF moved
  <2>12. ASSUME NEW j \in 1..Len(source)
         PROVE  Run(source[j], "<") \in Nat /\ Run(source[j], ">") \in Nat
    <3>1. source[j] \in S
      BY <2>5, ElementOfSeq
    <3>2. source[j].width \in Nat
      <4>1. CASE source[j] \in Alphabet
        BY <4>1, LineType
      <4>2. CASE source[j] \in Range(interior)
        <5> DEFINE T == UNION {Range(i) : i \in Interiors}
        <5>1. source[j] \in T
          BY <4>2
        <5>2. \A l \in Lines \cup (UNION {Range(g.lines) : g \in Given}) \cup T : l.width \in Nat
          BY GrammarAssumption, Zenon
        <5> HIDE DEF T
        <5> QED
          BY <5>1, <5>2, Zenon
      <4> QED
        BY <3>1, <4>1, <4>2 DEF S
    <3> QED
      BY <3>2 DEF Run
  <2>13. Scan(source, width) = [opening |-> 0, ranges |-> moved, failed |-> FALSE]
    BY <2>2, <2>7, <2>8, <2>12, ScanFinds
  <2>14. ASSUME NEW k \in DOMAIN regions
         PROVE  /\ source[moved[k].first].rest = input[regions[k].first].rest
                /\ source[moved[k].last].rest = input[regions[k].last].rest
    BY <2>2, <2>9 DEF SameMarkers
  <2>15. Remap(source) = moved
    BY <2>7, <2>13, <2>14, RemapIs
  <2>16. moved # <<>>
    BY <2>2, <2>7
  <2> QED
    BY <2>11, <2>15, <2>16 DEF source
<1> QED
  BY <1>1, Invariant, PTL

-------------------------------------------------------------------------------
(***************************************************************************)
(* What jj renders.                                                        *)
(***************************************************************************)
\* Every header has an ordinal, and every number up to theirs is one.
LEMMA OrdinalsAre ==
  ASSUME NEW H, H \in SUBSET Nat, IsFiniteSet(H), NEW x \in 1..Cardinality(H)
  PROVE  \E h \in H : Cardinality({g \in H : g <= h}) = x
<1> DEFINE n == Cardinality(H)
           upto(h) == {g \in H : g <= h}
           ordinal == [h \in H |-> Cardinality(upto(h))]
<1>1. n \in Nat
  BY FS_CardinalityType
<1>2. ASSUME NEW h \in H
      PROVE  IsFiniteSet(upto(h)) /\ ordinal[h] \in 1..n
  <2>1. upto(h) \in SUBSET H /\ h \in upto(h)
    OBVIOUS
  <2> DEFINE U == upto(h)
  <2> HIDE DEF upto
  <2>2. IsFiniteSet(upto(h)) /\ Cardinality(upto(h)) <= n
    BY <2>1, FS_Subset
  <2>3. Cardinality(upto(h)) \in Nat /\ Cardinality(upto(h)) # 0
    BY <2>1, <2>2, FS_CardinalityType, FS_EmptySet
  <2> HIDE DEF n
  <2> QED
    BY <1>1, <2>2, <2>3
<1>3. ASSUME NEW g \in H, NEW h \in H, g < h
      PROVE  ordinal[g] # ordinal[h]
  <2>1. upto(g) \in SUBSET upto(h) /\ h \in upto(h) /\ h \notin upto(g)
    <3>1. g \in Nat /\ h \in Nat /\ \A y \in H : y \in Nat
      OBVIOUS
    <3>2. \A y \in H : y <= g => y <= h
      BY <1>3, <3>1
    <3>3. h <= h /\ ~(h <= g)
      BY <1>3, <3>1
    <3>4. upto(g) \subseteq upto(h)
      BY <3>2
    <3>5. h \in upto(h) /\ h \notin upto(g)
      BY <3>3
    <3> QED
      BY <3>4, <3>5
  <2> HIDE DEF upto
  <2>2. Cardinality(upto(g)) # Cardinality(upto(h))
    BY <1>2, <2>1, FS_Subset
  <2> QED
    BY <2>2
<1>4. ordinal \in Injection(H, 1..n)
  <2>1. ordinal \in [H -> 1..n]
    <3> HIDE DEF upto, n
    <3> QED
      BY <1>2
  <2>2. ASSUME NEW g \in H, NEW h \in H, ordinal[g] = ordinal[h] PROVE g = h
    <3> HIDE DEF ordinal
    <3> QED
      BY <1>3, <2>2
  <2> HIDE DEF ordinal, n
  <2> QED
    BY <2>1, <2>2 DEF Injection, IsInjective
<1>5. IsFiniteSet(1..n) /\ Cardinality(1..n) = n
  <2> HIDE DEF n
  <2>1. IsFiniteSet(1..n) /\ Cardinality(1..n) = IF 1 > n THEN 0 ELSE n - 1 + 1
    BY <1>1, FS_Interval
  <2> QED
    BY <1>1, <2>1
<1>6. ordinal \in Surjection(H, 1..n)
  <2> DEFINE m == 1..n
  <2>1. Cardinality(H) = Cardinality(m) /\ ordinal \in Injection(H, m) /\ IsFiniteSet(m)
    BY <1>4, <1>5
  <2> HIDE DEF ordinal, m
  <2> QED
    BY <2>1, FS_Injection DEF m
<1>7. PICK h \in H : ordinal[h] = x
  <2> HIDE DEF ordinal
  <2> QED
    BY <1>6 DEF Surjection
<1> QED
  BY <1>7

\* A conflict declares one sequence of terms.
LEMMA DeclaresOne ==
  ASSUME NEW d, Len(d) \in Nat, NEW i \in 1..Len(d), NEW j \in 1..Len(d), NEW w,
         NEW a, NEW b, a \in Seq(Range(a)), b \in Seq(Range(b)),
         Declares(d, i, j, w, a), Declares(d, i, j, w, b)
  PROVE  a = b
<1> DEFINE H == Headers(d, i, j, w)
           n == Cardinality(H)
           next(h) == Min({e \in H \cup {j} : e > h})
           payload(h) == SubSeq(d, h + 1, next(h) - 1)
           synthetic == d[j].eol = NoEol
           term(h) == [kind |-> IF d[h].kind = "+" THEN "side" ELSE "base",
                       label |-> d[h].rest, synthetic |-> synthetic,
                       bytes |-> Bytes(IF synthetic THEN Unended(payload(h)) ELSE payload(h))]
<1>1. H \in SUBSET Nat /\ IsFiniteSet(H)
  <2>1. H \subseteq (i + 1)..(j - 1) /\ i + 1 \in Int /\ j - 1 \in Int /\ i + 1 >= 0
    BY DEF Headers
  <2>2. (i + 1)..(j - 1) \subseteq Nat
    BY <2>1
  <2> QED
    BY <2>1, <2>2, FS_Interval, FS_Subset
<1>2. /\ Len(a) = n /\ Len(b) = n
      /\ \A h \in H : /\ a[Cardinality({g \in H : g <= h})] = term(h)
                      /\ b[Cardinality({g \in H : g <= h})] = term(h)
  BY DEF Declares
<1> HIDE DEF H, term
<1>3. ASSUME NEW x \in 1..n PROVE a[x] = b[x]
  <2>1. PICK h \in H : Cardinality({g \in H : g <= h}) = x
    BY <1>1, OrdinalsAre
  <2> QED
    BY <1>2, <2>1
<1> DEFINE T == Range(a) \cup Range(b)
<1>4. a \in Seq(T) /\ b \in Seq(T)
  <2>1. Range(a) \subseteq T /\ Range(b) \subseteq T
    OBVIOUS
  <2> HIDE DEF T
  <2> QED
    BY <2>1, SeqMonotonic
<1> HIDE DEF T, n
<1> QED
  BY <1>2, <1>3, <1>4, SeqEqual

\* The lines read and the lines that come next are the lines given.
GivenInv ==
  given.conflicts # <<>> => more = 0 /\ input \o ahead = given.lines

\* The terms of a conflict are a sequence.
TermsInv ==
  \A k \in DOMAIN regions : regions[k].terms \in Seq(Range(regions[k].terms))

LEMMA GivenInit == Init => GivenInv /\ TermsInv
<1> SUFFICES ASSUME Init PROVE GivenInv /\ TermsInv
  OBVIOUS
<1>1. given \in Given /\ input = <<>> /\ ahead = given.lines /\ more = given.more /\ regions = <<>>
  BY DEF Init
<1>2. given.lines \in Seq(Range(given.lines))
  BY <1>1, GrammarAssumption
<1>3. <<>> \o given.lines = given.lines
  BY <1>2, ConcatEmptySeq
<1>4. given.conflicts # <<>> => given.more = 0
  BY <1>1, RendersAssumption
<1>5. DOMAIN regions = {}
  BY <1>1
<1> QED
  BY <1>1, <1>3, <1>4, <1>5 DEF GivenInv, TermsInv

LEMMA GivenRead ==
  ASSUME IInv, GivenInv, NEW l, Reads(l)
  PROVE  GivenInv'
<1> SUFFICES ASSUME given.conflicts # <<>> PROVE more' = 0 /\ input' \o ahead' = given.lines
  BY DEF GivenInv, Reads
<1>1. more = 0 /\ input \o ahead = given.lines /\ input \in Seq(Alphabet) /\ ahead \in Seq(Alphabet)
  BY DEF GivenInv, IInv, SequencesInv
<1>2. ahead # <<>> /\ l = Head(ahead) /\ ahead' = Tail(ahead) /\ more' = more
      /\ input' = Append(input, l)
  BY <1>1 DEF Reads
<1>3. l \in Alphabet /\ Tail(ahead) \in Seq(Alphabet) /\ ahead = <<l>> \o Tail(ahead)
  <2>1. Len(ahead) # 0 /\ Len(ahead) \in Nat
    BY <1>1, <1>2, EmptySeq
  <2>2. /\ Head(ahead) \in Alphabet /\ Tail(ahead) \in Seq(Alphabet)
        /\ Len(Tail(ahead)) = Len(ahead) - 1
        /\ \A k \in 1..Len(Tail(ahead)) : Tail(ahead)[k] = ahead[k + 1]
    BY <1>1, <1>2, HeadTailProperties
  <2> DEFINE rest == Tail(ahead)
             one == <<l>>
  <2>3. one \in Seq(Alphabet) /\ Len(one) = 1 /\ one[1] = ahead[1]
    BY <1>1, <1>2, <2>2
  <2> HIDE DEF rest, one
  <2>4. /\ one \o rest \in Seq(Alphabet) /\ Len(one \o rest) = Len(ahead)
        /\ \A k \in 1..Len(ahead) : (one \o rest)[k] = ahead[k]
    <3>1. rest \in Seq(Alphabet) /\ Len(rest) = Len(ahead) - 1
          /\ \A k \in 1..Len(rest) : rest[k] = ahead[k + 1]
      BY <2>2 DEF rest
    <3>2. /\ one \o rest \in Seq(Alphabet) /\ Len(one \o rest) = 1 + Len(rest)
          /\ \A k \in 1..(1 + Len(rest)) :
               (one \o rest)[k] = IF k <= 1 THEN one[k] ELSE rest[k - 1]
      BY <2>3, <3>1, ConcatProperties
    <3>3. 1 + Len(rest) = Len(ahead)
      BY <2>1, <3>1
    <3>4. ASSUME NEW k \in 1..Len(ahead) PROVE (one \o rest)[k] = ahead[k]
      <4>1. CASE k = 1
        BY <2>1, <2>3, <3>2, <3>3, <4>1
      <4>2. CASE k # 1
        <5>1. k - 1 \in 1..Len(rest) /\ ~(k <= 1) /\ (k - 1) + 1 = k /\ k \in 1..(1 + Len(rest))
          BY <2>1, <3>1, <4>2
        <5> QED
          BY <3>1, <3>2, <5>1
      <4> QED
        BY <4>1, <4>2
    <3> QED
      BY <3>2, <3>3, <3>4
  <2>5. one \o rest = ahead
    BY <1>1, <2>4, SeqEqual
  <2> QED
    BY <1>2, <2>2, <2>5 DEF one, rest
<1>4. Append(input, l) = input \o <<l>>
  BY <1>1, <1>3, AppendIsConcat
<1>5. (input \o <<l>>) \o Tail(ahead) = input \o (<<l>> \o Tail(ahead))
  <2>1. <<l>> \in Seq(Alphabet)
    BY <1>3
  <2> QED
    BY <1>1, <1>3, <2>1, ConcatAssociative
<1> QED
  BY <1>1, <1>2, <1>3, <1>4, <1>5

\* Every region that is closed has the terms of its headers.
LEMMA TermsClosed ==
  ASSUME IInv, TermsInv, NEW l, CloseRegion(l)
  PROVE  TermsInv'
<1> DEFINE headers == Tail(sections)
           end(k) == IF k = Len(headers) THEN Here ELSE headers[k + 1].header
           terms == [k \in DOMAIN headers |-> Term(headers[k], end(k), l.eol = NoEol)]
           r == [first |-> Head(sections).header, last |-> Here, terms |-> terms]
<1>1. regions' = Append(regions, r) /\ regions \in Seq(Range(regions))
  BY DEF CloseRegion, IInv, SequencesInv
<1>2. terms \in Seq(Range(terms))
  <2>1. sections \in Seq(Range(sections)) /\ Len(sections) \in Nat \ {0}
    BY InsideFacts DEF CloseRegion, Closing, Reads
  <2>2. headers \in Seq(Range(sections))
    BY <2>1, HeadTailProperties
  <2>3. DOMAIN headers = 1..Len(headers) /\ Len(headers) \in Nat
    <3> HIDE DEF headers
    <3> QED
      BY <2>2
  <2>4. DOMAIN terms = 1..Len(headers)
    BY <2>3
  <2> HIDE DEF headers, terms
  <2>5. terms \in [1..Len(headers) -> Range(terms)]
    BY <2>4 DEF Range, terms
  <2> QED
    BY <2>3, <2>5, IsASeq
<1>3. r.terms = terms
  OBVIOUS
<1> HIDE DEF r, terms
<1>4. /\ DOMAIN regions' = 1..(Len(regions) + 1) /\ DOMAIN regions = 1..Len(regions)
      /\ \A k \in 1..Len(regions) : regions'[k] = regions[k]
      /\ regions'[Len(regions) + 1] = r
  <2>1. Len(regions) \in Nat
    BY <1>1
  <2> QED
    BY <1>1, <2>1
<1>5. ASSUME NEW k \in DOMAIN regions'
      PROVE  regions'[k].terms \in Seq(Range(regions'[k].terms))
  <2>1. CASE k = Len(regions) + 1
    BY <1>2, <1>3, <1>4, <2>1
  <2>2. CASE k # Len(regions) + 1
    <3>1. k \in DOMAIN regions /\ regions'[k] = regions[k]
      <4>1. Len(regions) \in Nat
        BY <1>1
      <4> QED
        BY <1>4, <2>2, <4>1
    <3> QED
      BY <3>1 DEF TermsInv
  <2> QED
    BY <2>1, <2>2
<1> QED
  BY <1>5 DEF TermsInv

LEMMA GivenStep == IInv /\ GivenInv /\ TermsInv /\ [Next]_vars => GivenInv' /\ TermsInv'
<1> SUFFICES ASSUME IInv, GivenInv, TermsInv, [Next]_vars PROVE GivenInv' /\ TermsInv'
  OBVIOUS
<1>1. ASSUME NEW l, \/ ReadOutside(l) \/ OpenRegion(l) \/ OpenWithOtherWidth(l)
                    \/ StartSection(l) \/ ReadPayload(l) \/ CloseTooSoon(l)
                    \/ RefuseStyle(l) \/ RefuseLine(l)
      PROVE  GivenInv' /\ TermsInv'
  <2>1. Reads(l) /\ regions' = regions
    BY <1>1 DEF ReadOutside, OpenRegion, OpenWithOtherWidth, StartSection, ReadPayload,
                CloseTooSoon, RefuseStyle, RefuseLine, Refuse
  <2> QED
    BY <2>1, GivenRead DEF TermsInv
<1>2. ASSUME NEW l, CloseRegion(l)
      PROVE  GivenInv' /\ TermsInv'
  BY <1>2, GivenRead, TermsClosed DEF CloseRegion
<1>3. CASE EndOfInput
  BY <1>3 DEF EndOfInput, GivenInv, TermsInv
<1>4. CASE UNCHANGED vars
  BY <1>4 DEF vars, GivenInv, TermsInv
<1> QED
  BY <1>1, <1>2, <1>3, <1>4 DEF Next

\* A document that has been read to its end has no conflict but those read.
LEMMA AllRead ==
  ASSUME IInv, ForcedInv, outcome = "reading", at = "outside", width # 0,
         NEW ranges, AreConflicts(input, width, ranges)
  PROVE  /\ DOMAIN regions = DOMAIN ranges /\ Len(regions) = Len(ranges)
         /\ \A k \in DOMAIN regions :
              ranges[k].first = regions[k].first /\ ranges[k].last = regions[k].last
<1> DEFINE n == Len(regions)
           q == Len(ranges)
<1>1. Extends(input, input)
  BY DEF IInv, SequencesInv, Extends
<1>2. Begun(ranges)
  BY <1>1 DEF ForcedInv
<1>3. /\ q \in Nat /\ DOMAIN ranges = 1..q
      /\ \A k \in DOMAIN ranges :
           /\ ranges[k].first \in 1..Len(input) /\ ranges[k].last \in 1..Len(input)
           /\ ranges[k].first < ranges[k].last
      /\ \A k \in DOMAIN ranges : \A j \in 1..(k - 1) : ranges[j].last < ranges[k].first
  BY <1>1, RangesType
<1>4. n \in Nat /\ DOMAIN regions = 1..n
  BY DEF IInv, SequencesInv
<1>5. \A k \in DOMAIN regions : /\ k \in DOMAIN ranges
                                /\ ranges[k].first = regions[k].first
                                /\ ranges[k].last = regions[k].last
  BY <1>2 DEF Begun
<1>6. n <= q
  <2>1. n # 0 => n \in 1..q
    BY <1>3, <1>4, <1>5
  <2> QED
    BY <1>3, <1>4, <2>1
<1>7. ~(n < q)
  <2> SUFFICES ASSUME n < q PROVE FALSE
    OBVIOUS
  <2>1. n + 1 \in 1..q
    BY <1>3, <1>4
  <2> DEFINE f == ranges[n + 1].first
  <2>2. Run(input[f], "<") = width /\ f \in 1..Len(input)
    BY <1>3, <2>1 DEF AreConflicts, IsConflict
  <2>3. width >= MinMarkerWidth
    BY DEF IInv, TypeOK
  <2>4. f \in Openings(input)
    BY <1>1, <2>2, <2>3 DEF Openings, Extends
  <2>5. PICK k \in DOMAIN regions : f \in regions[k].first..regions[k].last
    BY <2>4 DEF IInv, CoveredInv
  <2>6. k \in 1..((n + 1) - 1) /\ ranges[k].last = regions[k].last
    BY <1>4, <1>5, <2>5
  <2>7. ranges[k].last < f
    BY <1>3, <2>1, <2>6
  <2>8. ranges[k].last \in Nat /\ f \in Nat
    BY <1>3, <1>5, <2>2, <2>5
  <2> HIDE DEF f
  <2> QED
    BY <2>5, <2>6, <2>7, <2>8
<1>8. n = q
  <2>1. n \in Nat /\ q \in Nat
    BY <1>3, <1>4
  <2> HIDE DEF n, q
  <2> QED
    BY <1>6, <1>7, <2>1
<1> QED
  BY <1>3, <1>4, <1>5, <1>8

\* So nothing of a render is refused, and what is read of it is what it declares.
LEMMA RenderedStep ==
  IInv /\ ForcedInv /\ GivenInv /\ TermsInv /\ RendersAreParsed /\ [Next]_vars
    => RendersAreParsed'
<1> SUFFICES ASSUME IInv, ForcedInv, GivenInv, TermsInv, RendersAreParsed, [Next]_vars
             PROVE  RendersAreParsed'
  OBVIOUS
<1>1. ASSUME NEW l, \/ OpenWithOtherWidth(l) \/ CloseTooSoon(l)
                    \/ RefuseStyle(l) \/ RefuseLine(l)
      PROVE  RendersAreParsed'
  <2>1. Reads(l) /\ outcome = "reading"
    BY <1>1 DEF OpenWithOtherWidth, CloseTooSoon, RefuseStyle, RefuseLine, Refuse, Reads
  <2> SUFFICES ASSUME given.conflicts # <<>> PROVE FALSE
    BY <2>1 DEF RendersAreParsed, Reads
  <2> DEFINE doc == given.lines
  <2>2. given \in Given /\ WellFormed(doc)
    BY RendersAssumption DEF IInv, SequencesInv, DeclaresAll
  <2>3. input' \o ahead' = doc
    BY <2>1, GivenRead DEF GivenInv, Reads
  <2>4. Extends(doc, input')
    <3>1. input' \in Seq(Alphabet) /\ ahead' \in Seq(Alphabet)
      BY <2>1, ReadsType DEF IInv
    <3> QED
      BY <2>3, <3>1, ConcatExtends
  <2>5. Extends(doc, input)
    BY <2>1, <2>4, ReadsType, ExtendsTrans DEF IInv
  <2> HIDE DEF doc
  <2>6. width # 0 /\ \A ranges : ~AreConflicts(doc, width, ranges)
    BY <1>1, <2>4, RefusedLine
  <2> QED
    BY <2>1, <2>2, <2>5, <2>6, WellFormedIs
<1>2. ASSUME EndOfInput
      PROVE  RendersAreParsed'
  <2>1. /\ outcome = "reading" /\ ahead = <<>>
        /\ UNCHANGED <<given, input, at, width, regions>>
        /\ outcome' = IF at # "outside" THEN "unterminated"
                      ELSE IF width = 0 THEN "no-conflict" ELSE "parsed"
    BY <1>2 DEF EndOfInput, IInv, TypeOK
  <2> SUFFICES ASSUME given.conflicts # <<>>
               PROVE  /\ outcome' = "parsed"
                      /\ given.conflicts = [k \in DOMAIN regions |-> regions[k].terms]
    BY <2>1 DEF RendersAreParsed
  <2> DEFINE c == given.conflicts
             w == WidthOf(input)
             ranges == Candidates(input, w)
  <2>2. given \in Given /\ input \in Seq(Alphabet)
    BY DEF IInv, SequencesInv
  <2>3. input = given.lines
    <3>1. input \o <<>> = input
      BY <2>2, ConcatEmptySeq
    <3> QED
      BY <2>1, <3>1 DEF GivenInv
  <2>4. /\ Openings(input) # {} /\ AreConflicts(input, w, ranges) /\ Len(c) = Len(ranges)
        /\ \A k \in DOMAIN ranges :
             Declares(input, ranges[k].first, ranges[k].last, w, c[k])
        /\ c \in Seq(Range(c)) /\ \A terms \in Range(c) : terms \in Seq(Range(terms))
    BY <2>2, <2>3, RendersAssumption DEF DeclaresAll, WellFormed
  <2>5. Extends(input, input)
    BY <2>2 DEF Extends
  <2>6. width # 0
    BY <2>1, <2>4 DEF IInv, WidthInv
  <2>7. w = width
    BY <2>1, <2>5, <2>6, WidthIs
  <2> HIDE DEF c, w, ranges
  <2>8. at = "outside"
    <3> SUFFICES ASSUME at # "outside" PROVE FALSE
      OBVIOUS
    <3>1. ranges[Len(regions) + 1].last \in (Len(input) + 1)..Len(input)
      BY <2>1, <2>4, <2>5, <2>7, EndsLater
    <3> QED
      BY <2>5, <3>1 DEF Extends
  <2>9. /\ DOMAIN regions = DOMAIN ranges /\ Len(regions) = Len(ranges)
        /\ \A k \in DOMAIN regions :
             ranges[k].first = regions[k].first /\ ranges[k].last = regions[k].last
    BY <2>1, <2>4, <2>6, <2>7, <2>8, AllRead
  <2>10. Len(regions) \in Nat /\ DOMAIN regions = 1..Len(regions) /\ DOMAIN c = 1..Len(regions)
    <3>1. regions \in Seq(Range(regions))
      BY DEF IInv, SequencesInv
    <3> QED
      BY <2>4, <2>9, <3>1
  <2>11. ASSUME NEW k \in 1..Len(regions) PROVE c[k] = regions[k].terms
    <3> DEFINE f == regions[k].first
               e == regions[k].last
    <3>1. Declares(input, f, e, width, c[k])
      BY <2>4, <2>7, <2>9, <2>10
    <3>2. Declares(input, f, e, width, regions[k].terms)
      BY <2>1, <2>10 DEF IInv, RegionsInv
    <3>3. f \in 1..Len(input) /\ e \in 1..Len(input) /\ Len(input) \in Nat
      BY <2>2, <2>10 DEF IInv, SequencesInv
    <3>4. regions[k].terms \in Seq(Range(regions[k].terms))
      BY <2>10 DEF TermsInv
    <3>5. c[k] \in Seq(Range(c[k]))
      <4>1. c[k] \in Range(c)
        BY <2>10 DEF Range
      <4> QED
        BY <2>4, <4>1
    <3> HIDE DEF f, e
    <3> QED
      BY <3>1, <3>2, <3>3, <3>4, <3>5, DeclaresOne
  <2>12. c = [k \in DOMAIN regions |-> regions[k].terms]
    <3>1. c = [k \in 1..Len(regions) |-> c[k]]
      <4>1. c = [k \in DOMAIN c |-> c[k]]
        BY <2>4
      <4> QED
        BY <2>10, <4>1
    <3> QED
      BY <2>10, <2>11, <3>1
  <2> QED
    BY <2>1, <2>6, <2>8, <2>12 DEF c
<1>3. ASSUME NEW l, \/ ReadOutside(l) \/ OpenRegion(l) \/ StartSection(l)
                    \/ ReadPayload(l) \/ CloseRegion(l)
      PROVE  RendersAreParsed'
  <2>1. outcome' = "reading"
    BY <1>3 DEF ReadOutside, OpenRegion, StartSection, ReadPayload, CloseRegion, Reads
  <2> QED
    BY <2>1 DEF RendersAreParsed
<1>4. CASE UNCHANGED vars
  BY <1>4 DEF RendersAreParsed, vars
<1> QED
  BY <1>1, <1>2, <1>3, <1>4 DEF Next

(***************************************************************************)
(* Whatever jj renders as a document of the grammar is accepted, and its   *)
(* terms are read with the kinds, the labels, the separator facts and the  *)
(* bytes that it declares, in their order (parse_snapshot, build_term).    *)
(***************************************************************************)
THEOREM RendersAreRead == Spec => []RendersAreParsed
<1>1. Init => ForcedInv /\ RendersAreParsed
  BY DEF Init, ForcedInv, RendersAreParsed
<1> QED
  BY <1>1, InitInv, StepInv, ForcedStep, GivenInit, GivenStep, RenderedStep, PTL DEF Spec

===============================================================================
