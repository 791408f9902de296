------------------------- MODULE ApplyValidationProofs -------------------------
(***************************************************************************)
(* Proofs about ApplyValidation, for any source, any conflicts and any     *)
(* edits: an accepted file has the bytes of the source outside the         *)
(* conflicts, a file that has them is refused for nothing else, its plan   *)
(* makes the resolved file, and the canvas as `prepare` writes it is never *)
(* accepted.                                                               *)
(***************************************************************************)
EXTENDS ApplyValidation, Stepwise, FiniteSetTheorems

-------------------------------------------------------------------------------
(***************************************************************************)
(* The lines of a diff.                                                    *)
(***************************************************************************)
\* The lines of the first bytes, for each number of them.
LinesStep(c, s) == c[0] = <<>> /\ \A i \in 1..Len(s) : c[i] = WithByte(c[i - 1], s[i])

LinesOf(c, s) == LinesStep(c, s) /\ DiffLines(s) = c[Len(s)]

LEMMA WithByteType ==
  ASSUME NEW S, NEW lines \in Seq(Seq(S)), NEW b \in S
  PROVE  WithByte(lines, b) \in Seq(Seq(S))
<1>1. <<b>> \in Seq(S)
  OBVIOUS
<1>2. CASE lines = <<>> \/ HasEol(Last(lines))
  <2>1. Append(lines, <<b>>) \in Seq(Seq(S))
    BY <1>1, AppendProperties
  <2> QED
    BY <1>2, <2>1 DEF WithByte
<1>3. CASE ~(lines = <<>> \/ HasEol(Last(lines)))
  <2>1. Len(lines) \in 1..Len(lines)
    BY <1>3
  <2>2. lines[Len(lines)] \in Seq(S)
    BY <2>1, ElementOfSeq
  <2>3. Last(lines) \in Seq(S)
    BY <2>2 DEF Last
  <2>4. Append(Last(lines), b) \in Seq(S)
    BY <2>3, AppendProperties
  <2>5. Front(lines) \in Seq(Seq(S))
    <3>1. \A i \in 1..(Len(lines) - 1) : lines[i] \in Seq(S)
      BY ElementOfSeq
    <3> QED
      BY <3>1, SubSeqProperties DEF Front
  <2>6. Append(Front(lines), Append(Last(lines), b)) \in Seq(Seq(S))
    BY <2>4, <2>5, AppendProperties
  <2> QED
    BY <1>3, <2>6 DEF WithByte
<1> QED
  BY <1>2, <1>3

LEMMA LinesAre ==
  ASSUME NEW S, NEW s \in Seq(S)
  PROVE  \E c : LinesOf(c, s)
<1> DEFINE n == Len(s)
           T == Seq(Seq(S))
           next(i, t) == WithByte(t, s[i])
           step == [i \in 1..n |-> [t \in T |-> next(i, t)]]
           from(f) == [i \in 0..n |-> IF i = 0 THEN <<>> ELSE WithByte(f[i - 1], s[i])]
           c == CHOOSE f : f = from(f)
<1>1. n \in Nat /\ \A i \in 1..n : s[i] \in S
  OBVIOUS
<1>2. DiffLines(s) = c[n]
  BY DEF DiffLines
<1>3. ASSUME NEW i \in 1..n, NEW t \in T
      PROVE  next(i, t) \in T
  BY <1>1, WithByteType
<1>4. step \in [1..n -> [T -> T]] /\ <<>> \in T
  <2> HIDE DEF next
  <2> QED
    BY <1>3, EmptySeq
<1>5. PICK g : Iterates(g, n, T, <<>>, step)
  <2> HIDE DEF step, T, n
  <2> QED
    BY <1>1, <1>4, Recursion
<1>6. \A f : from(f) = [i \in 0..n |-> IF i = 0 THEN <<>> ELSE next(i, f[i - 1])]
  OBVIOUS
<1> HIDE DEF from
<1>7. g = from(g)
  <2>1. g \in [0..n -> T] /\ g[0] = <<>> /\ \A i \in 1..n : g[i] = step[i][g[i - 1]]
    <3> HIDE DEF step, T, n
    <3> QED
      BY <1>5 DEF Iterates
  <2>2. ASSUME NEW i \in 0..n
        PROVE  g[i] = IF i = 0 THEN <<>> ELSE next(i, g[i - 1])
    <3>1. CASE i = 0
      BY <3>1, <2>1
    <3>2. CASE i # 0
      <4>1. i \in 1..n /\ i - 1 \in 0..n
        BY <3>2, <1>1
      <4>2. g[i] = step[i][g[i - 1]] /\ g[i - 1] \in T
        <5> HIDE DEF step, T
        <5> QED
          BY <2>1, <4>1
      <4> HIDE DEF next, T
      <4> QED
        BY <3>2, <4>1, <4>2
    <3> QED
      BY <3>1, <3>2
  <2>3. g = [i \in 0..n |-> g[i]]
    BY <2>1
  <2> HIDE DEF next, n
  <2>4. [i \in 0..n |-> g[i]] = [i \in 0..n |-> IF i = 0 THEN <<>> ELSE next(i, g[i - 1])]
    BY <2>2
  <2> QED
    BY <1>6, <2>3, <2>4
<1>8. c = from(c)
  BY <1>7
<1> HIDE DEF c
<1>9. \A i \in 0..n : c[i] = IF i = 0 THEN <<>> ELSE next(i, c[i - 1])
  <2> HIDE DEF next
  <2> QED
    BY <1>6, <1>8
<1>10. c[0] = <<>> /\ \A i \in 1..n : c[i] = next(i, c[i - 1])
  <2> HIDE DEF next
  <2> QED
    BY <1>1, <1>9
<1>11. LinesOf(c, s)
  BY <1>2, <1>10 DEF LinesOf, LinesStep
<1> QED
  BY <1>11

LEMMA LinesUnique ==
  ASSUME NEW S, NEW s \in Seq(S), NEW c, LinesStep(c, s)
  PROVE  DiffLines(s) = c[Len(s)]
<1> DEFINE n == Len(s)
<1>1. PICK d : LinesOf(d, s)
  BY LinesAre
<1> DEFINE A == {i \in 0..n : c[i] = d[i]}
<1>2. n \in Nat
  OBVIOUS
<1>3. 0 \in A
  BY <1>1, <1>2 DEF LinesOf, LinesStep
<1>4. ASSUME NEW i \in 0..(n - 1), i \in A
      PROVE  i + 1 \in A
  <2>1. i + 1 \in 1..n /\ (i + 1) - 1 = i
    BY <1>2
  <2>2. c[i + 1] = WithByte(c[i], s[i + 1]) /\ d[i + 1] = WithByte(d[i], s[i + 1])
    BY <1>1, <2>1 DEF LinesOf, LinesStep
  <2> QED
    BY <1>4, <2>1, <2>2
<1>5. 0..n \subseteq A
  <2> HIDE DEF A
  <2> QED
    BY <1>2, <1>3, <1>4, Induction
<1> QED
  <2>1. n \in A
    BY <1>2, <1>5
  <2> QED
    BY <1>1, <2>1 DEF LinesOf

\* The lines of no bytes, and of one byte more.
LEMMA LinesEmpty == DiffLines(<<>>) = <<>>
<1>1. <<>> \in Seq({}) /\ Len(<<>>) = 0
  OBVIOUS
<1>2. PICK c : LinesOf(c, <<>>)
  BY <1>1, LinesAre
<1> QED
  BY <1>1, <1>2 DEF LinesOf, LinesStep

LEMMA LinesSnoc ==
  ASSUME NEW S, NEW s \in Seq(S), NEW b \in S
  PROVE  DiffLines(Append(s, b)) = WithByte(DiffLines(s), b)
<1> DEFINE n == Len(s)
           t == Append(s, b)
<1>1. /\ n \in Nat /\ t \in Seq(S) /\ Len(t) = n + 1
      /\ (\A i \in 1..n : t[i] = s[i]) /\ t[n + 1] = b
  OBVIOUS
<1> HIDE DEF t
<1>2. PICK c : LinesOf(c, t)
  BY <1>1, LinesAre
<1>3. LinesStep(c, s)
  BY <1>1, <1>2 DEF LinesOf, LinesStep
<1>4. DiffLines(s) = c[n]
  BY <1>3, LinesUnique
<1>5. c[n + 1] = WithByte(c[n], b)
  <2>1. n + 1 \in 1..Len(t) /\ (n + 1) - 1 = n
    BY <1>1
  <2> QED
    BY <1>1, <1>2, <2>1 DEF LinesOf, LinesStep
<1>6. DiffLines(t) = c[n + 1]
  BY <1>1, <1>2 DEF LinesOf
<1> QED
  BY <1>4, <1>5, <1>6 DEF t

\* A sequence is its front and its last element.
LEMMA FrontAndLast ==
  ASSUME NEW T, NEW seq \in Seq(T), seq # <<>>
  PROVE  /\ Front(seq) \in Seq(T) /\ Last(seq) \in T /\ Len(seq) \in Nat \ {0}
         /\ seq = Append(Front(seq), Last(seq))
<1>1. Len(seq) \in Nat \ {0} /\ Len(seq) \in 1..Len(seq) /\ SubSeq(seq, 1, Len(seq)) = seq
  OBVIOUS
<1>2. seq = Append(SubSeq(seq, 1, Len(seq) - 1), seq[Len(seq)])
  BY <1>1, PrefixGrows
<1>3. Front(seq) \in Seq(T)
  <2>1. \A i \in 1..(Len(seq) - 1) : seq[i] \in T
    BY ElementOfSeq
  <2> QED
    BY <2>1, SubSeqProperties DEF Front
<1>4. Last(seq) \in T
  BY <1>1, ElementOfSeq DEF Last
<1> QED
  BY <1>1, <1>2, <1>3, <1>4 DEF Front, Last

LEMMA LastOfAppend ==
  ASSUME NEW T, NEW seq \in Seq(T), NEW b \in T
  PROVE  Last(Append(seq, b)) = b /\ Append(seq, b) # <<>> /\ Append(seq, b) \in Seq(T)
BY AppendProperties DEF Last

LEMMA ConcatSnoc ==
  ASSUME NEW T, NEW s \in Seq(T), NEW t \in Seq(T), NEW b \in T
  PROVE  s \o Append(t, b) = Append(s \o t, b)
OBVIOUS

\* Every line that has begun has ended.
Whole(s) == s = <<>> \/ Last(s) \in Eols

\* The lines make the bytes again, and the last one ends as they do.
LinesMake(S, s) ==
  LET L == DiffLines(s)
  IN /\ L \in Seq(Seq(S)) /\ FlattenSeq(L) = s
     /\ s # <<>> => L # <<>> /\ Last(L) # <<>> /\ Last(Last(L)) = Last(s)

\* What one byte more makes of the lines L.
Continued(L, b, s, M) ==
  \/ Whole(s) /\ M = Append(L, <<b>>)
  \/ ~Whole(s) /\ L # <<>> /\ M = Append(Front(L), Append(Last(L), b))

LEMMA NextLine ==
  ASSUME NEW S, NEW s \in Seq(S), NEW b \in S, LinesMake(S, s)
  PROVE  Continued(DiffLines(s), b, s, DiffLines(Append(s, b)))
<1> DEFINE L == DiffLines(s)
<1>1. DiffLines(Append(s, b)) = WithByte(L, b)
  BY LinesSnoc
<1>2. /\ FlattenSeq(L) = s
      /\ s # <<>> => L # <<>> /\ Last(Last(L)) = Last(s)
  BY DEF LinesMake
<1>3. L = <<>> => s = <<>>
  BY <1>2, FlattenEmpty
<1>4. s = <<>> => L = <<>>
  BY LinesEmpty
<1> HIDE DEF L
<1> QED
  BY <1>1, <1>2, <1>3, <1>4 DEF WithByte, HasEol, Whole, Continued, L

LEMMA LinesAreMade ==
  ASSUME NEW S, NEW s \in Seq(S)
  PROVE  LinesMake(S, s)
<1> DEFINE A == {t \in Seq(S) : LinesMake(S, t)}
<1>1. <<>> \in A
  BY EmptySeq, LinesEmpty, FlattenEmpty DEF LinesMake
<1>2. ASSUME NEW t \in Seq(S), NEW b \in S, t \in A
      PROVE  Append(t, b) \in A
  <2> DEFINE L == DiffLines(t)
             M == DiffLines(Append(t, b))
  <2>1. L \in Seq(Seq(S)) /\ FlattenSeq(L) = t /\ LinesMake(S, t)
    BY <1>2 DEF LinesMake
  <2>2. Continued(L, b, t, M)
    BY <2>1, NextLine
  <2>3. Append(t, b) \in Seq(S) /\ Append(t, b) # <<>> /\ Last(Append(t, b)) = b
    BY LastOfAppend
  <2> SUFFICES /\ M \in Seq(Seq(S)) /\ FlattenSeq(M) = Append(t, b)
               /\ M # <<>> /\ Last(M) # <<>> /\ Last(Last(M)) = b
    BY <2>3 DEF LinesMake
  <2> HIDE DEF L, M
  <2>4. CASE M = Append(L, <<b>>)
    <3>1. <<b>> \in Seq(S) /\ <<b>> # <<>> /\ Last(<<b>>) = b
      BY DEF Last
    <3>2. M \in Seq(Seq(S)) /\ M # <<>> /\ Last(M) = <<b>>
      BY <2>1, <2>4, <3>1, LastOfAppend
    <3>3. FlattenSeq(M) = t \o <<b>>
      BY <2>1, <2>4, <3>1, FlattenSnoc
    <3>4. t \o <<b>> = Append(t, b)
      BY AppendIsConcat
    <3> QED
      BY <3>1, <3>2, <3>3, <3>4
  <2>5. CASE L # <<>> /\ M = Append(Front(L), Append(Last(L), b))
    <3> DEFINE X == Front(L)
               Y == Last(L)
    <3>1. X \in Seq(Seq(S)) /\ Y \in Seq(S) /\ L = Append(X, Y)
      BY <2>1, <2>5, FrontAndLast
    <3> HIDE DEF X, Y
    <3>2. Append(Y, b) \in Seq(S) /\ Append(Y, b) # <<>> /\ Last(Append(Y, b)) = b
      BY <3>1, LastOfAppend
    <3>3. M = Append(X, Append(Y, b))
      BY <2>5 DEF X, Y
    <3>4. M \in Seq(Seq(S)) /\ M # <<>> /\ Last(M) = Append(Y, b)
      <4> DEFINE y == Append(Y, b)
      <4>1. y \in Seq(S) /\ M = Append(X, y)
        BY <3>2, <3>3
      <4> HIDE DEF y
      <4>2. M \in Seq(Seq(S)) /\ M # <<>> /\ Last(M) = y
        BY <3>1, <4>1, LastOfAppend
      <4> QED
        BY <4>2 DEF y
    <3>5. FlattenSeq(X) \in Seq(S) /\ FlattenSeq(L) = FlattenSeq(X) \o Y
      BY <3>1, FlattenSnoc
    <3>6. FlattenSeq(M) = FlattenSeq(X) \o Append(Y, b)
      BY <3>1, <3>2, <3>3, FlattenSnoc
    <3>7. FlattenSeq(X) \o Append(Y, b) = Append(FlattenSeq(X) \o Y, b)
      BY <3>1, <3>5, ConcatSnoc
    <3> QED
      BY <2>1, <3>2, <3>4, <3>5, <3>6, <3>7
  <2> QED
    BY <2>2, <2>4, <2>5 DEF Continued
<1>3. Seq(S) \subseteq A
  <2> HIDE DEF A
  <2> QED
    BY <1>1, <1>2, SeqInduction
<1> QED
  BY <1>3

\* Behind whole lines the lines are those of the rest.
LinesParted(a, b) == DiffLines(a \o b) = DiffLines(a) \o DiffLines(b)

LEMMA LinesConcat ==
  ASSUME NEW S, NEW a \in Seq(S), Whole(a), NEW s \in Seq(S)
  PROVE  LinesParted(a, s)
<1> DEFINE A == {t \in Seq(S) : LinesParted(a, t)}
<1>1. <<>> \in A
  <2>1. DiffLines(a) \in Seq(Seq(S))
    BY LinesAreMade DEF LinesMake
  <2>2. a \o <<>> = a /\ DiffLines(a) \o <<>> = DiffLines(a)
    BY <2>1
  <2> QED
    BY <2>2, LinesEmpty, EmptySeq DEF LinesParted
<1>2. ASSUME NEW t \in Seq(S), NEW b \in S, t \in A
      PROVE  Append(t, b) \in A
  <2> DEFINE X == DiffLines(a)
             Y == DiffLines(t)
             Z == DiffLines(a \o t)
             M == DiffLines(Append(t, b))
             N == DiffLines(a \o Append(t, b))
  <2>1. /\ X \in Seq(Seq(S)) /\ Y \in Seq(Seq(S)) /\ LinesMake(S, t)
        /\ a \o t \in Seq(S) /\ LinesMake(S, a \o t)
    <3>1. a \o t \in Seq(S)
      OBVIOUS
    <3> QED
      BY <3>1, LinesAreMade DEF LinesMake
  <2>2. Z = X \o Y
    BY <1>2 DEF LinesParted
  <2>3. Continued(Y, b, t, M)
    BY <2>1, NextLine
  <2>4. Continued(Z, b, a \o t, N)
    <3>1. a \o Append(t, b) = Append(a \o t, b)
      BY ConcatSnoc
    <3> QED
      BY <2>1, <3>1, NextLine
  <2>5. Whole(a \o t) <=> Whole(t)
    <3>1. CASE t = <<>>
      <4>1. a \o t = a
        BY <3>1
      <4> QED
        BY <3>1, <4>1 DEF Whole
    <3>2. CASE t # <<>>
      <4>1. Len(t) \in Nat \ {0} /\ Len(a) \in Nat
        BY <3>2
      <4>2. a \o t # <<>> /\ Last(a \o t) = Last(t)
        BY <4>1 DEF Last
      <4> QED
        BY <3>2, <4>2 DEF Whole
    <3> QED
      BY <3>1, <3>2
  <2>6. N = X \o M
    <3> HIDE DEF X, Y, Z, M, N
    <3>1. CASE Whole(t)
      <4>1. M = Append(Y, <<b>>) /\ N = Append(Z, <<b>>)
        BY <2>3, <2>4, <2>5, <3>1 DEF Continued
      <4> DEFINE l == <<b>>
      <4>2. l \in Seq(S)
        OBVIOUS
      <4> HIDE DEF l
      <4>3. X \o Append(Y, l) = Append(X \o Y, l)
        <5>1. X \in Seq(Seq(S)) /\ Y \in Seq(Seq(S))
          BY <2>1
        <5> QED
          BY <4>2, <5>1, ConcatSnoc
      <4> QED
        BY <2>2, <4>1, <4>3, Zenon DEF l
    <3>2. CASE ~Whole(t)
      <4> DEFINE l == Append(Last(Y), b)
      <4>1. /\ Y # <<>> /\ M = Append(Front(Y), l)
            /\ N = Append(Front(Z), Append(Last(Z), b))
        BY <2>3, <2>4, <2>5, <3>2 DEF Continued
      <4>2. Front(Y) \in Seq(Seq(S)) /\ Last(Y) \in Seq(S) /\ Y = Append(Front(Y), Last(Y))
        BY <2>1, <4>1, FrontAndLast
      <4>3. l \in Seq(S)
        BY <4>2, LastOfAppend
      <4> HIDE DEF l
      <4>4. X \o M = Append(X \o Front(Y), l)
        <5>1. X \o Append(Front(Y), l) = Append(X \o Front(Y), l)
          <6>1. X \in Seq(Seq(S)) /\ Front(Y) \in Seq(Seq(S)) /\ l \in Seq(S)
            BY <2>1, <4>2, <4>3
          <6> QED
            BY <6>1, ConcatSnoc
        <5> QED
          BY <4>1, <5>1, Zenon
      <4>5. Z = Append(X \o Front(Y), Last(Y))
        <5>1. X \o Append(Front(Y), Last(Y)) = Append(X \o Front(Y), Last(Y))
          <6> DEFINE y == Last(Y)
                     x == Front(Y)
          <6>1. X \in Seq(Seq(S)) /\ x \in Seq(Seq(S)) /\ y \in Seq(S)
            BY <2>1, <4>2
          <6> HIDE DEF x, y
          <6>2. X \o Append(x, y) = Append(X \o x, y)
            BY <6>1, ConcatSnoc
          <6> QED
            BY <6>2 DEF x, y
        <5> QED
          BY <2>2, <4>2, <5>1, Zenon
      <4>6. X \o Front(Y) \in Seq(Seq(S))
        BY <2>1, <4>2, ConcatProperties
      <4>7. Last(Z) = Last(Y) /\ Front(Z) = X \o Front(Y)
        <5> DEFINE W == X \o Front(Y)
        <5>1. Append(W, Last(Y)) \in Seq(Seq(S)) /\ Append(W, Last(Y)) # <<>>
          BY <4>2, <4>6, LastOfAppend
        <5>2. Last(Z) = Last(Y)
          BY <4>2, <4>5, <4>6, LastOfAppend
        <5>3. /\ Front(Z) \in Seq(Seq(S)) /\ Last(Z) \in Seq(S)
              /\ Append(W, Last(Y)) = Append(Front(Z), Last(Z))
          BY <4>5, <5>1, FrontAndLast
        <5>4. W = Front(Z)
          <6>1. /\ W \in Seq(Seq(S)) /\ Front(Z) \in Seq(Seq(S))
                /\ Last(Y) \in Seq(S) /\ Last(Z) \in Seq(S)
            BY <4>2, <4>6, <5>3
          <6> DEFINE v == Front(Z)
                     x == Last(Y)
                     y == Last(Z)
          <6>2. Append(W, x) = Append(v, y) /\ W \in Seq(Seq(S)) /\ v \in Seq(Seq(S))
                /\ x \in Seq(S) /\ y \in Seq(S)
            BY <5>3, <6>1
          <6> HIDE DEF W, v, x, y
          <6>3. W = v
            BY <6>2, AppendInjective
          <6> QED
            BY <6>3 DEF v
        <5> QED
          BY <5>2, <5>4
      <4> QED
        BY <4>1, <4>4, <4>7 DEF l
    <3> QED
      BY <3>1, <3>2
  <2>7. Append(t, b) \in Seq(S)
    OBVIOUS
  <2> QED
    BY <2>6, <2>7 DEF LinesParted
<1>3. Seq(S) \subseteq A
  <2> HIDE DEF A
  <2> QED
    BY <1>1, <1>2, SeqInduction
<1> QED
  BY <1>3

\* The line ends among the bytes.
EolsIn(s) == {i \in 1..Len(s) : s[i] \in Eols}

LinesCounted(s) ==
  /\ IsFiniteSet(EolsIn(s))
  /\ Len(DiffLines(s)) = Cardinality(EolsIn(s)) + IF Whole(s) THEN 0 ELSE 1

LEMMA LinesAreCounted ==
  ASSUME NEW S, NEW s \in Seq(S)
  PROVE  LinesCounted(s)
<1> DEFINE A == {t \in Seq(S) : LinesCounted(t)}
<1>1. <<>> \in A
  <2>1. EolsIn(<<>>) = {} /\ Whole(<<>>) /\ Len(<<>>) = 0
    BY DEF EolsIn, Whole
  <2>2. IsFiniteSet({}) /\ Cardinality({}) = 0
    BY FS_EmptySet
  <2>3. Len(DiffLines(<<>>)) = 0
    BY <2>1, LinesEmpty
  <2>4. IsFiniteSet(EolsIn(<<>>)) /\ Cardinality(EolsIn(<<>>)) = 0
    BY <2>1, <2>2
  <2>5. LinesCounted(<<>>)
    BY <2>1, <2>3, <2>4 DEF LinesCounted
  <2> QED
    BY <2>5, EmptySeq
<1>2. ASSUME NEW t \in Seq(S), NEW b \in S, t \in A
      PROVE  Append(t, b) \in A
  <2> DEFINE L == DiffLines(t)
             M == DiffLines(Append(t, b))
             E == EolsIn(t)
             F == EolsIn(Append(t, b))
             n == Len(t)
  <2>1. L \in Seq(Seq(S)) /\ Continued(L, b, t, M)
    BY LinesAreMade, NextLine DEF LinesMake
  <2>2. IsFiniteSet(E) /\ Cardinality(E) \in Nat /\ n \in Nat
    BY <1>2, FS_CardinalityType DEF LinesCounted
  <2>3. Len(L) = Cardinality(E) + IF Whole(t) THEN 0 ELSE 1
    BY <1>2 DEF LinesCounted
  <2>4. F = IF b \in Eols THEN E \cup {n + 1} ELSE E
    <3>1. /\ Len(Append(t, b)) = n + 1 /\ Append(t, b)[n + 1] = b
          /\ \A i \in 1..n : Append(t, b)[i] = t[i]
      OBVIOUS
    <3>2. 1..(n + 1) = 1..n \cup {n + 1}
      BY <2>2
    <3> HIDE DEF n
    <3>3. F = {i \in 1..n \cup {n + 1} : Append(t, b)[i] \in Eols}
      BY <3>1, <3>2 DEF EolsIn
    <3>4. E = {i \in 1..n : Append(t, b)[i] \in Eols}
      BY <3>1 DEF EolsIn, n
    <3> HIDE DEF E, F
    <3> QED
      BY <3>1, <3>3, <3>4
  <2>5. n + 1 \notin E
    BY <2>2 DEF EolsIn
  <2>6. IsFiniteSet(F) /\ Cardinality(F) = Cardinality(E) + IF b \in Eols THEN 1 ELSE 0
    BY <2>2, <2>4, <2>5, FS_AddElement
  <2>7. Whole(Append(t, b)) <=> b \in Eols
    BY LastOfAppend DEF Whole
  <2>8. Len(M) = Len(L) + IF Whole(t) THEN 1 ELSE 0
    <3> HIDE DEF L, M
    <3>1. Len(L) \in Nat
      BY <2>1
    <3>2. CASE Whole(t)
      <4>1. M = Append(L, <<b>>) /\ <<b>> \in Seq(S)
        BY <2>1, <3>2 DEF Continued
      <4>2. Len(M) = Len(L) + 1
        BY <2>1, <4>1, AppendProperties
      <4> QED
        BY <3>2, <4>2
    <3>3. CASE ~Whole(t)
      <4>1. L # <<>> /\ M = Append(Front(L), Append(Last(L), b))
        BY <2>1, <3>3 DEF Continued
      <4>2. Front(L) \in Seq(Seq(S)) /\ Last(L) \in Seq(S) /\ L = Append(Front(L), Last(L))
        BY <2>1, <4>1, FrontAndLast
      <4>3. Len(L) = Len(Front(L)) + 1
        <5> DEFINE x == Front(L)
                   y == Last(L)
        <5>1. x \in Seq(Seq(S)) /\ y \in Seq(S) /\ L = Append(x, y)
          BY <4>2
        <5> HIDE DEF x, y
        <5>2. Len(L) = Len(x) + 1
          BY <5>1, AppendProperties
        <5> QED
          BY <5>2 DEF x
      <4>4. Append(Last(L), b) \in Seq(S)
        BY <4>2, AppendProperties
      <4>5. Len(M) = Len(Front(L)) + 1
        BY <4>1, <4>2, <4>4, AppendProperties
      <4> QED
        BY <3>1, <3>3, <4>3, <4>5
    <3> QED
      BY <3>2, <3>3
  <2>9. Len(M) = Cardinality(F) + IF Whole(Append(t, b)) THEN 0 ELSE 1
    <3> HIDE DEF L, M, E, F
    <3> QED
      BY <2>2, <2>3, <2>6, <2>7, <2>8
  <2> QED
    BY <2>6, <2>9 DEF LinesCounted
<1>3. Seq(S) \subseteq A
  <2> HIDE DEF A
  <2> QED
    BY <1>1, <1>2, SeqInduction
<1> QED
  BY <1>3

\* No line goes on past the first i bytes.
Boundary(s, i) == i = 0 \/ s[i] \in Eols

\* The lines of the first i bytes.
LinesUpTo(s, i) == Len(DiffLines(Slice(s, 0, i)))

LEMMA PrefixIsWhole ==
  ASSUME NEW S, NEW s \in Seq(S), NEW i \in 0..Len(s)
  PROVE  /\ Slice(s, 0, i) \in Seq(S) /\ Len(Slice(s, 0, i)) = i
         /\ \A j \in 1..i : Slice(s, 0, i)[j] = s[j]
         /\ Boundary(s, i) => Whole(Slice(s, 0, i))
<1>1. /\ Slice(s, 0, i) \in Seq(S) /\ Len(Slice(s, 0, i)) = i
      /\ \A j \in 1..i : Slice(s, 0, i)[j] = s[j]
  BY DEF Slice
<1>2. i = 0 => Slice(s, 0, i) = <<>>
  BY <1>1
<1>3. i # 0 => Last(Slice(s, 0, i)) = s[i]
  BY <1>1 DEF Last
<1> QED
  BY <1>1, <1>2, <1>3 DEF Whole, Boundary

\* Where no line goes on, the next one has the number of the lines before it.
LEMMA LineNumberIs ==
  ASSUME NEW S, NEW s \in Seq(S), NEW i \in 0..Len(s), Boundary(s, i)
  PROVE  LineNumberAt(s, i) = 1 + LinesUpTo(s, i) /\ LinesUpTo(s, i) \in Nat
<1> DEFINE t == Slice(s, 0, i)
<1>1. t \in Seq(S) /\ Len(t) = i /\ (\A j \in 1..i : t[j] = s[j]) /\ Whole(t)
  BY PrefixIsWhole
<1>2. {j \in DOMAIN s : j <= i /\ s[j] \in Eols} = EolsIn(t)
  <2>1. DOMAIN s = 1..Len(s) /\ Len(s) \in Nat
    OBVIOUS
  <2> HIDE DEF t
  <2> QED
    BY <1>1, <2>1 DEF EolsIn
<1> HIDE DEF t
<1>3. Len(DiffLines(t)) = Cardinality(EolsIn(t)) /\ IsFiniteSet(EolsIn(t))
  <2>1. LinesCounted(t)
    BY <1>1, LinesAreCounted
  <2>2. Cardinality(EolsIn(t)) \in Nat
    BY <2>1, FS_CardinalityType DEF LinesCounted
  <2> QED
    BY <1>1, <2>1, <2>2 DEF LinesCounted
<1>4. Cardinality(EolsIn(t)) \in Nat
  BY <1>3, FS_CardinalityType
<1> QED
  BY <1>2, <1>3, <1>4 DEF LineNumberAt, LinesUpTo, t

-------------------------------------------------------------------------------
(***************************************************************************)
(* What two files have in common and what they have not: gaps, and between *)
(* each two of them a part of the one or of the other.                     *)
(***************************************************************************)
\* The first k parts, each between two gaps.
Joined(gaps, parts, k) == FlattenSeq([j \in 1..k |-> gaps[j - 1] \o parts[j]]) \o gaps[k]

LEMMA JoinedType ==
  ASSUME NEW S, NEW n \in Nat, NEW gaps \in [0..n -> Seq(S)], NEW parts \in [1..n -> Seq(S)],
         NEW k \in 0..n
  PROVE  Joined(gaps, parts, k) \in Seq(S) /\ Len(Joined(gaps, parts, k)) \in Nat
<1> DEFINE pieces == [j \in 1..k |-> gaps[j - 1] \o parts[j]]
<1>1. k \in Nat /\ gaps[k] \in Seq(S)
  OBVIOUS
<1>2. pieces \in [1..k -> Seq(S)]
  <2>1. ASSUME NEW j \in 1..k PROVE gaps[j - 1] \o parts[j] \in Seq(S)
    <3>1. j - 1 \in 0..n /\ j \in 1..n
      OBVIOUS
    <3> QED
      BY <3>1
  <2> QED
    BY <2>1
<1> HIDE DEF pieces
<1>3. FlattenSeq(pieces) \in Seq(S)
  BY <1>1, <1>2, FlattenType
<1>4. FlattenSeq(pieces) \o gaps[k] \in Seq(S)
  BY <1>1, <1>3
<1>5. Joined(gaps, parts, k) \in Seq(S)
  BY <1>4 DEF Joined, pieces
<1> QED
  BY <1>5

\* One more part comes behind the others, and the gap after it.
JoinedNext(gaps, parts, k) ==
  Joined(gaps, parts, k + 1) = (Joined(gaps, parts, k) \o parts[k + 1]) \o gaps[k + 1]

LEMMA JoinedStep ==
  ASSUME NEW S, NEW n \in Nat, NEW gaps \in [0..n -> Seq(S)], NEW parts \in [1..n -> Seq(S)],
         NEW k \in 0..(n - 1)
  PROVE  JoinedNext(gaps, parts, k)
<1> DEFINE piece(j) == gaps[j - 1] \o parts[j]
           few == [j \in 1..k |-> piece(j)]
           more == [j \in 1..(k + 1) |-> piece(j)]
           last == piece(k + 1)
<1>1. k \in Nat /\ k + 1 \in 1..n /\ k + 1 \in 0..n /\ k \in 0..n /\ (k + 1) - 1 = k
  OBVIOUS
<1>2. ASSUME NEW j \in 1..(k + 1) PROVE piece(j) \in Seq(S)
  <2>1. j - 1 \in 0..n /\ j \in 1..n
    BY <1>1
  <2> QED
    BY <2>1
<1>3. few \in [1..k -> Seq(S)] /\ last \in Seq(S)
  <2>1. \A j \in 1..k : j \in 1..(k + 1)
    BY <1>1
  <2>2. k + 1 \in 1..(k + 1)
    BY <1>1
  <2> HIDE DEF piece
  <2> QED
    BY <1>2, <2>1, <2>2
<1>4. more = Extended(k, few, last)
  <2>1. \A j \in 1..(k + 1) : j # k + 1 => j \in 1..k
    BY <1>1
  <2> HIDE DEF piece
  <2>2. \A j \in 1..(k + 1) : more[j] = IF j = k + 1 THEN last ELSE few[j]
    BY <2>1
  <2> QED
    BY <2>2 DEF Extended
<1>5. last = gaps[k] \o parts[k + 1]
  BY <1>1
<1> HIDE DEF few, last, more
<1>6. FlattenSeq(more) = FlattenSeq(few) \o last /\ FlattenSeq(few) \in Seq(S)
  BY <1>1, <1>3, <1>4, FlattenAppend, FlattenType
<1>7. /\ gaps[k] \in Seq(S) /\ parts[k + 1] \in Seq(S) /\ gaps[k + 1] \in Seq(S)
  BY <1>1
<1>8. FlattenSeq(few) \o (gaps[k] \o parts[k + 1]) = (FlattenSeq(few) \o gaps[k]) \o parts[k + 1]
  <2> DEFINE x == FlattenSeq(few)
             y == gaps[k]
             z == parts[k + 1]
  <2>1. x \in Seq(S) /\ y \in Seq(S) /\ z \in Seq(S)
    BY <1>6, <1>7
  <2> HIDE DEF x, y, z
  <2>2. x \o (y \o z) = (x \o y) \o z
    BY <2>1, ConcatAssociative
  <2> QED
    BY <2>2 DEF x, y, z
<1>9. FlattenSeq(more) \o gaps[k + 1] = ((FlattenSeq(few) \o gaps[k]) \o parts[k + 1]) \o gaps[k + 1]
  BY <1>5, <1>6, <1>8
<1>10. /\ Joined(gaps, parts, k) = FlattenSeq(few) \o gaps[k]
       /\ Joined(gaps, parts, k + 1) = FlattenSeq(more) \o gaps[k + 1]
  BY DEF Joined, few, more
<1> QED
  BY <1>9, <1>10 DEF JoinedNext

LEMMA JoinedFirst ==
  ASSUME NEW S, NEW gaps, NEW parts, gaps[0] \in Seq(S)
  PROVE  Joined(gaps, parts, 0) = gaps[0]
<1> DEFINE pieces == [j \in 1..0 |-> gaps[j - 1] \o parts[j]]
<1>1. pieces = <<>>
  OBVIOUS
<1> HIDE DEF pieces
<1>2. FlattenSeq(pieces) = <<>>
  BY <1>1, FlattenEmpty
<1>3. <<>> \o gaps[0] = gaps[0]
  OBVIOUS
<1> QED
  BY <1>2, <1>3 DEF Joined, pieces

\* Whether t stands in x behind its first `at` elements.
StandsAt(x, at, t) == at + Len(t) <= Len(x) /\ SubSeq(x, at + 1, at + Len(t)) = t

LEMMA StandsLonger ==
  ASSUME NEW S, NEW x \in Seq(S), NEW y \in Seq(S), NEW t \in Seq(S), NEW at \in Nat,
         StandsAt(x, at, t)
  PROVE  StandsAt(x \o y, at, t)
<1>1. /\ Len(x) \in Nat /\ Len(y) \in Nat /\ Len(t) \in Nat /\ x \o y \in Seq(S)
      /\ Len(x \o y) = Len(x) + Len(y)
      /\ at + Len(t) <= Len(x) /\ SubSeq(x, at + 1, at + Len(t)) = t
  BY DEF StandsAt
<1>2. SubSeq(x \o y, at + 1, at + Len(t)) = SubSeq(x, at + 1, at + Len(t))
  <2>1. \A i \in 1..Len(x) : (x \o y)[i] = x[i]
    OBVIOUS
  <2> DEFINE z == x \o y
             l == Len(t)
  <2>2. z \in Seq(S) /\ Len(z) = Len(x) + Len(y) /\ \A i \in 1..Len(x) : z[i] = x[i]
    BY <1>1, <2>1
  <2>3. l \in Nat /\ at + l <= Len(x)
    BY <1>1
  <2> DEFINE u == SubSeq(z, at + 1, at + l)
             v == SubSeq(x, at + 1, at + l)
  <2> HIDE DEF z, l
  <2>4. u = v
    <3>1. Len(z) \in Nat /\ Len(x) \in Nat
      BY <1>1, <2>2
    <3>2. u \in Seq(S) /\ Len(u) = l /\ \A i \in 1..l : u[i] = z[at + i]
      BY <1>1, <2>2, <2>3, <3>1
    <3>3. v \in Seq(S) /\ Len(v) = l /\ \A i \in 1..l : v[i] = x[at + i]
      BY <1>1, <2>3, <3>1
    <3>4. \A i \in 1..l : at + i \in 1..Len(x)
      BY <2>3, <3>1
    <3> HIDE DEF u, v
    <3>5. \A i \in 1..l : u[i] = v[i]
      BY <2>2, <3>2, <3>3, <3>4
    <3> QED
      BY <3>2, <3>3, <3>5, SeqEqual
  <2> QED
    BY <2>4 DEF z, l
<1> QED
  BY <1>1, <1>2 DEF StandsAt

LEMMA StandsBehind ==
  ASSUME NEW S, NEW x \in Seq(S), NEW t \in Seq(S)
  PROVE  StandsAt(x \o t, Len(x), t) /\ StandsAt(x, 0, x)
BY DEF StandsAt

\* Where the parts and the gaps stand in what they make.
JoinedAt(gaps, parts, k, n) ==
  LET x == Joined(gaps, parts, n)
      at(j) == Len(Joined(gaps, parts, j))
  IN /\ StandsAt(x, 0, Joined(gaps, parts, k))
     /\ k = 0 => StandsAt(x, 0, gaps[0])
     /\ k > 0 => /\ StandsAt(x, at(k - 1), parts[k])
                 /\ StandsAt(x, at(k - 1) + Len(parts[k]), gaps[k])
                 /\ at(k) = at(k - 1) + Len(parts[k]) + Len(gaps[k])

LEMMA JoinedStands ==
  ASSUME NEW S, NEW n \in Nat, NEW gaps \in [0..n -> Seq(S)], NEW parts \in [1..n -> Seq(S)],
         NEW k \in 0..n
  PROVE  JoinedAt(gaps, parts, k, n)
<1> DEFINE J(j) == Joined(gaps, parts, j)
           A == {i \in 0..n : i < k \/ JoinedAt(gaps, parts, k, i)}
<1>1. ASSUME NEW j \in 0..n PROVE J(j) \in Seq(S) /\ Len(J(j)) \in Nat
  BY JoinedType
<1>2. ASSUME NEW j \in 0..(n - 1)
      PROVE  /\ J(j + 1) = (J(j) \o parts[j + 1]) \o gaps[j + 1]
             /\ parts[j + 1] \in Seq(S) /\ gaps[j + 1] \in Seq(S)
  <2>1. JoinedNext(gaps, parts, j)
    BY JoinedStep
  <2>2. j + 1 \in 1..n /\ j + 1 \in 0..n
    OBVIOUS
  <2> QED
    BY <2>1, <2>2 DEF JoinedNext
<1>3. gaps[0] \in Seq(S) /\ J(0) = gaps[0]
  BY JoinedFirst
<1> HIDE DEF J
<1>4. JoinedAt(gaps, parts, k, k)
  <2>1. CASE k = 0
    <3>1. StandsAt(J(0), 0, J(0)) /\ StandsAt(J(0), 0, gaps[0])
      BY <1>3, StandsBehind
    <3> QED
      BY <2>1, <3>1 DEF JoinedAt, J
  <2>2. CASE k # 0
    <3>1. k - 1 \in 0..(n - 1) /\ k - 1 \in 0..n /\ (k - 1) + 1 = k
      BY <2>2
    <3> DEFINE x == J(k - 1)
               p == parts[k]
               g == gaps[k]
    <3>2. x \in Seq(S) /\ p \in Seq(S) /\ g \in Seq(S) /\ J(k) = (x \o p) \o g
      BY <1>1, <1>2, <3>1
    <3> HIDE DEF x, p, g
    <3>3. x \o p \in Seq(S) /\ Len(x \o p) = Len(x) + Len(p) /\ Len(x) \in Nat /\ Len(p) \in Nat
      BY <3>2
    <3>4. StandsAt(J(k), Len(x), p)
      BY <3>2, <3>3, StandsBehind, StandsLonger
    <3>5. StandsAt(J(k), Len(x) + Len(p), g)
      BY <3>2, <3>3, StandsBehind
    <3>6. Len(J(k)) = Len(x) + Len(p) + Len(g)
      BY <3>2
    <3>7. StandsAt(J(k), 0, J(k))
      BY <1>1, StandsBehind
    <3> QED
      BY <2>2, <3>4, <3>5, <3>6, <3>7 DEF JoinedAt, J, x, p, g
  <2> QED
    BY <2>1, <2>2
<1>5. ASSUME NEW i \in 0..(n - 1), i \in A
      PROVE  i + 1 \in A
  <2>1. i \in 0..n /\ i + 1 \in 0..n
    OBVIOUS
  <2>2. CASE i + 1 < k
    BY <2>1, <2>2
  <2>3. CASE i + 1 = k
    BY <2>1, <2>3, <1>4
  <2>4. CASE k <= i
    <3> DEFINE x == J(i)
               y == parts[i + 1] \o gaps[i + 1]
    <3>1. x \in Seq(S) /\ parts[i + 1] \in Seq(S) /\ gaps[i + 1] \in Seq(S)
          /\ J(i + 1) = (x \o parts[i + 1]) \o gaps[i + 1]
      BY <1>1, <1>2, <2>1
    <3>2. y \in Seq(S) /\ J(i + 1) = x \o y
      <4> DEFINE p == parts[i + 1]
                 g == gaps[i + 1]
      <4>1. x \in Seq(S) /\ p \in Seq(S) /\ g \in Seq(S)
        BY <3>1
      <4>4. J(i + 1) = (x \o p) \o g
        BY <3>1
      <4> HIDE DEF x, p, g
      <4>2. (x \o p) \o g = x \o (p \o g)
        BY <4>1, ConcatAssociative
      <4>3. p \o g \in Seq(S)
        BY <4>1, ConcatProperties
      <4> QED
        BY <4>1, <4>2, <4>3, <4>4 DEF p, g
    <3>3. JoinedAt(gaps, parts, k, i)
      BY <1>5, <2>4
    <3> HIDE DEF x, y
    <3>4. ASSUME NEW t \in Seq(S), NEW at \in Nat, StandsAt(J(i), at, t)
          PROVE  StandsAt(J(i + 1), at, t)
      BY <3>1, <3>2, <3>4, StandsLonger DEF x
    <3>5. StandsAt(J(i), 0, J(k)) /\ (k = 0 => StandsAt(J(i), 0, gaps[0]))
      BY <3>3 DEF JoinedAt, J
    <3>6. StandsAt(J(i + 1), 0, J(k)) /\ (k = 0 => StandsAt(J(i + 1), 0, gaps[0]))
      BY <1>1, <1>3, <3>4, <3>5
    <3>7. k > 0 => /\ StandsAt(J(i + 1), Len(J(k - 1)), parts[k])
                   /\ StandsAt(J(i + 1), Len(J(k - 1)) + Len(parts[k]), gaps[k])
                   /\ Len(J(k)) = Len(J(k - 1)) + Len(parts[k]) + Len(gaps[k])
      <4> SUFFICES ASSUME k > 0
                   PROVE  /\ StandsAt(J(i + 1), Len(J(k - 1)), parts[k])
                          /\ StandsAt(J(i + 1), Len(J(k - 1)) + Len(parts[k]), gaps[k])
                          /\ Len(J(k)) = Len(J(k - 1)) + Len(parts[k]) + Len(gaps[k])
        OBVIOUS
      <4>1. k - 1 \in 0..n /\ k \in 1..n /\ k \in 0..n
        OBVIOUS
      <4>2. parts[k] \in Seq(S) /\ gaps[k] \in Seq(S) /\ Len(parts[k]) \in Nat
        BY <4>1
      <4>3. Len(J(k - 1)) \in Nat
        BY <1>1, <4>1
      <4>4. /\ StandsAt(J(i), Len(J(k - 1)), parts[k])
            /\ StandsAt(J(i), Len(J(k - 1)) + Len(parts[k]), gaps[k])
            /\ Len(J(k)) = Len(J(k - 1)) + Len(parts[k]) + Len(gaps[k])
        BY <3>3 DEF JoinedAt, J
      <4>5. Len(J(k - 1)) + Len(parts[k]) \in Nat
        <5> DEFINE x1 == Len(J(k - 1))
                   x2 == Len(parts[k])
        <5>1. x1 \in Nat /\ x2 \in Nat
          BY <4>2, <4>3
        <5> HIDE DEF x1, x2
        <5>2. x1 + x2 \in Nat
          BY <5>1
        <5> QED
          BY <5>2 DEF x1, x2
      <4> QED
        BY <3>4, <4>2, <4>3, <4>4, <4>5
    <3>8. JoinedAt(gaps, parts, k, i + 1)
      BY <3>6, <3>7 DEF JoinedAt, J
    <3> QED
      BY <2>1, <3>8
  <2> QED
    BY <2>2, <2>3, <2>4
<1>6. 0 \in A
  BY <1>4
<1>7. n \in A
  <2>1. \A i \in 0..(n - 1) : i \in A => i + 1 \in A
    BY <1>5
  <2> HIDE DEF A
  <2>2. 0..n \subseteq A
    BY <1>6, <2>1, Induction
  <2> QED
    BY <2>2
<1> QED
  BY <1>7

\* No line goes on from a part into a gap, or from a gap into a part.
AlignedParts(gaps, parts, n) ==
  /\ \A k \in 0..(n - 1) : Whole(gaps[k])
  /\ \A k \in 1..n : Whole(parts[k]) \/ (k = n /\ gaps[n] = <<>>)

\* The lines of each.
LinesOfEach(seqs) == [k \in DOMAIN seqs |-> DiffLines(seqs[k])]

LEMMA WholeConcat ==
  ASSUME NEW S, NEW a \in Seq(S), NEW b \in Seq(S), Whole(a), Whole(b)
  PROVE  Whole(a \o b)
<1>1. CASE b = <<>>
  <2>1. a \o b = a
    BY <1>1
  <2> QED
    BY <2>1
<1>2. CASE b # <<>>
  <2>1. Last(b) \in Eols
    BY <1>2 DEF Whole
  <2>2. Last(a \o b) = Last(b)
    BY <1>2 DEF Last
  <2> QED
    BY <2>1, <2>2 DEF Whole
<1> QED
  BY <1>1, <1>2

\* The lines of what parts and gaps make are those that their lines make.
JoinedLines(gaps, parts, k) ==
  DiffLines(Joined(gaps, parts, k)) = Joined(LinesOfEach(gaps), LinesOfEach(parts), k)

LEMMA LinesType ==
  ASSUME NEW S, NEW s \in Seq(S)
  PROVE  DiffLines(s) \in Seq(Seq(S)) /\ FlattenSeq(DiffLines(s)) = s
         /\ Len(DiffLines(s)) \in Nat
<1>1. DiffLines(s) \in Seq(Seq(S)) /\ FlattenSeq(DiffLines(s)) = s
  BY LinesAreMade DEF LinesMake
<1>2. Len(DiffLines(s)) \in Nat
  BY <1>1, LenProperties
<1> QED
  BY <1>1, <1>2

LEMMA LinesOfEachType ==
  ASSUME NEW S, NEW D, NEW seqs \in [D -> Seq(S)]
  PROVE  LinesOfEach(seqs) \in [D -> Seq(Seq(S))]
         /\ \A k \in D : LinesOfEach(seqs)[k] = DiffLines(seqs[k])
<1>1. DOMAIN seqs = D /\ \A k \in D : seqs[k] \in Seq(S)
  OBVIOUS
<1>2. \A k \in D : DiffLines(seqs[k]) \in Seq(Seq(S))
  BY <1>1, LinesType
<1> QED
  BY <1>1, <1>2 DEF LinesOfEach

LEMMA JoinedWhole ==
  ASSUME NEW S, NEW n \in Nat, NEW gaps \in [0..n -> Seq(S)], NEW parts \in [1..n -> Seq(S)],
         AlignedParts(gaps, parts, n), NEW k \in 0..n
  PROVE  /\ JoinedLines(gaps, parts, k)
         /\ k < n => Whole(Joined(gaps, parts, k))
<1> DEFINE lg == LinesOfEach(gaps)
           lp == LinesOfEach(parts)
           T == Seq(S)
           A == {i \in 0..n : JoinedLines(gaps, parts, i) /\ (i < n => Whole(Joined(gaps, parts, i)))}
<1>1. lg \in [0..n -> Seq(T)] /\ (\A i \in 0..n : lg[i] = DiffLines(gaps[i]))
  <2> DEFINE D == 0..n
  <2>1. gaps \in [D -> Seq(S)]
    OBVIOUS
  <2> HIDE DEF D
  <2>2. lg \in [D -> Seq(T)] /\ \A i \in D : lg[i] = DiffLines(gaps[i])
    BY <2>1, LinesOfEachType
  <2> QED
    BY <2>2 DEF D
<1>2. lp \in [1..n -> Seq(T)] /\ (\A i \in 1..n : lp[i] = DiffLines(parts[i]))
  <2> DEFINE D == 1..n
  <2>1. parts \in [D -> Seq(S)]
    OBVIOUS
  <2> HIDE DEF D
  <2>2. lp \in [D -> Seq(T)] /\ \A i \in D : lp[i] = DiffLines(parts[i])
    BY <2>1, LinesOfEachType
  <2> QED
    BY <2>2 DEF D
<1> HIDE DEF lg, lp, T
<1>3. 0 \in A
  <2>1. gaps[0] \in Seq(S) /\ lg[0] \in Seq(T) /\ lg[0] = DiffLines(gaps[0])
    BY <1>1
  <2>2. Joined(gaps, parts, 0) = gaps[0]
    BY <2>1, JoinedFirst
  <2>3. Joined(lg, lp, 0) = lg[0]
    BY <2>1, JoinedFirst
  <2>4. 0 < n => Whole(gaps[0])
    BY DEF AlignedParts
  <2> QED
    BY <2>1, <2>2, <2>3, <2>4 DEF JoinedLines, lg, lp
<1>4. ASSUME NEW i \in 0..(n - 1), i \in A
      PROVE  i + 1 \in A
  <2>1. i \in 0..n /\ i + 1 \in 1..n /\ i + 1 \in 0..n /\ i < n
    OBVIOUS
  <2> DEFINE x == Joined(gaps, parts, i)
             p == parts[i + 1]
             g == gaps[i + 1]
             lx == Joined(lg, lp, i)
  <2>2. x \in Seq(S)
    BY <2>1, JoinedType
  <2>3. p \in Seq(S) /\ g \in Seq(S)
    BY <2>1
  <2>4. Joined(gaps, parts, i + 1) = (x \o p) \o g
    BY JoinedStep DEF JoinedNext
  <2>5. Joined(lg, lp, i + 1) = (lx \o lp[i + 1]) \o lg[i + 1]
    <3>1. JoinedNext(lg, lp, i)
      BY <1>1, <1>2, JoinedStep
    <3> QED
      BY <3>1 DEF JoinedNext
  <2>6. DiffLines(x) = lx /\ Whole(x)
    BY <1>4, <2>1 DEF JoinedLines, lg, lp
  <2>7. lp[i + 1] = DiffLines(p) /\ lg[i + 1] = DiffLines(g)
    BY <1>1, <1>2, <2>1
  <2>8. /\ Whole(p) \/ (i + 1 = n /\ g = <<>>)
        /\ i + 1 < n => Whole(g)
    BY <2>1 DEF AlignedParts
  <2> HIDE DEF x, p, g, lx
  <2>9. x \o p \in Seq(S) /\ DiffLines(x \o p) = lx \o DiffLines(p)
    <3>1. LinesParted(x, p)
      BY <2>2, <2>3, <2>6, LinesConcat
    <3>2. x \o p \in Seq(S)
      BY <2>2, <2>3
    <3> QED
      BY <2>6, <3>1, <3>2 DEF LinesParted
  <2>10. DiffLines((x \o p) \o g) = (lx \o DiffLines(p)) \o DiffLines(g)
    <3>1. CASE Whole(p)
      <4>1. Whole(x \o p)
        BY <2>2, <2>3, <2>6, <3>1, WholeConcat
      <4>2. LinesParted(x \o p, g)
        BY <2>3, <2>9, <4>1, LinesConcat
      <4> QED
        BY <2>9, <4>2 DEF LinesParted
    <3>2. CASE g = <<>>
      <4>1. (x \o p) \o g = x \o p /\ DiffLines(g) = <<>>
        BY <2>9, <3>2, LinesEmpty
      <4>2. DiffLines(x \o p) \in Seq(Seq(S))
        BY <2>9, LinesType
      <4>3. DiffLines(x \o p) \o <<>> = DiffLines(x \o p)
        BY <4>2
      <4> QED
        BY <2>9, <4>1, <4>3, Zenon
    <3> QED
      BY <2>8, <3>1, <3>2
  <2>11. JoinedLines(gaps, parts, i + 1)
    BY <2>4, <2>5, <2>7, <2>10 DEF JoinedLines, lg, lp
  <2>12. ASSUME i + 1 < n PROVE Whole(Joined(gaps, parts, i + 1))
    <3>1. Whole(p) /\ Whole(g)
      BY <2>8, <2>12
    <3>2. Whole(x \o p)
      BY <2>2, <2>3, <2>6, <3>1, WholeConcat
    <3>3. Whole((x \o p) \o g)
      BY <2>3, <2>9, <3>1, <3>2, WholeConcat
    <3> QED
      BY <2>4, <3>3
  <2> QED
    BY <2>1, <2>11, <2>12
<1>5. 0..n \subseteq A
  <2>1. \A i \in 0..(n - 1) : i \in A => i + 1 \in A
    BY <1>4
  <2> HIDE DEF A
  <2> QED
    BY <1>3, <2>1, Induction
<1> QED
  BY <1>5

\* The hunks d are those of a file with these parts, which become others.
Describes(d, gaps, olds, news, n) ==
  /\ DOMAIN d = 1..n
  /\ \A k \in 1..n :
       /\ d[k].old_start = LineNumberAt(Joined(gaps, olds, n), Len(Joined(gaps, olds, k - 1)))
       /\ d[k].old_lines = DiffLines(olds[k])
       /\ d[k].new_lines = DiffLines(news[k])

\* Where the lines of each hunk are.
HunkAt(d, gaps, olds, news, k) ==
  /\ d[k].old_start = 1 + Len(Joined(LinesOfEach(gaps), LinesOfEach(olds), k - 1))
  /\ d[k].old_lines = LinesOfEach(olds)[k]
  /\ d[k].new_lines = LinesOfEach(news)[k]

LEMMA HunkLines ==
  ASSUME NEW S, NEW n \in Nat, NEW gaps \in [0..n -> Seq(S)],
         NEW olds \in [1..n -> Seq(S)], NEW news \in [1..n -> Seq(S)],
         AlignedParts(gaps, olds, n), NEW d, Describes(d, gaps, olds, news, n),
         NEW k \in 1..n
  PROVE  HunkAt(d, gaps, olds, news, k)
<1> DEFINE x == Joined(gaps, olds, n)
           y == Joined(gaps, olds, k - 1)
           i == Len(y)
<1>1. k - 1 \in 0..n /\ n \in 0..n /\ k - 1 < n
  OBVIOUS
<1>2. x \in Seq(S) /\ y \in Seq(S) /\ i \in Nat
  BY <1>1, JoinedType
<1>3. StandsAt(x, 0, y)
  <2>1. JoinedAt(gaps, olds, k - 1, n)
    BY <1>1, JoinedStands
  <2> QED
    BY <2>1 DEF JoinedAt
<1>4. Whole(y) /\ JoinedLines(gaps, olds, k - 1)
  BY <1>1, JoinedWhole
<1>5. d[k].old_start = LineNumberAt(x, i)
  BY DEF Describes
<1>6. DiffLines(y) = Joined(LinesOfEach(gaps), LinesOfEach(olds), k - 1)
  BY <1>4 DEF JoinedLines
<1> HIDE DEF x, y
<1>7. i \in 0..Len(x) /\ Slice(x, 0, i) = y
  <2>1. 0 + i <= Len(x) /\ SubSeq(x, 0 + 1, 0 + i) = y /\ Len(x) \in Nat
    BY <1>2, <1>3 DEF StandsAt
  <2>2. 0 + i = i /\ 0 + 1 = 1
    BY <1>2
  <2> HIDE DEF i
  <2> QED
    BY <1>2, <2>1, <2>2 DEF Slice
<1>8. Boundary(x, i)
  <2>1. CASE y = <<>>
    BY <2>1 DEF Boundary
  <2>2. CASE y # <<>>
    <3>1. Last(y) \in Eols /\ i # 0
      BY <1>2, <1>4, <2>2 DEF Whole
    <3>2. y[i] = x[i]
      <4>1. i \in 1..i
        BY <1>2, <3>1
      <4> HIDE DEF i
      <4> QED
        BY <1>2, <1>7, <4>1, PrefixIsWhole
    <3> QED
      BY <3>1, <3>2 DEF Boundary, Last
  <2> QED
    BY <2>1, <2>2
<1>9. LineNumberAt(x, i) = 1 + Len(DiffLines(y)) /\ Len(DiffLines(y)) \in Nat
  <2> HIDE DEF i
  <2>1. LineNumberAt(x, i) = 1 + LinesUpTo(x, i) /\ LinesUpTo(x, i) \in Nat
    BY <1>2, <1>7, <1>8, LineNumberIs
  <2> QED
    BY <1>7, <2>1 DEF LinesUpTo
<1>10. /\ d[k].old_lines = LinesOfEach(olds)[k]
       /\ d[k].new_lines = LinesOfEach(news)[k]
  <2>1. k \in DOMAIN olds /\ k \in DOMAIN news
    OBVIOUS
  <2>2. d[k].old_lines = DiffLines(olds[k]) /\ d[k].new_lines = DiffLines(news[k])
    BY DEF Describes
  <2> QED
    BY <2>1, <2>2 DEF LinesOfEach
<1> QED
  BY <1>5, <1>6, <1>9, <1>10 DEF HunkAt

\* Up to where the first k hunks of a diff take the lines, and where the next one starts.
TakenUpTo(d, k) == IF k = 0 THEN 1 ELSE d[k].old_start + Len(d[k].old_lines)
NextTaken(d, lines, k, n) == IF k = n THEN Len(lines) ELSE d[k + 1].old_start - 1

\* Where the gaps and the parts are among the lines.
LinesCut(d, gaps, olds, news, k, n) ==
  LET lines == DiffLines(Joined(gaps, olds, n)) IN
  /\ SubSeq(lines, TakenUpTo(d, k), NextTaken(d, lines, k, n)) = LinesOfEach(gaps)[k]
  /\ k > 0 => /\ d[k].old_start + Len(d[k].old_lines) - 1 <= Len(lines)
              /\ SubSeq(lines, d[k].old_start, d[k].old_start + Len(d[k].old_lines) - 1)
                   = d[k].old_lines
              /\ k < n => d[k].old_start + Len(d[k].old_lines) - 1 < d[k + 1].old_start
              /\ d[k].new_lines = LinesOfEach(news)[k]

LEMMA LinesAreCut ==
  ASSUME NEW S, NEW n \in Nat, NEW gaps \in [0..n -> Seq(S)],
         NEW olds \in [1..n -> Seq(S)], NEW news \in [1..n -> Seq(S)],
         AlignedParts(gaps, olds, n), NEW d, Describes(d, gaps, olds, news, n),
         NEW k \in 0..n
  PROVE  LinesCut(d, gaps, olds, news, k, n)
<1> DEFINE lg == LinesOfEach(gaps)
           lo == LinesOfEach(olds)
           L == DiffLines(Joined(gaps, olds, n))
           P == [j \in 0..n |-> Len(Joined(lg, lo, j))]
           T == Seq(S)
<1>1. lg \in [0..n -> Seq(T)] /\ lo \in [1..n -> Seq(T)]
  BY LinesOfEachType
<1>2. L = Joined(lg, lo, n) /\ L \in Seq(T) /\ Len(L) \in Nat
  <2>1. n \in 0..n
    OBVIOUS
  <2>2. JoinedLines(gaps, olds, n)
    BY <2>1, JoinedWhole
  <2>3. Joined(lg, lo, n) \in Seq(T) /\ Len(Joined(lg, lo, n)) \in Nat
    <3> HIDE DEF lg, lo, T
    <3> QED
      BY <1>1, <2>1, JoinedType
  <2> QED
    BY <2>2, <2>3 DEF JoinedLines
<1>3. P \in [0..n -> Nat]
  <2>1. ASSUME NEW j \in 0..n PROVE Len(Joined(lg, lo, j)) \in Nat
    <3> HIDE DEF lg, lo, T
    <3> QED
      BY <1>1, JoinedType
  <2> QED
    BY <2>1
<1>4. ASSUME NEW j \in 0..n
      PROVE  /\ j = 0 => StandsAt(L, 0, lg[0])
             /\ j > 0 => /\ StandsAt(L, P[j - 1], lo[j])
                         /\ StandsAt(L, P[j - 1] + Len(lo[j]), lg[j])
                         /\ P[j] = P[j - 1] + Len(lo[j]) + Len(lg[j])
  <2>1. JoinedAt(lg, lo, j, n)
    <3> HIDE DEF lg, lo, T
    <3> QED
      BY <1>1, JoinedStands
  <2>2. j > 0 => P[j - 1] = Len(Joined(lg, lo, j - 1)) /\ P[j] = Len(Joined(lg, lo, j))
    OBVIOUS
  <2> HIDE DEF lg, lo, L, P
  <2> QED
    BY <1>2, <2>1, <2>2 DEF JoinedAt
<1>5. P[0] = Len(lg[0]) /\ P[n] = Len(L)
  <2>1. lg[0] \in Seq(T)
    BY <1>1
  <2>2. Joined(lg, lo, 0) = lg[0]
    <3> HIDE DEF lg, lo, T
    <3> QED
      BY <2>1, JoinedFirst
  <2> QED
    BY <1>2, <2>2
<1>6. ASSUME NEW j \in 1..n
      PROVE  /\ d[j].old_start = 1 + P[j - 1] /\ d[j].old_lines = lo[j]
             /\ d[j].new_lines = LinesOfEach(news)[j]
             /\ Len(lo[j]) \in Nat /\ Len(lg[j]) \in Nat
  <2>1. d[j].old_start = 1 + P[j - 1] /\ d[j].old_lines = lo[j]
        /\ d[j].new_lines = LinesOfEach(news)[j]
    <3>1. /\ d[j].old_start = 1 + Len(Joined(lg, lo, j - 1)) /\ d[j].old_lines = lo[j]
          /\ d[j].new_lines = LinesOfEach(news)[j]
      <4> HIDE DEF T, L, P, lg, lo
      <4>1. HunkAt(d, gaps, olds, news, j)
        BY HunkLines
      <4> QED
        BY <4>1 DEF HunkAt, lg, lo
    <3>2. j - 1 \in 0..n
      OBVIOUS
    <3> QED
      BY <3>1, <3>2
  <2>2. lo[j] \in Seq(T) /\ lg[j] \in Seq(T)
    BY <1>1
  <2>3. Len(lo[j]) \in Nat /\ Len(lg[j]) \in Nat
    <3> HIDE DEF lo, lg, T
    <3> QED
      BY <2>2, LenProperties
  <2> QED
    BY <2>1, <2>3
<1> HIDE DEF lg, lo, L, P, T
<1>7. /\ TakenUpTo(d, k) = (IF k = 0 THEN 0 ELSE P[k - 1] + Len(lo[k])) + 1
      /\ k = 0 => Len(lg[k]) = P[0]
      /\ NextTaken(d, L, k, n) = (IF k = 0 THEN 0 ELSE P[k - 1] + Len(lo[k])) + Len(lg[k])
  <2>1. P[k] = (IF k = 0 THEN 0 ELSE P[k - 1] + Len(lo[k])) + Len(lg[k])
    <3>1. CASE k = 0
      <4>1. P[0] \in Nat
        BY <1>3
      <4> QED
        BY <3>1, <4>1, <1>5
    <3>2. CASE k # 0
      BY <3>2, <1>4
    <3> QED
      BY <3>1, <3>2
  <2>2. TakenUpTo(d, k) = (IF k = 0 THEN 0 ELSE P[k - 1] + Len(lo[k])) + 1
    <3>1. CASE k = 0
      BY <3>1 DEF TakenUpTo
    <3>2. CASE k # 0
      <4>1. k \in 1..n /\ k - 1 \in 0..n
        BY <3>2
      <4>2. P[k - 1] \in Nat
        BY <1>3, <4>1
      <4>3. d[k].old_start = 1 + P[k - 1] /\ d[k].old_lines = lo[k] /\ Len(lo[k]) \in Nat
        BY <1>6, <4>1
      <4>4. TakenUpTo(d, k) = d[k].old_start + Len(d[k].old_lines)
        BY <3>2 DEF TakenUpTo
      <4> DEFINE a == P[k - 1]
                 b == Len(lo[k])
      <4>5. TakenUpTo(d, k) = (1 + a) + b /\ a \in Nat /\ b \in Nat
        BY <4>2, <4>3, <4>4
      <4> HIDE DEF a, b
      <4>6. TakenUpTo(d, k) = (a + b) + 1
        BY <4>5
      <4> QED
        BY <3>2, <4>6 DEF a, b
    <3> QED
      BY <3>1, <3>2
  <2>3. NextTaken(d, L, k, n) = P[k]
    <3>1. CASE k = n
      BY <3>1, <1>5 DEF NextTaken
    <3>2. CASE k # n
      <4>1. k + 1 \in 1..n /\ (k + 1) - 1 = k /\ P[k] \in Nat
        BY <3>2, <1>3
      <4>2. d[k + 1].old_start = 1 + P[k]
        BY <1>6, <4>1
      <4> QED
        BY <3>2, <4>1, <4>2 DEF NextTaken
    <3> QED
      BY <3>1, <3>2
  <2> QED
    BY <1>5, <2>1, <2>2, <2>3
<1>8. SubSeq(L, TakenUpTo(d, k), NextTaken(d, L, k, n)) = lg[k]
  <2>1. CASE k = 0
    <3>1. StandsAt(L, 0, lg[0])
      BY <2>1, <1>4
    <3> QED
      BY <2>1, <3>1, <1>7 DEF StandsAt
  <2>2. CASE k # 0
    <3>1. StandsAt(L, P[k - 1] + Len(lo[k]), lg[k])
      BY <2>2, <1>4
    <3> QED
      BY <2>2, <3>1, <1>7 DEF StandsAt
  <2> QED
    BY <2>1, <2>2
<1>9. ASSUME k > 0
      PROVE  /\ d[k].old_start + Len(d[k].old_lines) - 1 <= Len(L)
             /\ SubSeq(L, d[k].old_start, d[k].old_start + Len(d[k].old_lines) - 1)
                  = d[k].old_lines
             /\ k < n => d[k].old_start + Len(d[k].old_lines) - 1 < d[k + 1].old_start
             /\ d[k].new_lines = LinesOfEach(news)[k]
  <2>1. k \in 1..n /\ k - 1 \in 0..n
    BY <1>9
  <2>2. P[k - 1] \in Nat /\ P[k] \in Nat
    BY <1>3, <2>1
  <2>3. /\ d[k].old_start = P[k - 1] + 1 /\ d[k].old_lines = lo[k]
        /\ d[k].new_lines = LinesOfEach(news)[k]
        /\ Len(lo[k]) \in Nat /\ Len(lg[k]) \in Nat
    BY <1>6, <2>1, <2>2
  <2>4. d[k].old_start + Len(d[k].old_lines) - 1 = P[k - 1] + Len(lo[k])
    <3> DEFINE a == P[k - 1]
               b == Len(lo[k])
               e == d[k].old_start + Len(d[k].old_lines) - 1
    <3>1. e = (a + 1) + b - 1 /\ a \in Nat /\ b \in Nat
      BY <2>2, <2>3
    <3> HIDE DEF a, b, e
    <3>2. e = a + b
      BY <3>1
    <3> QED
      BY <3>2 DEF a, b, e
  <2>5. StandsAt(L, P[k - 1], lo[k]) /\ P[k] = P[k - 1] + Len(lo[k]) + Len(lg[k])
    BY <1>4, <1>9
  <2>6. k < n => d[k + 1].old_start = 1 + P[k]
    <3>1. k < n => k + 1 \in 1..n /\ (k + 1) - 1 = k
      BY <2>1
    <3> QED
      BY <1>6, <3>1
  <2>7. k < n => P[k - 1] + Len(lo[k]) < d[k + 1].old_start
    <3> DEFINE a == P[k - 1]
               b == Len(lo[k])
               c == Len(lg[k])
               e == P[k]
               g == d[k + 1].old_start
    <3>1. /\ a \in Nat /\ b \in Nat /\ c \in Nat
          /\ e = a + b + c /\ (k < n => g = 1 + e)
      BY <2>2, <2>3, <2>5, <2>6
    <3> HIDE DEF a, b, c, e, g
    <3>2. k < n => a + b < g
      BY <3>1
    <3> QED
      BY <3>2 DEF a, b, g
  <2> QED
    BY <2>3, <2>4, <2>5, <2>7 DEF StandsAt
<1> QED
  BY <1>8, <1>9 DEF LinesCut, L, lg

LEMMA JoinedFlattens ==
  ASSUME NEW S, NEW n \in Nat, NEW gaps \in [0..n -> Seq(S)], NEW parts \in [1..n -> Seq(S)]
  PROVE  FlattenSeq(Joined(LinesOfEach(gaps), LinesOfEach(parts), n)) = Joined(gaps, parts, n)
<1> DEFINE lg == LinesOfEach(gaps)
           lp == LinesOfEach(parts)
           T == Seq(S)
           pieces == [j \in 1..n |-> lg[j - 1] \o lp[j]]
<1>1. /\ lg \in [0..n -> Seq(T)] /\ lp \in [1..n -> Seq(T)]
  BY LinesOfEachType
<1>2. /\ \A j \in 0..n : FlattenSeq(lg[j]) = gaps[j]
      /\ \A j \in 1..n : FlattenSeq(lp[j]) = parts[j]
  <2>1. ASSUME NEW j \in 0..n PROVE FlattenSeq(lg[j]) = gaps[j]
    <3>1. lg[j] = DiffLines(gaps[j]) /\ gaps[j] \in Seq(S)
      BY DEF LinesOfEach
    <3> QED
      BY <3>1, LinesType
  <2>2. ASSUME NEW j \in 1..n PROVE FlattenSeq(lp[j]) = parts[j]
    <3>1. lp[j] = DiffLines(parts[j]) /\ parts[j] \in Seq(S)
      BY DEF LinesOfEach
    <3> QED
      BY <3>1, LinesType
  <2> QED
    BY <2>1, <2>2
<1> HIDE DEF lg, lp
<1>3. ASSUME NEW j \in 1..n
      PROVE  /\ pieces[j] \in Seq(T)
             /\ FlattenSeq(pieces[j]) = gaps[j - 1] \o parts[j]
  <2>1. j - 1 \in 0..n
    OBVIOUS
  <2> DEFINE a == lg[j - 1]
             b == lp[j]
  <2>2. a \in Seq(T) /\ b \in Seq(T) /\ FlattenSeq(a) = gaps[j - 1] /\ FlattenSeq(b) = parts[j]
    BY <1>1, <1>2, <2>1
  <2>3. pieces[j] = a \o b
    OBVIOUS
  <2> HIDE DEF a, b, pieces
  <2>4. a \o b \in Seq(T)
    BY <2>2, ConcatProperties
  <2>5. FlattenSeq(a \o b) = FlattenSeq(a) \o FlattenSeq(b)
    BY <2>2, FlattenConcat
  <2> QED
    BY <2>2, <2>3, <2>4, <2>5
<1>4. pieces \in [1..n -> Seq(T)] /\ DOMAIN pieces = 1..n
  BY <1>3
<1> HIDE DEF pieces
<1>5. pieces \in Seq(Seq(T))
  BY <1>4, IsASeq
<1>6. FlattenSeq(pieces) \in Seq(T) /\ lg[n] \in Seq(T)
  BY <1>1, <1>4, FlattenType
<1>7. FlattenSeq(FlattenSeq(pieces) \o lg[n]) = FlattenSeq(FlattenSeq(pieces)) \o gaps[n]
  <2> DEFINE a == FlattenSeq(pieces)
             b == lg[n]
  <2>1. a \in Seq(T) /\ b \in Seq(T) /\ FlattenSeq(b) = gaps[n]
    BY <1>2, <1>6
  <2> HIDE DEF a, b
  <2>2. FlattenSeq(a \o b) = FlattenSeq(a) \o FlattenSeq(b)
    BY <2>1, FlattenConcat DEF T
  <2> QED
    BY <2>1, <2>2 DEF a, b
<1>8. FlattenSeq(FlattenSeq(pieces)) = FlattenSeq(FlattenedEach(pieces))
  BY <1>5, FlattenFlatten DEF T
<1>9. FlattenedEach(pieces) = [j \in 1..n |-> gaps[j - 1] \o parts[j]]
  BY <1>3, <1>4 DEF FlattenedEach
<1>10. Joined(lg, lp, n) = FlattenSeq(pieces) \o lg[n]
  BY DEF Joined, pieces
<1> QED
  BY <1>7, <1>8, <1>9, <1>10 DEF Joined, lg, lp

\* The lines that a hunk shows as old are where it says.
LEMMA HunkStands ==
  ASSUME NEW S, NEW n \in Nat, NEW gaps \in [0..n -> Seq(S)],
         NEW olds \in [1..n -> Seq(S)], NEW news \in [1..n -> Seq(S)],
         AlignedParts(gaps, olds, n), NEW d, Describes(d, gaps, olds, news, n),
         NEW k \in 1..n, d[k].old_lines # <<>>
  PROVE  Stands(Joined(gaps, olds, n), d[k])
<1>1. k \in 0..n /\ k > 0
  OBVIOUS
<1>2. LinesCut(d, gaps, olds, news, k, n)
  BY <1>1, LinesAreCut
<1>3. FirstLine(d[k]) = d[k].old_start
  BY DEF FirstLine
<1>. QED  BY <1>1, <1>2, <1>3 DEF LinesCut, Stands, LastLine

\* A diff whose hunks all show old lines fits the file it describes, and makes
\* the other one of it.
LEMMA DiffApplies ==
  ASSUME NEW S, NEW n \in Nat, NEW gaps \in [0..n -> Seq(S)],
         NEW olds \in [1..n -> Seq(S)], NEW news \in [1..n -> Seq(S)],
         AlignedParts(gaps, olds, n), NEW d, Describes(d, gaps, olds, news, n),
         \A k \in 1..n : d[k].old_lines # <<>>
  PROVE  /\ Fits(Joined(gaps, olds, n), d)
         /\ Patched(Joined(gaps, olds, n), d) = Joined(gaps, news, n)
<1> DEFINE x == Joined(gaps, olds, n)
           lines == DiffLines(x)
           lg == LinesOfEach(gaps)
           ln == LinesOfEach(news)
           from(k) == IF k = 0 THEN 1 ELSE LastLine(d[k]) + 1
<1>1. DOMAIN d = 1..n
  BY DEF Describes
<1>2. ASSUME NEW k \in 0..n PROVE LinesCut(d, gaps, olds, news, k, n)
  BY LinesAreCut
<1>a. ASSUME NEW k \in 1..n
      PROVE  /\ FirstLine(d[k]) = d[k].old_start
             /\ LastLine(d[k]) = d[k].old_start + Len(d[k].old_lines) - 1
             /\ Stands(x, d[k])
  <2>1. FirstLine(d[k]) = d[k].old_start
    BY DEF FirstLine
  <2>2. Stands(x, d[k])
    BY HunkStands
  <2>. QED  BY <2>1, <2>2 DEF LastLine
<1>b. ASSUME NEW k \in 0..n PROVE from(k) = TakenUpTo(d, k)
  <2>1. CASE k = 0
    BY <2>1 DEF TakenUpTo
  <2>2. CASE k # 0
    <3>1. k \in 1..n
      BY <2>2
    <3>2. HunkAt(d, gaps, olds, news, k)
      BY <3>1, HunkLines
    <3> DEFINE a == d[k].old_start
               b == Len(d[k].old_lines)
    <3>3. a \in Nat /\ b \in Nat
      <4> DEFINE T == Seq(S)
                 lo == LinesOfEach(olds)
                 P == Joined(lg, lo, k - 1)
      <4>a. lg \in [0..n -> Seq(T)] /\ lo \in [1..n -> Seq(T)]
        BY LinesOfEachType
      <4>b. k - 1 \in 0..n
        BY <3>1
      <4>1. lg \in [0..n -> Seq(T)] /\ lo \in [1..n -> Seq(T)] /\ k - 1 \in 0..n
        BY <4>a, <4>b
      <4>2. a = 1 + Len(P) /\ b = Len(lo[k])
        BY <3>2 DEF HunkAt
      <4> HIDE DEF T, lg, lo, a, b
      <4>3. Len(P) \in Nat
        BY <4>1, JoinedType
      <4>4. Len(lo[k]) \in Nat
        BY <3>1, <4>1, LenProperties
      <4> QED
        BY <4>2, <4>3, <4>4
    <3>4. from(k) = (a + b - 1) + 1 /\ TakenUpTo(d, k) = a + b
      BY <2>2, <3>1, <1>a DEF TakenUpTo
    <3> HIDE DEF a, b, from
    <3> QED
      BY <3>3, <3>4
  <2> QED
    BY <2>1, <2>2
<1> HIDE DEF x
<1>3. Fits(x, d)
  <2>1. ASSUME NEW k \in 1..n, k > 1
        PROVE  LastLine(d[k - 1]) < FirstLine(d[k])
    <3>1. k - 1 \in 0..n /\ k - 1 > 0 /\ k - 1 < n /\ (k - 1) + 1 = k /\ k - 1 \in 1..n
      BY <2>1
    <3>2. LinesCut(d, gaps, olds, news, k - 1, n)
      BY <1>2, <3>1
    <3>3. d[k - 1].old_start + Len(d[k - 1].old_lines) - 1 < d[k].old_start
      BY <3>1, <3>2 DEF LinesCut
    <3>4. /\ LastLine(d[k - 1]) = d[k - 1].old_start + Len(d[k - 1].old_lines) - 1
          /\ FirstLine(d[k]) = d[k].old_start
      BY <1>a, <3>1
    <3> QED
      BY <3>3, <3>4
  <2> QED
    BY <1>1, <1>a, <2>1 DEF Fits
<1>4. ASSUME NEW k \in 1..n
      PROVE  SubSeq(lines, from(k - 1), FirstLine(d[k]) - 1) \o d[k].new_lines = lg[k - 1] \o ln[k]
  <2>1. k - 1 \in 0..n /\ k - 1 # n /\ (k - 1) + 1 = k /\ k \in 0..n /\ k > 0
    OBVIOUS
  <2>2. LinesCut(d, gaps, olds, news, k - 1, n) /\ LinesCut(d, gaps, olds, news, k, n)
    BY <1>2, <2>1
  <2>3. SubSeq(lines, TakenUpTo(d, k - 1), d[k].old_start - 1) = lg[k - 1]
    BY <2>1, <2>2 DEF LinesCut, NextTaken, x
  <2>4. from(k - 1) = TakenUpTo(d, k - 1) /\ FirstLine(d[k]) = d[k].old_start
    BY <1>a, <1>b, <2>1
  <2>5. d[k].new_lines = ln[k]
    BY <2>1, <2>2 DEF LinesCut
  <2> HIDE DEF from, lines
  <2> QED
    BY <2>3, <2>4, <2>5
<1>5. SubSeq(lines, from(Len(d)), Len(lines)) = lg[n]
  <2>1. Len(d) = n
    BY <1>1
  <2>2. n \in 0..n
    OBVIOUS
  <2>3. LinesCut(d, gaps, olds, news, n, n)
    BY <1>2, <2>2
  <2>4. from(n) = TakenUpTo(d, n)
    BY <1>b, <2>2
  <2>5. SubSeq(lines, TakenUpTo(d, n), Len(lines)) = lg[n]
    BY <2>3 DEF LinesCut, NextTaken, x
  <2> HIDE DEF from, lines
  <2> QED
    BY <2>1, <2>4, <2>5
<1> DEFINE patches == [k \in DOMAIN d |->
                         SubSeq(lines, from(k - 1), FirstLine(d[k]) - 1) \o d[k].new_lines]
           pieces == [k \in 1..n |-> lg[k - 1] \o ln[k]]
<1>6. patches = pieces
  BY <1>1, <1>4
<1>7. Patched(x, d)
        = FlattenSeq(FlattenSeq(patches) \o SubSeq(lines, from(Len(d)), Len(lines)))
  BY DEF Patched
<1>8. Joined(lg, ln, n) = FlattenSeq(pieces) \o lg[n]
  BY DEF Joined
<1>9. FlattenSeq(Joined(lg, ln, n)) = Joined(gaps, news, n)
  BY JoinedFlattens
<1>10. Patched(x, d) = Joined(gaps, news, n)
  <2> HIDE DEF patches, pieces, lines, from, lg, ln
  <2> QED
    BY <1>5, <1>6, <1>7, <1>8, <1>9
<1> QED
  BY <1>3, <1>10 DEF x

-------------------------------------------------------------------------------
(***************************************************************************)
(* Slices.                                                                 *)
(***************************************************************************)
LEMMA SliceType ==
  ASSUME NEW S, NEW s \in Seq(S), NEW a \in Nat, NEW b \in 0..Len(s)
  PROVE  Slice(s, a, b) \in Seq(S)
BY DEF Slice

\* A slice is what its two parts make.
Parted(s, a, b, c) == Slice(s, a, b) \o Slice(s, b, c) = Slice(s, a, c)

LEMMA SliceConcat ==
  ASSUME NEW S, NEW s \in Seq(S), NEW a \in Nat, NEW b \in Nat, NEW c \in Nat,
         a <= b, b <= c, c <= Len(s)
  PROVE  Parted(s, a, b, c)
BY DEF Parted, Slice

-------------------------------------------------------------------------------
(***************************************************************************)
(* The regions of a manifest, and the groups they make.                    *)
(***************************************************************************)
Ranges == [start : Nat, end : Nat]

LEMMA SourceType ==
  ASSUME NEW m \in Sources
  PROVE  /\ m.source \in Seq(Range(m.source)) /\ Len(m.source) \in Nat
         /\ m.regions \in Seq(Ranges) /\ Len(m.regions) \in Nat
         /\ DOMAIN m.regions = 1..Len(m.regions)
         /\ \A i \in 1..Len(m.regions) :
              /\ m.regions[i] \in Ranges
              /\ m.regions[i].start < m.regions[i].end
              /\ m.regions[i].end <= Len(m.source)
              /\ i > 1 => m.regions[i - 1].end <= m.regions[i].start
  <1>1. /\ m.source \in Seq(Range(m.source)) /\ m.regions \in Seq(Ranges)
        /\ ValidManifest(m)
    BY SourcesAssumption DEF Ranges
  <1>2. /\ Len(m.source) \in Nat /\ Len(m.regions) \in Nat
        /\ DOMAIN m.regions = 1..Len(m.regions)
        /\ \A i \in 1..Len(m.regions) : m.regions[i] \in Ranges
    BY <1>1
  <1>3. ASSUME NEW i \in 1..Len(m.regions)
        PROVE  /\ m.regions[i].start < m.regions[i].end
               /\ m.regions[i].end <= Len(m.source)
               /\ i > 1 => m.regions[i - 1].end <= m.regions[i].start
    <2>1. /\ m.regions[i].start <= m.regions[i].end
          /\ m.regions[i].start # m.regions[i].end
          /\ m.regions[i].end <= Len(m.source)
          /\ i > 1 => m.regions[i - 1].end <= m.regions[i].start
      BY <1>1, <1>2 DEF ValidManifest, Ordered
    <2>2. m.regions[i].start \in Nat /\ m.regions[i].end \in Nat
      BY <1>2 DEF Ranges
    <2>. QED  BY <2>1, <2>2
  <1>. QED  BY <1>1, <1>2, <1>3

\* Which group each of the first i regions belongs to: the one of the region
\* before it if they touch, otherwise the next one.
Assigns(m, i, gs, g) ==
  /\ g \in [1..i -> DOMAIN gs] /\ g[1] = 1 /\ g[i] = Len(gs)
  /\ \A j \in 1..(i - 1) :
       \/ g[j + 1] = g[j] /\ m.regions[j].end = m.regions[j + 1].start
       \/ /\ g[j + 1] = g[j] + 1
          /\ gs[g[j]].end = m.regions[j].end
          /\ gs[g[j + 1]].start = m.regions[j + 1].start

\* Whether a group starts and ends where regions do.
OnRegions(m, g) == /\ \E r \in Range(m.regions) : g.start = r.start
                   /\ \E r \in Range(m.regions) : g.end = r.end

\* What the first i regions are grouped to.
GroupsInv(m, i, gs) ==
  /\ gs \in Seq(Ranges) /\ Len(gs) > 0
  /\ gs[1].start = m.regions[1].start /\ gs[Len(gs)].end = m.regions[i].end
  /\ gs[Len(gs)].start <= m.regions[i].start
  /\ \A k \in 1..Len(gs) : gs[k].start < gs[k].end
  /\ \A k, l \in 1..Len(gs) : k < l => gs[k].end < gs[l].start
  /\ \A k \in 1..Len(gs) : OnRegions(m, gs[k])
  /\ \E g : Assigns(m, i, gs, g)

LEMMA GroupedType ==
  ASSUME NEW gs \in Seq(Ranges), NEW r \in Ranges
  PROVE  Grouped(gs, r) \in Seq(Ranges)
  <1>1. CASE gs # <<>> /\ Last(gs).end = r.start
    <2>1. Len(gs) \in 1..Len(gs)
      BY <1>1
    <2>2. [gs[Len(gs)] EXCEPT !.end = r.end] \in Ranges
      <3>1. gs[Len(gs)] \in Ranges
        BY <2>1
      <3>. QED  BY <3>1 DEF Ranges
    <2>3. [gs EXCEPT ![Len(gs)].end = r.end] \in Seq(Ranges)
      BY <2>1, <2>2
    <2>. QED  BY <1>1, <2>3 DEF Grouped
  <1>2. CASE ~(gs # <<>> /\ Last(gs).end = r.start)
    <2>1. [start |-> r.start, end |-> r.end] \in Ranges
      BY DEF Ranges
    <2>. QED  BY <1>2, <2>1 DEF Grouped
  <1>. QED  BY <1>1, <1>2

LEMMA FirstGroup ==
  ASSUME NEW m \in Sources, Len(m.regions) > 0
  PROVE  GroupsInv(m, 1, Grouped(<<>>, m.regions[1]))
  <1>. DEFINE r == m.regions[1]
              gs == <<[start |-> r.start, end |-> r.end]>>
              g == [j \in 1..1 |-> 1]
  <1>1. r \in Ranges /\ r.start < r.end
    BY SourceType
  <1>2. Grouped(<<>>, r) = gs
    BY DEF Grouped
  <1>3. [start |-> r.start, end |-> r.end] \in Ranges
    BY <1>1 DEF Ranges
  <1>4. gs \in Seq(Ranges) /\ Len(gs) = 1 /\ DOMAIN gs = {1} /\ gs[1].start = r.start /\ gs[1].end = r.end
    BY <1>3
  <1>. HIDE DEF gs
  <1>5. Assigns(m, 1, gs, g)
    BY <1>4 DEF Assigns
  <1>6. GroupsInv(m, 1, gs)
    <2>. HIDE DEF r, g
    <2>1. r.start <= r.start /\ r.start \in Nat
      BY <1>1 DEF Ranges
    <2>2. r \in Range(m.regions)
      BY SourceType DEF Range, r
    <2>3. OnRegions(m, gs[1])
      BY <1>4, <2>2 DEF OnRegions
    <2>. QED  BY <1>1, <1>4, <1>5, <2>1, <2>3 DEF GroupsInv, r
  <1>. QED  BY <1>2, <1>6

LEMMA NextGroup ==
  ASSUME NEW m \in Sources, NEW i \in 1..(Len(m.regions) - 1), NEW gs, GroupsInv(m, i, gs)
  PROVE  GroupsInv(m, i + 1, Grouped(gs, m.regions[i + 1]))
  <1>. DEFINE r == m.regions[i + 1]
              hs == Grouped(gs, r)
              len == Len(gs)
  <1>0. PICK g : Assigns(m, i, gs, g)
    BY DEF GroupsInv
  <1>1. /\ r \in Ranges /\ r.start \in Nat /\ r.end \in Nat /\ r.start < r.end
        /\ m.regions[i].end <= r.start /\ m.regions[i].end \in Nat
        /\ m.regions[i].start \in Nat /\ m.regions[i].start < m.regions[i].end
    <2>1. Len(m.regions) \in Nat /\ i \in 1..Len(m.regions) /\ i + 1 \in 1..Len(m.regions)
          /\ (i + 1) - 1 = i /\ i + 1 > 1
      BY SourceType
    <2>. QED  BY <2>1, SourceType DEF Ranges
  <1>2. /\ gs \in Seq(Ranges) /\ len \in Nat /\ len > 0 /\ len \in 1..len /\ gs # <<>>
        /\ DOMAIN gs = 1..len
        /\ gs[1].start = m.regions[1].start /\ gs[len].end = m.regions[i].end
        /\ gs[len].start <= m.regions[i].start
        /\ \A k \in 1..len : gs[k].start \in Nat /\ gs[k].end \in Nat /\ gs[k].start < gs[k].end
        /\ \A k, l \in 1..len : k < l => gs[k].end < gs[l].start
    <2>1. gs \in Seq(Ranges) /\ len > 0
      BY DEF GroupsInv
    <2>2. len \in Nat /\ len \in 1..len /\ gs # <<>> /\ DOMAIN gs = 1..len
      BY <2>1
    <2>3. \A k \in 1..len : gs[k] \in Ranges
      BY <2>1
    <2>4. \A k \in 1..len : gs[k].start \in Nat /\ gs[k].end \in Nat
      BY <2>3 DEF Ranges
    <2>. QED  BY <2>1, <2>2, <2>4 DEF GroupsInv
  <1>3. hs \in Seq(Ranges)
    BY <1>1, <1>2, GroupedType
  <1>7. r \in Range(m.regions) /\ \A k \in 1..len : OnRegions(m, gs[k])
    <2>1. i + 1 \in DOMAIN m.regions
      BY SourceType
    <2>2. r \in Range(m.regions)
      BY <2>1 DEF Range
    <2>. QED  BY <2>2 DEF GroupsInv
  <1>4. /\ g \in [1..i -> 1..len] /\ g[1] = 1 /\ g[i] = len
        /\ \A j \in 1..(i - 1) :
             \/ g[j + 1] = g[j] /\ m.regions[j].end = m.regions[j + 1].start
             \/ /\ g[j + 1] = g[j] + 1
                /\ gs[g[j]].end = m.regions[j].end
                /\ gs[g[j + 1]].start = m.regions[j + 1].start
    BY <1>0, <1>2 DEF Assigns
  <1>. HIDE DEF r, hs, len
  <1>5. CASE gs[len].end = r.start
    <2>1. hs = [gs EXCEPT ![len].end = r.end]
      BY <1>2, <1>5 DEF Grouped, Last, hs, len
    <2>2. /\ Len(hs) = len /\ DOMAIN hs = 1..len
          /\ \A k \in 1..len : hs[k].start = gs[k].start
          /\ \A k \in 1..len : k # len => hs[k].end = gs[k].end
          /\ hs[len].end = r.end
      <3>1. DOMAIN hs = 1..len /\ \A k \in 1..len : k # len => hs[k] = gs[k]
        BY <1>2, <2>1
      <3>2. hs[len] = [gs[len] EXCEPT !.end = r.end] /\ gs[len] \in Ranges
        BY <1>2, <2>1
      <3>3. hs[len].start = gs[len].start /\ hs[len].end = r.end
        BY <3>2 DEF Ranges
      <3>4. Len(hs) = len
        <4>1. Len(hs) \in Nat /\ 1..Len(hs) = 1..len
          BY <1>3, <3>1
        <4>2. len \in 1..Len(hs)
          BY <1>2, <4>1
        <4>3. Len(hs) \in 1..len
          BY <4>1, <4>2
        <4>. QED  BY <1>2, <4>1, <4>2, <4>3
      <3>. QED  BY <3>1, <3>3, <3>4
    <2>. DEFINE h == [j \in 1..(i + 1) |-> IF j = i + 1 THEN len ELSE g[j]]
    <2>3. Assigns(m, i + 1, hs, h)
      <3>1. h \in [1..(i + 1) -> DOMAIN hs] /\ h[1] = 1 /\ h[i + 1] = Len(hs)
        BY <1>2, <1>4, <2>2
      <3>2. ASSUME NEW j \in 1..i
            PROVE  \/ h[j + 1] = h[j] /\ m.regions[j].end = m.regions[j + 1].start
                   \/ /\ h[j + 1] = h[j] + 1
                      /\ hs[h[j]].end = m.regions[j].end
                      /\ hs[h[j + 1]].start = m.regions[j + 1].start
        <4>1. CASE j = i
          BY <4>1, <1>2, <1>4, <1>5 DEF r
        <4>2. CASE j # i
          <5>1. j \in 1..(i - 1) /\ h[j] = g[j] /\ h[j + 1] = g[j + 1]
                /\ g[j] \in 1..len /\ g[j + 1] \in 1..len
            BY <4>2, <1>4
          <5>2. CASE g[j + 1] = g[j]
            BY <5>1, <5>2, <1>4
          <5>3. CASE g[j + 1] # g[j]
            <6>1. g[j + 1] = g[j] + 1 /\ gs[g[j]].end = m.regions[j].end
                  /\ gs[g[j + 1]].start = m.regions[j + 1].start
              BY <5>1, <5>3, <1>4
            <6>2. g[j] # len
              BY <5>1, <6>1
            <6>. QED  BY <5>1, <6>1, <6>2, <2>2
          <5>. QED  BY <5>2, <5>3
        <4>. QED  BY <4>1, <4>2
      <3>3. (i + 1) - 1 = i
        OBVIOUS
      <3>. HIDE DEF h
      <3>. QED  BY <3>1, <3>2, <3>3 DEF Assigns
    <2>. HIDE DEF h
    <2>4. \A k \in 1..len : hs[k].start < hs[k].end
      BY <1>1, <1>2, <1>5, <2>2
    <2>5. \A k, l \in 1..len : k < l => hs[k].end < hs[l].start
      BY <1>2, <2>2
    <2>6. hs[len].start <= r.start
      BY <1>1, <1>2, <2>2
    <2>7. hs[1].start = m.regions[1].start
      BY <1>2, <2>2
    <2>9. ASSUME NEW k \in 1..len PROVE OnRegions(m, hs[k])
      <3>1. OnRegions(m, gs[k]) /\ hs[k].start = gs[k].start
        BY <1>7, <2>2
      <3>2. k # len => hs[k].end = gs[k].end
        BY <2>2
      <3>3. hs[len].end = r.end
        BY <2>2
      <3>. QED  BY <1>7, <3>1, <3>2, <3>3 DEF OnRegions
    <2>8. GroupsInv(m, i + 1, hs)
      BY <1>2, <1>3, <2>2, <2>3, <2>4, <2>5, <2>6, <2>7, <2>9 DEF GroupsInv, r
    <2>. QED  BY <2>8 DEF hs, r
  <1>6. CASE gs[len].end # r.start
    <2>. DEFINE new == [start |-> r.start, end |-> r.end]
    <2>1. hs = Append(gs, new) /\ new \in Ranges
      BY <1>1, <1>2, <1>6 DEF Grouped, Last, Ranges, hs, len
    <2>2. /\ Len(hs) = len + 1 /\ DOMAIN hs = 1..(len + 1)
          /\ \A k \in 1..len : hs[k] = gs[k]
          /\ hs[len + 1].start = r.start /\ hs[len + 1].end = r.end
      BY <1>2, <2>1
    <2>. DEFINE h == [j \in 1..(i + 1) |-> IF j = i + 1 THEN len + 1 ELSE g[j]]
    <2>3. Assigns(m, i + 1, hs, h)
      <3>1. h \in [1..(i + 1) -> DOMAIN hs] /\ h[1] = 1 /\ h[i + 1] = Len(hs)
        BY <1>2, <1>4, <2>2
      <3>2. ASSUME NEW j \in 1..i
            PROVE  \/ h[j + 1] = h[j] /\ m.regions[j].end = m.regions[j + 1].start
                   \/ /\ h[j + 1] = h[j] + 1
                      /\ hs[h[j]].end = m.regions[j].end
                      /\ hs[h[j + 1]].start = m.regions[j + 1].start
        <4>1. CASE j = i
          BY <4>1, <1>2, <1>4, <2>2 DEF r
        <4>2. CASE j # i
          <5>1. j \in 1..(i - 1) /\ h[j] = g[j] /\ h[j + 1] = g[j + 1]
                /\ g[j] \in 1..len /\ g[j + 1] \in 1..len
            BY <4>2, <1>4
          <5>2. hs[h[j]] = gs[g[j]] /\ hs[h[j + 1]] = gs[g[j + 1]]
            BY <5>1, <2>2
          <5>. QED  BY <5>1, <5>2, <1>4
        <4>. QED  BY <4>1, <4>2
      <3>3. (i + 1) - 1 = i
        OBVIOUS
      <3>. HIDE DEF h
      <3>. QED  BY <3>1, <3>2, <3>3 DEF Assigns
    <2>. HIDE DEF h
    <2>4. \A k \in 1..(len + 1) : k # len + 1 => k \in 1..len
      BY <1>2
    <2>5. \A k \in 1..(len + 1) : hs[k].start < hs[k].end
      BY <1>1, <1>2, <2>2, <2>4
    <2>6. gs[len].end < r.start
      BY <1>1, <1>2, <1>6
    <2>7. \A k \in 1..len : gs[k].end < r.start
      BY <1>1, <1>2, <2>6
    <2>8. \A k, l \in 1..(len + 1) : k < l => hs[k].end < hs[l].start
      BY <1>2, <2>2, <2>4, <2>7
    <2>9. hs[len + 1].start <= r.start
      BY <1>1, <2>2
    <2>10. hs[1].start = m.regions[1].start
      BY <1>2, <2>2
    <2>11. ASSUME NEW k \in 1..(len + 1) PROVE OnRegions(m, hs[k])
      <3>1. OnRegions(m, hs[len + 1])
        BY <1>7, <2>2 DEF OnRegions
      <3>2. k # len + 1 => OnRegions(m, hs[k])
        BY <1>7, <2>2, <2>4
      <3>. QED  BY <3>1, <3>2
    <2>12. GroupsInv(m, i + 1, hs)
      BY <1>2, <1>3, <2>2, <2>3, <2>5, <2>8, <2>9, <2>10, <2>11 DEF GroupsInv, r
    <2>. QED  BY <2>12 DEF hs, r
  <1>. QED  BY <1>5, <1>6

\* Grouping all regions.
LEMMA GroupsAre ==
  ASSUME NEW m \in Sources, Len(m.regions) > 0
  PROVE  GroupsInv(m, Len(m.regions), Groups(m))
  <1>. DEFINE n == Len(m.regions)
              T == Seq(Ranges)
              step == [i \in 1..n |-> [gs \in T |-> Grouped(gs, m.regions[i])]]
              from(f) == [i \in 0..n |-> IF i = 0 THEN <<>> ELSE Grouped(f[i - 1], m.regions[i])]
              c == CHOOSE f : f = from(f)
              A == {i \in 0..n : i > 0 => GroupsInv(m, i, c[i])}
  <1>1. n \in Nat /\ n > 0 /\ \A i \in 1..n : m.regions[i] \in Ranges
    BY SourceType
  <1>2. \A i \in 1..n : \A gs \in T : Grouped(gs, m.regions[i]) \in T
    BY <1>1, GroupedType
  <1>3. step \in [1..n -> [T -> T]] /\ <<>> \in T
    BY <1>2
  <1>4. PICK g : Iterates(g, n, T, <<>>, step)
    <2>. HIDE DEF step, T, n
    <2>. QED  BY <1>1, <1>3, Recursion
  <1>5. g = from(g)
    <2>1. g \in [0..n -> T] /\ g[0] = <<>> /\ \A i \in 1..n : g[i] = step[i][g[i - 1]]
      <3>. HIDE DEF step, T, n
      <3>. QED  BY <1>4 DEF Iterates
    <2>2. ASSUME NEW i \in 0..n
          PROVE  g[i] = IF i = 0 THEN <<>> ELSE Grouped(g[i - 1], m.regions[i])
      <3>1. CASE i = 0
        BY <3>1, <2>1
      <3>2. CASE i # 0
        <4>1. i \in 1..n /\ i - 1 \in 0..n
          BY <3>2, <1>1
        <4>2. g[i] = step[i][g[i - 1]] /\ g[i - 1] \in T
          <5>. HIDE DEF step, T
          <5>. QED  BY <2>1, <4>1
        <4>. QED  BY <3>2, <4>1, <4>2
      <3>. QED  BY <3>1, <3>2
    <2>3. g = [i \in 0..n |-> g[i]]
      BY <2>1
    <2>4. [i \in 0..n |-> g[i]] = from(g)
      BY <2>2
    <2>. QED  BY <2>3, <2>4
  <1>6. c = from(c)
    BY <1>5
  <1>7. Groups(m) = c[n]
    BY DEF Groups
  <1>. HIDE DEF c
  <1>8. \A i \in 0..n : c[i] = IF i = 0 THEN <<>> ELSE Grouped(c[i - 1], m.regions[i])
    BY <1>6
  <1>9. ASSUME NEW i \in 0..(n - 1), i \in A
        PROVE  i + 1 \in A
    <2>1. i + 1 \in 0..n /\ i \in 0..n /\ i + 1 # 0 /\ (i + 1) - 1 = i
      BY <1>1
    <2>2. c[i + 1] = Grouped(c[i], m.regions[i + 1])
      BY <1>8, <2>1
    <2>3. CASE i = 0
      <3>1. c[0] = <<>>
        BY <1>8, <1>1
      <3>. QED  BY <1>1, <2>1, <2>2, <2>3, <3>1, FirstGroup
    <2>4. CASE i # 0
      <3>1. i \in 1..(n - 1) /\ GroupsInv(m, i, c[i])
        BY <1>9, <2>4
      <3>2. GroupsInv(m, i + 1, Grouped(c[i], m.regions[i + 1]))
        BY <3>1, NextGroup
      <3>. QED  BY <2>1, <2>2, <3>2
    <2>. QED  BY <2>3, <2>4
  <1>10. 0 \in A
    BY <1>1
  <1>11. 0..n \subseteq A
    <2>1. \A i \in 0..(n - 1) : i \in A => i + 1 \in A
      BY <1>9
    <2>. HIDE DEF A, n
    <2>. QED  BY <1>1, <1>10, <2>1, Induction
  <1>. QED  BY <1>1, <1>7, <1>11

LEMMA GroupsBounds ==
  ASSUME NEW m \in Sources, NEW gs, Len(m.regions) > 0, GroupsInv(m, Len(m.regions), gs)
  PROVE  /\ gs \in Seq(Ranges) /\ Len(gs) \in Nat /\ Len(gs) > 0 /\ DOMAIN gs = 1..Len(gs)
         /\ \A k \in 1..Len(gs) :
              /\ gs[k].start \in Nat /\ gs[k].end \in Nat
              /\ gs[k].start < gs[k].end /\ gs[k].end <= Len(m.source)
         /\ \A k, l \in 1..Len(gs) : k < l => gs[k].end < gs[l].start
  <1>1. /\ gs \in Seq(Ranges) /\ Len(gs) > 0
        /\ gs[Len(gs)].end = m.regions[Len(m.regions)].end
        /\ \A k \in 1..Len(gs) : gs[k].start < gs[k].end
        /\ \A k, l \in 1..Len(gs) : k < l => gs[k].end < gs[l].start
    BY DEF GroupsInv
  <1>2. Len(gs) \in Nat /\ DOMAIN gs = 1..Len(gs)
    BY <1>1
  <1>3. \A k \in 1..Len(gs) : gs[k] \in Ranges
    BY <1>1
  <1>4. \A k \in 1..Len(gs) : gs[k].start \in Nat /\ gs[k].end \in Nat
    BY <1>3 DEF Ranges
  <1>5. gs[Len(gs)].end <= Len(m.source) /\ Len(m.source) \in Nat
    BY <1>1, SourceType
  <1>6. ASSUME NEW k \in 1..Len(gs)
        PROVE  gs[k].end <= Len(m.source)
    <2>1. CASE k = Len(gs)
      BY <2>1, <1>5
    <2>2. CASE k # Len(gs)
      <3>1. Len(gs) \in 1..Len(gs) /\ k < Len(gs)
        <4>. DEFINE len == Len(gs)
        <4>1. len \in Nat /\ k \in 1..len /\ k # len
          BY <1>2, <2>2
        <4>. HIDE DEF len
        <4>2. len \in 1..len /\ k < len
          BY <4>1
        <4>. QED  BY <4>2 DEF len
      <3>2. gs[k].end < gs[Len(gs)].start /\ gs[Len(gs)].start < gs[Len(gs)].end
        BY <1>1, <3>1
      <3>. QED  BY <1>4, <1>5, <3>1, <3>2
    <2>. QED  BY <2>1, <2>2
  <1>. QED  BY <1>1, <1>2, <1>4, <1>6

LEMMA SeparatorType ==
  ASSUME NEW m \in Sources, NEW gs, Len(m.regions) > 0, GroupsInv(m, Len(m.regions), gs),
         NEW k \in 1..(Len(gs) - 1)
  PROVE  Len(Separator(m, gs, k)) \in Nat
  <1>1. Len(gs) \in Nat /\ k \in 1..Len(gs) /\ k + 1 \in 1..Len(gs)
    BY GroupsBounds
  <1>2. gs[k].end \in Nat /\ gs[k + 1].start \in 0..Len(m.source)
    <2>1. /\ gs[k + 1].start \in Nat /\ gs[k + 1].end \in Nat /\ gs[k].end \in Nat
          /\ gs[k + 1].start < gs[k + 1].end /\ gs[k + 1].end <= Len(m.source)
      BY <1>1, GroupsBounds
    <2>. QED  BY <2>1, SourceType
  <1>3. Separator(m, gs, k) \in Seq(Range(m.source))
    BY <1>2, SourceType, SliceType DEF Separator
  <1>. QED  BY <1>3

-------------------------------------------------------------------------------
(***************************************************************************)
(* The places of the groups in the resolved file.                          *)
(***************************************************************************)
SuffixStart(m, s) == Len(s) - Len(Suffix(m))

\* Places for the last group and the i before it, the first one at `from`.
Placed(m, gs, s, i, from, f) ==
  /\ f \in Seq(Ranges) /\ Len(f) = i + 1
  /\ f[1].start = from /\ f[i + 1].end = SuffixStart(m, s)
  /\ \A j \in 1..(i + 1) : from <= f[j].start
  /\ \A j \in 1..i :
       LET sep == Separator(m, gs, Len(gs) - i + j - 1) IN
       /\ f[j].start <= f[j].end /\ f[j].end <= SuffixStart(m, s)
       /\ f[j + 1].start = f[j].end + Len(sep)
       /\ Slice(s, f[j].end, f[j + 1].start) = sep

LEMMA PrefixSuffixType ==
  ASSUME NEW m \in Sources, NEW S, NEW s \in Seq(S), Len(m.regions) > 0
  PROVE  Len(Prefix(m)) \in Nat /\ Len(Suffix(m)) \in Nat /\ Len(s) \in Nat
  <1>. DEFINE n == Len(m.regions)
  <1>1. /\ m.source \in Seq(Range(m.source)) /\ Len(m.source) \in Nat
        /\ n \in 1..n /\ 1 \in 1..n /\ m.regions \in Seq(Ranges)
        /\ m.regions[n] \in Ranges /\ m.regions[1] \in Ranges
        /\ m.regions[1].start < m.regions[1].end /\ m.regions[1].end <= Len(m.source)
    BY SourceType
  <1>2. m.regions[n].end \in Nat /\ m.regions[1].start \in 0..Len(m.source)
    BY <1>1 DEF Ranges
  <1>3. Prefix(m) \in Seq(Range(m.source))
    BY <1>1, <1>2, SliceType DEF Prefix
  <1>4. Suffix(m) \in Seq(Range(m.source))
    <2>1. Len(m.source) \in 0..Len(m.source)
      BY <1>1
    <2>2. Slice(m.source, m.regions[n].end, Len(m.source)) \in Seq(Range(m.source))
      BY <1>1, <1>2, <2>1, SliceType
    <2>. QED  BY <2>2 DEF Suffix, Last
  <1>. QED  BY <1>3, <1>4

LEMMA SuffixStartType ==
  ASSUME NEW m \in Sources, NEW S, NEW s \in Seq(S), Len(m.regions) > 0,
         Len(Prefix(m)) + Len(Suffix(m)) <= Len(s)
  PROVE  /\ SuffixStart(m, s) \in 0..Len(s)
         /\ Len(Prefix(m)) \in 0..SuffixStart(m, s)
         /\ SuffixStart(m, s) \in Nat /\ Len(s) \in Nat
BY PrefixSuffixType DEF SuffixStart

\* The first place ends at c, where a separator stands, and the rest follows it.
Begins(s, sep, from, c, rest, f) ==
  /\ c + Len(sep) \in 0..Len(s)
  /\ Slice(s, c, c + Len(sep)) = sep
  /\ rest[c + Len(sep)] # <<>>
  /\ f = <<[start |-> from, end |-> c]>> \o rest[c + Len(sep)]

LEMMA PlaceType ==
  ASSUME NEW S, NEW s \in Seq(S), NEW sep, Len(sep) \in Nat,
         NEW from \in 0..Len(s), NEW to \in 0..Len(s),
         NEW rest \in [0..Len(s) -> Seq(Ranges)]
  PROVE  /\ Place(s, sep, from, to, rest) \in Seq(Ranges)
         /\ Place(s, sep, from, to, rest) # <<>> =>
              \E c \in from..to :
                Begins(s, sep, from, c, rest, Place(s, sep, from, to, rest))
  <1>. DEFINE fits == {c \in Candidates(s, sep, from, to) : rest[c + Len(sep)] # <<>>}
  <1>1. CASE fits = {}
    BY <1>1 DEF Place
  <1>2. CASE fits # {}
    <2>1. Len(s) \in Nat
      OBVIOUS
    <2>2. fits \in SUBSET Nat /\ \A c \in fits : c \in from..to /\ c \in Nat
                 /\ c + Len(sep) <= Len(s) /\ Slice(s, c, c + Len(sep)) = sep
                 /\ rest[c + Len(sep)] # <<>>
      BY <2>1 DEF Candidates
    <2>. DEFINE c == Min(fits)
    <2>3. c \in fits
      <3>. HIDE DEF fits
      <3>. QED  BY <1>2, <2>2, HasMin
    <2>4. Place(s, sep, from, to, rest) = <<[start |-> from, end |-> c]>> \o rest[c + Len(sep)]
      BY <1>2 DEF Place
    <2>. HIDE DEF c, fits
    <2>5. c \in Nat /\ c + Len(sep) \in 0..Len(s)
      BY <2>1, <2>2, <2>3
    <2>6. rest[c + Len(sep)] \in Seq(Ranges) /\ [start |-> from, end |-> c] \in Ranges
      BY <2>1, <2>5 DEF Ranges
    <2>7. <<[start |-> from, end |-> c]>> \in Seq(Ranges)
      BY <2>6
    <2>8. Place(s, sep, from, to, rest) \in Seq(Ranges)
      BY <2>4, <2>6, <2>7, ConcatProperties
    <2>9. Begins(s, sep, from, c, rest, Place(s, sep, from, to, rest))
      BY <2>2, <2>3, <2>4, <2>5 DEF Begins
    <2>. QED  BY <2>2, <2>3, <2>8, <2>9
  <1>. QED  BY <1>1, <1>2

\* From places for the last i groups to places for one more.
LEMMA PlaceOneMore ==
  ASSUME NEW m \in Sources, NEW gs, Len(m.regions) > 0, GroupsInv(m, Len(m.regions), gs),
         NEW S, NEW s \in Seq(S), Len(Prefix(m)) + Len(Suffix(m)) <= Len(s),
         NEW i \in 1..(Len(gs) - 1), NEW from \in 0..Len(s),
         NEW rest \in [0..Len(s) -> Seq(Ranges)],
         \A c \in 0..Len(s) : rest[c] = <<>> \/ Placed(m, gs, s, i - 1, c, rest[c]),
         NEW f, f = Place(s, Separator(m, gs, Len(gs) - i), from, SuffixStart(m, s), rest),
         f # <<>>
  PROVE  Placed(m, gs, s, i, from, f)
  <1>. DEFINE sep == Separator(m, gs, Len(gs) - i)
              to == SuffixStart(m, s)
              sepAt(j) == Separator(m, gs, Len(gs) - i + j - 1)
  <1>1. Len(gs) \in Nat /\ i \in Nat /\ i > 0 /\ Len(gs) - i \in 1..(Len(gs) - 1)
    BY GroupsBounds
  <1>2. Len(sep) \in Nat
    BY <1>1, SeparatorType
  <1>3. to \in 0..Len(s) /\ to \in Nat /\ Len(s) \in Nat
    BY SuffixStartType
  <1>. HIDE DEF sep, to
  <1>4. f = Place(s, sep, from, to, rest)
    BY DEF sep, to
  <1>5. f \in Seq(Ranges)
    BY <1>2, <1>3, <1>4, PlaceType
  <1>6. PICK c \in from..to : Begins(s, sep, from, c, rest, f)
    <2>1. Place(s, sep, from, to, rest) # <<>> =>
            \E c \in from..to :
              Begins(s, sep, from, c, rest, Place(s, sep, from, to, rest))
      BY <1>2, <1>3, PlaceType
    <2>. QED  BY <1>4, <2>1
  <1>. DEFINE b == c + Len(sep)
              r == rest[b]
  <1>7. Placed(m, gs, s, i - 1, b, r)
    BY <1>6 DEF Begins
  <1>8. /\ r \in Seq(Ranges) /\ Len(r) = i
        /\ r[1].start = b /\ r[i].end = to
        /\ \A j \in 1..i : b <= r[j].start
        /\ \A j \in 1..(i - 1) :
             LET between == Separator(m, gs, Len(gs) - (i - 1) + j - 1) IN
             /\ r[j].start <= r[j].end /\ r[j].end <= to
             /\ r[j + 1].start = r[j].end + Len(between)
             /\ Slice(s, r[j].end, r[j + 1].start) = between
    <2>1. (i - 1) + 1 = i
      BY <1>1
    <2>. HIDE DEF b, r
    <2>. QED  BY <1>7, <2>1 DEF Placed, to
  <1>9. b \in Nat /\ c \in Nat /\ from \in Nat /\ from <= c /\ c <= to /\ c <= b
    BY <1>2, <1>3, <1>6 DEF Begins
  <1>. DEFINE first == [start |-> from, end |-> c]
  <1>10. f = <<first>> \o r /\ <<first>> \in Seq(Ranges) /\ Len(<<first>>) = 1
         /\ first.start = from /\ first.end = c
    BY <1>6, <1>9 DEF Begins, Ranges
  <1>11. /\ Len(f) = i + 1 /\ f[1] = first
         /\ \A j \in 1..i : f[j + 1] = r[j]
    <2>. HIDE DEF first, r
    <2>1. /\ Len(<<first>> \o r) = 1 + i
          /\ \A j \in 1..(1 + i) :
               (<<first>> \o r)[j] = IF j <= 1 THEN <<first>>[j] ELSE r[j - 1]
      BY <1>8, <1>10, ConcatProperties
    <2>2. f[1] = first
      BY <1>1, <1>10, <2>1
    <2>3. ASSUME NEW j \in 1..i PROVE f[j + 1] = r[j]
      <3>1. j + 1 \in 1..(1 + i) /\ ~(j + 1 <= 1) /\ (j + 1) - 1 = j
        BY <1>1
      <3>. QED  BY <1>10, <2>1, <3>1
    <2>. QED  BY <1>1, <1>10, <2>1, <2>2, <2>3
  <1>12. Slice(s, c, b) = sep /\ b = c + Len(sep)
    BY <1>6 DEF Begins
  <1>. HIDE DEF first, r, b
  <1>13. f[1].start = from /\ f[i + 1].end = to
    BY <1>1, <1>8, <1>10, <1>11
  <1>14. ASSUME NEW j \in 1..(i + 1) PROVE from <= f[j].start
    <2>1. CASE j = 1
      BY <2>1, <1>9, <1>13
    <2>2. CASE j # 1
      <3>1. j - 1 \in 1..i /\ (j - 1) + 1 = j
        BY <1>1, <2>2
      <3>2. f[j] = r[j - 1] /\ b <= r[j - 1].start
        BY <1>8, <1>11, <3>1
      <3>3. r[j - 1].start \in Nat
        <4>1. r[j - 1] \in Ranges
          BY <1>8, <3>1
        <4>. QED  BY <4>1 DEF Ranges
      <3>. QED  BY <1>9, <3>2, <3>3
    <2>. QED  BY <2>1, <2>2
  <1>15. ASSUME NEW j \in 1..i
         PROVE  /\ f[j].start <= f[j].end /\ f[j].end <= to
                /\ f[j + 1].start = f[j].end + Len(sepAt(j))
                /\ Slice(s, f[j].end, f[j + 1].start) = sepAt(j)
    <2>1. CASE j = 1
      <3>1. Len(gs) - i + j - 1 = Len(gs) - i
        BY <1>1, <2>1
      <3>2. sepAt(j) = sep
        BY <3>1 DEF sep
      <3>3. f[j] = first /\ f[j + 1] = r[1]
        BY <1>1, <1>11, <2>1
      <3>. HIDE DEF sepAt
      <3>. QED  BY <1>8, <1>9, <1>10, <1>12, <3>2, <3>3
    <2>2. CASE j # 1
      <3>1. j - 1 \in 1..(i - 1) /\ j - 1 \in 1..i /\ (j - 1) + 1 = j
        BY <1>1, <2>2
      <3>2. Len(gs) - (i - 1) + (j - 1) - 1 = Len(gs) - i + j - 1
        BY <1>1
      <3>3. f[j] = r[j - 1] /\ f[j + 1] = r[j]
        BY <1>11, <3>1
      <3>4. /\ r[j - 1].start <= r[j - 1].end /\ r[j - 1].end <= to
            /\ r[(j - 1) + 1].start = r[j - 1].end + Len(sepAt(j))
            /\ Slice(s, r[j - 1].end, r[(j - 1) + 1].start) = sepAt(j)
        BY <1>8, <3>1, <3>2
      <3>. HIDE DEF sepAt
      <3>. QED  BY <3>1, <3>3, <3>4
    <2>. QED  BY <2>1, <2>2
  <1>. QED  BY <1>5, <1>11, <1>13, <1>14, <1>15 DEF Placed, to

(***************************************************************************)
(* No other places put the last group earlier.                             *)
(***************************************************************************)
\* Places for the last group and the i before it, one behind the other.
Chained(m, gs, s, i, from, f) ==
  /\ f \in Seq(Ranges) /\ Len(f) = i + 1
  /\ f[1].start = from /\ f[i + 1].start <= Len(s)
  /\ \A j \in 1..i :
       LET sep == Separator(m, gs, Len(gs) - i + j - 1) IN
       /\ f[j].start <= f[j].end /\ f[j].end <= SuffixStart(m, s)
       /\ f[j + 1].start = f[j].end + Len(sep)
       /\ Slice(s, f[j].end, f[j + 1].start) = sep

\* Where there are places from b on, f has some, and the last starts as early.
Leftmost(m, gs, s, i, from, f) ==
  \A b \in from..Len(s) : \A h :
    Chained(m, gs, s, i, b, h) => f # <<>> /\ f[i + 1].start <= h[i + 1].start

\* A separator ends the first place, and the other places follow it.
Separated(m, gs, s, i, b, h) ==
  LET sep == Separator(m, gs, Len(gs) - i)
      e == h[1].end + Len(sep)
  IN /\ h[1].end \in b..SuffixStart(m, s) /\ h[1].end \in Nat
     /\ e \in 0..Len(s) /\ Slice(s, h[1].end, e) = sep
     /\ Chained(m, gs, s, i - 1, e, Tail(h))
     /\ Tail(h)[i].start = h[i + 1].start

LEMMA ChainedRest ==
  ASSUME NEW m \in Sources, NEW gs, Len(m.regions) > 0, GroupsInv(m, Len(m.regions), gs),
         NEW S, NEW s \in Seq(S), Len(Prefix(m)) + Len(Suffix(m)) <= Len(s),
         NEW i \in 1..(Len(gs) - 1), NEW b, NEW h, Chained(m, gs, s, i, b, h)
  PROVE  Separated(m, gs, s, i, b, h)
  <1>. DEFINE sep == Separator(m, gs, Len(gs) - i)
              to == SuffixStart(m, s)
              sepAt(j) == Separator(m, gs, Len(gs) - i + j - 1)
              t == Tail(h)
              e == h[1].end + Len(sep)
  <1>1. Len(gs) \in Nat /\ i \in Nat /\ i > 0 /\ Len(gs) - i \in 1..(Len(gs) - 1)
    BY GroupsBounds
  <1>2. Len(sep) \in Nat
    BY <1>1, SeparatorType
  <1>3. to \in 0..Len(s) /\ to \in Nat /\ Len(s) \in Nat
    BY SuffixStartType
  <1>4. /\ h \in Seq(Ranges) /\ Len(h) = i + 1
        /\ h[1].start = b /\ h[i + 1].start <= Len(s)
        /\ \A j \in 1..i : /\ h[j].start <= h[j].end /\ h[j].end <= to
                           /\ h[j + 1].start = h[j].end + Len(sepAt(j))
                           /\ Slice(s, h[j].end, h[j + 1].start) = sepAt(j)
    BY DEF Chained
  <1>5. \A j \in 1..(i + 1) : h[j].start \in Nat /\ h[j].end \in Nat
    <2>1. \A j \in 1..(i + 1) : h[j] \in Ranges
      BY <1>4
    <2>. QED  BY <2>1 DEF Ranges
  <1>6. sepAt(1) = sep
    <2>1. Len(gs) - i + 1 - 1 = Len(gs) - i
      BY <1>1
    <2>. QED  BY <2>1, Zenon
  <1>. HIDE DEF sep, to, sepAt
  <1>7. 1 \in 1..i /\ 1 \in 1..(i + 1) /\ 2 \in 1..(i + 1) /\ 1 + 1 = 2
    BY <1>1
  <1>8. /\ h[1].start <= h[1].end /\ h[1].end <= to
        /\ h[2].start = e /\ Slice(s, h[1].end, e) = sep
    BY <1>4, <1>6, <1>7
  <1>9. e \in 0..Len(s)
    <2>1. CASE i = 1
      BY <1>2, <1>3, <1>4, <1>5, <1>7, <1>8, <2>1
    <2>2. CASE i # 1
      <3>1. 2 \in 1..i
        BY <1>1, <2>2
      <3>2. h[2].start <= h[2].end /\ h[2].end <= to /\ h[2].start \in Nat /\ h[2].end \in Nat
        BY <1>4, <1>5, <1>7, <3>1
      <3>. QED  BY <1>3, <1>8, <3>2
    <2>. QED  BY <2>1, <2>2
  <1>10. /\ t \in Seq(Ranges) /\ Len(t) = i
         /\ \A j \in 1..i : t[j] = h[j + 1]
    BY <1>1, <1>4
  <1>. HIDE DEF t
  <1>11. ASSUME NEW j \in 1..(i - 1)
         PROVE  LET sp == Separator(m, gs, Len(gs) - (i - 1) + j - 1) IN
                /\ t[j].start <= t[j].end /\ t[j].end <= to
                /\ t[j + 1].start = t[j].end + Len(sp)
                /\ Slice(s, t[j].end, t[j + 1].start) = sp
    <2>1. j + 1 \in 1..i /\ j \in 1..i
      BY <1>1
    <2>2. Len(gs) - (i - 1) + j - 1 = Len(gs) - i + (j + 1) - 1
      BY <1>1
    <2>3. t[j] = h[j + 1] /\ t[j + 1] = h[(j + 1) + 1]
      BY <1>10, <2>1
    <2>4. /\ h[j + 1].start <= h[j + 1].end /\ h[j + 1].end <= to
          /\ h[(j + 1) + 1].start = h[j + 1].end + Len(sepAt(j + 1))
          /\ Slice(s, h[j + 1].end, h[(j + 1) + 1].start) = sepAt(j + 1)
      BY <1>4, <2>1
    <2>5. sepAt(j + 1) = Separator(m, gs, Len(gs) - (i - 1) + j - 1)
      BY <2>2, Zenon DEF sepAt
    <2>. QED  BY <2>3, <2>4, <2>5
  <1>12. t[1].start = e /\ t[i].start = h[i + 1].start /\ t[i].start <= Len(s)
    <2>1. i \in 1..i
      BY <1>1
    <2>. QED  BY <1>4, <1>7, <1>8, <1>10, <2>1
  <1>13. Chained(m, gs, s, i - 1, e, t)
    <2>1. (i - 1) + 1 = i
      BY <1>1
    <2>. HIDE DEF e
    <2>. QED  BY <1>10, <1>11, <1>12, <2>1 DEF Chained, to
  <1>14. h[1].end \in b..to /\ h[1].end \in Nat
    BY <1>3, <1>4, <1>5, <1>7, <1>8
  <1>. QED  BY <1>8, <1>9, <1>12, <1>13, <1>14 DEF Separated, sep, to, t

LEMMA PlaceLeftmost ==
  ASSUME NEW m \in Sources, NEW gs, Len(m.regions) > 0, GroupsInv(m, Len(m.regions), gs),
         NEW S, NEW s \in Seq(S), Len(Prefix(m)) + Len(Suffix(m)) <= Len(s),
         NEW i \in 1..(Len(gs) - 1), NEW from \in 0..Len(s),
         NEW rest \in [0..Len(s) -> Seq(Ranges)],
         \A c \in 0..Len(s) : rest[c] = <<>> \/ Placed(m, gs, s, i - 1, c, rest[c]),
         \A c \in 0..Len(s) : Leftmost(m, gs, s, i - 1, c, rest[c]),
         NEW f, f = Place(s, Separator(m, gs, Len(gs) - i), from, SuffixStart(m, s), rest)
  PROVE  Leftmost(m, gs, s, i, from, f)
  <1>. DEFINE sep == Separator(m, gs, Len(gs) - i)
              to == SuffixStart(m, s)
              fits == {c \in Candidates(s, sep, from, to) : rest[c + Len(sep)] # <<>>}
  <1>. SUFFICES ASSUME NEW b \in from..Len(s), NEW h, Chained(m, gs, s, i, b, h)
                PROVE  f # <<>> /\ f[i + 1].start <= h[i + 1].start
    BY DEF Leftmost
  <1>. DEFINE d == h[1].end
              e == d + Len(sep)
              t == Tail(h)
  <1>1. /\ d \in b..to /\ d \in Nat /\ e \in 0..Len(s) /\ Slice(s, d, e) = sep
        /\ Chained(m, gs, s, i - 1, e, t) /\ t[i].start = h[i + 1].start
    <2>1. Separated(m, gs, s, i, b, h)
      BY ChainedRest
    <2>. QED  BY <2>1 DEF Separated
  <1>2. Len(gs) \in Nat /\ i \in Nat /\ i > 0 /\ Len(gs) - i \in 1..(Len(gs) - 1)
    BY GroupsBounds
  <1>3. Len(sep) \in Nat
    BY <1>2, SeparatorType
  <1>4. to \in 0..Len(s) /\ to \in Nat /\ Len(s) \in Nat
    BY SuffixStartType
  <1>. HIDE DEF sep, to, d, t
  <1>5. ASSUME NEW c \in 0..e
        PROVE  rest[c] # <<>> /\ rest[c][i].start <= t[i].start
    <2>1. c \in 0..Len(s) /\ e \in c..Len(s)
      BY <1>1, <1>4
    <2>2. Leftmost(m, gs, s, i - 1, c, rest[c])
      BY <2>1
    <2>3. (i - 1) + 1 = i
      BY <1>2
    <2>. HIDE DEF e
    <2>. QED  BY <1>1, <2>1, <2>2, <2>3 DEF Leftmost
  <1>6. d \in fits
    <2>1. d \in from..to
      BY <1>1, <1>4
    <2>2. d \in Candidates(s, sep, from, to)
      BY <1>1, <1>4, <2>1 DEF Candidates
    <2>3. rest[d + Len(sep)] # <<>>
      BY <1>1, <1>5
    <2>. QED  BY <2>2, <2>3
  <1>7. fits \in SUBSET Nat /\ \A c \in fits : c \in from..to /\ c + Len(sep) \in 0..Len(s)
    BY <1>3, <1>4 DEF Candidates
  <1>. DEFINE c == Min(fits)
              r == rest[c + Len(sep)]
  <1>8. c \in fits /\ c <= d
    <2>. HIDE DEF fits
    <2>. QED  BY <1>6, <1>7, HasMin
  <1>9. f = <<[start |-> from, end |-> c]>> \o r
    <2>1. fits # {}
      BY <1>6
    <2>. QED  BY <2>1 DEF Place, sep, to
  <1>10. r # <<>>
    BY <1>8
  <1>. HIDE DEF c, fits
  <1>11. c \in Nat /\ c + Len(sep) \in 0..Len(s) /\ c + Len(sep) \in 0..e
    BY <1>1, <1>3, <1>4, <1>7, <1>8
  <1>12. r \in Seq(Ranges) /\ Len(r) = i /\ r[i].start <= t[i].start
    <2>1. Placed(m, gs, s, i - 1, c + Len(sep), r)
      BY <1>10, <1>11
    <2>2. (i - 1) + 1 = i
      BY <1>2
    <2>3. r[i].start <= t[i].start
      BY <1>5, <1>11
    <2>. QED  BY <2>1, <2>2, <2>3 DEF Placed
  <1>. DEFINE first == [start |-> from, end |-> c]
  <1>13. <<first>> \in Seq(Ranges) /\ Len(<<first>>) = 1
    BY <1>11 DEF Ranges
  <1>. HIDE DEF first, r
  <1>14. Len(<<first>> \o r) = 1 + i /\ (<<first>> \o r)[i + 1] = r[i]
    <2>1. /\ Len(<<first>> \o r) = 1 + i
          /\ \A j \in 1..(1 + i) :
               (<<first>> \o r)[j] = IF j <= 1 THEN <<first>>[j] ELSE r[j - 1]
      BY <1>12, <1>13, ConcatProperties
    <2>2. i + 1 \in 1..(1 + i) /\ ~(i + 1 <= 1) /\ (i + 1) - 1 = i
      BY <1>2
    <2>. QED  BY <2>1, <2>2
  <1>15. f # <<>>
    <2>1. Len(f) = 1 + i /\ 1 + i # 0
      BY <1>2, <1>9, <1>14 DEF first
    <2>. QED  BY <2>1
  <1>. QED  BY <1>1, <1>9, <1>12, <1>14, <1>15 DEF first

LEMMA BoundariesArePlaced ==
  ASSUME NEW m \in Sources, NEW gs, Len(m.regions) > 0, GroupsInv(m, Len(m.regions), gs),
         NEW S, NEW s \in Seq(S), Len(Prefix(m)) + Len(Suffix(m)) <= Len(s)
  PROVE  LET ranges == Boundaries(m, gs, s) IN
         /\ ranges = <<>> \/ Placed(m, gs, s, Len(gs) - 1, Len(Prefix(m)), ranges)
         /\ Leftmost(m, gs, s, Len(gs) - 1, Len(Prefix(m)), ranges)
  <1>. DEFINE n == Len(gs)
              to == SuffixStart(m, s)
              Starts == 0..Len(s)
              T == [Starts -> Seq(Ranges)]
              last(a) == <<[start |-> a, end |-> to]>>
              place(i, a, rest) == Place(s, Separator(m, gs, n - i), a, to, rest)
              base == [a \in Starts |-> last(a)]
              step == [i \in 1..(n - 1) |-> [rest \in T |-> [a \in Starts |-> place(i, a, rest)]]]
              from(f) == [i \in 0..(n - 1) |->
                            [a \in Starts |-> IF i = 0 THEN last(a) ELSE place(i, a, f[i - 1])]]
              c == CHOOSE f : f = from(f)
              Good(i, rest) == \A a \in Starts :
                                 /\ rest[a] = <<>> \/ Placed(m, gs, s, i, a, rest[a])
                                 /\ Leftmost(m, gs, s, i, a, rest[a])
              A == {i \in 0..(n - 1) : c[i] \in T /\ Good(i, c[i])}
  <1>1. n \in Nat /\ n > 0 /\ n - 1 \in Nat
    BY GroupsBounds
  <1>2. to \in 0..Len(s) /\ Len(Prefix(m)) \in Starts /\ Len(s) \in Nat
    BY SuffixStartType
  <1>3. ASSUME NEW a \in Starts
        PROVE  /\ last(a) \in Seq(Ranges) /\ Placed(m, gs, s, 0, a, last(a))
               /\ Leftmost(m, gs, s, 0, a, last(a))
    <2>1. [start |-> a, end |-> to] \in Ranges
      BY <1>2 DEF Ranges
    <2>2. /\ last(a) \in Seq(Ranges) /\ Len(last(a)) = 1
          /\ last(a)[1].start = a /\ last(a)[1].end = to
      BY <2>1
    <2>. HIDE DEF last
    <2>3. a <= a
      BY <1>2
    <2>4. Placed(m, gs, s, 0, a, last(a))
      BY <2>2, <2>3 DEF Placed
    <2>5. \A b \in a..Len(s) : \A h : Chained(m, gs, s, 0, b, h) => h[0 + 1].start = b
      BY DEF Chained
    <2>6. last(a) # <<>> /\ last(a)[0 + 1].start = a /\ \A b \in a..Len(s) : a <= b
      <3>1. 0 + 1 = 1 /\ \A b \in a..Len(s) : a <= b
        BY <1>2
      <3>2. last(a) # <<>>
        BY DEF last
      <3>. QED  BY <2>2, <3>1, <3>2
    <2>7. Leftmost(m, gs, s, 0, a, last(a))
      BY <2>5, <2>6 DEF Leftmost
    <2>. QED  BY <2>2, <2>4, <2>7
  <1>4. ASSUME NEW i \in 1..(n - 1), NEW rest \in T, NEW a \in Starts
        PROVE  place(i, a, rest) \in Seq(Ranges)
    <2>1. n - i \in 1..(n - 1)
      BY <1>1
    <2>2. Len(Separator(m, gs, n - i)) \in Nat
      BY <2>1, SeparatorType
    <2>. QED  BY <1>2, <2>2, PlaceType
  <1>5. base \in T
    <2>. HIDE DEF last
    <2>. QED  BY <1>3
  <1>6. step \in [1..(n - 1) -> [T -> T]]
    <2>. HIDE DEF place
    <2>. QED  BY <1>4
  <1>7. PICK g : Iterates(g, n - 1, T, base, step)
    <2>. HIDE DEF step, T, n, base
    <2>. QED  BY <1>1, <1>5, <1>6, Recursion
  <1>8. g = from(g)
    <2>1. g \in [0..(n - 1) -> T] /\ g[0] = base /\ \A i \in 1..(n - 1) : g[i] = step[i][g[i - 1]]
      <3>. HIDE DEF step, T, n, base
      <3>. QED  BY <1>7 DEF Iterates
    <2>2. ASSUME NEW i \in 0..(n - 1)
          PROVE  g[i] = [a \in Starts |-> IF i = 0 THEN last(a) ELSE place(i, a, g[i - 1])]
      <3>1. CASE i = 0
        <4>. HIDE DEF last, place
        <4>. QED  BY <3>1, <2>1
      <3>2. CASE i # 0
        <4>1. i \in 1..(n - 1) /\ i - 1 \in 0..(n - 1)
          BY <3>2, <1>1
        <4>2. g[i] = step[i][g[i - 1]] /\ g[i - 1] \in T
          <5>. HIDE DEF step, T
          <5>. QED  BY <2>1, <4>1
        <4>. HIDE DEF last, place, T
        <4>3. g[i] = [a \in Starts |-> place(i, a, g[i - 1])]
          BY <4>1, <4>2
        <4>. QED  BY <3>2, <4>3
      <3>. QED  BY <3>1, <3>2
    <2>3. g = [i \in 0..(n - 1) |-> g[i]]
      BY <2>1
    <2>. HIDE DEF last, place, Starts, n
    <2>4. [i \in 0..(n - 1) |-> g[i]] = from(g)
      BY <2>2
    <2>. QED  BY <2>3, <2>4
  <1>9. c = from(c)
    BY <1>8
  <1>10. Boundaries(m, gs, s) = c[n - 1][Len(Prefix(m))]
    BY DEF Boundaries, SuffixStart
  <1>. HIDE DEF c
  <1>11. \A i \in 0..(n - 1) :
           c[i] = [a \in Starts |-> IF i = 0 THEN last(a) ELSE place(i, a, c[i - 1])]
    <2>. HIDE DEF last, place, Starts
    <2>. QED  BY <1>9
  <1>12. 0 \in A
    <2>1. c[0] = base
      <3>. HIDE DEF last, place
      <3>. QED  BY <1>1, <1>11
    <2>2. Good(0, base)
      <3>. HIDE DEF last
      <3>. QED  BY <1>3
    <2>. HIDE DEF base, Good
    <2>. QED  BY <1>1, <1>5, <2>1, <2>2
  <1>13. ASSUME NEW i \in 0..((n - 1) - 1), i \in A
         PROVE  i + 1 \in A
    <2>1. i + 1 \in 1..(n - 1) /\ i + 1 \in 0..(n - 1) /\ i + 1 # 0 /\ (i + 1) - 1 = i
      BY <1>1
    <2>2. c[i] \in T /\ Good(i, c[i])
      BY <1>13
    <2>3. c[i + 1] = [a \in Starts |-> place(i + 1, a, c[i])]
      <3>. HIDE DEF last, place, Starts
      <3>. QED  BY <1>11, <2>1
    <2>4. ASSUME NEW a \in Starts
          PROVE  /\ c[i + 1][a] \in Seq(Ranges)
                 /\ c[i + 1][a] = <<>> \/ Placed(m, gs, s, i + 1, a, c[i + 1][a])
                 /\ Leftmost(m, gs, s, i + 1, a, c[i + 1][a])
      <3>1. c[i + 1][a] = place(i + 1, a, c[i])
        <4>. HIDE DEF place
        <4>. QED  BY <2>3
      <3>2. c[i + 1][a] \in Seq(Ranges)
        <4>. HIDE DEF place, T
        <4>. QED  BY <1>4, <2>1, <2>2, <3>1
      <3>3. ASSUME c[i + 1][a] # <<>>
            PROVE  Placed(m, gs, s, i + 1, a, c[i + 1][a])
        BY <2>1, <2>2, <3>1, <3>3, PlaceOneMore
      <3>4. Leftmost(m, gs, s, i + 1, a, c[i + 1][a])
        BY <2>1, <2>2, <3>1, PlaceLeftmost
      <3>. QED  BY <3>2, <3>3, <3>4
    <2>5. c[i + 1] \in T
      <3>. HIDE DEF place
      <3>. QED  BY <2>3, <2>4
    <2>. QED  BY <2>1, <2>4, <2>5
  <1>14. 0..(n - 1) \subseteq A
    <2>1. \A i \in 0..((n - 1) - 1) : i \in A => i + 1 \in A
      BY <1>13
    <2>. HIDE DEF A, n
    <2>. QED  BY <1>1, <1>12, <2>1, Induction
  <1>15. Good(n - 1, c[n - 1])
    BY <1>1, <1>14
  <1>. QED  BY <1>2, <1>10, <1>15

\* Every region is within a group.
LEMMA GroupOfType ==
  ASSUME NEW m \in Sources, NEW gs, Len(m.regions) > 0, GroupsInv(m, Len(m.regions), gs),
         NEW i \in 1..Len(m.regions)
  PROVE  GroupOf(gs, m.regions[i]) \in 1..Len(gs)
  <1>. DEFINE n == Len(m.regions)
              r(j) == m.regions[j]
  <1>1. PICK g : Assigns(m, n, gs, g)
    BY DEF GroupsInv
  <1>2. /\ DOMAIN gs = 1..Len(gs) /\ Len(gs) \in Nat /\ Len(gs) > 0
        /\ \A k \in 1..Len(gs) : gs[k].start \in Nat /\ gs[k].end \in Nat
    BY GroupsBounds
  <1>3. /\ n \in Nat /\ n - 1 \in Nat
        /\ \A j \in 1..n : r(j).start \in Nat /\ r(j).end \in Nat /\ r(j).start < r(j).end
    BY SourceType DEF Ranges
  <1>4. /\ g \in [1..n -> 1..Len(gs)] /\ g[1] = 1 /\ g[n] = Len(gs)
        /\ gs[1].start = r(1).start /\ gs[Len(gs)].end = r(n).end
    BY <1>1, <1>2 DEF Assigns, GroupsInv
  <1>5. \A j \in 1..(n - 1) :
           \/ g[j + 1] = g[j] /\ r(j).end = r(j + 1).start
           \/ gs[g[j]].end = r(j).end /\ gs[g[j + 1]].start = r(j + 1).start
    BY <1>1 DEF Assigns
  <1>. HIDE DEF r, n
  <1>6. \A j \in 1..n : /\ gs[g[j]].start \in Nat /\ gs[g[j]].end \in Nat
    BY <1>2, <1>4
  <1>. DEFINE A == {j \in 0..(n - 1) : gs[g[j + 1]].start <= r(j + 1).start}
              B == {j \in 0..(n - 1) : r(n - j).end <= gs[g[n - j]].end}
  <1>7. n - 1 \in Nat /\ 0..(n - 1) \subseteq A
    <2>1. 0 \in A
      <3>1. 0 + 1 = 1 /\ 0 \in 0..(n - 1) /\ 1 \in 1..n
        BY <1>3
      <3>2. gs[g[1]].start <= r(1).start
        BY <1>3, <1>4, <3>1
      <3>. QED  BY <3>1, <3>2
    <2>2. ASSUME NEW j \in 0..((n - 1) - 1), j \in A PROVE j + 1 \in A
      <3>1. j + 1 \in 1..(n - 1) /\ j + 1 \in 1..n /\ (j + 1) + 1 \in 1..n /\ j + 1 \in 0..(n - 1)
        BY <1>3
      <3>2. gs[g[j + 1]].start <= r(j + 1).start
        BY <2>2
      <3>3. gs[g[(j + 1) + 1]].start <= r((j + 1) + 1).start
        <4>1. /\ r(j + 1).start \in Nat /\ r(j + 1).end \in Nat /\ r(j + 1).start < r(j + 1).end
              /\ r((j + 1) + 1).start \in Nat /\ gs[g[j + 1]].start \in Nat
          BY <1>3, <1>6, <3>1
        <4>2. CASE g[(j + 1) + 1] = g[j + 1] /\ r(j + 1).end = r((j + 1) + 1).start
          BY <3>2, <4>1, <4>2
        <4>3. CASE gs[g[(j + 1) + 1]].start = r((j + 1) + 1).start
          BY <4>1, <4>3
        <4>. QED  BY <1>5, <3>1, <4>2, <4>3
      <3>. QED  BY <3>1, <3>3
    <2>3. \A j \in 0..((n - 1) - 1) : j \in A => j + 1 \in A
      BY <2>2
    <2>. HIDE DEF A
    <2>. QED  BY <1>3, <2>1, <2>3, Induction
  <1>8. 0..(n - 1) \subseteq B
    <2>1. 0 \in B
      <3>1. n - 0 = n /\ 0 \in 0..(n - 1) /\ n \in 1..n
        BY <1>3
      <3>2. r(n).end <= gs[g[n]].end
        BY <1>3, <1>4, <3>1
      <3>. QED  BY <3>1, <3>2
    <2>2. ASSUME NEW j \in 0..((n - 1) - 1), j \in B PROVE j + 1 \in B
      <3>. DEFINE k == n - (j + 1)
      <3>1. k \in 1..(n - 1) /\ k \in 1..n /\ k + 1 \in 1..n /\ j + 1 \in 0..(n - 1) /\ k + 1 = n - j
        BY <1>3
      <3>2. r(k + 1).end <= gs[g[k + 1]].end
        BY <2>2, <3>1
      <3>. HIDE DEF k
      <3>3. r(k).end <= gs[g[k]].end
        BY <1>3, <1>5, <1>6, <3>1, <3>2
      <3>. QED  BY <3>1, <3>3 DEF k
    <2>3. \A j \in 0..((n - 1) - 1) : j \in B => j + 1 \in B
      BY <2>2
    <2>. HIDE DEF B
    <2>. QED  BY <1>3, <2>1, <2>3, Induction
  <1>9. gs[g[i]].start <= r(i).start /\ r(i).end <= gs[g[i]].end /\ g[i] \in 1..Len(gs)
    <2>1. i \in 1..n /\ i \in Nat
      BY <1>3 DEF n
    <2>2. i - 1 \in 0..(n - 1) /\ (i - 1) + 1 = i /\ n - i \in 0..(n - 1) /\ n - (n - i) = i
      BY <1>3, <2>1
    <2>3. i - 1 \in A /\ n - i \in B
      BY <1>7, <1>8, <2>2
    <2>. QED  BY <1>4, <2>1, <2>2, <2>3
  <1>. HIDE DEF A, B
  <1>10. GroupOf(gs, r(i)) \in DOMAIN gs
    BY <1>2, <1>9 DEF GroupOf
  <1>. QED  BY <1>2, <1>10 DEF r

\* The last region belongs to the last group.
LEMMA GroupOfTheLast ==
  ASSUME NEW m \in Sources, NEW gs, Len(m.regions) > 0, GroupsInv(m, Len(m.regions), gs)
  PROVE  GroupOf(gs, m.regions[Len(m.regions)]) = Len(gs)
  <1>. DEFINE n == Len(m.regions)
              r == m.regions[n]
              len == Len(gs)
              holds(k) == gs[k].start <= r.start /\ r.end <= gs[k].end
  <1>1. /\ len \in Nat /\ len > 0 /\ DOMAIN gs = 1..len /\ len \in 1..len
        /\ \A k \in 1..len :
             gs[k].start \in Nat /\ gs[k].end \in Nat /\ gs[k].start < gs[k].end
        /\ \A k, l \in 1..len : k < l => gs[k].end < gs[l].start
    BY GroupsBounds
  <1>2. gs[len].start <= r.start /\ gs[len].end = r.end
    BY DEF GroupsInv
  <1>. HIDE DEF r, len
  <1>3. holds(len)
    BY <1>1, <1>2
  <1>4. ASSUME NEW k \in 1..len, holds(k) PROVE k = len
    <2>1. CASE k < len
      <3>1. gs[k].end < gs[len].start
        BY <1>1, <2>1
      <3>. QED  BY <1>1, <1>2, <1>4, <3>1
    <2>. QED  BY <1>1, <2>1
  <1>5. GroupOf(gs, r) = CHOOSE k \in 1..len : holds(k)
    BY <1>1 DEF GroupOf
  <1>6. (CHOOSE k \in 1..len : holds(k)) = len
    <2>. HIDE DEF holds
    <2>. QED  BY <1>1, <1>3, <1>4
  <1>. QED  BY <1>5, <1>6 DEF r, len

LEMMA LastInOrder ==
  ASSUME NEW m \in Sources, NEW gs, Len(m.regions) > 0, GroupsInv(m, Len(m.regions), gs),
         NEW ranges \in Seq(Ranges), Len(ranges) = Len(gs), NEW s,
         CheckSeeds(m, gs, ranges, s).verdict \notin {"placeholder", "invalid"}
  PROVE  /\ ranges[Len(gs)].start <= ranges[Len(gs)].end
         /\ CheckSeeds(m, gs, ranges, s) = Plan(m, gs, ranges, s)
         /\ ~ContainsSeed(Slice(s, ranges[Len(gs)].start, ranges[Len(gs)].end),
                          Seed(m, Len(m.regions)))
  <1>. DEFINE n == Len(m.regions)
              range(i) == ranges[GroupOf(gs, m.regions[i])]
              inverted == {i \in DOMAIN m.regions : range(i).start > range(i).end}
              untouched == {i \in DOMAIN m.regions \ inverted :
                              ContainsSeed(Slice(s, range(i).start, range(i).end), Seed(m, i))}
              why == IF Min(inverted \cup untouched) \in untouched THEN "placeholder" ELSE "invalid"
  <1>1. CheckSeeds(m, gs, ranges, s) =
          IF inverted \cup untouched = {} THEN Plan(m, gs, ranges, s) ELSE Refuse(why)
    BY DEF CheckSeeds
  <1>2. Refuse(why).verdict \in {"placeholder", "invalid"}
    BY DEF Refuse
  <1>. HIDE DEF why, untouched
  <1>3. inverted = {} /\ untouched = {} /\ CheckSeeds(m, gs, ranges, s) = Plan(m, gs, ranges, s)
    BY <1>1, <1>2
  <1>4. n \in DOMAIN m.regions
    BY SourceType
  <1>5. range(n) = ranges[Len(gs)]
    BY GroupOfTheLast
  <1>6. ~(ranges[Len(gs)].start > ranges[Len(gs)].end)
    BY <1>3, <1>4, <1>5
  <1>7. ranges[Len(gs)] \in Ranges
    <2>1. Len(gs) \in Nat /\ Len(gs) > 0
      BY GroupsBounds
    <2>. QED  BY <2>1
  <1>8. ~ContainsSeed(Slice(s, range(n).start, range(n).end), Seed(m, n))
    <2>. HIDE DEF range, inverted
    <2>. QED  BY <1>3, <1>4 DEF untouched
  <1>. QED  BY <1>3, <1>5, <1>6, <1>7, <1>8 DEF Ranges

-------------------------------------------------------------------------------
(***************************************************************************)
(* What is accepted.                                                       *)
(***************************************************************************)
\* Places of the groups are places of what separates the conflicts.
LEMMA PlacedKeepsOutside ==
  ASSUME NEW m \in Sources, NEW gs, Len(m.regions) > 0, GroupsInv(m, Len(m.regions), gs),
         NEW S, NEW s \in Seq(S), Len(Prefix(m)) + Len(Suffix(m)) <= Len(s),
         IsPrefix(Prefix(m), s), SuffixKept(m, s),
         NEW ranges, Placed(m, gs, s, Len(gs) - 1, Len(Prefix(m)), ranges),
         ranges[Len(gs)].start <= ranges[Len(gs)].end
  PROVE  OutsideKept(m, s)
  <1>. DEFINE n == Len(m.regions)
              len == Len(gs)
              between(k) == Slice(m.source, m.regions[k].end, m.regions[k + 1].start)
              first == Len(Prefix(m))
              last == SuffixStart(m, s)
  <1>1. n \in Nat /\ n > 0 /\ len \in Nat /\ len > 0 /\ len \in 1..len
    BY SourceType, GroupsBounds
  <1>2. first \in Nat /\ last \in Nat /\ first <= last
    BY SuffixStartType
  <1>3. PICK g : Assigns(m, n, gs, g)
    BY DEF GroupsInv
  <1>4. /\ g \in [1..n -> 1..len] /\ g[n] = len
        /\ \A j \in 1..(n - 1) :
             \/ g[j + 1] = g[j] /\ m.regions[j].end = m.regions[j + 1].start
             \/ /\ g[j + 1] = g[j] + 1
                /\ gs[g[j]].end = m.regions[j].end
                /\ gs[g[j + 1]].start = m.regions[j + 1].start
    <2>1. DOMAIN gs = 1..len
      BY GroupsBounds
    <2>. QED  BY <1>3, <2>1 DEF Assigns
  <1>. HIDE DEF first, last, len
  <1>5. /\ ranges \in Seq(Ranges) /\ Len(ranges) = len
        /\ ranges[len].end = last
        /\ \A j \in 1..len : first <= ranges[j].start
        /\ \A j \in 1..(len - 1) :
             /\ ranges[j].start <= ranges[j].end /\ ranges[j].end <= last
             /\ ranges[j + 1].start = ranges[j].end + Len(Separator(m, gs, j))
             /\ Slice(s, ranges[j].end, ranges[j + 1].start) = Separator(m, gs, j)
    <2>1. (len - 1) + 1 = len /\ \A j \in 1..(len - 1) : len - (len - 1) + j - 1 = j
      BY <1>1
    <2>2. Placed(m, gs, s, len - 1, first, ranges)
      BY DEF len, first
    <2>. QED  BY <2>1, <2>2 DEF Placed, len, last
  <1>6. \A j \in 1..len : /\ ranges[j].start \in Nat /\ ranges[j].end \in Nat
                          /\ ranges[j].start <= ranges[j].end /\ ranges[j].end <= last
    <2>1. \A j \in 1..len : ranges[j] \in Ranges
      BY <1>5
    <2>2. ranges[len].start <= ranges[len].end
      BY DEF len
    <2>3. \A j \in 1..len : j # len => j \in 1..(len - 1)
      BY <1>1
    <2>4. \A j \in 1..len : ranges[j].start \in Nat /\ ranges[j].end \in Nat
      BY <2>1 DEF Ranges
    <2>. QED  BY <1>2, <1>5, <2>2, <2>3, <2>4
  <1>. DEFINE where(k) == IF g[k + 1] = g[k] THEN ranges[g[k]].start ELSE ranges[g[k]].end
              at == [k \in 1..(n - 1) |-> where(k)]
              end(k) == where(k) + Len(between(k))
  <1>7. ASSUME NEW k \in 1..(n - 1)
        PROVE  /\ g[k] \in 1..len /\ g[k + 1] \in 1..len
               /\ where(k) \in first..last /\ where(k) \in Nat
    <2>1. k \in 1..n /\ k + 1 \in 1..n
      BY <1>1
    <2>2. g[k] \in 1..len /\ g[k + 1] \in 1..len
      BY <1>4, <2>1
    <2>3. /\ ranges[g[k]].start \in Nat /\ ranges[g[k]].end \in Nat
          /\ first <= ranges[g[k]].start
          /\ ranges[g[k]].start <= ranges[g[k]].end /\ ranges[g[k]].end <= last
      BY <1>5, <1>6, <2>2
    <2>4. where(k) = ranges[g[k]].start \/ where(k) = ranges[g[k]].end
      OBVIOUS
    <2>. HIDE DEF where
    <2>5. where(k) \in Nat /\ first <= where(k) /\ where(k) <= last
      <3>1. CASE where(k) = ranges[g[k]].start
        <4>1. ranges[g[k]].start <= last
          BY <1>2, <2>3
        <4>. QED  BY <2>3, <3>1, <4>1
      <3>2. CASE where(k) = ranges[g[k]].end
        <4>1. first <= ranges[g[k]].end
          BY <1>2, <2>3
        <4>. QED  BY <2>3, <3>2, <4>1
      <3>. QED  BY <2>4, <3>1, <3>2
    <2>6. where(k) \in first..last
      BY <1>2, <2>5
    <2>. QED  BY <2>2, <2>5, <2>6
  <1>8. ASSUME NEW k \in 1..(n - 1)
        PROVE  /\ end(k) = IF g[k + 1] = g[k] THEN ranges[g[k]].start ELSE ranges[g[k + 1]].start
               /\ Slice(s, where(k), end(k)) = between(k)
    <2>1. g[k] \in 1..len /\ g[k + 1] \in 1..len
      BY <1>7
    <2>2. CASE g[k + 1] = g[k]
      <3>1. m.regions[k].end = m.regions[k + 1].start
        <4>1. g[k + 1] # g[k] + 1
          BY <2>1, <2>2
        <4>. QED  BY <1>4, <4>1
      <3>2. m.regions[k].end \in Nat
        <4>1. m.regions[k] \in Ranges
          BY <1>1, SourceType
        <4>. QED  BY <4>1 DEF Ranges
      <3>3. between(k) = <<>>
        BY <3>1, <3>2 DEF Slice
      <3>4. end(k) = ranges[g[k]].start /\ where(k) = ranges[g[k]].start /\ ranges[g[k]].start \in Nat
        BY <1>6, <2>1, <2>2, <3>3
      <3>5. Slice(s, where(k), end(k)) = <<>>
        <4>. HIDE DEF where, end
        <4>. QED  BY <3>4 DEF Slice
      <3>. QED  BY <2>2, <3>3, <3>4, <3>5
    <2>3. CASE g[k + 1] # g[k]
      <3>1. /\ g[k + 1] = g[k] + 1
            /\ gs[g[k]].end = m.regions[k].end
            /\ gs[g[k + 1]].start = m.regions[k + 1].start
        BY <1>4, <2>3
      <3>2. g[k] \in 1..(len - 1)
        BY <1>1, <2>1, <3>1
      <3>3. between(k) = Separator(m, gs, g[k])
        BY <3>1 DEF Separator
      <3>. HIDE DEF between
      <3>4. where(k) = ranges[g[k]].end /\ end(k) = ranges[g[k] + 1].start
        BY <1>5, <2>3, <3>2, <3>3
      <3>. QED  BY <1>5, <2>3, <3>1, <3>2, <3>3, <3>4
    <2>. QED  BY <2>2, <2>3
  <1>9. ASSUME NEW k \in 1..(n - 1)
        PROVE  end(k) <= IF k + 1 \in 1..(n - 1) THEN where(k + 1) ELSE last
    <2>1. g[k] \in 1..len /\ g[k + 1] \in 1..len
      BY <1>7
    <2>2. end(k) = ranges[g[k + 1]].start
      BY <1>8
    <2>3. /\ ranges[g[k + 1]].start \in Nat /\ ranges[g[k + 1]].end \in Nat /\ last \in Nat
          /\ ranges[g[k + 1]].start <= ranges[g[k + 1]].end /\ ranges[g[k + 1]].end <= last
      BY <1>2, <1>6, <2>1
    <2>4. where(k + 1) = ranges[g[k + 1]].start \/ where(k + 1) = ranges[g[k + 1]].end
      OBVIOUS
    <2>. HIDE DEF end, where
    <2>5. end(k) <= where(k + 1) /\ end(k) <= last
      BY <2>2, <2>3, <2>4
    <2>. QED  BY <2>5
  <1>10. at \in [1..(n - 1) -> first..last] /\ DOMAIN at = 1..(n - 1)
    <2>. HIDE DEF where
    <2>. QED  BY <1>7
  <1>11. \A k \in DOMAIN at :
           LET stop == at[k] + Len(between(k)) IN
           /\ stop <= IF k + 1 \in DOMAIN at THEN at[k + 1] ELSE last
           /\ Slice(s, at[k], stop) = between(k)
    <2>. SUFFICES ASSUME NEW k \in 1..(n - 1)
                  PROVE  /\ end(k) <= IF k + 1 \in 1..(n - 1) THEN at[k + 1] ELSE last
                         /\ Slice(s, where(k), end(k)) = between(k)
      OBVIOUS
    <2>. HIDE DEF where, end, between
    <2>. QED  BY <1>8, <1>9
  <1>12. \E a \in [1..(n - 1) -> first..last] :
           \A k \in DOMAIN a :
             LET stop == a[k] + Len(between(k)) IN
             /\ stop <= IF k + 1 \in DOMAIN a THEN a[k + 1] ELSE last
             /\ Slice(s, a[k], stop) = between(k)
    <2>. HIDE DEF at, between
    <2>. QED  BY <1>10, <1>11
  <1>13. Prefix(m) = Slice(m.source, 0, m.regions[1].start)
         /\ Suffix(m) = Slice(m.source, m.regions[n].end, Len(m.source))
    BY DEF Prefix, Suffix, Last
  <1>14. first = Len(Prefix(m)) /\ last = Len(s) - Len(Suffix(m))
    BY DEF first, last, SuffixStart
  <1>15. IsPrefix(Prefix(m), s) /\ IsSuffix(Suffix(m), s) /\ n # 0
    BY <1>1 DEF SuffixKept
  <1>. QED  BY <1>2, <1>12, <1>13, <1>14, <1>15, Zenon DEF OutsideKept

-------------------------------------------------------------------------------
(***************************************************************************)
(* What keeps the bytes outside the conflicts has places for the groups.   *)
(***************************************************************************)
Between(m, k) == Slice(m.source, m.regions[k].end, m.regions[k + 1].start)

\* at has where what follows each region but the last stands in s; it all ends
\* before stop.
Kept(m, s, stop, at) ==
  LET n == Len(m.regions) IN
  /\ at \in [1..(n - 1) -> Len(Prefix(m))..SuffixStart(m, s)]
  /\ \A k \in 1..(n - 1) :
       LET e == at[k] + Len(Between(m, k)) IN
       /\ e <= IF k + 1 \in 1..(n - 1) THEN at[k + 1] ELSE stop
       /\ Slice(s, at[k], e) = Between(m, k)

\* Where region j of s ends, at the latest.
EndOf(m, stop, at, j) == IF j \in 1..(Len(m.regions) - 1) THEN at[j] ELSE stop

\* Places for the groups of the first j regions.
PlacesOf(m, gs, g, s, stop, at, j, h) ==
  /\ h \in Seq(Ranges) /\ Len(h) = g[j]
  /\ h[1].start = Len(Prefix(m))
  /\ h[g[j]].start <= h[g[j]].end /\ h[g[j]].end = EndOf(m, stop, at, j)
  /\ \A k \in 1..(g[j] - 1) :
       /\ h[k].start <= h[k].end /\ h[k].end <= SuffixStart(m, s)
       /\ h[k + 1].start = h[k].end + Len(Separator(m, gs, k))
       /\ Slice(s, h[k].end, h[k + 1].start) = Separator(m, gs, k)

LEMMA BetweenType ==
  ASSUME NEW m \in Sources, NEW k \in 1..(Len(m.regions) - 1)
  PROVE  Len(Between(m, k)) \in Nat
  <1>1. k \in 1..Len(m.regions) /\ k + 1 \in 1..Len(m.regions) /\ Len(m.source) \in Nat
    BY SourceType
  <1>2. m.regions[k].end \in Nat /\ m.regions[k + 1].start \in 0..Len(m.source)
    <2>1. /\ m.regions[k].end \in Nat /\ m.regions[k + 1].start \in Nat
          /\ m.regions[k + 1].end \in Nat
          /\ m.regions[k + 1].start < m.regions[k + 1].end
          /\ m.regions[k + 1].end <= Len(m.source)
      BY <1>1, SourceType DEF Ranges
    <2>. QED  BY <1>1, <2>1
  <1>3. Between(m, k) \in Seq(Range(m.source))
    BY <1>2, SourceType, SliceType DEF Between
  <1>. QED  BY <1>3

\* One more region: it joins the last place, or has a place of its own.
LEMMA NextPlaces ==
  ASSUME NEW m \in Sources, NEW gs, Len(m.regions) > 0, GroupsInv(m, Len(m.regions), gs),
         NEW S, NEW s \in Seq(S), Len(Prefix(m)) + Len(Suffix(m)) <= Len(s),
         NEW stop \in Len(Prefix(m))..SuffixStart(m, s), NEW at, Kept(m, s, stop, at),
         NEW g, Assigns(m, Len(m.regions), gs, g),
         NEW j \in 1..(Len(m.regions) - 1), NEW h, PlacesOf(m, gs, g, s, stop, at, j, h)
  PROVE  \E f : PlacesOf(m, gs, g, s, stop, at, j + 1, f)
  <1>. DEFINE n == Len(m.regions)
              first == Len(Prefix(m))
              last == SuffixStart(m, s)
              len == g[j]
              up == EndOf(m, stop, at, j)
              next == EndOf(m, stop, at, j + 1)
              gap == Len(Between(m, j))
  <1>1. /\ first \in Nat /\ last \in Nat /\ stop \in Nat /\ n \in Nat
        /\ j \in Nat /\ j \in 1..n /\ j + 1 \in 1..n /\ j + 1 \in Nat
    BY SuffixStartType, SourceType
  <1>2. /\ DOMAIN gs = 1..Len(gs) /\ Len(gs) \in Nat
        /\ g \in [1..n -> 1..Len(gs)]
        /\ \/ g[j + 1] = len /\ m.regions[j].end = m.regions[j + 1].start
           \/ /\ g[j + 1] = len + 1
              /\ gs[len].end = m.regions[j].end
              /\ gs[len + 1].start = m.regions[j + 1].start
    <2>1. DOMAIN gs = 1..Len(gs) /\ Len(gs) \in Nat
      BY GroupsBounds
    <2>2. g \in [1..n -> DOMAIN gs]
          /\ \/ g[j + 1] = len /\ m.regions[j].end = m.regions[j + 1].start
             \/ /\ g[j + 1] = len + 1
                /\ gs[len].end = m.regions[j].end
                /\ gs[g[j + 1]].start = m.regions[j + 1].start
      BY DEF Assigns
    <2>. QED  BY <2>1, <2>2
  <1>3. len \in Nat /\ len > 0 /\ len \in 1..len
    BY <1>1, <1>2
  <1>4. gap \in Nat
    BY BetweenType
  <1>5. /\ at[j] \in first..last /\ up = at[j]
        /\ at[j] + gap <= next /\ next \in first..last
        /\ Slice(s, at[j], at[j] + gap) = Between(m, j)
    <2>1. /\ at \in [1..(n - 1) -> first..last]
          /\ at[j] + gap <= IF j + 1 \in 1..(n - 1) THEN at[j + 1] ELSE stop
          /\ Slice(s, at[j], at[j] + gap) = Between(m, j)
      BY DEF Kept
    <2>. QED  BY <2>1 DEF EndOf
  <1>6. /\ h \in Seq(Ranges) /\ Len(h) = len /\ h[1].start = first
        /\ h[len].start <= h[len].end /\ h[len].end = up
        /\ \A k \in 1..(len - 1) :
             /\ h[k].start <= h[k].end /\ h[k].end <= last
             /\ h[k + 1].start = h[k].end + Len(Separator(m, gs, k))
             /\ Slice(s, h[k].end, h[k + 1].start) = Separator(m, gs, k)
    BY DEF PlacesOf
  <1>7. /\ h[len].start \in Nat /\ h[len].end \in Nat /\ next \in Nat /\ up \in Nat
        /\ up + gap <= next /\ up <= last /\ up <= next
    <2>1. h[len] \in Ranges
      BY <1>3, <1>6
    <2>2. h[len].start \in Nat /\ h[len].end \in Nat
      BY <2>1 DEF Ranges
    <2>. HIDE DEF first, last, len, up, next, gap
    <2>3. next \in Nat /\ up \in Nat /\ up + gap <= next /\ up <= last
      BY <1>1, <1>5
    <2>. QED  BY <1>4, <2>2, <2>3
  <1>. HIDE DEF first, last, len, up, next, gap
  <1>8. CASE g[j + 1] = len /\ m.regions[j].end = m.regions[j + 1].start
    <2>. DEFINE f == [k \in 1..len |->
                        IF k = len THEN [start |-> h[k].start, end |-> next] ELSE h[k]]
    <2>1. [start |-> h[len].start, end |-> next] \in Ranges
      BY <1>7 DEF Ranges
    <2>2. \A k \in 1..len : h[k] \in Ranges
      BY <1>6
    <2>3. f \in [1..len -> Ranges]
      BY <2>1, <2>2
    <2>4. f \in Seq(Ranges) /\ Len(f) = len
      <3>. HIDE DEF f
      <3>. QED  BY <1>3, <2>3, IsASeq
    <2>5. /\ f[len].start = h[len].start /\ f[len].end = next
          /\ \A k \in 1..(len - 1) : f[k] = h[k]
          /\ \A k \in 1..len : f[k].start = h[k].start
      BY <1>3
    <2>. HIDE DEF f
    <2>6. \A k \in 1..(len - 1) : k + 1 \in 1..len
      BY <1>3
    <2>7. \A k \in 1..(len - 1) :
             /\ f[k].start <= f[k].end /\ f[k].end <= last
             /\ f[k + 1].start = f[k].end + Len(Separator(m, gs, k))
             /\ Slice(s, f[k].end, f[k + 1].start) = Separator(m, gs, k)
      BY <1>6, <2>5, <2>6
    <2>8. f[1].start = first /\ f[len].start <= f[len].end
      <3>1. 1 \in 1..len
        BY <1>3
      <3>. QED  BY <1>6, <1>7, <2>5, <3>1
    <2>9. PlacesOf(m, gs, g, s, stop, at, j + 1, f)
      BY <1>8, <2>4, <2>5, <2>7, <2>8 DEF PlacesOf, first, last, next
    <2>. QED  BY <2>9
  <1>9. CASE /\ g[j + 1] = len + 1
             /\ gs[len].end = m.regions[j].end
             /\ gs[len + 1].start = m.regions[j + 1].start
    <2>. DEFINE new == [start |-> up + gap, end |-> next]
                f == Append(h, new)
    <2>1. new \in Ranges /\ new.start = up + gap /\ new.end = next
      BY <1>4, <1>7 DEF Ranges
    <2>. HIDE DEF new
    <2>2. /\ f \in Seq(Ranges) /\ Len(f) = len + 1 /\ f[len + 1] = new
          /\ \A k \in 1..len : f[k] = h[k]
      BY <1>6, <2>1
    <2>. HIDE DEF f
    <2>3. Between(m, j) = Separator(m, gs, len) /\ gap = Len(Separator(m, gs, len))
      BY <1>9 DEF Between, Separator, gap
    <2>4. ASSUME NEW k \in 1..len
          PROVE  /\ f[k].start <= f[k].end /\ f[k].end <= last
                 /\ f[k + 1].start = f[k].end + Len(Separator(m, gs, k))
                 /\ Slice(s, f[k].end, f[k + 1].start) = Separator(m, gs, k)
      <3>1. CASE k = len
        <4>1. f[k] = h[len] /\ f[k + 1] = new
          BY <1>3, <2>2, <3>1
        <4>2. Slice(s, up, up + gap) = Separator(m, gs, k)
          BY <1>5, <2>3, <3>1
        <4>. QED  BY <1>6, <1>7, <2>1, <2>3, <3>1, <4>1, <4>2
      <3>2. CASE k # len
        <4>1. k \in 1..(len - 1) /\ k + 1 \in 1..len
          BY <1>3, <3>2
        <4>. QED  BY <1>6, <2>2, <4>1
      <3>. QED  BY <3>1, <3>2
    <2>5. f[1].start = first
      <3>1. 1 \in 1..len
        BY <1>3
      <3>. QED  BY <1>6, <2>2, <3>1
    <2>6. (len + 1) - 1 = len
      BY <1>3
    <2>7. PlacesOf(m, gs, g, s, stop, at, j + 1, f)
      BY <1>7, <1>9, <2>1, <2>2, <2>4, <2>5, <2>6 DEF PlacesOf, first, last, next
    <2>. QED  BY <2>7
  <1>. QED  BY <1>2, <1>8, <1>9

\* Places of the groups, the last of which starts at stop at the latest.
KeptPlaces(m, gs, s, stop, h) ==
  /\ Chained(m, gs, s, Len(gs) - 1, Len(Prefix(m)), h)
  /\ h[Len(gs)].start <= stop

LEMMA KeptIsChained ==
  ASSUME NEW m \in Sources, NEW gs, Len(m.regions) > 0, GroupsInv(m, Len(m.regions), gs),
         NEW S, NEW s \in Seq(S), Len(Prefix(m)) + Len(Suffix(m)) <= Len(s),
         NEW stop \in Len(Prefix(m))..SuffixStart(m, s), NEW at, Kept(m, s, stop, at)
  PROVE  \E h : KeptPlaces(m, gs, s, stop, h)
  <1>. DEFINE n == Len(m.regions)
              first == Len(Prefix(m))
              last == SuffixStart(m, s)
  <1>1. PICK g : Assigns(m, n, gs, g)
    BY DEF GroupsInv
  <1>2. /\ DOMAIN gs = 1..Len(gs) /\ Len(gs) \in Nat /\ Len(gs) > 0
        /\ g[1] = 1 /\ g[n] = Len(gs)
    BY <1>1, GroupsBounds DEF Assigns
  <1>3. first \in Nat /\ last \in Nat /\ stop \in Nat /\ n \in Nat /\ n - 1 \in Nat
        /\ last <= Len(s) /\ Len(s) \in Nat
    BY SuffixStartType, SourceType
  <1>. DEFINE A == {j \in 0..(n - 1) : \E h : PlacesOf(m, gs, g, s, stop, at, j + 1, h)}
  <1>4. 0 \in A
    <2>. DEFINE up == EndOf(m, stop, at, 1)
                h == <<[start |-> first, end |-> up]>>
    <2>1. up \in first..last
      <3>1. at \in [1..(n - 1) -> first..last]
        BY DEF Kept
      <3>. QED  BY <3>1 DEF EndOf
    <2>2. /\ h \in Seq(Ranges) /\ Len(h) = 1
          /\ h[1].start = first /\ h[1].end = up /\ first <= up
      BY <1>3, <2>1 DEF Ranges
    <2>. HIDE DEF h
    <2>3. PlacesOf(m, gs, g, s, stop, at, 1, h)
      BY <1>2, <2>2 DEF PlacesOf
    <2>4. 0 + 1 = 1 /\ 0 \in 0..(n - 1)
      BY <1>3
    <2>. QED  BY <2>3, <2>4
  <1>5. ASSUME NEW j \in 0..((n - 1) - 1), j \in A
        PROVE  j + 1 \in A
    <2>1. PICK h : PlacesOf(m, gs, g, s, stop, at, j + 1, h)
      BY <1>5
    <2>2. j + 1 \in 1..(n - 1) /\ j + 1 \in 0..(n - 1)
      BY <1>3
    <2>3. \E f : PlacesOf(m, gs, g, s, stop, at, (j + 1) + 1, f)
      BY <1>1, <2>1, <2>2, NextPlaces
    <2>. QED  BY <2>2, <2>3
  <1>6. n - 1 \in A
    <2>1. \A j \in 0..((n - 1) - 1) : j \in A => j + 1 \in A
      BY <1>5
    <2>. HIDE DEF A, n
    <2>2. 0..(n - 1) \subseteq A
      BY <1>3, <1>4, <2>1, Induction
    <2>. QED  BY <1>3, <2>2
  <1>7. PICK h : PlacesOf(m, gs, g, s, stop, at, n, h)
    <2>1. (n - 1) + 1 = n
      BY <1>3
    <2>. QED  BY <1>6, <2>1
  <1>. DEFINE len == Len(gs)
  <1>8. /\ h \in Seq(Ranges) /\ Len(h) = len /\ h[1].start = first
        /\ h[len].start <= h[len].end /\ h[len].end = stop
        /\ \A k \in 1..(len - 1) :
             /\ h[k].start <= h[k].end /\ h[k].end <= last
             /\ h[k + 1].start = h[k].end + Len(Separator(m, gs, k))
             /\ Slice(s, h[k].end, h[k + 1].start) = Separator(m, gs, k)
    <2>1. EndOf(m, stop, at, n) = stop
      BY <1>3 DEF EndOf
    <2>. QED  BY <1>2, <1>7, <2>1 DEF PlacesOf
  <1>9. h[len].start \in Nat /\ h[len].start <= stop /\ h[len].start <= Len(s)
    <2>1. h[len] \in Ranges
      BY <1>2, <1>8
    <2>2. h[len].start \in Nat
      BY <2>1 DEF Ranges
    <2>. QED  BY <1>3, <1>8, <2>2
  <1>. HIDE DEF len, first, last
  <1>10. (len - 1) + 1 = len /\ \A k \in 1..(len - 1) : len - (len - 1) + k - 1 = k
    BY <1>2 DEF len
  <1>11. Chained(m, gs, s, len - 1, first, h)
    BY <1>8, <1>9, <1>10 DEF Chained, len, last
  <1>12. KeptPlaces(m, gs, s, stop, h)
    BY <1>9, <1>11 DEF KeptPlaces, len, first
  <1>. QED  BY <1>12

\* A file that keeps the bytes outside the conflicts passes the first checks.
LEMMA KeptOutside ==
  ASSUME NEW m \in Sources, Len(m.regions) > 0, NEW s, OutsideKept(m, s)
  PROVE  /\ IsPrefix(Prefix(m), s) /\ SuffixKept(m, s)
         /\ Len(Prefix(m)) <= SuffixStart(m, s)
         /\ \E at : Kept(m, s, SuffixStart(m, s), at)
  <1>. DEFINE n == Len(m.regions)
              first == Len(Prefix(m))
              last == SuffixStart(m, s)
  <1>1. Prefix(m) = Slice(m.source, 0, m.regions[1].start)
        /\ Suffix(m) = Slice(m.source, m.regions[n].end, Len(m.source))
    BY DEF Prefix, Suffix, Last
  <1>2. /\ IsPrefix(Prefix(m), s) /\ IsSuffix(Suffix(m), s)
        /\ first <= last
        /\ \E at \in [1..(n - 1) -> first..last] :
             \A k \in DOMAIN at :
               LET end == at[k] + Len(Between(m, k)) IN
               /\ end <= IF k + 1 \in DOMAIN at THEN at[k + 1] ELSE last
               /\ Slice(s, at[k], end) = Between(m, k)
    <2>1. n # 0
      OBVIOUS
    <2>2. IsPrefix(Prefix(m), s) /\ IsSuffix(Suffix(m), s)
      BY <1>1, <2>1, Zenon DEF OutsideKept
    <2>3. first <= last
      BY <1>1, <2>1, Zenon DEF OutsideKept, SuffixStart
    <2>. QED  BY <1>1, <2>1, <2>2, <2>3, Zenon DEF OutsideKept, SuffixStart, Between
  <1>3. PICK at \in [1..(n - 1) -> first..last] :
          \A k \in DOMAIN at :
            LET end == at[k] + Len(Between(m, k)) IN
            /\ end <= IF k + 1 \in DOMAIN at THEN at[k + 1] ELSE last
            /\ Slice(s, at[k], end) = Between(m, k)
    BY <1>2
  <1>4. Kept(m, s, last, at)
    <2>1. DOMAIN at = 1..(n - 1)
      BY <1>3
    <2>. HIDE DEF first
    <2>. QED  BY <1>3, <2>1 DEF Kept, first
  <1>. QED  BY <1>2, <1>4 DEF SuffixKept

\* The search finds places for the groups where there are some.
LEMMA KeptIsFound ==
  ASSUME NEW m \in Sources, NEW gs, Len(m.regions) > 0, GroupsInv(m, Len(m.regions), gs),
         NEW S, NEW s \in Seq(S), Len(Prefix(m)) + Len(Suffix(m)) <= Len(s),
         NEW stop \in Len(Prefix(m))..SuffixStart(m, s), NEW at, Kept(m, s, stop, at),
         NEW ranges, ranges = Boundaries(m, gs, s)
  PROVE  /\ Placed(m, gs, s, Len(gs) - 1, Len(Prefix(m)), ranges)
         /\ ranges[Len(gs)].start <= stop
  <1>. DEFINE len == Len(gs)
              first == Len(Prefix(m))
  <1>1. PICK h : KeptPlaces(m, gs, s, stop, h)
    BY KeptIsChained
  <1>2. /\ Chained(m, gs, s, len - 1, first, h) /\ h[len].start <= stop
    BY <1>1 DEF KeptPlaces
  <1>3. /\ ranges = <<>> \/ Placed(m, gs, s, len - 1, first, ranges)
        /\ Leftmost(m, gs, s, len - 1, first, ranges)
    BY BoundariesArePlaced
  <1>4. len \in Nat /\ len > 0 /\ (len - 1) + 1 = len
    BY GroupsBounds
  <1>5. first \in first..Len(s)
    BY SuffixStartType
  <1>. HIDE DEF first, len
  <1>6. ranges # <<>> /\ ranges[(len - 1) + 1].start <= h[(len - 1) + 1].start
    BY <1>2, <1>3, <1>5 DEF Leftmost
  <1>7. Placed(m, gs, s, len - 1, first, ranges) /\ ranges[len].start <= h[len].start
    BY <1>3, <1>4, <1>6
  <1>8. ranges[len].start \in Nat /\ h[len].start \in Nat /\ stop \in Nat
    <2>1. ranges[len] \in Ranges /\ h[len] \in Ranges
      BY <1>2, <1>4, <1>7 DEF Chained, Placed
    <2>2. stop \in Nat
      BY SuffixStartType
    <2>. QED  BY <2>1, <2>2 DEF Ranges
  <1>. QED  BY <1>2, <1>7, <1>8 DEF len, first

\* Ranges that are not inverted leave the seed check to the seeds.
LEMMA NoneInverted ==
  ASSUME NEW m \in Sources, NEW gs, Len(m.regions) > 0, GroupsInv(m, Len(m.regions), gs),
         NEW ranges \in Seq(Ranges), Len(ranges) = Len(gs), NEW s,
         \A k \in 1..Len(gs) : ranges[k].start <= ranges[k].end
  PROVE  CheckSeeds(m, gs, ranges, s) \in {Plan(m, gs, ranges, s), Refuse("placeholder")}
  <1>. DEFINE n == Len(m.regions)
              range(i) == ranges[GroupOf(gs, m.regions[i])]
              inverted == {i \in DOMAIN m.regions : range(i).start > range(i).end}
              untouched == {i \in DOMAIN m.regions \ inverted :
                              ContainsSeed(Slice(s, range(i).start, range(i).end), Seed(m, i))}
              why == IF Min(inverted \cup untouched) \in untouched THEN "placeholder" ELSE "invalid"
  <1>1. CheckSeeds(m, gs, ranges, s) =
          IF inverted \cup untouched = {} THEN Plan(m, gs, ranges, s) ELSE Refuse(why)
    BY DEF CheckSeeds
  <1>2. DOMAIN m.regions = 1..n /\ n \in Nat
    BY SourceType
  <1>3. inverted = {}
    <2>1. ASSUME NEW i \in 1..n PROVE ~(range(i).start > range(i).end)
      <3>. DEFINE k == GroupOf(gs, m.regions[i])
      <3>1. k \in 1..Len(gs)
        BY GroupOfType
      <3>. HIDE DEF k
      <3>2. ranges[k] \in Ranges /\ ranges[k].start <= ranges[k].end
        <4>1. Len(gs) \in Nat
          BY GroupsBounds
        <4>. QED  BY <3>1, <4>1
      <3>3. range(i) = ranges[k]
        BY DEF k
      <3>. HIDE DEF range
      <3>. QED  BY <3>2, <3>3 DEF Ranges
    <2>. HIDE DEF range
    <2>. QED  BY <1>2, <2>1
  <1>4. untouched \in SUBSET Nat
    BY <1>2
  <1>5. inverted \cup untouched = untouched
    BY <1>3
  <1>6. untouched # {} => Min(untouched) \in untouched
    <2>. HIDE DEF untouched
    <2>. QED  BY <1>4, HasMin
  <1>7. untouched # {} => why = "placeholder"
    <2>. HIDE DEF untouched, inverted
    <2>. QED  BY <1>5, <1>6
  <1>. HIDE DEF untouched, inverted, why
  <1>. QED  BY <1>1, <1>5, <1>7

-------------------------------------------------------------------------------
(***************************************************************************)
(* The plan.                                                               *)
(***************************************************************************)
\* The hunks of the first k groups are in order, and end where those do.
HunksInv(m, gs, H, k, hs) ==
  /\ hs \in Seq(H) /\ Ordered(hs, Len(m.source))
  /\ Len(hs) > 0 => k > 0 /\ hs[Len(hs)].end <= gs[k].end

LEMMA NextHunk ==
  ASSUME NEW m \in Sources, NEW gs, Len(m.regions) > 0, GroupsInv(m, Len(m.regions), gs),
         NEW H, \A x \in H : x.start \in Nat /\ x.end \in Nat,
         NEW k \in 0..(Len(gs) - 1), NEW hs, HunksInv(m, gs, H, k, hs),
         NEW h \in H, h.start = gs[k + 1].start, h.end = gs[k + 1].end
  PROVE  /\ HunksInv(m, gs, H, k + 1, hs)
         /\ HunksInv(m, gs, H, k + 1, Append(hs, h))
  <1>. DEFINE len == Len(hs)
              as == Append(hs, h)
              L == Len(m.source)
  <1>1. /\ hs \in Seq(H) /\ len \in Nat /\ DOMAIN hs = 1..len /\ Ordered(hs, L)
        /\ len > 0 => k > 0 /\ hs[len].end <= gs[k].end
    BY DEF HunksInv
  <1>2. /\ k + 1 \in 1..Len(gs) /\ k + 1 > 0 /\ k \in Nat
        /\ gs[k + 1].start \in Nat /\ gs[k + 1].end \in Nat
        /\ gs[k + 1].start < gs[k + 1].end /\ gs[k + 1].end <= L
    BY GroupsBounds
  <1>3. k > 0 => gs[k].end \in Nat /\ gs[k].end < gs[k + 1].start
    <2>1. k > 0 => k \in 1..Len(gs) /\ k < k + 1
      BY <1>2
    <2>. QED  BY <1>2, <2>1, GroupsBounds
  <1>4. \A i \in 1..len : /\ hs[i].start <= hs[i].end /\ hs[i].end <= L
                          /\ i > 1 => hs[i - 1].end <= hs[i].start
    BY <1>1 DEF Ordered
  <1>5. len > 0 => hs[len].end \in Nat /\ hs[len].end < gs[k + 1].start
    <2>1. len > 0 => hs[len] \in H
      BY <1>1
    <2>. QED  BY <1>1, <1>2, <1>3, <2>1
  <1>6. /\ as \in Seq(H) /\ Len(as) = len + 1 /\ DOMAIN as = 1..(len + 1)
        /\ as[len + 1] = h /\ \A i \in 1..len : as[i] = hs[i]
    BY <1>1
  <1>. HIDE DEF as, len
  <1>7. ASSUME NEW i \in 1..(len + 1)
        PROVE  /\ as[i].start <= as[i].end /\ as[i].end <= L
               /\ i > 1 => as[i - 1].end <= as[i].start
    <2>1. CASE i = len + 1
      <3>1. len \in Nat /\ as[len + 1] = h /\ \A j \in 1..len : as[j] = hs[j]
        BY <1>1, <1>6
      <3>2. as[i] = h /\ i - 1 = len
        BY <2>1, <3>1
      <3>3. i > 1 => len > 0 /\ len \in 1..len
        BY <2>1, <3>1
      <3>4. i > 1 => as[i - 1] = hs[len]
        BY <3>1, <3>2, <3>3
      <3>5. as[i].start = gs[k + 1].start /\ as[i].end = gs[k + 1].end
        BY <3>2
      <3>6. as[i].start <= as[i].end /\ as[i].end <= L
        BY <1>2, <3>5
      <3>7. ASSUME i > 1 PROVE as[i - 1].end <= as[i].start
        <4>1. len > 0 /\ as[i - 1] = hs[len]
          BY <3>3, <3>4, <3>7
        <4>2. hs[len].end <= gs[k + 1].start
          <5>1. \A x, y \in Nat : x < y => x <= y
            OBVIOUS
          <5>. QED  BY <1>2, <1>5, <4>1, <5>1
        <4>. QED  BY <3>5, <4>1, <4>2
      <3>. QED  BY <3>6, <3>7
    <2>2. CASE i # len + 1
      <3>1. i \in 1..len /\ (i > 1 => i - 1 \in 1..len)
        BY <1>1, <2>2
      <3>. QED  BY <1>4, <1>6, <3>1
    <2>. QED  BY <2>1, <2>2
  <1>8. Ordered(as, L)
    BY <1>6, <1>7 DEF Ordered
  <1>9. h.end <= gs[k + 1].end
    BY <1>2
  <1>10. HunksInv(m, gs, H, k + 1, as)
    BY <1>2, <1>6, <1>8, <1>9 DEF HunksInv
  <1>11. len > 0 => hs[len].end <= gs[k + 1].end
    BY <1>2, <1>5
  <1>12. HunksInv(m, gs, H, k + 1, hs)
    BY <1>1, <1>2, <1>11 DEF HunksInv, len
  <1>. QED  BY <1>10, <1>12 DEF as

\* The hunks of the first groups, for each number of them.
HunksOf(c, m, gs, ranges, s) ==
  LET hunk(k) == Hunk(gs[k], ranges[k], s) IN
  /\ c[0] = <<>>
  /\ \A k \in 1..Len(gs) :
       c[k] = IF hunk(k).replacement = Slice(m.source, hunk(k).start, hunk(k).end)
              THEN c[k - 1] ELSE Append(c[k - 1], hunk(k))
  /\ Hunks(m, gs, ranges, s) = c[Len(gs)]

LEMMA HunksAre ==
  ASSUME NEW m \in Sources, NEW gs, Len(gs) \in Nat, NEW ranges, NEW s
  PROVE  \E c : HunksOf(c, m, gs, ranges, s)
  <1>. DEFINE n == Len(gs)
              hunk(k) == Hunk(gs[k], ranges[k], s)
              H == {hunk(k) : k \in 1..n}
              T == Seq(H)
              same(k) == hunk(k).replacement = Slice(m.source, hunk(k).start, hunk(k).end)
              next(k, hs) == IF same(k) THEN hs ELSE Append(hs, hunk(k))
              step == [k \in 1..n |-> [hs \in T |-> next(k, hs)]]
              from(f) == [k \in 0..n |->
                            IF k = 0 THEN <<>>
                            ELSE IF hunk(k).replacement
                                      = Slice(m.source, hunk(k).start, hunk(k).end)
                            THEN f[k - 1]
                            ELSE Append(f[k - 1], hunk(k))]
              c == CHOOSE f : f = from(f)
  <1>1. n \in Nat
    OBVIOUS
  <1>2. \A k \in 1..n : hunk(k) \in H
    OBVIOUS
  <1>3. Hunks(m, gs, ranges, s) = c[n]
    BY DEF Hunks
  <1>. HIDE DEF hunk, H
  <1>4. ASSUME NEW k \in 1..n, NEW hs \in T
        PROVE  next(k, hs) \in T
    <2>. HIDE DEF same
    <2>. QED  BY <1>2
  <1>5. step \in [1..n -> [T -> T]] /\ <<>> \in T
    <2>. HIDE DEF next
    <2>. QED  BY <1>4
  <1>6. PICK g : Iterates(g, n, T, <<>>, step)
    <2>. HIDE DEF step, T, n
    <2>. QED  BY <1>1, <1>5, Recursion
  <1>7. \A f : from(f) = [k \in 0..n |-> IF k = 0 THEN <<>> ELSE next(k, f[k - 1])]
    OBVIOUS
  <1>. HIDE DEF from
  <1>8. g = from(g)
    <2>1. g \in [0..n -> T] /\ g[0] = <<>> /\ \A k \in 1..n : g[k] = step[k][g[k - 1]]
      <3>. HIDE DEF step, T, n
      <3>. QED  BY <1>6 DEF Iterates
    <2>2. ASSUME NEW k \in 0..n
          PROVE  g[k] = IF k = 0 THEN <<>> ELSE next(k, g[k - 1])
      <3>1. CASE k = 0
        BY <3>1, <2>1
      <3>2. CASE k # 0
        <4>1. k \in 1..n /\ k - 1 \in 0..n
          BY <3>2, <1>1
        <4>2. g[k] = step[k][g[k - 1]] /\ g[k - 1] \in T
          <5>. HIDE DEF step, T
          <5>. QED  BY <2>1, <4>1
        <4>. HIDE DEF next, T
        <4>. QED  BY <3>2, <4>1, <4>2
      <3>. QED  BY <3>1, <3>2
    <2>3. g = [k \in 0..n |-> g[k]]
      BY <2>1
    <2>. HIDE DEF next, n
    <2>4. [k \in 0..n |-> g[k]] = [k \in 0..n |-> IF k = 0 THEN <<>> ELSE next(k, g[k - 1])]
      BY <2>2
    <2>. QED  BY <1>7, <2>3, <2>4
  <1>9. c = from(c)
    BY <1>8
  <1>. HIDE DEF c
  <1>10. \A k \in 0..n : c[k] = IF k = 0 THEN <<>> ELSE next(k, c[k - 1])
    <2>. HIDE DEF next
    <2>. QED  BY <1>7, <1>9
  <1>11. c[0] = <<>> /\ \A k \in 1..n : c[k] = next(k, c[k - 1])
    <2>. HIDE DEF next
    <2>. QED  BY <1>1, <1>10
  <1>12. HunksOf(c, m, gs, ranges, s)
    BY <1>3, <1>11 DEF HunksOf, hunk
  <1>. QED  BY <1>12

\* A hunk for each group.
HunkSet(gs, ranges, s) == {Hunk(gs[k], ranges[k], s) : k \in 1..Len(gs)}

LEMMA HunksAreOrdered ==
  ASSUME NEW m \in Sources, NEW gs, Len(m.regions) > 0, GroupsInv(m, Len(m.regions), gs),
         NEW ranges, NEW s
  PROVE  /\ ValidPlan(Hunks(m, gs, ranges, s), Len(m.source))
         /\ Hunks(m, gs, ranges, s) \in Seq(HunkSet(gs, ranges, s))
  <1>. DEFINE n == Len(gs)
              hunk(k) == Hunk(gs[k], ranges[k], s)
              H == {hunk(k) : k \in 1..n}
  <1>1. n \in Nat /\ n > 0
    BY GroupsBounds
  <1>2. \A k \in 1..n : hunk(k) \in H
    OBVIOUS
  <1>3. \A k \in 1..n : hunk(k).start = gs[k].start /\ hunk(k).end = gs[k].end
    BY DEF Hunk
  <1>4. \A h \in H : h.start \in Nat /\ h.end \in Nat
    <2>1. \A k \in 1..n : hunk(k).start \in Nat /\ hunk(k).end \in Nat
      BY <1>3, GroupsBounds
    <2>. HIDE DEF hunk
    <2>. QED  BY <2>1
  <1>5. PICK c : HunksOf(c, m, gs, ranges, s)
    BY <1>1, HunksAre
  <1>. DEFINE A == {k \in 0..n : HunksInv(m, gs, H, k, c[k])}
  <1>6. /\ c[0] = <<>> /\ Hunks(m, gs, ranges, s) = c[n]
        /\ \A k \in 1..n : c[k] = c[k - 1] \/ c[k] = Append(c[k - 1], hunk(k))
    BY <1>5 DEF HunksOf
  <1>. HIDE DEF hunk, H
  <1>7. 0 \in A
    <2>1. <<>> \in Seq(H) /\ Len(<<>>) = 0 /\ Ordered(<<>>, Len(m.source))
      BY DEF Ordered
    <2>2. HunksInv(m, gs, H, 0, <<>>)
      BY <2>1 DEF HunksInv
    <2>. QED  BY <1>1, <1>6, <2>2
  <1>8. ASSUME NEW k \in 0..(n - 1), k \in A
        PROVE  k + 1 \in A
    <2>1. k + 1 \in 0..n /\ k + 1 \in 1..n /\ (k + 1) - 1 = k
      BY <1>1
    <2>2. c[k + 1] = c[k] \/ c[k + 1] = Append(c[k], hunk(k + 1))
      BY <1>6, <2>1
    <2>3. HunksInv(m, gs, H, k, c[k])
      BY <1>8
    <2>4. /\ HunksInv(m, gs, H, k + 1, c[k])
          /\ HunksInv(m, gs, H, k + 1, Append(c[k], hunk(k + 1)))
      BY <1>2, <1>3, <1>4, <2>1, <2>3, NextHunk
    <2>. QED  BY <2>1, <2>2, <2>4
  <1>9. n \in A
    <2>1. \A k \in 0..(n - 1) : k \in A => k + 1 \in A
      BY <1>8
    <2>. HIDE DEF A, n
    <2>2. 0..n \subseteq A
      BY <1>1, <1>7, <2>1, Induction
    <2>. QED  BY <1>1, <2>2
  <1>. QED  BY <1>6, <1>9 DEF HunksInv, ValidPlan, H, hunk, HunkSet

-------------------------------------------------------------------------------
(***************************************************************************)
(* The plan makes the resolved file.                                       *)
(***************************************************************************)
LEMMA PrefixIs ==
  ASSUME NEW S, NEW p \in Seq(S), NEW T, NEW s \in Seq(T), IsPrefix(p, s)
  PROVE  Len(p) <= Len(s) /\ Slice(s, 0, Len(p)) = p
  <1>1. Len(p) \in Nat /\ Len(p) <= Len(s) /\ SubSeq(p, 1, Len(p)) = SubSeq(s, 1, Len(p))
    BY DEF IsPrefix
  <1>2. SubSeq(p, 1, Len(p)) = p
    OBVIOUS
  <1>3. Slice(s, 0, Len(p)) = SubSeq(s, 1, Len(p))
    BY DEF Slice
  <1>. QED  BY <1>1, <1>2, <1>3

LEMMA SuffixIs ==
  ASSUME NEW S, NEW q \in Seq(S), NEW T, NEW s \in Seq(T), IsSuffix(q, s)
  PROVE  Len(q) <= Len(s) /\ Slice(s, Len(s) - Len(q), Len(s)) = q
  <1>. DEFINE l == Len(q)
              n == Len(s)
              rq == Reverse(q)
              rs == Reverse(s)
  <1>1. l \in Nat /\ n \in Nat
    OBVIOUS
  <1>2. /\ Len(rq) = l /\ Len(rs) = n
        /\ \A i \in 1..l : rq[i] = q[l - i + 1]
        /\ \A i \in 1..n : rs[i] = s[n - i + 1]
    <2>1. rq = [i \in 1..l |-> q[l - i + 1]] /\ rs = [i \in 1..n |-> s[n - i + 1]]
      BY DEF Reverse
    <2>2. rq \in [1..l -> S] /\ rs \in [1..n -> T]
      BY <1>1, <2>1
    <2>. HIDE DEF rq, rs
    <2>3. Len(rq) = l /\ Len(rs) = n
      BY <1>1, <2>2, IsASeq
    <2>. QED  BY <2>1, <2>3
  <1>3. l <= n /\ SubSeq(rq, 1, l) = SubSeq(rs, 1, l)
    BY <1>2 DEF IsSuffix, IsPrefix
  <1>. HIDE DEF rq, rs
  <1>4. ASSUME NEW i \in 1..l PROVE q[i] = s[(n - l) + i]
    <2>. DEFINE j == l - i + 1
    <2>1. j \in 1..l /\ j \in 1..n /\ l - j + 1 = i /\ n - j + 1 = (n - l) + i
      BY <1>1, <1>3
    <2>2. SubSeq(rq, 1, l)[j] = rq[j] /\ SubSeq(rs, 1, l)[j] = rs[j]
      BY <1>1, <2>1
    <2>3. rq[j] = rs[j]
      BY <1>3, <2>2
    <2>. HIDE DEF j
    <2>4. rq[j] = q[l - j + 1] /\ rs[j] = s[n - j + 1]
      BY <1>2, <2>1
    <2>. QED  BY <2>1, <2>3, <2>4
  <1>5. /\ Slice(s, n - l, n) \in Seq(T) /\ Len(Slice(s, n - l, n)) = l
        /\ \A i \in 1..l : Slice(s, n - l, n)[i] = s[(n - l) + i]
    BY <1>1, <1>3 DEF Slice
  <1>. HIDE DEF l, n
  <1>6. Slice(s, n - l, n) = q
    BY <1>4, <1>5 DEF l
  <1>. QED  BY <1>3, <1>6 DEF l, n

\* What the hunks make of the source up to the end of the last one.
Made(src, hs) ==
  LET from(k) == IF k = 0 THEN 0 ELSE hs[k].end IN
  FlattenSeq([k \in DOMAIN hs |->
                Slice(src, from(k - 1), hs[k].start) \o hs[k].replacement])

DoneUpTo(hs) == IF Len(hs) = 0 THEN 0 ELSE hs[Len(hs)].end

MadeOneMore(src, hs, h) ==
  /\ Made(src, Append(hs, h))
       = Made(src, hs) \o (Slice(src, DoneUpTo(hs), h.start) \o h.replacement)
  /\ DoneUpTo(Append(hs, h)) = h.end
  /\ DoneUpTo(hs) \in Nat

LEMMA MadeAppend ==
  ASSUME NEW S, NEW src \in Seq(S), NEW H,
         \A x \in H : x.start \in Nat /\ x.end \in Nat /\ x.replacement \in Seq(S),
         NEW hs \in Seq(H), Ordered(hs, Len(src)),
         NEW h \in H, h.start <= Len(src)
  PROVE  MadeOneMore(src, hs, h)
  <1>. DEFINE len == Len(hs)
              from(k) == IF k = 0 THEN 0 ELSE hs[k].end
              piece(k) == Slice(src, from(k - 1), hs[k].start) \o hs[k].replacement
              pieces == [k \in 1..len |-> piece(k)]
              last == Slice(src, DoneUpTo(hs), h.start) \o h.replacement
              as == Append(hs, h)
              asFrom(k) == IF k = 0 THEN 0 ELSE as[k].end
              asPiece(k) == Slice(src, asFrom(k - 1), as[k].start) \o as[k].replacement
              more == [k \in 1..(len + 1) |-> asPiece(k)]
  <1>1. /\ len \in Nat /\ DOMAIN hs = 1..len
        /\ \A k \in 1..len : hs[k] \in H
    OBVIOUS
  <1>2. \A k \in 1..len : /\ hs[k].start \in Nat /\ hs[k].end \in Nat
                          /\ hs[k].replacement \in Seq(S)
    BY <1>1
  <1>3. \A k \in 1..len : hs[k].start \in 0..Len(src)
    <2>1. \A k \in 1..len : hs[k].start <= hs[k].end /\ hs[k].end <= Len(src)
      BY <1>1 DEF Ordered
    <2>2. Len(src) \in Nat
      OBVIOUS
    <2>. QED  BY <1>2, <2>1, <2>2
  <1>4. \A k \in 0..len : from(k) \in Nat
    BY <1>1, <1>2
  <1>5. DoneUpTo(hs) = from(len)
    BY DEF DoneUpTo
  <1>6. last \in Seq(S)
    <2>1. from(len) \in Nat /\ h.start \in 0..Len(src) /\ h.replacement \in Seq(S)
      BY <1>1, <1>4
    <2>. HIDE DEF from
    <2>2. Slice(src, DoneUpTo(hs), h.start) \in Seq(S)
      BY <1>5, <2>1, SliceType
    <2>. QED  BY <2>1, <2>2
  <1>7. ASSUME NEW k \in 1..len PROVE piece(k) \in Seq(S)
    <2>1. k - 1 \in 0..len
      BY <1>1
    <2>2. from(k - 1) \in Nat
      BY <1>4, <2>1
    <2>. HIDE DEF from
    <2>3. Slice(src, from(k - 1), hs[k].start) \in Seq(S)
      BY <1>3, <2>2, SliceType
    <2>. QED  BY <1>2, <2>3
  <1>8. pieces \in [1..len -> Seq(S)]
    <2>. HIDE DEF piece
    <2>. QED  BY <1>7
  <1>9. /\ Len(as) = len + 1 /\ DOMAIN as = 1..(len + 1) /\ as[len + 1] = h
        /\ \A k \in 1..len : as[k] = hs[k]
    OBVIOUS
  <1>. HIDE DEF as, len
  <1>10. ASSUME NEW k \in 0..len PROVE asFrom(k) = from(k)
    <2>1. CASE k = 0
      BY <2>1
    <2>2. CASE k # 0
      <3>1. k \in 1..len
        BY <1>1, <2>2
      <3>2. as[k] = hs[k]
        BY <1>9, <3>1
      <3>. QED  BY <2>2, <3>2
    <2>. QED  BY <2>1, <2>2
  <1>11. ASSUME NEW k \in 1..(len + 1)
         PROVE  asPiece(k) = IF k = len + 1 THEN last ELSE pieces[k]
    <2>1. k - 1 \in 0..len
      BY <1>1
    <2>2. asFrom(k - 1) = from(k - 1)
      BY <1>10, <2>1
    <2>. HIDE DEF from, asFrom
    <2>3. CASE k = len + 1
      <3>1. k - 1 = len
        BY <1>1, <2>3
      <3>. QED  BY <1>5, <1>9, <2>2, <2>3, <3>1
    <2>4. CASE k # len + 1
      <3>1. k \in 1..len
        BY <1>1, <2>4
      <3>2. asPiece(k) = piece(k)
        BY <1>9, <2>2, <3>1
      <3>3. pieces[k] = piece(k)
        <4>. HIDE DEF piece
        <4>. QED  BY <3>1
      <3>. QED  BY <2>4, <3>2, <3>3
    <2>. QED  BY <2>3, <2>4
  <1>12. Made(src, hs) = FlattenSeq(pieces)
    BY <1>1 DEF Made
  <1>13. Made(src, as) = FlattenSeq(more)
    BY <1>9 DEF Made
  <1>. HIDE DEF asPiece, pieces, last
  <1>14. more = Extended(len, pieces, last)
    BY <1>11 DEF Extended
  <1>. HIDE DEF more
  <1>15. FlattenSeq(more) = FlattenSeq(pieces) \o last
    BY <1>1, <1>6, <1>8, <1>14, FlattenAppend
  <1>16. DoneUpTo(as) = h.end
    BY <1>1, <1>9 DEF DoneUpTo
  <1>17. DoneUpTo(hs) \in Nat
    <2>1. len \in 0..len
      BY <1>1
    <2>. HIDE DEF from
    <2>. QED  BY <1>4, <1>5, <2>1
  <1>. QED  BY <1>12, <1>13, <1>15, <1>16, <1>17 DEF MadeOneMore, as, last

\* Four sequences make the same, however they are put together.
Regrouped(M, X, Y, Z) ==
  /\ M \o ((X \o Y) \o Z) = ((M \o X) \o Y) \o Z
  /\ (M \o (X \o Y)) \o Z = ((M \o X) \o Y) \o Z

LEMMA Regroup ==
  ASSUME NEW S, NEW M \in Seq(S), NEW X \in Seq(S), NEW Y \in Seq(S), NEW Z \in Seq(S)
  PROVE  Regrouped(M, X, Y, Z)
  <1>1. X \o Y \in Seq(S)
    BY ConcatProperties
  <1>2. M \o ((X \o Y) \o Z) = (M \o (X \o Y)) \o Z
    BY <1>1, ConcatAssociative
  <1>3. M \o (X \o Y) = (M \o X) \o Y
    BY ConcatAssociative
  <1>. QED  BY <1>2, <1>3, Zenon DEF Regrouped

\* Where what follows the group ends in the source, and in the resolved file.
AfterGroup(m, gs, k) == IF k < Len(gs) THEN gs[k + 1].start ELSE Len(m.source)
AfterPlace(gs, ranges, s, k) == IF k < Len(gs) THEN ranges[k + 1].start ELSE Len(s)

\* Places that are all in order: what follows each is what follows its group.
Matched(m, gs, ranges, s) ==
  /\ Slice(m.source, 0, AfterGroup(m, gs, 0)) = Slice(s, 0, AfterPlace(gs, ranges, s, 0))
  /\ \A k \in 1..Len(gs) :
       /\ AfterGroup(m, gs, k - 1) = gs[k].start
       /\ AfterPlace(gs, ranges, s, k - 1) = ranges[k].start
       /\ gs[k].start \in Nat /\ gs[k].end \in Nat /\ AfterGroup(m, gs, k) \in Nat
       /\ gs[k].start <= gs[k].end /\ gs[k].end <= AfterGroup(m, gs, k)
       /\ AfterGroup(m, gs, k) <= Len(m.source)
       /\ ranges[k].start \in Nat /\ ranges[k].end \in Nat
       /\ AfterPlace(gs, ranges, s, k) \in Nat
       /\ ranges[k].start <= ranges[k].end
       /\ ranges[k].end <= AfterPlace(gs, ranges, s, k)
       /\ AfterPlace(gs, ranges, s, k) <= Len(s)
       /\ Slice(m.source, gs[k].end, AfterGroup(m, gs, k))
            = Slice(s, ranges[k].end, AfterPlace(gs, ranges, s, k))

LEMMA PlacedMatches ==
  ASSUME NEW m \in Sources, NEW gs, Len(m.regions) > 0, GroupsInv(m, Len(m.regions), gs),
         NEW S, NEW s \in Seq(S), Len(Prefix(m)) + Len(Suffix(m)) <= Len(s),
         IsPrefix(Prefix(m), s), SuffixKept(m, s),
         NEW ranges, Placed(m, gs, s, Len(gs) - 1, Len(Prefix(m)), ranges),
         ranges[Len(gs)].start <= ranges[Len(gs)].end
  PROVE  Matched(m, gs, ranges, s)
  <1>. DEFINE len == Len(gs)
              L == Len(m.source)
              last == SuffixStart(m, s)
              after(k) == AfterGroup(m, gs, k)
              then(k) == AfterPlace(gs, ranges, s, k)
  <1>1. /\ len \in Nat /\ len > 0 /\ L \in Nat /\ Len(s) \in Nat
        /\ \A k \in 1..len : /\ gs[k].start \in Nat /\ gs[k].end \in Nat
                             /\ gs[k].start < gs[k].end /\ gs[k].end <= L
        /\ \A k, l \in 1..len : k < l => gs[k].end < gs[l].start
    BY GroupsBounds, SourceType
  <1>2. last \in Nat /\ last <= Len(s) /\ Len(Prefix(m)) \in Nat
    BY SuffixStartType
  <1>3. /\ ranges \in Seq(Ranges) /\ Len(ranges) = len
        /\ ranges[1].start = Len(Prefix(m)) /\ ranges[len].end = last
        /\ \A j \in 1..(len - 1) :
             /\ ranges[j].start <= ranges[j].end /\ ranges[j].end <= last
             /\ ranges[j + 1].start = ranges[j].end + Len(Separator(m, gs, j))
             /\ Slice(s, ranges[j].end, ranges[j + 1].start) = Separator(m, gs, j)
    <2>1. (len - 1) + 1 = len /\ \A j \in 1..(len - 1) : len - (len - 1) + j - 1 = j
      BY <1>1
    <2>2. Placed(m, gs, s, len - 1, Len(Prefix(m)), ranges)
      OBVIOUS
    <2>. HIDE DEF len
    <2>. QED  BY <2>1, <2>2 DEF Placed, len, last
  <1>4. \A j \in 1..len : /\ ranges[j].start \in Nat /\ ranges[j].end \in Nat
                          /\ ranges[j].start <= ranges[j].end /\ ranges[j].end <= last
    <2>1. \A j \in 1..len : ranges[j] \in Ranges
      BY <1>3
    <2>2. ranges[len].start <= ranges[len].end
      OBVIOUS
    <2>3. \A j \in 1..len : j # len => j \in 1..(len - 1)
      BY <1>1
    <2>4. \A j \in 1..len : ranges[j].start \in Nat /\ ranges[j].end \in Nat
      BY <2>1 DEF Ranges
    <2>. HIDE DEF len, last
    <2>. QED  BY <1>2, <1>3, <2>2, <2>3, <2>4 DEF len
  <1>5. \A j \in 1..(len - 1) : Len(Separator(m, gs, j)) \in Nat
    BY SeparatorType
  <1>. HIDE DEF L, last
  <1>6. Slice(m.source, 0, after(0)) = Slice(s, 0, then(0))
    <2>1. after(0) = gs[1].start /\ then(0) = ranges[1].start
      <3>1. 0 < len /\ 0 + 1 = 1
        BY <1>1
      <3>. QED  BY <3>1 DEF AfterGroup, AfterPlace
    <2>2. gs[1].start = m.regions[1].start
      BY DEF GroupsInv
    <2>3. Slice(m.source, 0, after(0)) = Prefix(m)
      BY <2>1, <2>2 DEF Prefix
    <2>4. Prefix(m) \in Seq(Range(m.source))
      <3>1. m.regions[1].start \in 0..L
        BY <1>1, <2>2 DEF L
      <3>. QED  BY <3>1, SourceType, SliceType DEF Prefix, L
    <2>5. Slice(s, 0, Len(Prefix(m))) = Prefix(m)
      BY <2>4, PrefixIs
    <2>. QED  BY <1>3, <2>1, <2>3, <2>5
  <1>7. ASSUME NEW k \in 1..len
        PROVE  /\ after(k - 1) = gs[k].start /\ then(k - 1) = ranges[k].start
               /\ after(k) \in Nat /\ gs[k].end <= after(k) /\ after(k) <= L
               /\ then(k) \in Nat /\ ranges[k].end <= then(k) /\ then(k) <= Len(s)
               /\ Slice(m.source, gs[k].end, after(k)) = Slice(s, ranges[k].end, then(k))
    <2>1. after(k - 1) = gs[k].start /\ then(k - 1) = ranges[k].start
      <3>1. k - 1 < len /\ (k - 1) + 1 = k
        BY <1>1
      <3>. QED  BY <3>1 DEF AfterGroup, AfterPlace
    <2>2. CASE k = len
      <3>1. after(k) = L /\ then(k) = Len(s)
        BY <1>1, <2>2 DEF AfterGroup, AfterPlace, L
      <3>2. gs[k].end = m.regions[Len(m.regions)].end
        BY <2>2 DEF GroupsInv
      <3>3. Slice(m.source, gs[k].end, after(k)) = Suffix(m)
        BY <3>1, <3>2 DEF Suffix, Last, L
      <3>4. Suffix(m) \in Seq(Range(m.source))
        <4>1. gs[k].end \in Nat /\ L \in 0..Len(m.source)
          BY <1>1 DEF L
        <4>2. Slice(m.source, gs[k].end, L) \in Seq(Range(m.source))
          BY <4>1, SourceType, SliceType
        <4>. QED  BY <3>1, <3>3, <4>2
      <3>5. Slice(s, Len(s) - Len(Suffix(m)), Len(s)) = Suffix(m)
        BY <3>4, SuffixIs DEF SuffixKept
      <3>6. ranges[k].end = Len(s) - Len(Suffix(m))
        BY <1>3, <2>2 DEF last, SuffixStart
      <3>. HIDE DEF after, then, len
      <3>7. ranges[k].end <= then(k) /\ gs[k].end <= after(k)
        BY <1>1, <1>2, <1>4, <3>1
      <3>. QED  BY <1>1, <2>1, <3>1, <3>3, <3>5, <3>6, <3>7
    <2>3. CASE k # len
      <3>1. k \in 1..(len - 1) /\ k + 1 \in 1..len /\ k < len /\ k < k + 1
        BY <1>1, <2>3
      <3>2. after(k) = gs[k + 1].start /\ then(k) = ranges[k + 1].start
        BY <3>1 DEF AfterGroup, AfterPlace
      <3>. HIDE DEF after, then, len
      <3>3. /\ gs[k].end < after(k) /\ gs[k].end \in Nat /\ after(k) \in Nat
            /\ after(k) < gs[k + 1].end /\ gs[k + 1].end <= L /\ gs[k + 1].end \in Nat
        BY <1>1, <3>1, <3>2
      <3>4. gs[k].end <= after(k) /\ after(k) <= L
        BY <1>1, <3>3
      <3>5. /\ then(k) = ranges[k].end + Len(Separator(m, gs, k))
            /\ Slice(s, ranges[k].end, then(k)) = Separator(m, gs, k)
        BY <1>3, <3>1, <3>2
      <3>6. /\ then(k) \in Nat /\ then(k) <= ranges[k + 1].end
            /\ ranges[k + 1].end <= last /\ ranges[k + 1].end \in Nat
            /\ ranges[k].end \in Nat /\ Len(Separator(m, gs, k)) \in Nat
        BY <1>4, <1>5, <3>1, <3>2
      <3>7. ranges[k].end <= then(k) /\ then(k) <= Len(s)
        <4>1. ranges[k].end <= then(k)
          <5>1. \A x, y \in Nat : x <= x + y
            OBVIOUS
          <5>. QED  BY <3>5, <3>6, <5>1
        <4>2. last \in Nat /\ last <= Len(s) /\ Len(s) \in Nat
          BY <1>1, <1>2
        <4>. HIDE DEF last
        <4>3. then(k) <= Len(s)
          BY <3>6, <4>2
        <4>. QED  BY <4>1, <4>3
      <3>8. Slice(m.source, gs[k].end, after(k)) = Separator(m, gs, k)
        BY <3>2 DEF Separator
      <3>. QED  BY <2>1, <3>3, <3>4, <3>5, <3>6, <3>7, <3>8
    <2>. QED  BY <2>2, <2>3
  <1>8. \A k \in 1..len : gs[k].start <= gs[k].end
    BY <1>1
  <1>. HIDE DEF after, then, len
  <1>. QED  BY <1>1, <1>4, <1>6, <1>7, <1>8 DEF Matched, len, L, after, then

\* The hunks of the first k groups make the resolved file up to the next one.
MadeInv(m, gs, ranges, s, S, H, k, hs) ==
  /\ HunksInv(m, gs, H, k, hs)
  /\ Made(m.source, hs) \in Seq(S)
  /\ Made(m.source, hs) \o Slice(m.source, DoneUpTo(hs), AfterGroup(m, gs, k))
       = Slice(s, 0, AfterPlace(gs, ranges, s, k))

LEMMA NextMade ==
  ASSUME NEW m \in Sources, NEW gs, Len(m.regions) > 0, GroupsInv(m, Len(m.regions), gs),
         NEW S, m.source \in Seq(S), NEW s \in Seq(S),
         NEW ranges, Matched(m, gs, ranges, s),
         NEW H, \A x \in H : x.start \in Nat /\ x.end \in Nat /\ x.replacement \in Seq(S),
         NEW k \in 0..(Len(gs) - 1), NEW hs, MadeInv(m, gs, ranges, s, S, H, k, hs),
         NEW h \in H, h = Hunk(gs[k + 1], ranges[k + 1], s)
  PROVE  /\ h.replacement = Slice(m.source, h.start, h.end) =>
              MadeInv(m, gs, ranges, s, S, H, k + 1, hs)
         /\ MadeInv(m, gs, ranges, s, S, H, k + 1, Append(hs, h))
  <1>. DEFINE src == m.source
              a == gs[k + 1].start
              b == gs[k + 1].end
              c == AfterGroup(m, gs, k + 1)
              ra == ranges[k + 1].start
              rb == ranges[k + 1].end
              rc == AfterPlace(gs, ranges, s, k + 1)
              M == Made(src, hs)
              D == DoneUpTo(hs)
              as == Append(hs, h)
  <1>1. Len(gs) \in Nat /\ k \in Nat /\ k + 1 \in 1..Len(gs) /\ (k + 1) - 1 = k
    BY GroupsBounds
  <1>2. /\ AfterGroup(m, gs, k) = a /\ AfterPlace(gs, ranges, s, k) = ra
        /\ a \in Nat /\ b \in Nat /\ c \in Nat /\ a <= b /\ b <= c /\ c <= Len(src)
        /\ ra \in Nat /\ rb \in Nat /\ rc \in Nat /\ ra <= rb /\ rb <= rc /\ rc <= Len(s)
        /\ Slice(src, b, c) = Slice(s, rb, rc)
    BY <1>1 DEF Matched
  <1>3. /\ HunksInv(m, gs, H, k, hs) /\ M \in Seq(S)
        /\ M \o Slice(src, D, a) = Slice(s, 0, ra)
    BY <1>2 DEF MadeInv
  <1>4. h.start = a /\ h.end = b /\ h.replacement = Slice(s, ra, rb)
    BY DEF Hunk
  <1>5. /\ HunksInv(m, gs, H, k + 1, hs) /\ HunksInv(m, gs, H, k + 1, as)
    BY <1>3, <1>4, NextHunk
  <1>6. hs \in Seq(H) /\ Ordered(hs, Len(src)) /\ Len(src) \in Nat /\ Len(s) \in Nat
    BY <1>3 DEF HunksInv
  <1>7. /\ Made(src, as) = M \o (Slice(src, D, a) \o Slice(s, ra, rb))
        /\ DoneUpTo(as) = b /\ D \in Nat
    <2>1. h.start <= Len(src)
      BY <1>2, <1>4, <1>6
    <2>2. MadeOneMore(src, hs, h)
      BY <1>6, <2>1, MadeAppend
    <2>. HIDE DEF a, b, ra, rb
    <2>. QED  BY <1>4, <2>2 DEF MadeOneMore
  <1>8. D <= a
    <2>1. CASE Len(hs) = 0
      BY <1>2, <2>1 DEF DoneUpTo
    <2>2. CASE Len(hs) # 0
      <3>1. Len(hs) \in Nat /\ Len(hs) > 0
        BY <1>6, <2>2
      <3>2. k > 0 /\ hs[Len(hs)].end <= gs[k].end
        BY <1>3, <3>1 DEF HunksInv
      <3>3. gs[k].end < a /\ gs[k].end \in Nat
        <4>1. k \in 1..Len(gs) /\ k < k + 1
          BY <1>1, <3>2
        <4>. QED  BY <1>1, <4>1, GroupsBounds
      <3>4. D = hs[Len(hs)].end
        BY <2>2 DEF DoneUpTo
      <3>. HIDE DEF D, a
      <3>. QED  BY <1>2, <1>7, <3>2, <3>3, <3>4
    <2>. QED  BY <2>1, <2>2
  <1>. HIDE DEF a, b, c, ra, rb, rc, M, D, as, src
  <1>. DEFINE X == Slice(src, D, a)
              Y == Slice(src, a, b)
              Z == Slice(src, b, c)
              RY == Slice(s, ra, rb)
  <1>9. src \in Seq(S)
    BY DEF src
  <1>10. X \in Seq(S) /\ Y \in Seq(S) /\ Z \in Seq(S) /\ RY \in Seq(S)
    <2>1. a \in 0..Len(src) /\ b \in 0..Len(src) /\ c \in 0..Len(src) /\ rb \in 0..Len(s)
      BY <1>2, <1>6
    <2>. QED  BY <1>2, <1>7, <1>9, <2>1, SliceType
  <1>11. Slice(src, D, b) = X \o Y /\ Slice(src, D, c) = (X \o Y) \o Z
    <2>1. b <= Len(src) /\ D <= b
      BY <1>2, <1>6, <1>7, <1>8
    <2>2. Parted(src, D, a, b) /\ Parted(src, D, b, c)
      BY <1>2, <1>7, <1>8, <1>9, <2>1, SliceConcat
    <2>. QED  BY <2>2 DEF Parted
  <1>12. ((M \o X) \o RY) \o Z = Slice(s, 0, rc)
    <2>1. M \o X = Slice(s, 0, ra)
      BY <1>3
    <2>2. rb <= Len(s) /\ 0 \in Nat /\ 0 <= ra /\ 0 <= rb
      BY <1>2, <1>6
    <2>3. Parted(s, 0, ra, rb) /\ Parted(s, 0, rb, rc)
      BY <1>2, <2>2, SliceConcat
    <2>. QED  BY <1>2, <2>1, <2>3 DEF Parted
  <1>. HIDE DEF X, Y, Z, RY
  <1>13. ASSUME h.replacement = Slice(src, h.start, h.end)
         PROVE  MadeInv(m, gs, ranges, s, S, H, k + 1, hs)
    <2>1. RY = Y
      BY <1>4, <1>13 DEF RY, Y
    <2>2. Regrouped(M, X, Y, Z)
      BY <1>3, <1>10, Regroup
    <2>3. M \o Slice(src, D, c) = Slice(s, 0, rc)
      BY <1>11, <1>12, <2>1, <2>2 DEF Regrouped
    <2>. QED  BY <1>3, <1>5, <2>3 DEF MadeInv, M, D, c, rc, src
  <1>14. MadeInv(m, gs, ranges, s, S, H, k + 1, as)
    <2>1. Regrouped(M, X, RY, Z)
      BY <1>3, <1>10, Regroup
    <2>2. Made(src, as) = M \o (X \o RY)
      BY <1>7 DEF X, RY
    <2>3. M \o (X \o RY) \in Seq(S)
      <3>1. X \o RY \in Seq(S)
        BY <1>10, ConcatProperties
      <3>. QED  BY <1>3, <3>1, ConcatProperties
    <2>4. Made(src, as) \o Slice(src, DoneUpTo(as), c) = Slice(s, 0, rc)
      BY <1>7, <1>12, <2>1, <2>2 DEF Z, Regrouped
    <2>. QED  BY <1>5, <2>2, <2>3, <2>4 DEF MadeInv, c, rc, src
  <1>. QED  BY <1>13, <1>14 DEF as, src

LEMMA HunksReconstruct ==
  ASSUME NEW m \in Sources, NEW gs, Len(m.regions) > 0, GroupsInv(m, Len(m.regions), gs),
         NEW S, m.source \in Seq(S), NEW s \in Seq(S),
         NEW ranges, Matched(m, gs, ranges, s)
  PROVE  Reconstructed(m.source, Hunks(m, gs, ranges, s)) = s
  <1>. DEFINE n == Len(gs)
              hunk(k) == Hunk(gs[k], ranges[k], s)
              H == {hunk(k) : k \in 1..n}
              src == m.source
  <1>1. n \in Nat /\ n > 0 /\ n \in 1..n /\ Len(src) \in Nat /\ Len(s) \in Nat
    BY GroupsBounds
  <1>2. \A k \in 1..n : hunk(k) \in H
    OBVIOUS
  <1>3. \A x \in H : x.start \in Nat /\ x.end \in Nat /\ x.replacement \in Seq(S)
    <2>1. ASSUME NEW k \in 1..n
          PROVE  hunk(k).start \in Nat /\ hunk(k).end \in Nat /\ hunk(k).replacement \in Seq(S)
      <3>1. /\ gs[k].start \in Nat /\ gs[k].end \in Nat
            /\ ranges[k].start \in Nat /\ ranges[k].end \in Nat
            /\ ranges[k].end <= AfterPlace(gs, ranges, s, k)
            /\ AfterPlace(gs, ranges, s, k) <= Len(s)
            /\ AfterPlace(gs, ranges, s, k) \in Nat
        BY DEF Matched
      <3>2. ranges[k].end \in 0..Len(s)
        BY <1>1, <3>1
      <3>3. Slice(s, ranges[k].start, ranges[k].end) \in Seq(S)
        BY <3>1, <3>2, SliceType
      <3>. QED  BY <3>1, <3>3 DEF Hunk
    <2>. HIDE DEF hunk
    <2>. QED  BY <2>1
  <1>4. PICK c : HunksOf(c, m, gs, ranges, s)
    BY <1>1, HunksAre
  <1>5. /\ c[0] = <<>> /\ Hunks(m, gs, ranges, s) = c[n]
        /\ \A k \in 1..n :
             \/ c[k] = c[k - 1] /\ hunk(k).replacement = Slice(src, hunk(k).start, hunk(k).end)
             \/ c[k] = Append(c[k - 1], hunk(k))
    BY <1>4 DEF HunksOf
  <1>. DEFINE A == {k \in 0..n : MadeInv(m, gs, ranges, s, S, H, k, c[k])}
  <1>. HIDE DEF H
  <1>6. 0 \in A
    <2>1. <<>> \in Seq(H) /\ Len(<<>>) = 0 /\ Ordered(<<>>, Len(src))
      BY DEF Ordered
    <2>2. HunksInv(m, gs, H, 0, <<>>)
      BY <2>1 DEF HunksInv
    <2>3. Made(src, <<>>) = <<>> /\ DoneUpTo(<<>>) = 0
      BY DEF Made, DoneUpTo, FlattenSeq
    <2>4. Slice(src, 0, AfterGroup(m, gs, 0)) = Slice(s, 0, AfterPlace(gs, ranges, s, 0))
      BY DEF Matched
    <2>5. Slice(src, 0, AfterGroup(m, gs, 0)) \in Seq(S)
      <3>1. 1 \in 1..n /\ 1 - 1 = 0
        BY <1>1
      <3>2. AfterGroup(m, gs, 0) = gs[1].start
        BY <3>1 DEF Matched
      <3>3. gs[1].start \in Nat /\ gs[1].end \in Nat /\ gs[1].start <= gs[1].end
            /\ gs[1].end <= Len(src)
        BY <1>1, <3>1, GroupsBounds
      <3>4. gs[1].start \in 0..Len(src)
        BY <1>1, <3>3
      <3>. QED  BY <3>2, <3>4, SliceType
    <2>6. MadeInv(m, gs, ranges, s, S, H, 0, <<>>)
      <3>1. <<>> \o Slice(src, 0, AfterGroup(m, gs, 0)) = Slice(src, 0, AfterGroup(m, gs, 0))
        BY <2>5, ConcatEmptySeq
      <3>2. <<>> \in Seq(S)
        OBVIOUS
      <3>3. /\ Made(m.source, <<>>) \in Seq(S)
            /\ Made(m.source, <<>>) \o Slice(m.source, DoneUpTo(<<>>), AfterGroup(m, gs, 0))
                 = Slice(s, 0, AfterPlace(gs, ranges, s, 0))
        BY <2>3, <2>4, <3>1, <3>2
      <3>. QED  BY <2>2, <3>3 DEF MadeInv
    <2>. QED  BY <1>1, <1>5, <2>6
  <1>7. ASSUME NEW k \in 0..(n - 1), k \in A
        PROVE  k + 1 \in A
    <2>1. k + 1 \in 0..n /\ k + 1 \in 1..n /\ (k + 1) - 1 = k
      BY <1>1
    <2>2. \/ /\ c[k + 1] = c[k]
             /\ hunk(k + 1).replacement = Slice(src, hunk(k + 1).start, hunk(k + 1).end)
          \/ c[k + 1] = Append(c[k], hunk(k + 1))
      <3>. HIDE DEF hunk
      <3>. QED  BY <1>5, <2>1
    <2>3. MadeInv(m, gs, ranges, s, S, H, k, c[k])
      BY <1>7
    <2>4. hunk(k + 1) \in H
      BY <1>2, <2>1
    <2>5. /\ hunk(k + 1).replacement = Slice(src, hunk(k + 1).start, hunk(k + 1).end) =>
               MadeInv(m, gs, ranges, s, S, H, k + 1, c[k])
          /\ MadeInv(m, gs, ranges, s, S, H, k + 1, Append(c[k], hunk(k + 1)))
      BY <1>3, <2>3, <2>4, NextMade
    <2>. HIDE DEF hunk
    <2>. QED  BY <2>1, <2>2, <2>5
  <1>8. MadeInv(m, gs, ranges, s, S, H, n, c[n])
    <2>1. \A k \in 0..(n - 1) : k \in A => k + 1 \in A
      BY <1>7
    <2>2. n \in A
      <3>. HIDE DEF A, n
      <3>1. 0..n \subseteq A
        BY <1>1, <1>6, <2>1, Induction
      <3>. QED  BY <1>1, <3>1
    <2>. QED  BY <2>2
  <1>9. AfterGroup(m, gs, n) = Len(src) /\ AfterPlace(gs, ranges, s, n) = Len(s)
    BY <1>1 DEF AfterGroup, AfterPlace
  <1>10. Made(src, c[n]) \o Slice(src, DoneUpTo(c[n]), Len(src)) = Slice(s, 0, Len(s))
    BY <1>8, <1>9 DEF MadeInv
  <1>11. Slice(s, 0, Len(s)) = s
    BY DEF Slice
  <1>12. Reconstructed(src, c[n]) = Made(src, c[n]) \o Slice(src, DoneUpTo(c[n]), Len(src))
    BY DEF Reconstructed, Made, DoneUpTo
  <1>. QED  BY <1>5, <1>10, <1>11, <1>12

-------------------------------------------------------------------------------
(***************************************************************************)
(* The diff of a plan.                                                     *)
(***************************************************************************)
\* What a plan leaves of the source, what it replaces, and with what.
GapStart(hunks, k) == IF k = 0 THEN 0 ELSE hunks[k].end
GapEnd(src, hunks, k) == IF k = Len(hunks) THEN Len(src) ELSE hunks[k + 1].start
GapsOf(src, hunks) == [k \in 0..Len(hunks) |-> Slice(src, GapStart(hunks, k), GapEnd(src, hunks, k))]
OldsOf(src, hunks) == [k \in 1..Len(hunks) |-> Slice(src, hunks[k].start, hunks[k].end)]
NewsOf(hunks)      == [k \in 1..Len(hunks) |-> hunks[k].replacement]

\* A plan of the validator: its hunks are whole lines of the source, in order.
PlanOfLines(S, src, hunks) ==
  /\ Len(hunks) \in Nat /\ DOMAIN hunks = 1..Len(hunks)
  /\ Ordered(hunks, Len(src))
  /\ \A k \in 1..Len(hunks) :
       /\ hunks[k].start \in Nat /\ hunks[k].end \in Nat /\ hunks[k].replacement \in Seq(S)
       /\ hunks[k].start < hunks[k].end
       /\ Boundary(src, hunks[k].start)
       /\ Boundary(src, hunks[k].end) \/ hunks[k].end = Len(src)

LEMMA PlanBounds ==
  ASSUME NEW S, NEW src \in Seq(S), NEW hunks, PlanOfLines(S, src, hunks)
  PROVE  /\ Len(hunks) \in Nat /\ Len(src) \in Nat
         /\ \A k \in 0..Len(hunks) :
              /\ GapStart(hunks, k) \in Nat /\ GapEnd(src, hunks, k) \in Nat
              /\ GapStart(hunks, k) <= GapEnd(src, hunks, k)
              /\ GapEnd(src, hunks, k) <= Len(src)
         /\ \A k \in 1..Len(hunks) :
              /\ GapEnd(src, hunks, k - 1) = hunks[k].start /\ GapStart(hunks, k) = hunks[k].end
              /\ hunks[k].start \in Nat /\ hunks[k].end \in Nat
              /\ hunks[k].start < hunks[k].end /\ hunks[k].end <= Len(src)
<1> DEFINE n == Len(hunks)
<1>1. n \in Nat /\ DOMAIN hunks = 1..n /\ Len(src) \in Nat
  BY DEF PlanOfLines
<1>2. ASSUME NEW k \in 1..n
      PROVE  /\ GapEnd(src, hunks, k - 1) = hunks[k].start /\ GapStart(hunks, k) = hunks[k].end
             /\ hunks[k].start \in Nat /\ hunks[k].end \in Nat
             /\ hunks[k].start < hunks[k].end /\ hunks[k].end <= Len(src)
             /\ k > 1 => hunks[k - 1].end <= hunks[k].start
  <2>1. k - 1 # n /\ (k - 1) + 1 = k /\ k # 0 /\ k \in DOMAIN hunks
    BY <1>1
  <2>2. GapEnd(src, hunks, k - 1) = hunks[k].start /\ GapStart(hunks, k) = hunks[k].end
    BY <2>1 DEF GapEnd, GapStart
  <2>3. /\ hunks[k].start \in Nat /\ hunks[k].end \in Nat /\ hunks[k].start < hunks[k].end
    BY DEF PlanOfLines
  <2>4. hunks[k].end <= Len(src) /\ (k > 1 => hunks[k - 1].end <= hunks[k].start)
    BY <2>1 DEF PlanOfLines, Ordered
  <2> QED
    BY <2>2, <2>3, <2>4
<1>3. ASSUME NEW k \in 0..n
      PROVE  /\ GapStart(hunks, k) \in Nat /\ GapEnd(src, hunks, k) \in Nat
             /\ GapStart(hunks, k) <= GapEnd(src, hunks, k)
             /\ GapEnd(src, hunks, k) <= Len(src)
  <2> HIDE DEF n
  <2>1. k # n => k + 1 \in 1..n /\ (k + 1) - 1 = k
    BY <1>1
  <2>2. k # 0 => k \in 1..n
    BY <1>1
  <2>3. GapStart(hunks, k) = IF k = 0 THEN 0 ELSE hunks[k].end
    BY DEF GapStart
  <2>4. GapEnd(src, hunks, k) = IF k = n THEN Len(src) ELSE hunks[k + 1].start
    BY DEF GapEnd, n
  <2>5. k # n => hunks[k + 1].start \in Nat /\ hunks[k + 1].start <= Len(src)
    <3> SUFFICES ASSUME k # n PROVE hunks[k + 1].start \in Nat /\ hunks[k + 1].start <= Len(src)
      OBVIOUS
    <3>1. /\ hunks[k + 1].start \in Nat /\ hunks[k + 1].end \in Nat
          /\ hunks[k + 1].start < hunks[k + 1].end /\ hunks[k + 1].end <= Len(src)
      BY <1>2, <2>1
    <3> DEFINE x == hunks[k + 1].start
               y == hunks[k + 1].end
               z == Len(src)
    <3>2. x \in Nat /\ y \in Nat /\ x < y /\ y <= z /\ z \in Nat
      BY <1>1, <3>1
    <3> HIDE DEF x, y, z
    <3>3. x \in Nat /\ x <= z
      BY <3>2
    <3> QED
      BY <3>3 DEF x, z
  <2>6. k # 0 => hunks[k].end \in Nat /\ hunks[k].end <= Len(src)
    BY <1>2, <2>2
  <2>7. k # 0 /\ k # n => hunks[k].end <= hunks[k + 1].start
    <3> SUFFICES ASSUME k # 0, k # n PROVE hunks[k].end <= hunks[k + 1].start
      OBVIOUS
    <3>1. k + 1 \in 1..n /\ (k + 1) - 1 = k
      BY <2>1
    <3>2. k + 1 > 1
      BY <1>1
    <3>3. hunks[(k + 1) - 1].end <= hunks[k + 1].start
      BY <1>2, <3>1, <3>2
    <3> QED
      BY <3>1, <3>3
  <2> QED
    BY <1>1, <2>3, <2>4, <2>5, <2>6, <2>7
<1> QED
  BY <1>1, <1>2, <1>3

LEMMA PlanParts ==
  ASSUME NEW S, NEW src \in Seq(S), NEW hunks, PlanOfLines(S, src, hunks)
  PROVE  /\ GapsOf(src, hunks) \in [0..Len(hunks) -> Seq(S)]
         /\ OldsOf(src, hunks) \in [1..Len(hunks) -> Seq(S)]
         /\ NewsOf(hunks) \in [1..Len(hunks) -> Seq(S)]
<1>1. ASSUME NEW k \in 0..Len(hunks)
      PROVE  Slice(src, GapStart(hunks, k), GapEnd(src, hunks, k)) \in Seq(S)
  <2> DEFINE a == GapStart(hunks, k)
             b == GapEnd(src, hunks, k)
  <2>1. a \in Nat /\ b \in 0..Len(src)
    BY PlanBounds
  <2> HIDE DEF a, b
  <2>2. Slice(src, a, b) \in Seq(S)
    BY <2>1, SliceType
  <2> QED
    BY <2>2 DEF a, b
<1>2. ASSUME NEW k \in 1..Len(hunks)
      PROVE  Slice(src, hunks[k].start, hunks[k].end) \in Seq(S)
  <2> DEFINE a == hunks[k].start
             b == hunks[k].end
  <2>1. a \in Nat /\ b \in 0..Len(src)
    BY PlanBounds
  <2> HIDE DEF a, b
  <2>2. Slice(src, a, b) \in Seq(S)
    BY <2>1, SliceType
  <2> QED
    BY <2>2 DEF a, b
<1>3. ASSUME NEW k \in 1..Len(hunks)
      PROVE  hunks[k].replacement \in Seq(S)
  BY DEF PlanOfLines
<1> QED
  BY <1>1, <1>2, <1>3 DEF GapsOf, OldsOf, NewsOf

\* Up to any hunk, what is left and what is replaced make the source.
LEMMA PlanMakesSource ==
  ASSUME NEW S, NEW src \in Seq(S), NEW hunks, PlanOfLines(S, src, hunks),
         NEW k \in 0..Len(hunks)
  PROVE  Joined(GapsOf(src, hunks), OldsOf(src, hunks), k) = Slice(src, 0, GapEnd(src, hunks, k))
<1> DEFINE n == Len(hunks)
           gaps == GapsOf(src, hunks)
           olds == OldsOf(src, hunks)
           A == {i \in 0..n : Joined(gaps, olds, i) = Slice(src, 0, GapEnd(src, hunks, i))}
<1>1. n \in Nat /\ gaps \in [0..n -> Seq(S)] /\ olds \in [1..n -> Seq(S)]
  BY PlanParts, PlanBounds
<1>2. 0 \in A
  <2>1. gaps[0] = Slice(src, 0, GapEnd(src, hunks, 0))
    BY <1>1 DEF GapsOf, GapStart
  <2>2. gaps[0] \in Seq(S)
    BY <1>1
  <2> HIDE DEF gaps, olds
  <2>3. Joined(gaps, olds, 0) = gaps[0]
    BY <2>2, JoinedFirst
  <2> QED
    BY <1>1, <2>1, <2>3
<1>3. ASSUME NEW i \in 0..(n - 1), i \in A
      PROVE  i + 1 \in A
  <2>1. i + 1 \in 1..n /\ i + 1 \in 0..n /\ i \in 0..n /\ (i + 1) - 1 = i
    BY <1>1
  <2> DEFINE a == hunks[i + 1].start
             b == hunks[i + 1].end
             c == GapEnd(src, hunks, i + 1)
  <2>2. /\ a \in Nat /\ b \in Nat /\ c \in Nat /\ a <= b /\ b <= c /\ c <= Len(src)
        /\ GapEnd(src, hunks, i) = a /\ GapStart(hunks, i + 1) = b
    <3>1. /\ GapEnd(src, hunks, (i + 1) - 1) = a /\ GapStart(hunks, i + 1) = b
          /\ a \in Nat /\ b \in Nat /\ a < b
      BY <2>1, PlanBounds
    <3>2. c \in Nat /\ GapStart(hunks, i + 1) <= c /\ c <= Len(src)
      BY <2>1, PlanBounds
    <3> QED
      BY <2>1, <3>1, <3>2
  <2>3. gaps[i + 1] = Slice(src, b, c) /\ olds[i + 1] = Slice(src, a, b)
    BY <2>1, <2>2 DEF GapsOf, OldsOf
  <2>4. Joined(gaps, olds, i) = Slice(src, 0, a)
    BY <1>3, <2>2
  <2>5. JoinedNext(gaps, olds, i)
    <3> HIDE DEF gaps, olds
    <3> QED
      BY <1>1, JoinedStep
  <2> HIDE DEF a, b, c, gaps, olds
  <2>6. Parted(src, 0, a, b) /\ Parted(src, 0, b, c)
    BY <2>2, SliceConcat
  <2>7. Joined(gaps, olds, i + 1) = Slice(src, 0, c)
    BY <2>3, <2>4, <2>5, <2>6 DEF JoinedNext, Parted
  <2> QED
    BY <2>1, <2>7 DEF c
<1>4. 0..n \subseteq A
  <2>1. \A i \in 0..(n - 1) : i \in A => i + 1 \in A
    BY <1>3
  <2> HIDE DEF A
  <2> QED
    BY <1>1, <1>2, <2>1, Induction
<1> QED
  BY <1>4

LEMMA SliceWhole ==
  ASSUME NEW S, NEW s \in Seq(S), NEW a \in Nat, NEW b \in Nat, a <= b, b <= Len(s),
         Boundary(s, b)
  PROVE  Whole(Slice(s, a, b))
<1>1. /\ Slice(s, a, b) \in Seq(S) /\ Len(Slice(s, a, b)) = b - a
      /\ \A j \in 1..(b - a) : Slice(s, a, b)[j] = s[a + j]
  BY DEF Slice
<1>2. a = b => Slice(s, a, b) = <<>>
  BY <1>1
<1>3. a # b => Last(Slice(s, a, b)) = s[b] /\ b # 0
  BY <1>1 DEF Last
<1> QED
  BY <1>2, <1>3 DEF Whole, Boundary

LEMMA PlanIsAligned ==
  ASSUME NEW S, NEW src \in Seq(S), NEW hunks, PlanOfLines(S, src, hunks)
  PROVE  AlignedParts(GapsOf(src, hunks), OldsOf(src, hunks), Len(hunks))
<1> DEFINE n == Len(hunks)
<1>1. n \in Nat /\ Len(src) \in Nat
  BY PlanBounds
<1>2. ASSUME NEW k \in 0..(n - 1)
      PROVE  Whole(GapsOf(src, hunks)[k])
  <2>1. k \in 0..n /\ k + 1 \in 1..n /\ (k + 1) - 1 = k
    BY <1>1
  <2> DEFINE a == GapStart(hunks, k)
             b == GapEnd(src, hunks, k)
  <2>2. a \in Nat /\ b \in Nat /\ a <= b /\ b <= Len(src)
    BY <2>1, PlanBounds
  <2>3. b = hunks[k + 1].start
    <3>1. GapEnd(src, hunks, (k + 1) - 1) = hunks[k + 1].start
      BY <2>1, PlanBounds
    <3> QED
      BY <2>1, <3>1
  <2>4. Boundary(src, b)
    BY <2>1, <2>3 DEF PlanOfLines
  <2>5. GapsOf(src, hunks)[k] = Slice(src, a, b)
    BY <2>1 DEF GapsOf
  <2> HIDE DEF a, b
  <2> QED
    BY <2>2, <2>4, <2>5, SliceWhole
<1>3. ASSUME NEW k \in 1..n
      PROVE  Whole(OldsOf(src, hunks)[k]) \/ (k = n /\ GapsOf(src, hunks)[n] = <<>>)
  <2> DEFINE a == hunks[k].start
             b == hunks[k].end
  <2>1. a \in Nat /\ b \in Nat /\ a < b /\ b <= Len(src)
    BY PlanBounds
  <2>2. OldsOf(src, hunks)[k] = Slice(src, a, b)
    BY DEF OldsOf
  <2>3. CASE Boundary(src, b)
    <3> HIDE DEF a, b
    <3>1. Whole(Slice(src, a, b))
      BY <2>1, <2>3, SliceWhole
    <3> QED
      BY <2>2, <3>1
  <2>4. CASE b = Len(src)
    <3>1. ASSUME k # n PROVE FALSE
      <4>1. k + 1 \in 1..n /\ (k + 1) - 1 = k /\ k \in 0..n
        BY <1>1, <3>1
      <4>2. /\ GapEnd(src, hunks, (k + 1) - 1) = hunks[k + 1].start
            /\ hunks[k + 1].start \in Nat /\ hunks[k + 1].end \in Nat
            /\ hunks[k + 1].start < hunks[k + 1].end /\ hunks[k + 1].end <= Len(src)
        BY <4>1, PlanBounds
      <4>3. GapStart(hunks, k) <= GapEnd(src, hunks, k) /\ GapStart(hunks, k) = b
        BY <4>1, PlanBounds
      <4> QED
        BY <1>1, <2>1, <2>4, <4>1, <4>2, <4>3
    <3>2. GapsOf(src, hunks)[n] = Slice(src, Len(src), Len(src))
      <4>1. n \in 0..n /\ n # 0 /\ k = n
        BY <1>1, <3>1
      <4> QED
        BY <2>4, <4>1 DEF GapsOf, GapStart, GapEnd
    <3>3. Slice(src, Len(src), Len(src)) = <<>>
      BY <1>1 DEF Slice
    <3> QED
      BY <3>1, <3>2, <3>3
  <2>5. Boundary(src, b) \/ b = Len(src)
    BY DEF PlanOfLines
  <2> QED
    BY <2>3, <2>4, <2>5
<1> QED
  BY <1>2, <1>3 DEF AlignedParts

\* The cursor of the diff is behind the replacements before it.
LEMMA ResolvedStartIs ==
  ASSUME NEW S, NEW src \in Seq(S), NEW hunks, PlanOfLines(S, src, hunks),
         NEW k \in 1..Len(hunks)
  PROVE  ResolvedStart(hunks, k) = Len(Joined(GapsOf(src, hunks), NewsOf(hunks), k - 1))
<1> DEFINE n == Len(hunks)
           gaps == GapsOf(src, hunks)
           news == NewsOf(hunks)
           P == [j \in 0..n |-> Len(Joined(gaps, news, j))]
           gap(j) == hunks[j].start - (IF j = 1 THEN 0 ELSE hunks[j - 1].end)
           from(f) == [j \in 0..(k - 1) |->
                         IF j = 0 THEN 0 ELSE f[j - 1] + gap(j) + Len(hunks[j].replacement)]
           c == CHOOSE f : f = from(f)
           g == [j \in 0..(k - 1) |-> P[j] - Len(gaps[j])]
<1>1. /\ n \in Nat /\ k \in 1..n /\ gaps \in [0..n -> Seq(S)] /\ news \in [1..n -> Seq(S)]
  BY PlanParts, PlanBounds
<1>2. ASSUME NEW j \in 0..n PROVE P[j] \in Nat /\ Len(gaps[j]) \in Nat
  <2>1. Len(Joined(gaps, news, j)) \in Nat
    <3> HIDE DEF gaps, news, n
    <3> QED
      BY <1>1, JoinedType
  <2>2. gaps[j] \in Seq(S)
    BY <1>1
  <2>3. P[j] = Len(Joined(gaps, news, j))
    OBVIOUS
  <2> HIDE DEF gaps, P
  <2> QED
    BY <2>1, <2>2, <2>3, LenProperties
<1>3. P[0] = Len(gaps[0])
  <2>1. gaps[0] \in Seq(S) /\ 0 \in 0..n
    BY <1>1
  <2>2. Joined(gaps, news, 0) = gaps[0]
    <3> HIDE DEF gaps, news
    <3> QED
      BY <2>1, JoinedFirst
  <2> QED
    BY <2>1, <2>2
<1>4. ASSUME NEW j \in 1..n
      PROVE  /\ gap(j) = Len(gaps[j - 1]) /\ news[j] = hunks[j].replacement
             /\ P[j] = P[j - 1] + Len(hunks[j].replacement) + Len(gaps[j])
             /\ Len(hunks[j].replacement) \in Nat
  <2>1. j - 1 \in 0..n /\ j \in 0..n /\ j > 0
    BY <1>1
  <2> DEFINE a == GapStart(hunks, j - 1)
             b == GapEnd(src, hunks, j - 1)
  <2>2. a \in Nat /\ b \in Nat /\ a <= b /\ b <= Len(src) /\ b = hunks[j].start
    <3>1. b = hunks[j].start
      BY PlanBounds
    <3> QED
      BY <2>1, <3>1, PlanBounds
  <2>3. gaps[j - 1] = Slice(src, a, b)
    BY <2>1 DEF GapsOf
  <2>4. gap(j) = b - a
    <3>1. a = IF j = 1 THEN 0 ELSE hunks[j - 1].end
      BY <2>1 DEF GapStart
    <3> QED
      BY <2>2, <3>1
  <2>5. news[j] = hunks[j].replacement /\ hunks[j].replacement \in Seq(S)
    BY DEF NewsOf, PlanOfLines
  <2>6. JoinedAt(gaps, news, j, n)
    <3> HIDE DEF gaps, news, n
    <3> QED
      BY <1>1, <2>1, JoinedStands
  <2>7. P[j] = P[j - 1] + Len(hunks[j].replacement) + Len(gaps[j])
    <3>1. P[j] = Len(Joined(gaps, news, j)) /\ P[j - 1] = Len(Joined(gaps, news, j - 1))
      BY <2>1
    <3> HIDE DEF gaps, news, P, n
    <3> QED
      BY <2>1, <2>5, <2>6, <3>1 DEF JoinedAt
  <2> HIDE DEF a, b
  <2>8. Len(Slice(src, a, b)) = b - a
    BY <2>2 DEF Slice
  <2> QED
    BY <2>3, <2>4, <2>5, <2>7, <2>8
<1> HIDE DEF n, gaps, news, P
<1>5. g = from(g)
  <2>1. ASSUME NEW j \in 0..(k - 1)
        PROVE  g[j] = IF j = 0 THEN 0 ELSE g[j - 1] + gap(j) + Len(hunks[j].replacement)
    <3>1. j \in 0..n
      BY <1>1
    <3>2. CASE j = 0
      <4>1. g[j] = P[0] - Len(gaps[0])
        BY <3>2
      <4>2. P[0] \in Nat /\ 0 \in 0..n
        BY <1>1, <1>2
      <4> QED
        BY <1>3, <3>2, <4>1, <4>2
    <3>3. CASE j # 0
      <4>1. j \in 1..n /\ j - 1 \in 0..(k - 1) /\ j - 1 \in 0..n
        BY <1>1, <3>3
      <4>2. g[j] = P[j] - Len(gaps[j]) /\ g[j - 1] = P[j - 1] - Len(gaps[j - 1])
        BY <4>1
      <4>3. /\ gap(j) = Len(gaps[j - 1])
            /\ P[j] = P[j - 1] + Len(hunks[j].replacement) + Len(gaps[j])
            /\ Len(hunks[j].replacement) \in Nat
        BY <1>4, <4>1
      <4>4. P[j] \in Nat /\ P[j - 1] \in Nat /\ Len(gaps[j]) \in Nat /\ Len(gaps[j - 1]) \in Nat
        BY <1>2, <3>1, <4>1
      <4> DEFINE u == P[j]
                 v == P[j - 1]
                 w == Len(gaps[j])
                 x == Len(gaps[j - 1])
                 y == Len(hunks[j].replacement)
                 gj == gap(j)
      <4>5. /\ u \in Nat /\ v \in Nat /\ w \in Nat /\ x \in Nat /\ y \in Nat
            /\ u = v + y + w /\ gj = x /\ g[j] = u - w /\ g[j - 1] = v - x
        BY <4>2, <4>3, <4>4
      <4> HIDE DEF u, v, w, x, y, gj, g, gap
      <4>6. g[j] = g[j - 1] + gj + y
        BY <4>5
      <4> QED
        BY <3>3, <4>6 DEF gj, y
    <3> QED
      BY <3>2, <3>3
  <2>2. g = [j \in 0..(k - 1) |-> g[j]]
    OBVIOUS
  <2>3. from(g) = [j \in 0..(k - 1) |->
                     IF j = 0 THEN 0 ELSE g[j - 1] + gap(j) + Len(hunks[j].replacement)]
    OBVIOUS
  <2> HIDE DEF g, from, gap
  <2> QED
    BY <2>1, <2>2, <2>3
<1>6. c = from(c)
  <2> HIDE DEF g, from
  <2> QED
    BY <1>5
<1>7. ResolvedStart(hunks, k) = c[k - 1] + gap(k)
  BY DEF ResolvedStart
<1> HIDE DEF c
<1>8. /\ \A j \in 0..(k - 1) :
           c[j] = IF j = 0 THEN 0 ELSE c[j - 1] + gap(j) + Len(hunks[j].replacement)
      /\ \A j \in 0..(k - 1) :
           g[j] = IF j = 0 THEN 0 ELSE g[j - 1] + gap(j) + Len(hunks[j].replacement)
  <2>1. \A j \in 0..(k - 1) :
          from(c)[j] = IF j = 0 THEN 0 ELSE c[j - 1] + gap(j) + Len(hunks[j].replacement)
    OBVIOUS
  <2>2. \A j \in 0..(k - 1) :
          from(g)[j] = IF j = 0 THEN 0 ELSE g[j - 1] + gap(j) + Len(hunks[j].replacement)
    OBVIOUS
  <2> HIDE DEF from, g, gap
  <2> QED
    BY <1>5, <1>6, <2>1, <2>2
<1> HIDE DEF g, gap, from
<1> DEFINE A == {j \in 0..(k - 1) : c[j] = g[j]}
<1>9. k - 1 \in A
  <2>1. 0 \in A /\ k - 1 \in Nat
    BY <1>1, <1>8
  <2>2. ASSUME NEW j \in 0..((k - 1) - 1), j \in A
        PROVE  j + 1 \in A
    <3>1. j + 1 \in 0..(k - 1) /\ j + 1 # 0 /\ (j + 1) - 1 = j
      BY <1>1
    <3>2. c[j + 1] = c[(j + 1) - 1] + gap(j + 1) + Len(hunks[j + 1].replacement)
      BY <1>8, <3>1
    <3>3. g[j + 1] = g[(j + 1) - 1] + gap(j + 1) + Len(hunks[j + 1].replacement)
      BY <1>8, <3>1
    <3> QED
      BY <2>2, <3>1, <3>2, <3>3
  <2>3. 0..(k - 1) \subseteq A
    <3>1. \A j \in 0..((k - 1) - 1) : j \in A => j + 1 \in A
      BY <2>2
    <3> HIDE DEF A
    <3> QED
      BY <2>1, <3>1, Induction
  <2> QED
    BY <2>1, <2>3
<1>10. c[k - 1] = P[k - 1] - Len(gaps[k - 1]) /\ gap(k) = Len(gaps[k - 1])
  <2>1. k - 1 \in 0..(k - 1)
    BY <1>1
  <2> QED
    BY <1>1, <1>4, <1>9, <2>1 DEF g
<1>11. P[k - 1] \in Nat /\ Len(gaps[k - 1]) \in Nat /\ P[k - 1] = Len(Joined(gaps, news, k - 1))
  <2>1. k - 1 \in 0..n
    BY <1>1
  <2> QED
    BY <1>2, <2>1 DEF P
<1> QED
  BY <1>7, <1>10, <1>11 DEF gaps, news

\* What the plan makes of the source.
LEMMA PlanMakes ==
  ASSUME NEW S, NEW src \in Seq(S), NEW hunks, PlanOfLines(S, src, hunks)
  PROVE  /\ Joined(GapsOf(src, hunks), NewsOf(hunks), Len(hunks)) = Reconstructed(src, hunks)
         /\ Joined(GapsOf(src, hunks), OldsOf(src, hunks), Len(hunks)) = src
<1> DEFINE n == Len(hunks)
           gaps == GapsOf(src, hunks)
           news == NewsOf(hunks)
           from(k) == IF k = 0 THEN 0 ELSE hunks[k].end
           there == [k \in DOMAIN hunks |-> Slice(src, from(k - 1), hunks[k].start) \o hunks[k].replacement]
           here == [k \in 1..n |-> gaps[k - 1] \o news[k]]
<1>1. n \in Nat /\ DOMAIN hunks = 1..n /\ n \in 0..n
  BY DEF PlanOfLines
<1>2. ASSUME NEW k \in 1..n
      PROVE  gaps[k - 1] = Slice(src, from(k - 1), hunks[k].start) /\ news[k] = hunks[k].replacement
  <2>1. k - 1 \in 0..n /\ GapEnd(src, hunks, k - 1) = hunks[k].start
    BY <1>1, PlanBounds
  <2> QED
    BY <2>1 DEF GapsOf, NewsOf, GapStart
<1>3. there = here
  <2> HIDE DEF gaps, news, from
  <2> QED
    BY <1>1, <1>2
<1>4. gaps[n] = Slice(src, from(n), Len(src))
  BY <1>1 DEF GapsOf, GapStart, GapEnd
<1>5. Reconstructed(src, hunks) = FlattenSeq(there) \o Slice(src, from(n), Len(src))
  BY DEF Reconstructed
<1>6. Joined(gaps, news, n) = FlattenSeq(here) \o gaps[n]
  BY DEF Joined
<1>7. Joined(gaps, OldsOf(src, hunks), n) = src
  <2>1. Joined(gaps, OldsOf(src, hunks), n) = Slice(src, 0, GapEnd(src, hunks, n))
    BY <1>1, PlanMakesSource
  <2>2. GapEnd(src, hunks, n) = Len(src)
    BY DEF GapEnd
  <2>3. Slice(src, 0, Len(src)) = src
    BY DEF Slice
  <2> QED
    BY <2>1, <2>2, <2>3
<1> HIDE DEF there, here, gaps, news, from
<1>8. Joined(gaps, news, n) = Reconstructed(src, hunks)
  BY <1>3, <1>4, <1>5, <1>6
<1> QED
  BY <1>7, <1>8 DEF gaps, news

\* What the diff shows forwards, and backwards.
LEMMA DiffDescribes ==
  ASSUME NEW S, NEW src \in Seq(S), NEW hunks, PlanOfLines(S, src, hunks),
         NEW made, made = Reconstructed(src, hunks)
  PROVE  LET gaps == GapsOf(src, hunks)
             olds == OldsOf(src, hunks)
             news == NewsOf(hunks)
             diff == Diff(src, made, hunks)
         IN /\ Describes(diff, gaps, olds, news, Len(hunks))
            /\ Describes(Reversed(diff), gaps, news, olds, Len(hunks))
<1> DEFINE n == Len(hunks)
           gaps == GapsOf(src, hunks)
           olds == OldsOf(src, hunks)
           news == NewsOf(hunks)
           diff == Diff(src, made, hunks)
           back == Reversed(diff)
<1>1. n \in Nat /\ DOMAIN hunks = 1..n /\ Len(src) \in Nat
  BY DEF PlanOfLines
<1>2. Joined(gaps, olds, n) = src /\ Joined(gaps, news, n) = made
  BY PlanMakes
<1>3. DOMAIN diff = 1..n /\ DOMAIN back = 1..n
  BY <1>1 DEF Diff, Reversed
<1>4. ASSUME NEW k \in 1..n
      PROVE  /\ diff[k].old_start = LineNumberAt(src, Len(Joined(gaps, olds, k - 1)))
             /\ diff[k].old_lines = DiffLines(olds[k])
             /\ diff[k].new_start = LineNumberAt(made, Len(Joined(gaps, news, k - 1)))
             /\ diff[k].new_lines = DiffLines(news[k])
  <2>1. diff[k] = [old_start |-> LineNumberAt(src, hunks[k].start),
                   old_lines |-> DiffLines(Slice(src, hunks[k].start, hunks[k].end)),
                   new_start |-> LineNumberAt(made, ResolvedStart(hunks, k)),
                   new_lines |-> DiffLines(hunks[k].replacement)]
    BY <1>1 DEF Diff
  <2>2. olds[k] = Slice(src, hunks[k].start, hunks[k].end) /\ news[k] = hunks[k].replacement
    BY DEF OldsOf, NewsOf
  <2>3. Len(Joined(gaps, olds, k - 1)) = hunks[k].start
    <3> DEFINE a == hunks[k].start
    <3>1. a \in Nat /\ a <= Len(src) /\ GapEnd(src, hunks, k - 1) = a
      <4>1. GapEnd(src, hunks, k - 1) = a /\ k - 1 \in 0..n
        BY <1>1, PlanBounds
      <4> QED
        BY <4>1, PlanBounds
    <3>2. Joined(gaps, olds, k - 1) = Slice(src, 0, a)
      <4>1. k - 1 \in 0..n
        BY <1>1
      <4> QED
        BY <3>1, <4>1, PlanMakesSource
    <3> HIDE DEF a
    <3>3. Len(Slice(src, 0, a)) = a
      BY <3>1 DEF Slice
    <3> QED
      BY <3>2, <3>3 DEF a
  <2>4. ResolvedStart(hunks, k) = Len(Joined(gaps, news, k - 1))
    BY ResolvedStartIs
  <2> HIDE DEF diff
  <2> QED
    BY <2>1, <2>2, <2>3, <2>4
<1>5. ASSUME NEW k \in 1..n
      PROVE  /\ back[k].old_start = diff[k].new_start /\ back[k].old_lines = diff[k].new_lines
             /\ back[k].new_lines = diff[k].old_lines
  BY <1>3 DEF Reversed
<1> HIDE DEF gaps, olds, news, diff, back
<1>6. Describes(diff, gaps, olds, news, n)
  BY <1>2, <1>3, <1>4 DEF Describes
<1>7. Describes(back, gaps, news, olds, n)
  BY <1>2, <1>3, <1>4, <1>5 DEF Describes
<1> QED
  BY <1>6, <1>7 DEF gaps, olds, news, diff, back

\* Replacements that end their lines where what they replace does leave lines.
LEMMA NewsAreAligned ==
  ASSUME NEW S, NEW src \in Seq(S), NEW hunks, PlanOfLines(S, src, hunks),
         NEW made, KeepsFinalEols(Diff(src, made, hunks))
  PROVE  AlignedParts(GapsOf(src, hunks), NewsOf(hunks), Len(hunks))
<1> DEFINE n == Len(hunks)
           olds == OldsOf(src, hunks)
           news == NewsOf(hunks)
<1>1. AlignedParts(GapsOf(src, hunks), olds, n)
  BY PlanIsAligned
<1>2. olds \in [1..n -> Seq(S)] /\ news \in [1..n -> Seq(S)]
  BY PlanParts
<1>3. ASSUME NEW k \in 1..n, Whole(olds[k])
      PROVE  Whole(news[k])
  <2> DEFINE a == olds[k]
             b == news[k]
             La == DiffLines(a)
             Lb == DiffLines(b)
  <2>1. a \in Seq(S) /\ b \in Seq(S)
    BY <1>2
  <2>2. a # <<>>
    <3> DEFINE u == hunks[k].start
               v == hunks[k].end
    <3>1. u \in Nat /\ v \in Nat /\ u < v /\ v <= Len(src)
      BY PlanBounds
    <3>2. a = Slice(src, u, v)
      BY DEF OldsOf
    <3> HIDE DEF u, v, a
    <3>3. Len(Slice(src, u, v)) = v - u
      BY <3>1 DEF Slice
    <3> QED
      BY <3>1, <3>2, <3>3
  <2>3. /\ La # <<>> /\ Last(Last(La)) = Last(a)
        /\ b # <<>> => Lb # <<>> /\ Last(Last(Lb)) = Last(b)
    <3> HIDE DEF a, b
    <3>1. LinesMake(S, a) /\ LinesMake(S, b)
      BY <2>1, LinesAreMade
    <3> QED
      BY <2>2, <3>1 DEF LinesMake
  <2>4. Lb # <<>> => HasEol(Last(Lb)) \/ ~HasEol(Last(La))
    <3>1. k \in DOMAIN hunks
      BY DEF PlanOfLines
    <3>2. a = Slice(src, hunks[k].start, hunks[k].end) /\ b = hunks[k].replacement
      BY DEF OldsOf, NewsOf
    <3>3. /\ Diff(src, made, hunks)[k].old_lines = La
          /\ Diff(src, made, hunks)[k].new_lines = Lb
          /\ k \in DOMAIN Diff(src, made, hunks)
      BY <3>1, <3>2 DEF Diff
    <3> QED
      BY <3>3 DEF KeepsFinalEols
  <2>5. Last(a) \in Eols
    BY <1>3, <2>2 DEF Whole
  <2> HIDE DEF a, b, La, Lb
  <2>6. Whole(b)
    BY <2>3, <2>4, <2>5 DEF Whole, HasEol
  <2> QED
    BY <2>6 DEF b
<1> HIDE DEF n, olds, news
<1> QED
  BY <1>1, <1>3 DEF AlignedParts, news, n

\* A hunk of a plan shows old lines: no conflict is empty.
LEMMA OldLinesAreThere ==
  ASSUME NEW S, NEW src \in Seq(S), NEW hunks, PlanOfLines(S, src, hunks),
         NEW made, NEW k \in 1..Len(hunks)
  PROVE  Diff(src, made, hunks)[k].old_lines # <<>>
<1> DEFINE a == Slice(src, hunks[k].start, hunks[k].end)
           u == hunks[k].start
           v == hunks[k].end
<1>1. k \in DOMAIN hunks /\ Len(src) \in Nat
  BY DEF PlanOfLines
<1>2. Diff(src, made, hunks)[k].old_lines = DiffLines(a)
  BY <1>1 DEF Diff
<1>3. u \in Nat /\ v \in Nat /\ u < v /\ v <= Len(src)
  BY PlanBounds
<1>4. Len(a) = v - u /\ a \in Seq(S)
  <2> HIDE DEF u, v
  <2>1. Len(Slice(src, u, v)) = v - u
    BY <1>3 DEF Slice
  <2>2. Slice(src, u, v) \in Seq(S)
    BY <1>1, <1>3, SliceType
  <2> QED
    BY <2>1, <2>2 DEF u, v
<1> HIDE DEF a, u, v
<1>5. a # <<>>
  BY <1>3, <1>4
<1>6. LinesMake(S, a)
  BY <1>4, LinesAreMade
<1>7. DiffLines(a) # <<>>
  BY <1>5, <1>6 DEF LinesMake
<1>. QED  BY <1>2, <1>7

\* What a diff promises of the file it was made from, and of the one it leads to.
DiffIsRight(src, hunks, made) ==
  LET diff == Diff(src, made, hunks)
      deletes == \E k \in DOMAIN diff : diff[k].new_lines = <<>>
  IN /\ Fits(src, diff) /\ Patched(src, diff) = made
     /\ KeepsFinalEols(diff) =>
          /\ \A k \in DOMAIN diff :
               diff[k].new_lines # <<>> => Stands(made, Reversed(diff)[k])
          /\ deletes \/ TakesBack(src, made, diff)

LEMMA DiffsAreRight ==
  ASSUME NEW S, NEW src \in Seq(S), NEW hunks, PlanOfLines(S, src, hunks),
         NEW made, made = Reconstructed(src, hunks)
  PROVE  DiffIsRight(src, hunks, made)
<1> DEFINE n == Len(hunks)
           gaps == GapsOf(src, hunks)
           olds == OldsOf(src, hunks)
           news == NewsOf(hunks)
           diff == Diff(src, made, hunks)
           back == Reversed(diff)
<1>1. /\ n \in Nat /\ gaps \in [0..n -> Seq(S)]
      /\ olds \in [1..n -> Seq(S)] /\ news \in [1..n -> Seq(S)]
  BY PlanParts, PlanBounds
<1>2. Joined(gaps, olds, n) = src /\ Joined(gaps, news, n) = made
  BY PlanMakes
<1>3. Describes(diff, gaps, olds, news, n) /\ Describes(back, gaps, news, olds, n)
  BY DiffDescribes
<1>4. AlignedParts(gaps, olds, n)
  BY PlanIsAligned
<1>5. KeepsFinalEols(diff) => AlignedParts(gaps, news, n)
  BY NewsAreAligned
<1>a. \A k \in 1..n : diff[k].old_lines # <<>>
  BY OldLinesAreThere
<1>b. DOMAIN diff = 1..n /\ \A k \in 1..n : back[k].old_lines = diff[k].new_lines
  BY <1>3 DEF Describes, Reversed
<1> HIDE DEF n, gaps, olds, news, diff, back
<1>6. Fits(src, diff) /\ Patched(src, diff) = made
  <2>1. Fits(Joined(gaps, olds, n), diff)
        /\ Patched(Joined(gaps, olds, n), diff) = Joined(gaps, news, n)
    BY <1>1, <1>3, <1>4, <1>a, DiffApplies
  <2> QED
    BY <1>2, <2>1
<1>7. ASSUME KeepsFinalEols(diff), NEW k \in DOMAIN diff, diff[k].new_lines # <<>>
      PROVE  Stands(made, back[k])
  <2>1. AlignedParts(gaps, news, n) /\ k \in 1..n /\ back[k].old_lines # <<>>
    BY <1>5, <1>7, <1>b
  <2>2. Stands(Joined(gaps, news, n), back[k])
    BY <1>1, <1>3, <2>1, HunkStands
  <2> QED
    BY <1>2, <2>2
<1>8. ASSUME KeepsFinalEols(diff), ~(\E k \in DOMAIN diff : diff[k].new_lines = <<>>)
      PROVE  TakesBack(src, made, diff)
  <2>1. AlignedParts(gaps, news, n) /\ \A k \in 1..n : back[k].old_lines # <<>>
    BY <1>5, <1>8, <1>b
  <2>2. Fits(Joined(gaps, news, n), back)
        /\ Patched(Joined(gaps, news, n), back) = Joined(gaps, olds, n)
    BY <1>1, <1>3, <2>1, DiffApplies
  <2> QED
    BY <1>2, <2>2 DEF TakesBack, back
<1> QED
  BY <1>6, <1>7, <1>8 DEF DiffIsRight, diff, back

\* The hunks of the validator are whole lines.
LEMMA HunksAreLines ==
  ASSUME NEW m \in Sources, NEW gs, Len(m.regions) > 0, GroupsInv(m, Len(m.regions), gs),
         NEW S, m.source \in Seq(S), NEW s \in Seq(S),
         NEW ranges, Matched(m, gs, ranges, s)
  PROVE  PlanOfLines(S, m.source, Hunks(m, gs, ranges, s))
<1> DEFINE n == Len(gs)
           hs == Hunks(m, gs, ranges, s)
           H == HunkSet(gs, ranges, s)
           src == m.source
<1>1. /\ n \in Nat /\ Len(src) \in Nat /\ Len(s) \in Nat
      /\ \A k \in 1..n : /\ gs[k].start \in Nat /\ gs[k].end \in Nat
                          /\ gs[k].start < gs[k].end
  BY GroupsBounds
<1>2. hs \in Seq(H) /\ Ordered(hs, Len(src))
  <2>1. ValidPlan(hs, Len(src)) /\ hs \in Seq(H)
    BY HunksAreOrdered
  <2> HIDE DEF hs, H
  <2> QED
    BY <2>1 DEF ValidPlan
<1>3. ASSUME NEW g, OnRegions(m, g)
      PROVE  Boundary(src, g.start) /\ (Boundary(src, g.end) \/ g.end = Len(src))
  <2>1. \A r \in Range(m.regions) : /\ r.start = 0 \/ m.source[r.start] \in Eols
                                    /\ r.end = Len(m.source) \/ m.source[r.end] \in Eols
    BY SourcesAssumption
  <2> QED
    BY <1>3, <2>1 DEF OnRegions, Boundary
<1>4. ASSUME NEW k \in 1..n
      PROVE  LET h == Hunk(gs[k], ranges[k], s) IN
             /\ h.start \in Nat /\ h.end \in Nat /\ h.replacement \in Seq(S)
             /\ h.start < h.end
             /\ Boundary(src, h.start) /\ (Boundary(src, h.end) \/ h.end = Len(src))
  <2>1. OnRegions(m, gs[k])
    BY DEF GroupsInv
  <2>2. /\ ranges[k].start \in Nat /\ ranges[k].end \in Nat
        /\ ranges[k].end <= AfterPlace(gs, ranges, s, k)
        /\ AfterPlace(gs, ranges, s, k) <= Len(s)
        /\ AfterPlace(gs, ranges, s, k) \in Nat
    BY DEF Matched
  <2>3. ranges[k].end \in 0..Len(s)
    BY <1>1, <2>2
  <2>4. Slice(s, ranges[k].start, ranges[k].end) \in Seq(S)
    BY <2>2, <2>3, SliceType
  <2>5. Boundary(src, gs[k].start) /\ (Boundary(src, gs[k].end) \/ gs[k].end = Len(src))
    BY <1>3, <2>1
  <2> QED
    BY <1>1, <2>4, <2>5 DEF Hunk
<1> DEFINE Good(h) == /\ h.start \in Nat /\ h.end \in Nat /\ h.replacement \in Seq(S)
                      /\ h.start < h.end
                      /\ Boundary(src, h.start) /\ (Boundary(src, h.end) \/ h.end = Len(src))
<1>5. \A h \in H : Good(h)
  BY <1>4 DEF HunkSet
<1>6. Len(hs) \in Nat /\ DOMAIN hs = 1..Len(hs) /\ \A k \in 1..Len(hs) : hs[k] \in H
  <2> HIDE DEF hs, H
  <2> QED
    BY <1>2
<1>7. \A k \in 1..Len(hs) : Good(hs[k])
  <2> HIDE DEF hs, H, Good
  <2> QED
    BY <1>5, <1>6
<1> HIDE DEF hs, H
<1>8. PlanOfLines(S, src, hs)
  BY <1>2, <1>6, <1>7 DEF PlanOfLines
<1> QED
  BY <1>8 DEF hs

\* A plan that turns the source into the resolved file, line by line.
Planned(S, src, s, hs) == PlanOfLines(S, src, hs) /\ Reconstructed(src, hs) = s

-------------------------------------------------------------------------------
(***************************************************************************)
(* The verdict.                                                            *)
(***************************************************************************)
LEMMA SeedsAnswer ==
  ASSUME NEW m \in Sources, NEW gs, Len(m.regions) > 0, GroupsInv(m, Len(m.regions), gs),
         NEW S, m.source \in Seq(S), NEW s \in Seq(S),
         Len(Prefix(m)) + Len(Suffix(m)) <= Len(s),
         IsPrefix(Prefix(m), s), SuffixKept(m, s),
         NEW ranges, Placed(m, gs, s, Len(gs) - 1, Len(Prefix(m)), ranges)
  PROVE  LET answer == CheckSeeds(m, gs, ranges, s) IN
         /\ answer.verdict \in {"accepted", "placeholder", "invalid"}
         /\ answer.plan # <<>> => answer.verdict = "accepted"
         /\ answer.verdict = "accepted" =>
              OutsideKept(m, s) /\ Planned(S, m.source, s, answer.plan)
  <1>. DEFINE answer == CheckSeeds(m, gs, ranges, s)
  <1>1. ranges \in Seq(Ranges) /\ Len(ranges) = Len(gs)
    <2>1. Len(gs) \in Nat
      BY GroupsBounds
    <2>2. (Len(gs) - 1) + 1 = Len(gs)
      BY <2>1
    <2>. QED  BY <2>2 DEF Placed
  <1>2. answer = Plan(m, gs, ranges, s)
        \/ \E why \in {"placeholder", "invalid"} : answer = Refuse(why)
    BY DEF CheckSeeds
  <1>3. \A why : Refuse(why).verdict = why /\ Refuse(why).plan = <<>>
    BY DEF Refuse
  <1>4. CASE answer.verdict \in {"placeholder", "invalid"}
    <2>1. ASSUME answer = Plan(m, gs, ranges, s) PROVE answer.plan = <<>>
      <3>1. Plan(m, gs, ranges, s).verdict \in {"accepted", "invalid-plan", "diff"}
        BY DEF Plan, Refuse
      <3>. HIDE DEF answer
      <3>. QED  BY <1>4, <2>1, <3>1
    <2>. HIDE DEF answer
    <2>. QED  BY <1>2, <1>3, <1>4, <2>1 DEF answer
  <1>5. CASE answer.verdict \notin {"placeholder", "invalid"}
    <2>1. ranges[Len(gs)].start <= ranges[Len(gs)].end /\ answer = Plan(m, gs, ranges, s)
      BY <1>1, <1>5, LastInOrder
    <2>2. OutsideKept(m, s)
      BY <2>1, PlacedKeepsOutside
    <2>3. Planned(S, m.source, s, Hunks(m, gs, ranges, s))
      <3>1. Matched(m, gs, ranges, s)
        BY <2>1, PlacedMatches
      <3>. QED  BY <3>1, HunksReconstruct, HunksAreLines DEF Planned
    <2>4. ValidPlan(Hunks(m, gs, ranges, s), Len(m.source))
      BY HunksAreOrdered
    <2>5. /\ Plan(m, gs, ranges, s).verdict = "accepted"
          /\ Plan(m, gs, ranges, s).plan = Hunks(m, gs, ranges, s)
      BY <2>3, <2>4 DEF Plan, Planned
    <2>. HIDE DEF answer
    <2>. QED  BY <2>1, <2>2, <2>3, <2>5 DEF answer
  <1>. QED  BY <1>4, <1>5

\* The verdicts that find fault with the bytes outside the conflicts.
Faults == {"no-region", "prefix", "suffix", "overlap", "between", "invalid", "diff"}

\* What keeps those bytes is accepted, unless it holds a placeholder.
LEMMA KeptAnswer ==
  ASSUME NEW m \in Sources, NEW gs, Len(m.regions) > 0, GroupsInv(m, Len(m.regions), gs),
         NEW S, m.source \in Seq(S), NEW s \in Seq(S), OutsideKept(m, s),
         NEW ranges, ranges = Boundaries(m, gs, s)
  PROVE  /\ Len(Prefix(m)) + Len(Suffix(m)) <= Len(s)
         /\ IsPrefix(Prefix(m), s) /\ SuffixKept(m, s) /\ ranges # <<>>
         /\ CheckSeeds(m, gs, ranges, s).verdict \notin Faults
  <1>. DEFINE len == Len(gs)
              stop == SuffixStart(m, s)
  <1>1. /\ IsPrefix(Prefix(m), s) /\ SuffixKept(m, s)
        /\ Len(Prefix(m)) <= stop /\ \E at : Kept(m, s, stop, at)
    BY KeptOutside
  <1>2. Len(Prefix(m)) + Len(Suffix(m)) <= Len(s)
    <2>1. Len(Prefix(m)) \in Nat /\ Len(Suffix(m)) \in Nat /\ Len(s) \in Nat
      BY PrefixSuffixType
    <2>. QED  BY <1>1, <2>1 DEF SuffixStart
  <1>3. stop \in Len(Prefix(m))..stop /\ stop \in Nat /\ stop <= Len(s)
    BY <1>1, <1>2, SuffixStartType
  <1>4. PICK at : Kept(m, s, stop, at)
    BY <1>1
  <1>5. /\ Placed(m, gs, s, len - 1, Len(Prefix(m)), ranges)
        /\ ranges[len].start <= stop
    BY <1>2, <1>3, <1>4, KeptIsFound
  <1>6. /\ len \in Nat /\ len > 0 /\ (len - 1) + 1 = len
        /\ \A j \in 1..len : j # len => j \in 1..(len - 1)
    BY GroupsBounds
  <1>. HIDE DEF len, stop
  <1>7. /\ ranges \in Seq(Ranges) /\ Len(ranges) = len /\ ranges[len].end = stop
        /\ \A j \in 1..(len - 1) : ranges[j].start <= ranges[j].end
    BY <1>5, <1>6 DEF Placed, stop
  <1>8. \A j \in 1..len : ranges[j].start <= ranges[j].end
    BY <1>5, <1>6, <1>7
  <1>9. ranges # <<>>
    BY <1>6, <1>7
  <1>10. CheckSeeds(m, gs, ranges, s) \in {Plan(m, gs, ranges, s), Refuse("placeholder")}
    BY <1>7, <1>8, NoneInverted DEF len
  <1>11. CASE CheckSeeds(m, gs, ranges, s) = Refuse("placeholder")
    BY <1>1, <1>2, <1>9, <1>11 DEF Refuse, Faults
  <1>12. CASE CheckSeeds(m, gs, ranges, s) = Plan(m, gs, ranges, s)
    <2>1. CheckSeeds(m, gs, ranges, s).verdict \in {"accepted", "placeholder", "invalid"}
      BY <1>1, <1>2, <1>5, SeedsAnswer DEF len
    <2>2. Plan(m, gs, ranges, s).verdict \in {"accepted", "invalid-plan", "diff"}
      BY DEF Plan, Refuse
    <2>. QED  BY <1>1, <1>2, <1>9, <1>12, <2>1, <2>2 DEF Faults
  <1>. QED  BY <1>10, <1>11, <1>12

\* Whatever the answer is, it comes with a plan only if it accepts; it accepts
\* what keeps the bytes outside the conflicts only, with a plan that makes it, and
\* finds fault with what does not keep them only.
Right(S, m, src, s, answer) ==
  /\ answer.verdict \in Verdicts \ {"none", "diff"}
  /\ answer.plan # <<>> => answer.verdict = "accepted"
  /\ answer.verdict = "accepted" =>
       src = m.source /\ OutsideKept(m, s) /\ Planned(S, src, s, answer.plan)
  /\ answer.verdict \in Faults => ~OutsideKept(m, s)

LEMMA RefusalsAreRight ==
  ASSUME NEW S, NEW m, NEW src, NEW s, NEW why \in Verdicts \ {"none", "accepted", "diff"},
         why \in Faults => ~OutsideKept(m, s)
  PROVE  Right(S, m, src, s, Refuse(why))
BY DEF Right, Refuse

\* Without a region nothing changes.
LEMMA NoHunks ==
  ASSUME NEW S, NEW src \in Seq(S)
  PROVE  Planned(S, src, src, <<>>)
  <1>1. Len(<<>>) = 0 /\ DOMAIN <<>> = 1..0
    OBVIOUS
  <1>2. PlanOfLines(S, src, <<>>)
    BY <1>1 DEF PlanOfLines, Ordered
  <1>. DEFINE piece(k) == Slice(src, IF k - 1 = 0 THEN 0 ELSE <<>>[k - 1].end, <<>>[k].start)
                            \o <<>>[k].replacement
  <1>3. [k \in DOMAIN <<>> |-> piece(k)] = <<>>
    BY <1>1
  <1>4. Slice(src, 0, Len(src)) = src /\ <<>> \o src = src
    BY DEF Slice
  <1>5. Reconstructed(src, <<>>)
          = FlattenSeq([k \in DOMAIN <<>> |-> piece(k)]) \o Slice(src, 0, Len(src))
    BY <1>1 DEF Reconstructed
  <1>. HIDE DEF piece
  <1>6. Reconstructed(src, <<>>) = src
    BY <1>3, <1>4, <1>5, FlattenEmpty
  <1>. QED  BY <1>2, <1>6 DEF Planned

LEMMA Answer ==
  ASSUME NEW m \in Sources, NEW src, NEW S, m.source \in Seq(S), NEW s \in Seq(S)
  PROVE  Right(S, m, src, s, Validate(m, src, s))
  <1>. DEFINE answer == Validate(m, src, s)
              groups == Groups(m)
              ranges == Boundaries(m, groups, s)
  <1>1. {"stale-source", "marker", "no-region", "prefix", "suffix", "overlap", "between",
         "placeholder", "invalid"} \subseteq Verdicts \ {"none", "accepted", "diff"}
    BY DEF Verdicts
  <1>2. CASE src # m.source \/ HasRejectedMarker(s)
    <2>1. answer \in {Refuse("stale-source"), Refuse("marker")}
      BY <1>2 DEF Validate
    <2>2. Right(S, m, src, s, Refuse("stale-source")) /\ Right(S, m, src, s, Refuse("marker"))
      BY <1>1, RefusalsAreRight DEF Faults
    <2>. HIDE DEF answer
    <2>. QED  BY <2>1, <2>2 DEF answer
  <1>3. CASE src = m.source /\ ~HasRejectedMarker(s) /\ m.regions = <<>>
    <2>1. Len(m.regions) = 0
      BY <1>3
    <2>2. CASE s = src
      <3>1. answer = [verdict |-> "accepted", plan |-> <<>>]
        BY <1>3, <2>2 DEF Validate
      <3>2. OutsideKept(m, s)
        BY <1>3, <2>1, <2>2 DEF OutsideKept
      <3>3. Planned(S, src, s, <<>>)
        BY <1>3, <2>2, NoHunks
      <3>. HIDE DEF answer
      <3>. QED  BY <1>3, <3>1, <3>2, <3>3 DEF Right, Verdicts, Faults, answer
    <2>3. CASE s # src
      <3>1. answer = Refuse("no-region")
        BY <1>3, <2>3 DEF Validate
      <3>2. ~OutsideKept(m, s)
        BY <1>3, <2>1, <2>3 DEF OutsideKept
      <3>3. Right(S, m, src, s, Refuse("no-region"))
        BY <1>1, <3>2, RefusalsAreRight
      <3>. QED  BY <3>1, <3>3
    <2>. QED  BY <2>2, <2>3
  <1>4. CASE src = m.source /\ ~HasRejectedMarker(s) /\ m.regions # <<>>
    <2>1. Len(m.regions) > 0
      BY <1>4, SourceType
    <2>2. GroupsInv(m, Len(m.regions), groups)
      BY <2>1, GroupsAre
    <2>3. answer =
            IF ~IsPrefix(Prefix(m), s) THEN Refuse("prefix")
            ELSE IF ~SuffixKept(m, s) THEN Refuse("suffix")
            ELSE IF Len(Prefix(m)) + Len(Suffix(m)) > Len(s) THEN Refuse("overlap")
            ELSE IF ranges = <<>> THEN Refuse("between")
            ELSE CheckSeeds(m, groups, ranges, s)
      BY <1>4 DEF Validate
    <2>4. ASSUME OutsideKept(m, s)
          PROVE  /\ Len(Prefix(m)) + Len(Suffix(m)) <= Len(s)
                 /\ IsPrefix(Prefix(m), s) /\ SuffixKept(m, s) /\ ranges # <<>>
                 /\ CheckSeeds(m, groups, ranges, s).verdict \notin Faults
      BY <2>1, <2>2, <2>4, KeptAnswer
    <2>. HIDE DEF answer, groups, ranges
    <2>5. Len(Prefix(m)) \in Nat /\ Len(Suffix(m)) \in Nat /\ Len(s) \in Nat
      BY <2>1, PrefixSuffixType
    <2>6. \/ answer \in {Refuse("prefix"), Refuse("suffix"), Refuse("overlap"), Refuse("between")}
             /\ ~OutsideKept(m, s)
          \/ /\ IsPrefix(Prefix(m), s) /\ SuffixKept(m, s)
             /\ Len(Prefix(m)) + Len(Suffix(m)) <= Len(s) /\ ranges # <<>>
             /\ answer = CheckSeeds(m, groups, ranges, s)
      BY <2>3, <2>4, <2>5
    <2>7. ASSUME answer \in {Refuse("prefix"), Refuse("suffix"), Refuse("overlap"), Refuse("between")},
                 ~OutsideKept(m, s)
          PROVE  Right(S, m, src, s, answer)
      <3>1. \A why \in {"prefix", "suffix", "overlap", "between"} :
              Right(S, m, src, s, Refuse(why))
        BY <1>1, <2>7, RefusalsAreRight
      <3>. QED  BY <2>7, <3>1
    <2>8. ASSUME IsPrefix(Prefix(m), s), SuffixKept(m, s), ranges # <<>>,
                 Len(Prefix(m)) + Len(Suffix(m)) <= Len(s),
                 answer = CheckSeeds(m, groups, ranges, s)
          PROVE  Right(S, m, src, s, answer)
      <3>1. Placed(m, groups, s, Len(groups) - 1, Len(Prefix(m)), ranges)
        BY <2>1, <2>2, <2>8, BoundariesArePlaced DEF ranges
      <3>2. /\ answer.verdict \in {"accepted", "placeholder", "invalid"}
            /\ answer.plan # <<>> => answer.verdict = "accepted"
            /\ answer.verdict = "accepted" =>
                 OutsideKept(m, s) /\ Planned(S, m.source, s, answer.plan)
        BY <2>1, <2>2, <2>8, <3>1, SeedsAnswer
      <3>3. answer.verdict \in Faults => ~OutsideKept(m, s)
        BY <2>4, <2>8
      <3>. QED  BY <1>4, <3>2, <3>3 DEF Right, Verdicts
    <2>9. Right(S, m, src, s, answer)
      BY <2>6, <2>7, <2>8
    <2>. QED  BY <2>9 DEF answer
  <1>. QED  BY <1>2, <1>3, <1>4

-------------------------------------------------------------------------------
(***************************************************************************)
(* The workspace.                                                          *)
(***************************************************************************)
\* What a canvas is made of.
Tokens ==
  (UNION {Range(m.source) : m \in Sources}) \cup (UNION {Range(f) : f \in Fillings})
    \cup Range(PlaceholderText)

LEMMA TokenSets ==
  /\ \A m \in Sources : Range(m.source) \subseteq Tokens
  /\ \A f \in Fillings : Range(f) \subseteq Tokens
  /\ Range(PlaceholderText) \subseteq Tokens
BY Zenon DEF Tokens

LEMMA SourceTokens ==
  ASSUME NEW m \in Sources
  PROVE  m.source \in Seq(Tokens)
  <1>1. Range(m.source) \subseteq Tokens
    BY TokenSets
  <1>2. m.source \in Seq(Range(m.source))
    BY SourceType
  <1>. HIDE DEF Tokens
  <1>. QED  BY <1>1, <1>2

LEMMA SeedType ==
  ASSUME NEW m \in Sources, NEW i \in 1..Len(m.regions)
  PROVE  Seed(m, i) \in Seq(Tokens)
  <1>. DEFINE r == m.regions[i]
  <1>1. /\ Len(m.regions) \in Nat /\ Len(m.source) \in Nat
        /\ r \in Ranges /\ r.start < r.end /\ r.end <= Len(m.source)
    BY SourceType
  <1>2. i \in 1..3
    <2>1. Len(m.regions) <= 3
      BY SourcesAssumption DEF PlaceholderText
    <2>. QED  BY <1>1, <2>1
  <1>3. PlaceholderText[i] \in Range(PlaceholderText)
    BY <1>2 DEF PlaceholderText, Range
  <1>4. PlaceholderText[i] \in Tokens
    BY <1>3, TokenSets
  <1>5. r.end - 1 \in Nat /\ r.end \in 0..Len(m.source)
    BY <1>1 DEF Ranges
  <1>. HIDE DEF r
  <1>6. Slice(m.source, r.end - 1, r.end) \in Seq(Tokens)
    BY <1>5, SourceTokens, SliceType
  <1>7. TrailingEol(m, r) \in Seq(Tokens)
    BY <1>6 DEF TrailingEol
  <1>. QED  BY <1>4, <1>7 DEF Seed, r

LEMMA CanvasType ==
  ASSUME NEW m \in Sources
  PROVE  Materialize(m) \in Seq(Tokens)
  <1>. DEFINE n == Len(m.regions)
              L == Len(m.source)
              from(i) == IF i = 0 THEN 0 ELSE m.regions[i].end
              gap(i) == Slice(m.source, from(i - 1), m.regions[i].start)
              pieces == [i \in 1..n |-> gap(i) \o Seed(m, i)]
  <1>1. /\ n \in Nat /\ L \in Nat
        /\ \A i \in 1..n : /\ m.regions[i].start \in Nat /\ m.regions[i].end \in Nat
                           /\ m.regions[i].start < m.regions[i].end
                           /\ m.regions[i].end <= L
    BY SourceType DEF Ranges
  <1>2. \A i \in 0..n : from(i) \in Nat
    BY <1>1
  <1>3. ASSUME NEW i \in 1..n
        PROVE  gap(i) \o Seed(m, i) \in Seq(Tokens)
    <2>1. i - 1 \in 0..n
      BY <1>1
    <2>2. from(i - 1) \in Nat
      BY <1>2, <2>1
    <2>3. m.regions[i].start \in 0..L
      BY <1>1
    <2>. HIDE DEF from
    <2>4. gap(i) \in Seq(Tokens)
      BY <2>2, <2>3, SourceTokens, SliceType
    <2>5. Seed(m, i) \in Seq(Tokens)
      BY SeedType
    <2>. HIDE DEF gap
    <2>. QED  BY <2>4, <2>5
  <1>4. Slice(m.source, from(n), L) \in Seq(Tokens)
    <2>1. from(n) \in Nat /\ L \in 0..L
      BY <1>1, <1>2
    <2>. HIDE DEF from
    <2>. QED  BY <2>1, SourceTokens, SliceType
  <1>. HIDE DEF gap
  <1>5. pieces \in [1..n -> Seq(Tokens)]
    BY <1>3
  <1>. HIDE DEF pieces
  <1>6. FlattenSeq(pieces) \in Seq(Tokens)
    BY <1>1, <1>5, FlattenType
  <1>7. Materialize(m) = FlattenSeq(pieces) \o Slice(m.source, from(n), L)
    BY DEF Materialize, pieces, gap
  <1>. HIDE DEF from, n, L
  <1>. QED  BY <1>4, <1>6, <1>7

-------------------------------------------------------------------------------
(***************************************************************************)
(* The canvas as `prepare` writes it.                                      *)
(***************************************************************************)
\* Whether s begins with t.
Starts(t, s) == Len(t) <= Len(s) /\ Slice(s, 0, Len(t)) = t

LEMMA StartsConcat ==
  ASSUME NEW S, NEW s \in Seq(S), NEW t \in Seq(S), NEW u \in Seq(S), Starts(t \o u, s)
  PROVE  Starts(t, s) /\ Slice(s, Len(t), Len(t) + Len(u)) = u
  <1>. DEFINE tu == t \o u
              l == Len(t)
              k == Len(u)
  <1>1. /\ tu \in Seq(S) /\ Len(tu) = l + k /\ l \in Nat /\ k \in Nat /\ Len(s) \in Nat
        /\ \A i \in 1..(l + k) : tu[i] = IF i <= l THEN t[i] ELSE u[i - l]
    BY ConcatProperties
  <1>. HIDE DEF tu
  <1>2. l + k <= Len(s) /\ Slice(s, 0, l + k) = tu
    BY <1>1 DEF Starts, tu
  <1>3. ASSUME NEW i \in 1..(l + k) PROVE s[i] = tu[i]
    BY <1>1, <1>2 DEF Slice
  <1>4. /\ Slice(s, 0, l) \in Seq(S) /\ Len(Slice(s, 0, l)) = l
        /\ \A i \in 1..l : Slice(s, 0, l)[i] = s[i]
    BY <1>1, <1>2 DEF Slice
  <1>5. /\ Slice(s, l, l + k) \in Seq(S) /\ Len(Slice(s, l, l + k)) = k
        /\ \A i \in 1..k : Slice(s, l, l + k)[i] = s[l + i]
    BY <1>1, <1>2 DEF Slice
  <1>6. \A i \in 1..l : s[i] = t[i]
    <2>1. \A i \in 1..l : i \in 1..(l + k) /\ i <= l
      BY <1>1
    <2>. QED  BY <1>1, <1>3, <2>1
  <1>7. ASSUME NEW i \in 1..k PROVE s[l + i] = u[i]
    <2>1. l + i \in 1..(l + k) /\ ~(l + i <= l) /\ (l + i) - l = i
      BY <1>1
    <2>. QED  BY <1>1, <1>3, <2>1
  <1>8. Slice(s, 0, l) = t
    BY <1>4, <1>6
  <1>9. Slice(s, l, l + k) = u
    BY <1>5, <1>7
  <1>. QED  BY <1>1, <1>2, <1>8, <1>9 DEF Starts

LEMMA SliceOfSlice ==
  ASSUME NEW S, NEW s \in Seq(S), NEW a \in Nat, NEW b \in Nat, NEW c \in Nat,
         a <= b, b <= c, c <= Len(s)
  PROVE  /\ Len(Slice(s, a, c)) = c - a
         /\ Slice(Slice(s, a, c), b - a, c - a) = Slice(s, b, c)
  <1>. DEFINE t == Slice(s, a, c)
  <1>1. /\ t \in Seq(S) /\ Len(t) = c - a
        /\ \A i \in 1..(c - a) : t[i] = s[a + i]
    BY DEF Slice
  <1>2. /\ Slice(s, b, c) \in Seq(S) /\ Len(Slice(s, b, c)) = c - b
        /\ \A i \in 1..(c - b) : Slice(s, b, c)[i] = s[b + i]
    BY DEF Slice
  <1>. HIDE DEF t
  <1>3. /\ Slice(t, b - a, c - a) \in Seq(S) /\ Len(Slice(t, b - a, c - a)) = c - b
        /\ \A i \in 1..(c - b) : Slice(t, b - a, c - a)[i] = t[(b - a) + i]
    BY <1>1 DEF Slice
  <1>4. ASSUME NEW i \in 1..(c - b) PROVE t[(b - a) + i] = s[b + i]
    <2>1. (b - a) + i \in 1..(c - a) /\ a + ((b - a) + i) = b + i
      OBVIOUS
    <2>. QED  BY <1>1, <2>1
  <1>5. Slice(t, b - a, c - a) = Slice(s, b, c)
    <2>. DEFINE u == Slice(t, b - a, c - a)
                v == Slice(s, b, c)
    <2>1. u \in Seq(S) /\ v \in Seq(S) /\ Len(u) = Len(v)
      BY <1>2, <1>3
    <2>2. \A i \in 1..Len(u) : u[i] = v[i]
      BY <1>2, <1>3, <1>4
    <2>. HIDE DEF u, v
    <2>3. u = v
      BY <2>1, <2>2, SeqEqual
    <2>. QED  BY <2>3 DEF u, v
  <1>. QED  BY <1>1, <1>5 DEF t

\* A place for the last group that ends with the seed of its last region.
SeedAt(m, s, stop) ==
  /\ stop \in Len(Prefix(m))..SuffixStart(m, s)
  /\ stop + Len(Seed(m, Len(m.regions))) = SuffixStart(m, s)
  /\ Slice(s, stop, SuffixStart(m, s)) = Seed(m, Len(m.regions))
  /\ \E at : Kept(m, s, stop, at)

LEMMA CanvasKeeps ==
  ASSUME NEW m \in Sources, Len(m.regions) > 0
  PROVE  \E stop : SeedAt(m, Materialize(m), stop)
  <1>. DEFINE n == Len(m.regions)
              L == Len(m.source)
              s == Materialize(m)
              from(i) == IF i = 0 THEN 0 ELSE m.regions[i].end
              gap(i) == Slice(m.source, from(i - 1), m.regions[i].start)
              seed(i) == Seed(m, i)
              pieces == [i \in 1..n |-> gap(i) \o seed(i)]
              first == Len(Prefix(m))
              last == SuffixStart(m, s)
  <1>1. /\ n \in Nat /\ n > 0 /\ L \in Nat /\ 1 \in 1..n /\ n \in 1..n
        /\ \A i \in 1..n : /\ m.regions[i].start \in Nat /\ m.regions[i].end \in Nat
                           /\ m.regions[i].start < m.regions[i].end
                           /\ m.regions[i].end <= L
    BY SourceType DEF Ranges
  <1>2. \A i \in 0..n : from(i) \in Nat
    BY <1>1
  <1>3. ASSUME NEW i \in 1..n
        PROVE  gap(i) \in Seq(Tokens) /\ seed(i) \in Seq(Tokens)
    <2>1. i - 1 \in 0..n
      BY <1>1
    <2>2. from(i - 1) \in Nat
      BY <1>2, <2>1
    <2>3. m.regions[i].start \in 0..L
      <3>1. /\ m.regions[i].start \in Nat /\ m.regions[i].end \in Nat
            /\ m.regions[i].start < m.regions[i].end /\ m.regions[i].end <= L
        BY <1>1
      <3>. HIDE DEF L
      <3>. QED  BY <1>1, <3>1
    <2>. HIDE DEF from
    <2>4. gap(i) \in Seq(Tokens)
      BY <2>2, <2>3, SourceTokens, SliceType
    <2>. QED  BY <2>4, SeedType
  <1>4. s = FlattenSeq(pieces) \o Suffix(m) /\ s \in Seq(Tokens)
    <2>1. from(n) = Last(m.regions).end
      BY <1>1 DEF Last
    <2>2. s = FlattenSeq(pieces) \o Slice(m.source, from(n), L)
      BY DEF Materialize
    <2>. HIDE DEF from, s
    <2>. QED  BY <2>1, <2>2, CanvasType DEF Suffix, s
  <1>5. gap(1) = Prefix(m) /\ \A k \in 1..(n - 1) : gap(k + 1) = Between(m, k)
    <2>1. gap(1) = Prefix(m)
      BY DEF Prefix
    <2>2. ASSUME NEW k \in 1..(n - 1) PROVE gap(k + 1) = Between(m, k)
      <3>1. (k + 1) - 1 = k /\ k # 0
        BY <1>1
      <3>. QED  BY <3>1 DEF Between
    <2>. QED  BY <2>1, <2>2
  <1>6. Suffix(m) \in Seq(Tokens)
    <2>1. Last(m.regions) = m.regions[n] /\ L \in 0..L
      BY <1>1 DEF Last
    <2>. QED  BY <1>1, <2>1, SourceTokens, SliceType DEF Suffix
  <1>. HIDE DEF gap, seed, s
  <1>7. pieces \in [1..n -> Seq(Tokens)]
    <2>1. \A i \in 1..n : gap(i) \o seed(i) \in Seq(Tokens)
      BY <1>3, ConcatProperties
    <2>. QED  BY <2>1
  <1>8. PICK c : Flattens(c, Tokens, n, pieces)
    <2>1. n \in Nat /\ n # 0
      BY <1>1
    <2>. HIDE DEF pieces, n
    <2>. QED  BY <1>7, <2>1, FlattenIs
  <1>9. /\ \A i \in 1..n : c[i] \in Seq(Tokens) /\ Len(c[i]) \in Nat
        /\ c[1] = gap(1) \o seed(1)
        /\ \A i \in 1..(n - 1) : c[i + 1] = c[i] \o (gap(i + 1) \o seed(i + 1))
        /\ FlattenSeq(pieces) = c[n]
    <2>1. \A i \in 1..(n - 1) : i + 1 \in 1..n
      BY <1>1
    <2>2. \A i \in 1..n : pieces[i] = gap(i) \o seed(i)
      OBVIOUS
    <2>. HIDE DEF pieces, n
    <2>3. \A i \in 1..n : c[i] \in Seq(Tokens)
      BY <1>8 DEF Flattens
    <2>4. \A i \in 1..n : Len(c[i]) \in Nat
      BY <2>3
    <2>5. c[1] = gap(1) \o seed(1)
      BY <1>1, <1>8, <2>2 DEF Flattens
    <2>6. \A i \in 1..(n - 1) : c[i + 1] = c[i] \o (gap(i + 1) \o seed(i + 1))
      BY <1>8, <2>1, <2>2 DEF Flattens
    <2>7. FlattenSeq(pieces) = c[n]
      BY <1>8 DEF Flattens
    <2>. QED  BY <2>3, <2>4, <2>5, <2>6, <2>7
  <1>. HIDE DEF pieces
  <1>10. last = Len(c[n]) /\ last \in Nat /\ Len(s) \in Nat /\ Starts(c[n], s)
    <2>1. /\ c[n] \in Seq(Tokens) /\ s = c[n] \o Suffix(m)
          /\ Len(s) = Len(c[n]) + Len(Suffix(m))
          /\ Len(c[n]) \in Nat /\ Len(Suffix(m)) \in Nat
      BY <1>1, <1>4, <1>6, <1>9, ConcatProperties
    <2>2. Slice(s, 0, Len(s)) = s
      BY <1>4 DEF Slice
    <2>3. Starts(c[n] \o Suffix(m), s)
      BY <2>1, <2>2 DEF Starts
    <2>4. Starts(c[n], s)
      BY <1>4, <1>6, <2>1, <2>3, StartsConcat
    <2>. QED  BY <2>1, <2>4 DEF SuffixStart
  <1>11. ASSUME NEW i \in 1..n
         PROVE  Len(gap(i)) \in Nat /\ Len(seed(i)) \in Nat
    BY <1>3
  <1>12. ASSUME NEW i \in 1..(n - 1), Starts(c[i + 1], s)
         PROVE  /\ Starts(c[i], s)
                /\ Slice(s, Len(c[i]), Len(c[i]) + Len(gap(i + 1))) = gap(i + 1)
                /\ Len(c[i]) + Len(gap(i + 1)) + Len(seed(i + 1)) = Len(c[i + 1])
                /\ Slice(s, Len(c[i]) + Len(gap(i + 1)), Len(c[i + 1])) = seed(i + 1)
    <2>. DEFINE C == c[i]
                G == gap(i + 1)
                D == seed(i + 1)
    <2>1. /\ i \in 1..n /\ i + 1 \in 1..n
      BY <1>1
    <2>2. C \in Seq(Tokens) /\ G \in Seq(Tokens) /\ D \in Seq(Tokens) /\ c[i + 1] = C \o (G \o D)
      BY <1>3, <1>9, <2>1
    <2>. HIDE DEF C, G, D
    <2>3. C \o (G \o D) = (C \o G) \o D
      <3>1. (C \o G) \o D = C \o (G \o D)
        BY <2>2, ConcatAssociative
      <3>. QED  BY <3>1
    <2>4. C \o G \in Seq(Tokens) /\ Len(C \o G) = Len(C) + Len(G)
          /\ Len((C \o G) \o D) = Len(C) + Len(G) + Len(D)
      BY <2>2, ConcatProperties
    <2>5. Starts((C \o G) \o D, s)
      BY <1>12, <2>2, <2>3
    <2>6. Starts(C \o G, s) /\ Slice(s, Len(C \o G), Len(C \o G) + Len(D)) = D
      BY <1>4, <2>2, <2>4, <2>5, StartsConcat
    <2>7. Starts(C, s) /\ Slice(s, Len(C), Len(C) + Len(G)) = G
      BY <1>4, <2>2, <2>6, StartsConcat
    <2>. QED  BY <2>2, <2>3, <2>4, <2>6, <2>7 DEF C, G, D
  <1>. DEFINE B == {j \in 0..(n - 1) : Starts(c[n - j], s) /\ Len(c[n - j]) <= last}
              A == {j \in 0..(n - 1) : first <= Len(c[j + 1])}
  <1>13. 0..(n - 1) \subseteq B
    <2>1. 0 \in B
      <3>1. n - 0 = n /\ 0 \in 0..(n - 1) /\ last <= last
        BY <1>1, <1>10
      <3>. QED  BY <1>10, <3>1
    <2>2. ASSUME NEW j \in 0..((n - 1) - 1), j \in B PROVE j + 1 \in B
      <3>. DEFINE k == n - (j + 1)
      <3>1. k \in 1..(n - 1) /\ k + 1 = n - j /\ j + 1 \in 0..(n - 1) /\ k \in 1..n /\ k + 1 \in 1..n
        BY <1>1
      <3>2. Starts(c[k + 1], s) /\ Len(c[k + 1]) <= last
        BY <2>2, <3>1
      <3>. HIDE DEF k, last
      <3>3. Starts(c[k], s)
        BY <1>12, <3>1, <3>2
      <3>4. Len(c[k]) <= last
        <4>1. Len(c[k]) + Len(gap(k + 1)) + Len(seed(k + 1)) = Len(c[k + 1])
          BY <1>12, <3>1, <3>2
        <4>2. /\ Len(c[k]) \in Nat /\ Len(gap(k + 1)) \in Nat /\ Len(seed(k + 1)) \in Nat
              /\ Len(c[k + 1]) \in Nat /\ last \in Nat
          BY <1>9, <1>10, <1>11, <3>1
        <4>3. Len(c[k + 1]) <= last
          BY <3>2
        <4>. DEFINE x == Len(c[k])
                    y == Len(gap(k + 1))
                    z == Len(seed(k + 1))
                    w == Len(c[k + 1])
        <4>4. x + y + z = w /\ w <= last
          BY <4>1, <4>3
        <4>5. x \in Nat /\ y \in Nat /\ z \in Nat /\ w \in Nat /\ last \in Nat
          BY <4>2
        <4>. HIDE DEF x, y, z, w
        <4>6. x <= last
          BY <4>4, <4>5
        <4>. QED  BY <4>6 DEF x
      <3>. QED  BY <3>1, <3>3, <3>4 DEF k
    <2>3. \A j \in 0..((n - 1) - 1) : j \in B => j + 1 \in B
      BY <2>2
    <2>4. n - 1 \in Nat
      BY <1>1
    <2>. HIDE DEF B
    <2>. QED  BY <2>1, <2>3, <2>4, Induction
  <1>14. \A k \in 1..n : Starts(c[k], s) /\ Len(c[k]) <= last
    <2>. SUFFICES ASSUME NEW k \in 1..n PROVE Starts(c[k], s) /\ Len(c[k]) <= last
      OBVIOUS
    <2>1. n - k \in 0..(n - 1) /\ n - (n - k) = k
      BY <1>1
    <2>. QED  BY <1>13, <2>1
  <1>15. first \in Nat /\ first = Len(gap(1)) /\ first <= Len(c[1])
         /\ first + Len(seed(1)) = Len(c[1])
    <2>1. Len(c[1]) = Len(gap(1)) + Len(seed(1)) /\ Len(gap(1)) \in Nat /\ Len(seed(1)) \in Nat
      BY <1>1, <1>3, <1>9, ConcatProperties
    <2>. QED  BY <1>5, <2>1
  <1>16. 0..(n - 1) \subseteq A
    <2>1. 0 \in A
      <3>1. 0 + 1 = 1 /\ 0 \in 0..(n - 1)
        BY <1>1
      <3>. QED  BY <1>15, <3>1
    <2>2. ASSUME NEW j \in 0..((n - 1) - 1), j \in A PROVE j + 1 \in A
      <3>1. j + 1 \in 1..(n - 1) /\ j + 1 \in 1..n /\ (j + 1) + 1 \in 1..n /\ j + 1 \in 0..(n - 1)
        BY <1>1
      <3>2. first <= Len(c[j + 1])
        BY <2>2
      <3>3. Len(c[j + 1]) + Len(gap((j + 1) + 1)) + Len(seed((j + 1) + 1)) = Len(c[(j + 1) + 1])
        BY <1>12, <1>14, <3>1
      <3>. HIDE DEF first
      <3>4. first <= Len(c[(j + 1) + 1])
        <4>1. /\ Len(c[j + 1]) \in Nat /\ Len(gap((j + 1) + 1)) \in Nat
              /\ Len(seed((j + 1) + 1)) \in Nat /\ first \in Nat
          BY <1>9, <1>11, <1>15, <3>1
        <4>2. \A x, y, z, l \in Nat : l <= x => l <= x + y + z
          OBVIOUS
        <4>3. first <= Len(c[j + 1]) + Len(gap((j + 1) + 1)) + Len(seed((j + 1) + 1))
          BY <3>2, <4>1, <4>2
        <4>. QED  BY <3>3, <4>3
      <3>. QED  BY <3>1, <3>4
    <2>3. \A j \in 0..((n - 1) - 1) : j \in A => j + 1 \in A
      BY <2>2
    <2>4. n - 1 \in Nat
      BY <1>1
    <2>. HIDE DEF A
    <2>. QED  BY <2>1, <2>3, <2>4, Induction
  <1>17. \A k \in 1..n : first <= Len(c[k])
    <2>. SUFFICES ASSUME NEW k \in 1..n PROVE first <= Len(c[k])
      OBVIOUS
    <2>1. k - 1 \in 0..(n - 1) /\ (k - 1) + 1 = k
      BY <1>1
    <2>. QED  BY <1>16, <2>1
  <1>. HIDE DEF A, B, first, last
  <1>. DEFINE stop == IF n = 1 THEN first ELSE Len(c[n - 1]) + Len(gap(n))
              at == [k \in 1..(n - 1) |-> Len(c[k])]
  <1>18. /\ stop \in Nat /\ first <= stop /\ stop + Len(seed(n)) = last
         /\ Slice(s, stop, last) = seed(n)
    <2>1. CASE n = 1
      <3>1. Starts(gap(1) \o seed(1), s)
        BY <1>1, <1>9, <1>14
      <3>2. Slice(s, Len(gap(1)), Len(gap(1)) + Len(seed(1))) = seed(1)
        BY <1>1, <1>3, <1>4, <3>1, StartsConcat
      <3>. QED  BY <1>10, <1>15, <2>1, <3>2
    <2>2. CASE n # 1
      <3>1. n - 1 \in 1..(n - 1) /\ n - 1 \in 1..n /\ (n - 1) + 1 = n
        <4>1. n \in Nat /\ n > 0 /\ n # 1
          BY <1>1, <2>2
        <4>. HIDE DEF n
        <4>. QED  BY <4>1
      <3>2. /\ Len(c[n - 1]) + Len(gap(n)) + Len(seed(n)) = Len(c[n])
            /\ Slice(s, Len(c[n - 1]) + Len(gap(n)), Len(c[n])) = seed(n)
        BY <1>1, <1>12, <1>14, <3>1
      <3>3. /\ Len(c[n - 1]) \in Nat /\ Len(gap(n)) \in Nat /\ first <= Len(c[n - 1])
        BY <1>1, <1>9, <1>11, <1>17, <3>1
      <3>4. stop = Len(c[n - 1]) + Len(gap(n))
        BY <2>2
      <3>5. first \in Nat /\ last = Len(c[n])
        BY <1>10, <1>15
      <3>. DEFINE x == Len(c[n - 1])
                  y == Len(gap(n))
      <3>6. x \in Nat /\ y \in Nat /\ first <= x /\ first \in Nat /\ stop = x + y
        BY <3>3, <3>4, <3>5
      <3>. HIDE DEF stop, x, y
      <3>7. stop \in Nat /\ first <= stop
        BY <3>6
      <3>. HIDE DEF stop
      <3>. QED  BY <3>2, <3>4, <3>5, <3>7
    <2>. QED  BY <2>1, <2>2
  <1>19. stop \in first..last
    <2>1. /\ stop \in Nat /\ first \in Nat /\ last \in Nat /\ Len(seed(n)) \in Nat
          /\ first <= stop /\ stop + Len(seed(n)) = last
      BY <1>1, <1>10, <1>11, <1>15, <1>18
    <2>. HIDE DEF stop
    <2>. QED  BY <2>1
  <1>20. at \in [1..(n - 1) -> first..last]
    <2>1. ASSUME NEW k \in 1..(n - 1) PROVE Len(c[k]) \in first..last
      <3>1. k \in 1..n
        BY <1>1
      <3>. QED  BY <1>9, <1>10, <1>14, <1>15, <1>17, <3>1
    <2>. QED  BY <2>1
  <1>21. ASSUME NEW k \in 1..(n - 1)
         PROVE  LET e == at[k] + Len(Between(m, k)) IN
                /\ e <= IF k + 1 \in 1..(n - 1) THEN at[k + 1] ELSE stop
                /\ Slice(s, at[k], e) = Between(m, k)
    <2>1. k \in 1..n /\ k + 1 \in 1..n /\ at[k] = Len(c[k]) /\ gap(k + 1) = Between(m, k)
      BY <1>1, <1>5
    <2>2. /\ Slice(s, Len(c[k]), Len(c[k]) + Len(gap(k + 1))) = gap(k + 1)
          /\ Len(c[k]) + Len(gap(k + 1)) + Len(seed(k + 1)) = Len(c[k + 1])
      BY <1>12, <1>14, <2>1
    <2>3. Len(c[k]) \in Nat /\ Len(gap(k + 1)) \in Nat /\ Len(seed(k + 1)) \in Nat
      BY <1>9, <1>11, <2>1
    <2>4. Len(c[k]) + Len(gap(k + 1)) <= IF k + 1 \in 1..(n - 1) THEN at[k + 1] ELSE stop
      <3>1. CASE k + 1 \in 1..(n - 1)
        <4>1. at[k + 1] = Len(c[k + 1])
          BY <3>1
        <4>2. \A x, y, z \in Nat : x + y <= x + y + z
          OBVIOUS
        <4>3. Len(c[k]) + Len(gap(k + 1)) <= at[k + 1]
          BY <2>2, <2>3, <4>1, <4>2
        <4>. HIDE DEF at
        <4>. QED  BY <3>1, <4>3
      <3>2. CASE k + 1 \notin 1..(n - 1)
        <4>1. k = n - 1 /\ k + 1 = n /\ n # 1
          BY <1>1, <3>2
        <4>2. stop = Len(c[k]) + Len(gap(k + 1))
          BY <4>1
        <4>3. \A x, y \in Nat : x + y <= x + y
          OBVIOUS
        <4>4. Len(c[k]) + Len(gap(k + 1)) <= stop
          BY <2>3, <4>2, <4>3
        <4>. HIDE DEF at, stop
        <4>. QED  BY <3>2, <4>4
      <3>. QED  BY <3>1, <3>2
    <2>. HIDE DEF at, stop
    <2>. QED  BY <2>1, <2>2, <2>4
  <1>. HIDE DEF at, stop
  <1>22. Kept(m, s, stop, at)
    BY <1>20, <1>21 DEF Kept, first, last
  <1>23. SeedAt(m, s, stop)
    BY <1>18, <1>19, <1>22 DEF SeedAt, first, last, seed
  <1>. QED  BY <1>23 DEF s

\* Its last group still holds the seed of the last region.
LEMMA CanvasRefused ==
  ASSUME NEW m \in Sources, NEW src, m.regions # <<>>
  PROVE  Validate(m, src, Materialize(m)).verdict # "accepted"
  <1>. DEFINE s == Materialize(m)
              gs == Groups(m)
              ranges == Boundaries(m, gs, s)
              len == Len(gs)
              n == Len(m.regions)
              seed == Seed(m, n)
              last == SuffixStart(m, s)
              rs == ranges[len].start
  <1>. SUFFICES ASSUME Validate(m, src, s).verdict = "accepted" PROVE FALSE
    OBVIOUS
  <1>1. Len(m.regions) > 0
    BY SourceType
  <1>2. s \in Seq(Tokens) /\ GroupsInv(m, Len(m.regions), gs)
    BY <1>1, CanvasType, GroupsAre
  <1>3. /\ IsPrefix(Prefix(m), s) /\ SuffixKept(m, s)
        /\ ~(Len(Prefix(m)) + Len(Suffix(m)) > Len(s))
        /\ CheckSeeds(m, gs, ranges, s).verdict = "accepted"
    <2>. HIDE DEF s
    <2>1. \A why \in Verdicts \ {"accepted"} : Refuse(why).verdict # "accepted"
      BY DEF Refuse
    <2>2. {"stale-source", "marker", "prefix", "suffix", "overlap", "between"}
            \subseteq Verdicts \ {"accepted"}
      BY DEF Verdicts
    <2>3. src = m.source /\ ~HasRejectedMarker(s)
      BY <2>1, <2>2 DEF Validate
    <2>4. Validate(m, src, s) =
            IF ~IsPrefix(Prefix(m), s) THEN Refuse("prefix")
            ELSE IF ~SuffixKept(m, s) THEN Refuse("suffix")
            ELSE IF Len(Prefix(m)) + Len(Suffix(m)) > Len(s) THEN Refuse("overlap")
            ELSE IF ranges = <<>> THEN Refuse("between")
            ELSE CheckSeeds(m, gs, ranges, s)
      BY <2>3 DEF Validate
    <2>. HIDE DEF gs, ranges
    <2>. QED  BY <2>1, <2>2, <2>4
  <1>. HIDE DEF s, gs, ranges
  <1>4. Len(Prefix(m)) + Len(Suffix(m)) <= Len(s)
    <2>1. Len(Prefix(m)) \in Nat /\ Len(Suffix(m)) \in Nat /\ Len(s) \in Nat
      BY <1>1, <1>2, PrefixSuffixType
    <2>. QED  BY <1>3, <2>1
  <1>5. PICK stop : SeedAt(m, s, stop)
    BY <1>1, CanvasKeeps DEF s
  <1>6. PICK at : Kept(m, s, stop, at)
    BY <1>5 DEF SeedAt
  <1>7. stop \in Len(Prefix(m))..last /\ stop + Len(seed) = last /\ Slice(s, stop, last) = seed
    BY <1>5 DEF SeedAt
  <1>8. Placed(m, gs, s, len - 1, Len(Prefix(m)), ranges) /\ rs <= stop
    BY <1>1, <1>2, <1>4, <1>6, <1>7, KeptIsFound DEF ranges
  <1>9. len \in Nat /\ len > 0 /\ (len - 1) + 1 = len
    BY <1>1, <1>2, GroupsBounds
  <1>. HIDE DEF len
  <1>10. ranges \in Seq(Ranges) /\ Len(ranges) = len /\ ranges[len].end = last
    BY <1>8, <1>9 DEF Placed
  <1>11. ~ContainsSeed(Slice(s, rs, ranges[len].end), seed)
    <2>1. CheckSeeds(m, gs, ranges, s).verdict \notin {"placeholder", "invalid"}
      BY <1>3
    <2>. QED  BY <1>1, <1>2, <1>10, <2>1, LastInOrder DEF len
  <1>12. /\ rs \in Nat /\ stop \in Nat /\ last \in Nat /\ last <= Len(s) /\ stop <= last
    <2>1. ranges[len] \in Ranges
      BY <1>9, <1>10
    <2>2. last \in Nat /\ last <= Len(s) /\ Len(Prefix(m)) \in Nat
      BY <1>1, <1>2, <1>4, SuffixStartType
    <2>. QED  BY <1>7, <2>1, <2>2 DEF Ranges
  <1>. HIDE DEF last, rs
  <1>13. /\ Len(Slice(s, rs, last)) = last - rs
         /\ Slice(Slice(s, rs, last), stop - rs, last - rs) = Slice(s, stop, last)
    BY <1>2, <1>8, <1>12, SliceOfSlice
  <1>14. Len(seed) \in Nat
    <2>1. n \in 1..n
      BY <1>1, SourceType
    <2>2. seed \in Seq(Tokens)
      BY <2>1, SeedType
    <2>. QED  BY <2>2
  <1>. HIDE DEF seed
  <1>15. /\ stop - rs \in 0..((last - rs) - Len(seed))
         /\ (stop - rs) + Len(seed) = last - rs
    BY <1>7, <1>8, <1>12, <1>14
  <1>16. ContainsSeed(Slice(s, rs, last), seed)
    BY <1>7, <1>13, <1>15 DEF ContainsSeed
  <1>. QED  BY <1>10, <1>11, <1>16

-------------------------------------------------------------------------------
(***************************************************************************)
(* The invariant.                                                          *)
(***************************************************************************)
\* An accepted file comes with the plan that makes it of the source.
PlanMakesResolved ==
  verdict = "accepted" =>
    source = manifest.source /\ Planned(Tokens, source, resolved, plan)

\* The invariant: the canvas is a sequence of tokens, and the last answer is right.
IInv ==
  /\ TypeOK
  /\ resolved \in Seq(Tokens)
  /\ verdict # "diff"
  /\ AcceptedKeepsOutside
  /\ RefusedForCause
  /\ BlindOutputRefused
  /\ PlanMakesResolved

LEMMA InitIInv ==
  ASSUME Init
  PROVE  IInv
  <1>1. manifest \in Sources /\ resolved = Materialize(manifest)
        /\ verdict = "none" /\ plan = <<>> /\ edits = 0
    BY DEF Init
  <1>2. TypeOK
    BY <1>1, EditsAssumption DEF TypeOK, Verdicts
  <1>3. resolved \in Seq(Tokens)
    BY <1>1, CanvasType
  <1>. QED  BY <1>1, <1>2, <1>3
            DEF IInv, AcceptedKeepsOutside, RefusedForCause, BlindOutputRefused,
                PlanMakesResolved

LEMMA EditIInv ==
  ASSUME IInv, Edit
  PROVE  IInv'
  <1>1. /\ manifest' = manifest /\ verdict' = "none" /\ plan' = <<>>
        /\ edits < MaxEdits /\ edits' = edits + 1
    BY DEF Edit
  <1>2. TypeOK'
    BY <1>1, EditsAssumption DEF IInv, TypeOK, Verdicts
  <1>3. resolved' \in Seq(Tokens)
    <2>1. PICK a \in 0..Len(resolved), span \in 0..MaxSpan, f \in Fillings :
            /\ a + span <= Len(resolved)
            /\ resolved' = Slice(resolved, 0, a) \o f
                             \o Slice(resolved, a + span, Len(resolved))
      BY DEF Edit
    <2>2. resolved \in Seq(Tokens) /\ Len(resolved) \in Nat
      BY DEF IInv
    <2>3. f \in Seq(Tokens)
      <3>1. Range(f) \subseteq Tokens
        BY TokenSets
      <3>2. f \in Seq(Range(f))
        BY EditsAssumption
      <3>. HIDE DEF Tokens
      <3>. QED  BY <3>1, <3>2
    <2>4. a + span \in Nat /\ Len(resolved) \in 0..Len(resolved)
      BY <2>2, EditsAssumption
    <2>5. Slice(resolved, 0, a) \in Seq(Tokens)
          /\ Slice(resolved, a + span, Len(resolved)) \in Seq(Tokens)
      BY <2>2, <2>4, SliceType
    <2>. QED  BY <2>1, <2>3, <2>5
  <1>. QED  BY <1>1, <1>2, <1>3
            DEF IInv, AcceptedKeepsOutside, RefusedForCause, BlindOutputRefused,
                PlanMakesResolved

LEMMA ApplyIInv ==
  ASSUME IInv, Apply
  PROVE  IInv'
  <1>. DEFINE answer == Validate(manifest, source, resolved)
  <1>1. /\ verdict' = answer.verdict /\ plan' = answer.plan
        /\ UNCHANGED <<manifest, source, resolved, edits>>
    BY DEF Apply
  <1>2. manifest \in Sources /\ resolved \in Seq(Tokens)
    BY DEF IInv, TypeOK
  <1>3. Right(Tokens, manifest, source, resolved, answer)
    BY <1>2, SourceTokens, Answer
  <1>4. resolved = Materialize(manifest) /\ manifest.regions # <<>>
          => answer.verdict # "accepted"
    BY <1>2, CanvasRefused
  <1>. HIDE DEF answer
  <1>5. verdict' # "diff"
    BY <1>1, <1>3 DEF Right
  <1>6. TypeOK'
    <2>1. manifest' \in Sources /\ edits' \in 0..MaxEdits
      BY <1>1 DEF IInv, TypeOK
    <2>2. verdict' \in Verdicts /\ (plan' # <<>> => verdict' = "accepted")
      BY <1>1, <1>3 DEF Right
    <2>. QED  BY <2>1, <2>2 DEF TypeOK
  <1>7. AcceptedKeepsOutside'
    BY <1>1, <1>3 DEF AcceptedKeepsOutside, Right
  <1>8. RefusedForCause'
    BY <1>1, <1>3 DEF RefusedForCause, Right, Faults
  <1>9. BlindOutputRefused'
    BY <1>1, <1>4 DEF BlindOutputRefused
  <1>10. PlanMakesResolved'
    BY <1>1, <1>3 DEF PlanMakesResolved, Right
  <1>. QED  BY <1>1, <1>2, <1>5, <1>6, <1>7, <1>8, <1>9, <1>10 DEF IInv

LEMMA InstallIInv ==
  ASSUME IInv, Install
  PROVE  IInv'
  <1>1. /\ verdict' = "none" /\ plan' = <<>>
        /\ UNCHANGED <<manifest, resolved, edits>>
    BY DEF Install
  <1>2. TypeOK'
    BY <1>1 DEF IInv, TypeOK, Verdicts
  <1>. QED  BY <1>1, <1>2
            DEF IInv, AcceptedKeepsOutside, RefusedForCause, BlindOutputRefused,
                PlanMakesResolved

\* Init writes the canvas, an edit and an installation forget the answer, and
\* an answer is right about the manifest and the resolved bytes it was given.
THEOREM Invariance == Spec => []IInv
  <1>1. Init => IInv
    BY InitIInv
  <1>2. IInv /\ [Next]_vars => IInv'
    <2>. SUFFICES ASSUME IInv, [Next]_vars
                  PROVE  IInv'
      OBVIOUS
    <2>1. CASE Edit
      BY <2>1, EditIInv
    <2>2. CASE Apply
      BY <2>2, ApplyIInv
    <2>3. CASE Install
      BY <2>3, InstallIInv
    <2>4. CASE UNCHANGED vars
      BY <2>4
      DEF vars, IInv, TypeOK, AcceptedKeepsOutside, RefusedForCause, BlindOutputRefused,
          PlanMakesResolved
    <2>. QED  BY <2>1, <2>2, <2>3, <2>4 DEF Next
  <1>. QED  BY <1>1, <1>2, PTL DEF Spec

\* Every variable has its type: the answer of `apply` is a plan or one of the
\* refusals of validate_apply (core.rs:821-945), among which ApplyPlan::new has
\* none, and only an accepted file comes with a plan.
THEOREM TypeCorrect == Spec => []TypeOK
  <1>1. IInv => TypeOK
    BY DEF IInv
  <1>. QED  BY <1>1, Invariance, PTL

\* The hunks of a plan always make the resolved file of the source, so that
\* render_unified_diff (core.rs:1405-1411) never refuses what was accepted.
THEOREM PlansAreRendered == Spec => [](verdict # "diff")
  <1>1. IInv => verdict # "diff"
    BY DEF IInv
  <1>. QED  BY <1>1, Invariance, PTL

\* What validate_apply accepts (core.rs:816-945) is the source with something
\* else in the place of its conflicts, however the separators were aligned.
THEOREM OutsideIsKept == Spec => []AcceptedKeepsOutside
  <1>1. IInv => AcceptedKeepsOutside
    BY DEF IInv
  <1>. QED  BY <1>1, Invariance, PTL

\* What it refuses for its outside bytes is not: no alignment of the separators
\* that find_group_boundaries (core.rs:1061-1111) passes over would have done.
THEOREM RefusalsHaveACause == Spec => []RefusedForCause
  <1>1. IInv => RefusedForCause
    BY DEF IInv
  <1>. QED  BY <1>1, Invariance, PTL

\* The canvas of materialize_unresolved is never accepted: its last group still
\* holds the seed of the last region, wherever the alignment lets it start.
THEOREM BlindOutputIsRefused == Spec => []BlindOutputRefused
  <1>1. IInv => BlindOutputRefused
    BY DEF IInv
  <1>. QED  BY <1>1, Invariance, PTL

\* What the dry run shows is what the write installs: the diff of
\* render_unified_diff (core.rs:1365-1453) fits the source and makes the bytes of it
\* that replace it (apply.rs), by its line numbers; its new ranges are those of the
\* resolutions, and it can be taken back, but where a conflict is deleted or a
\* resolution without its final line ending has run into a next line.
THEOREM PreviewIsRight == Spec => PreviewIsInstalled
  <1>. DEFINE Step == source' # source => source' = resolved /\ DiffIsRight(source, plan, resolved)
  <1>1. IInv /\ [Next]_vars => [Step]_vars
    <2>. SUFFICES ASSUME IInv, [Next]_vars, source' # source
                  PROVE  source' = resolved /\ DiffIsRight(source, plan, resolved)
      OBVIOUS
    <2>1. Install
      BY DEF Next, Edit, Apply, vars
    <2>2. verdict = "accepted" /\ source' = resolved
      BY <2>1 DEF Install
    <2>3. Planned(Tokens, source, resolved, plan) /\ source = manifest.source
      BY <2>2 DEF IInv, PlanMakesResolved
    <2>4. source \in Seq(Tokens)
      BY <2>3, SourceTokens DEF IInv, TypeOK
    <2>. QED  BY <2>2, <2>3, <2>4, DiffsAreRight DEF Planned
  <1>2. Step => (source' # source =>
                   LET diff == Diff(source, resolved, plan)
                       deletes == \E k \in DOMAIN diff : diff[k].new_lines = <<>>
                   IN /\ Fits(source, diff) /\ Patched(source, diff) = source'
                      /\ KeepsFinalEols(diff) =>
                           /\ \A k \in DOMAIN diff :
                                diff[k].new_lines # <<>> => Stands(source', Reversed(diff)[k])
                           /\ deletes \/ TakesBack(source, source', diff))
    BY DEF DiffIsRight
  <1>. HIDE DEF Step
  <1>. QED  BY <1>1, <1>2, Invariance, PTL DEF Spec, PreviewIsInstalled

===============================================================================
