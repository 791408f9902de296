------------------------------- MODULE Stepwise --------------------------------
(***************************************************************************)
(* Functions defined step by step along the natural numbers: that they     *)
(* exist, what holds along them, and what a flattened sequence is.  The    *)
(* proofs about the validator, the parser and the text output rest on      *)
(* these lemmas.                                                           *)
(***************************************************************************)
EXTENDS Integers, Sequences, SequencesExt, FiniteSetsExt,
        SequenceTheorems, WellFoundedInduction, TLAPS

-------------------------------------------------------------------------------
(***************************************************************************)
(* Induction over a set of numbers, and recursion along 0..n.              *)
(***************************************************************************)
\* A set of natural numbers with an element has a least one.
LEMMA HasMin ==
  ASSUME NEW S \in SUBSET Nat, S # {}
  PROVE  Min(S) \in S /\ \A x \in S : Min(S) <= x
  <1>. DEFINE Less == OpToRel(<, Nat)
  <1>1. \A x, y \in Nat : x < y => <<x, y>> \in Less
    BY DEF OpToRel
  <1>2. IsWellFoundedOn(Less, Nat)
    BY NatLessThanWellFounded
  <1>. HIDE DEF Less
  <1>3. PICK m \in S : \A x \in S : ~(<<x, m>> \in Less)
    BY <1>2, WFMin
  <1>4. ASSUME NEW x \in S
        PROVE  m <= x
    <2>1. x \in Nat /\ m \in Nat
      OBVIOUS
    <2>2. ~(x < m)
      BY <1>1, <1>3, <2>1, Zenon
    <2>. QED  BY <2>1, <2>2
  <1>. QED  BY <1>4 DEF Min

\* What holds at 0 and passes from each number to the next holds up to n.
LEMMA Induction ==
  ASSUME NEW n \in Nat, NEW A, 0 \in A, \A i \in 0..(n - 1) : i \in A => i + 1 \in A
  PROVE  0..n \subseteq A
  <1>. DEFINE B == {i \in 0..n : i \notin A}
  <1>. SUFFICES ASSUME B # {} PROVE FALSE
    OBVIOUS
  <1>1. B \in SUBSET Nat
    OBVIOUS
  <1>2. PICK b \in B : \A x \in B : b <= x
    BY <1>1, HasMin
  <1>3. b \in 0..n /\ b \notin A /\ b # 0
    BY <1>2
  <1>4. b - 1 \in 0..(n - 1) /\ b - 1 \in 0..n
    BY <1>3
  <1>5. b - 1 \notin B
    BY <1>2, <1>4
  <1>6. b - 1 \in A
    BY <1>4, <1>5
  <1>7. (b - 1) + 1 = b
    BY <1>3
  <1>. QED  BY <1>3, <1>4, <1>6, <1>7

\* Whether f is what recursion along 0..n defines.
Iterates(f, n, S, base, step) ==
  /\ f \in [0..n -> S]
  /\ f[0] = base
  /\ \A i \in 1..n : f[i] = step[i][f[i - 1]]

\* Such a function exists.
LEMMA Recursion ==
  ASSUME NEW n \in Nat, NEW S, NEW base \in S, NEW step \in [1..n -> [S -> S]]
  PROVE  \E f : Iterates(f, n, S, base, step)
  <1>. DEFINE Holds(j, f) == /\ f \in [0..j -> S]
                             /\ f[0] = base
                             /\ \A i \in 1..j : f[i] = step[i][f[i - 1]]
              A == {j \in 0..n : \E f \in [0..j -> S] : Holds(j, f)}
  <1>1. 0 \in A
    <2>. DEFINE f == [i \in 0..0 |-> base]
    <2>1. f \in [0..0 -> S] /\ f[0] = base /\ 1..0 = {}
      OBVIOUS
    <2>. HIDE DEF f
    <2>2. Holds(0, f)
      BY <2>1
    <2>. QED  BY <2>1, <2>2
  <1>2. ASSUME NEW j \in 0..(n - 1), j \in A
        PROVE  j + 1 \in A
    <2>1. PICK f \in [0..j -> S] : Holds(j, f)
      BY <1>2
    <2>. DEFINE g == [i \in 0..(j + 1) |-> IF i = j + 1 THEN step[j + 1][f[j]] ELSE f[i]]
    <2>2. j + 1 \in 1..n /\ j \in 0..j
      OBVIOUS
    <2>3. step[j + 1] \in [S -> S] /\ f[j] \in S
      BY <2>2
    <2>4. step[j + 1][f[j]] \in S
      BY <2>3
    <2>5. \A i \in 0..j : g[i] = f[i] /\ f[i] \in S
      OBVIOUS
    <2>6. g[j + 1] = step[j + 1][f[j]]
      OBVIOUS
    <2>7. g \in [0..(j + 1) -> S]
      BY <2>4
    <2>. HIDE DEF g
    <2>8. ASSUME NEW i \in 1..(j + 1) PROVE g[i] = step[i][g[i - 1]]
      <3>1. CASE i = j + 1
        BY <3>1, <2>2, <2>5, <2>6
      <3>2. CASE i # j + 1
        <4>1. i \in 1..j /\ i \in 0..j /\ i - 1 \in 0..j
          BY <3>2
        <4>2. f[i] = step[i][f[i - 1]]
          BY <2>1, <4>1
        <4>. QED  BY <4>1, <4>2, <2>5
      <3>. QED  BY <3>1, <3>2
    <2>9. g[0] = base
      BY <2>1, <2>5
    <2>10. Holds(j + 1, g)
      BY <2>7, <2>8, <2>9
    <2>. QED  BY <2>2, <2>7, <2>10
  <1>3. n \in A
    <2>. HIDE DEF A
    <2>1. \A i \in 0..(n - 1) : i \in A => i + 1 \in A
      BY <1>2
    <2>2. 0..n \subseteq A
      BY <1>1, <2>1, Induction
    <2>. QED  BY <2>2
  <1>4. PICK f \in [0..n -> S] : Holds(n, f)
    BY <1>3
  <1>. QED  BY <1>4 DEF Iterates

\* A function that descends at no step descends nowhere.
LEMMA Ascending ==
  ASSUME NEW n \in Nat, NEW p \in [0..n -> Nat], \A k \in 1..n : p[k - 1] <= p[k],
         NEW j \in 0..n, NEW k \in j..n
  PROVE  p[j] <= p[k]
  <1>. DEFINE A == {h \in 0..n : h < j \/ p[j] <= p[h]}
  <1>1. 0 \in A
    <2>1. j = 0 \/ 0 < j
      OBVIOUS
    <2>2. p[0] \in Nat
      OBVIOUS
    <2>. QED  BY <2>1, <2>2
  <1>2. ASSUME NEW h \in 0..(n - 1), h \in A
        PROVE  h + 1 \in A
    <2>1. h + 1 \in 1..n /\ h + 1 \in 0..n /\ (h + 1) - 1 = h
      OBVIOUS
    <2>2. p[h] \in Nat /\ p[h + 1] \in Nat /\ p[j] \in Nat /\ p[h] <= p[h + 1]
      <3>1. p[(h + 1) - 1] <= p[h + 1]
        BY <2>1
      <3>. QED  BY <2>1, <3>1
    <2>3. h + 1 < j \/ h + 1 = j \/ p[j] <= p[h]
      BY <1>2
    <2>4. h + 1 < j \/ p[j] <= p[h + 1]
      BY <2>2, <2>3
    <2>. QED  BY <2>1, <2>4
  <1>3. 0..n \subseteq A
    <2>1. \A h \in 0..(n - 1) : h \in A => h + 1 \in A
      BY <1>2
    <2>. HIDE DEF A
    <2>. QED  BY <1>1, <2>1, Induction
  <1>4. k \in A /\ ~(k < j)
    BY <1>3
  <1>. QED  BY <1>4

\* A number up to p[n] is reached at some step.
LEMMA Reached ==
  ASSUME NEW n \in Nat, NEW p \in [0..n -> Nat], p[0] = 0,
         NEW i \in Nat, 0 < i, i <= p[n]
  PROVE  \E k \in 1..n : p[k - 1] < i /\ i <= p[k]
  <1>. DEFINE B == {k \in 0..n : i <= p[k]}
  <1>1. B \in SUBSET Nat /\ n \in B
    OBVIOUS
  <1>2. PICK m \in B : \A x \in B : m <= x
    BY <1>1, HasMin
  <1>3. m \in 0..n /\ i <= p[m]
    BY <1>2
  <1>4. m # 0
    BY <1>3
  <1>5. m - 1 \in 0..n /\ m - 1 \notin B /\ m \in 1..n
    BY <1>2, <1>3, <1>4
  <1>6. p[m - 1] \in Nat /\ ~(i <= p[m - 1])
    BY <1>5
  <1>. QED  BY <1>3, <1>5, <1>6

-------------------------------------------------------------------------------
(***************************************************************************)
(* Flattening.                                                             *)
(***************************************************************************)
\* Whether c has what the first sequences make, for each number of them.
Flattens(c, S, n, seqs) ==
  /\ \A i \in 1..n : c[i] \in Seq(S)
  /\ c[1] = seqs[1]
  /\ \A i \in 1..(n - 1) : c[i + 1] = c[i] \o seqs[i + 1]
  /\ FlattenSeq(seqs) = c[n]

LEMMA FlattenIs ==
  ASSUME NEW S, NEW n \in Nat, n # 0, NEW seqs \in [1..n -> Seq(S)]
  PROVE  \E c : Flattens(c, S, n, seqs)
  <1>. DEFINE T == Seq(S)
              step == [i \in 1..n |-> [t \in T |-> t \o seqs[i]]]
              from(f) == [i \in 1..n |-> IF i = 1 THEN seqs[i] ELSE f[i - 1] \o seqs[i]]
  <1>1. Len(seqs) = n /\ seqs \in Seq(T)
    BY IsASeq DEF T
  <1>2. step \in [1..n -> [T -> T]] /\ <<>> \in T
    OBVIOUS
  <1>3. PICK g : Iterates(g, n, T, <<>>, step)
    <2>. HIDE DEF step, T
    <2>. QED  BY <1>2, Recursion
  <1>4. \A i \in 1..n : g[i - 1] \in T /\ g[i] = g[i - 1] \o seqs[i]
    <2>. SUFFICES ASSUME NEW i \in 1..n
                  PROVE  g[i - 1] \in T /\ g[i] = g[i - 1] \o seqs[i]
      OBVIOUS
    <2>1. i - 1 \in 0..n /\ i \in 0..n /\ i # 0
      OBVIOUS
    <2>2. g[i - 1] \in T
      BY <1>3, <2>1 DEF Iterates
    <2>3. g[i] = step[i][g[i - 1]]
      <3>. HIDE DEF step
      <3>. QED  BY <1>3, <2>1 DEF Iterates
    <2>. QED  BY <2>2, <2>3
  <1>5. g[0] = <<>>
    BY <1>3 DEF Iterates
  <1>6. <<>> \o seqs[1] = seqs[1]
    OBVIOUS
  <1>. HIDE DEF step
  <1>. DEFINE h == [i \in 1..n |-> g[i]]
  <1>7. h = from(h)
    <2>1. ASSUME NEW i \in 1..n
          PROVE  h[i] = IF i = 1 THEN seqs[i] ELSE h[i - 1] \o seqs[i]
      <3>1. CASE i = 1
        <4>1. h[i] = g[i - 1] \o seqs[i] /\ i - 1 = 0
          BY <3>1, <1>4
        <4>. QED  BY <3>1, <4>1, <1>5, <1>6
      <3>2. CASE i # 1
        <4>1. i - 1 \in 1..n
          BY <3>2
        <4>. QED  BY <3>2, <4>1, <1>4
      <3>. QED  BY <3>1, <3>2
    <2>. QED  BY <2>1
  <1>. DEFINE c == CHOOSE f : f = from(f)
  <1>8. c = from(c)
    BY <1>7
  <1>9. FlattenSeq(seqs) = c[n]
    BY <1>1 DEF FlattenSeq
  <1>. HIDE DEF c
  <1>10. ASSUME NEW i \in 0..(n - 1)
         PROVE  c[i + 1] = IF i = 0 THEN seqs[i + 1] ELSE c[i] \o seqs[i + 1]
    <2>1. i + 1 \in 1..n /\ (i + 1) - 1 = i
      OBVIOUS
    <2>2. c[i + 1] = from(c)[i + 1]
      BY <1>8, Zenon
    <2>3. from(c)[i + 1] = IF i + 1 = 1 THEN seqs[i + 1] ELSE c[(i + 1) - 1] \o seqs[i + 1]
      BY <2>1
    <2>. QED  BY <2>1, <2>2, <2>3
  <1>. DEFINE A == {i \in 0..n : i = 0 \/ c[i] \in T}
  <1>11. \A i \in 0..(n - 1) : i \in A => i + 1 \in A
    <2>. SUFFICES ASSUME NEW i \in 0..(n - 1), i \in A PROVE c[i + 1] \in T
      OBVIOUS
    <2>1. i + 1 \in 1..n /\ seqs[i + 1] \in T
      OBVIOUS
    <2>2. c[i + 1] = IF i = 0 THEN seqs[i + 1] ELSE c[i] \o seqs[i + 1]
      BY <1>10
    <2>3. i # 0 => c[i] \in T
      OBVIOUS
    <2>. QED  BY <2>1, <2>2, <2>3
  <1>12. 0 \in A
    OBVIOUS
  <1>13. 0..n \subseteq A
    <2>. HIDE DEF A
    <2>. QED  BY <1>11, <1>12, Induction
  <1>14. \A i \in 1..n : c[i] \in T
    BY <1>13
  <1>15. c[1] = seqs[1] /\ \A i \in 1..(n - 1) : c[i + 1] = c[i] \o seqs[i + 1]
    <2>1. c[0 + 1] = seqs[0 + 1]
      <3>1. 0 \in 0..(n - 1)
        OBVIOUS
      <3>. QED  BY <1>10, <3>1
    <2>2. ASSUME NEW i \in 1..(n - 1) PROVE c[i + 1] = c[i] \o seqs[i + 1]
      <3>1. i \in 0..(n - 1) /\ i # 0
        OBVIOUS
      <3>. QED  BY <1>10, <3>1
    <2>3. 0 + 1 = 1
      OBVIOUS
    <2>. QED  BY <2>1, <2>2, <2>3, Zenon
  <1>16. Flattens(c, S, n, seqs)
    BY <1>9, <1>14, <1>15 DEF Flattens
  <1>. QED  BY <1>16

LEMMA FlattenType ==
  ASSUME NEW S, NEW n \in Nat, NEW seqs \in [1..n -> Seq(S)]
  PROVE  FlattenSeq(seqs) \in Seq(S)
  <1>1. CASE n = 0
    <2>1. Len(seqs) = 0
      BY <1>1, IsASeq
    <2>. QED  BY <2>1 DEF FlattenSeq
  <1>2. CASE n # 0
    <2>1. PICK c : Flattens(c, S, n, seqs)
      BY <1>2, FlattenIs
    <2>. QED  BY <1>2, <2>1 DEF Flattens
  <1>. QED  BY <1>1, <1>2

\* One more sequence comes behind what the others make.
Extended(n, seqs, last) == [i \in 1..(n + 1) |-> IF i = n + 1 THEN last ELSE seqs[i]]

LEMMA FlattenAppend ==
  ASSUME NEW S, NEW n \in Nat, NEW seqs \in [1..n -> Seq(S)], NEW last \in Seq(S)
  PROVE  FlattenSeq(Extended(n, seqs, last)) = FlattenSeq(seqs) \o last
  <1>. DEFINE more == Extended(n, seqs, last)
  <1>1. /\ more \in [1..(n + 1) -> Seq(S)] /\ more[n + 1] = last /\ n + 1 \in Nat /\ n + 1 # 0
        /\ \A i \in 1..n : more[i] = seqs[i]
    BY DEF Extended
  <1>. HIDE DEF more
  <1>2. PICK d : Flattens(d, S, n + 1, more)
    BY <1>1, FlattenIs
  <1>3. /\ FlattenSeq(more) = d[n + 1] /\ d[1] = more[1]
        /\ \A i \in 1..n : d[i + 1] = d[i] \o more[i + 1]
    <2>1. (n + 1) - 1 = n
      OBVIOUS
    <2>. QED  BY <1>2, <2>1 DEF Flattens
  <1>4. CASE n = 0
    <2>1. Len(seqs) = 0
      BY <1>4, IsASeq
    <2>2. FlattenSeq(seqs) = <<>>
      BY <2>1 DEF FlattenSeq
    <2>. QED  BY <1>1, <1>3, <1>4, <2>2 DEF more
  <1>5. CASE n # 0
    <2>1. PICK c : Flattens(c, S, n, seqs)
      BY <1>5, FlattenIs
    <2>2. /\ FlattenSeq(seqs) = c[n] /\ c[1] = seqs[1]
          /\ \A i \in 1..(n - 1) : c[i + 1] = c[i] \o seqs[i + 1]
      BY <2>1 DEF Flattens
    <2>. DEFINE A == {i \in 0..n : i = 0 \/ c[i] = d[i]}
    <2>3. ASSUME NEW i \in 0..(n - 1), i \in A
          PROVE  i + 1 \in A
      <3>1. CASE i = 0
        <4>1. 1 \in 1..n
          BY <1>5
        <4>. QED  BY <1>1, <1>3, <2>2, <3>1, <4>1
      <3>2. CASE i # 0
        <4>1. i \in 1..n /\ i \in 1..(n - 1) /\ i + 1 \in 1..n
          BY <3>2
        <4>2. c[i] = d[i]
          BY <2>3, <3>2
        <4>3. c[i + 1] = d[i] \o more[i + 1]
          BY <1>1, <2>2, <4>1, <4>2
        <4>4. d[i + 1] = d[i] \o more[i + 1]
          BY <1>3, <4>1
        <4>5. c[i + 1] = d[i + 1]
          BY <4>3, <4>4, Zenon
        <4>. QED  BY <4>1, <4>5
      <3>. QED  BY <3>1, <3>2
    <2>4. 0..n \subseteq A
      <3>1. 0 \in A
        OBVIOUS
      <3>2. \A i \in 0..(n - 1) : i \in A => i + 1 \in A
        BY <2>3
      <3>. HIDE DEF A
      <3>. QED  BY <3>1, <3>2, Induction
    <2>5. c[n] = d[n] /\ n \in 1..n
      <3>1. n \in 0..n
        OBVIOUS
      <3>. QED  BY <1>5, <2>4, <3>1
    <2>6. d[n + 1] = d[n] \o more[n + 1]
      BY <1>3, <2>5
    <2>. QED  BY <1>1, <1>3, <2>2, <2>5, <2>6 DEF more
  <1>. QED  BY <1>4, <1>5

\* Where the sequences begin in what they make: the k-th behind p[k - 1].
Spread(p, n, seqs, flat) ==
  /\ p \in [0..n -> Nat] /\ p[0] = 0
  /\ \A k \in 1..n : p[k] = p[k - 1] + Len(seqs[k])
  /\ Len(flat) = p[n]
  /\ \A k \in 1..n : \A j \in 1..Len(seqs[k]) : flat[p[k - 1] + j] = seqs[k][j]

LEMMA FlattenAt ==
  ASSUME NEW S, NEW n \in Nat, n # 0, NEW seqs \in [1..n -> Seq(S)]
  PROVE  \E p : Spread(p, n, seqs, FlattenSeq(seqs))
  <1>1. PICK c : Flattens(c, S, n, seqs)
    BY FlattenIs
  <1>. DEFINE p == [k \in 0..n |-> IF k = 0 THEN 0 ELSE Len(c[k])]
  <1>2. /\ \A i \in 1..n : c[i] \in Seq(S) /\ seqs[i] \in Seq(S)
        /\ c[1] = seqs[1] /\ FlattenSeq(seqs) = c[n]
        /\ \A i \in 1..(n - 1) : c[i + 1] = c[i] \o seqs[i + 1]
    BY <1>1 DEF Flattens
  <1>3. p[0] = 0 /\ \A k \in 1..n : p[k] = Len(c[k])
    OBVIOUS
  <1>4. p \in [0..n -> Nat]
    <2>1. \A k \in 1..n : Len(c[k]) \in Nat
      BY <1>2
    <2>. QED  BY <2>1
  <1>. HIDE DEF p
  <1>. DEFINE At(i) == /\ \A k \in 1..i : p[k] = p[k - 1] + Len(seqs[k])
                       /\ \A k \in 1..i : \A j \in 1..Len(seqs[k]) : c[i][p[k - 1] + j] = seqs[k][j]
              A == {i \in 0..n : i = 0 \/ At(i)}
  <1>5. ASSUME NEW i \in 0..(n - 1), i \in A
        PROVE  i + 1 \in A
    <2>1. i + 1 \in 0..n /\ i + 1 \in 1..n /\ (i + 1) - 1 = i
      OBVIOUS
    <2>2. CASE i = 0
      <3>1. p[1] = p[0] + Len(seqs[1])
        <4>1. 1 \in 1..n /\ Len(seqs[1]) \in Nat
          BY <1>2, <2>1, <2>2
        <4>. QED  BY <1>2, <1>3, <4>1
      <3>2. ASSUME NEW j \in 1..Len(seqs[1]) PROVE c[1][p[0] + j] = seqs[1][j]
        BY <1>2, <1>3
      <3>3. At(1)
        <4>1. \A k \in 1..1 : k = 1
          OBVIOUS
        <4>2. 1 - 1 = 0
          OBVIOUS
        <4>. QED  BY <3>1, <3>2, <4>1, <4>2
      <3>4. i + 1 = 1
        BY <2>2
      <3>. HIDE DEF At
      <3>. QED  BY <2>1, <3>3, <3>4
    <2>3. CASE i # 0
      <3>1. i \in 1..n /\ i \in 1..(n - 1)
        BY <2>3
      <3>2. At(i)
        BY <1>5, <2>3
      <3>. DEFINE d == c[i]
                  e == seqs[i + 1]
      <3>3. d \in Seq(S) /\ e \in Seq(S) /\ c[i + 1] = d \o e /\ p[i] = Len(d) /\ p[i + 1] = Len(c[i + 1])
        BY <1>2, <1>3, <2>1, <3>1
      <3>4. p[i + 1] = p[(i + 1) - 1] + Len(e)
        <4>. HIDE DEF d, e
        <4>1. Len(d \o e) = Len(d) + Len(e)
          BY <3>3, ConcatProperties
        <4>. QED  BY <2>1, <3>3, <4>1
      <3>5. ASSUME NEW j \in 1..Len(e) PROVE c[i + 1][p[(i + 1) - 1] + j] = e[j]
        <4>. HIDE DEF d, e
        <4>1. Len(d) \in Nat /\ Len(e) \in Nat
          BY <3>3
        <4>2. Len(d) + j \in 1..(Len(d) + Len(e)) /\ ~(Len(d) + j <= Len(d)) /\ (Len(d) + j) - Len(d) = j
          BY <4>1
        <4>3. (d \o e)[Len(d) + j] = e[j]
          BY <3>3, <4>2, ConcatProperties
        <4>. QED  BY <2>1, <3>3, <4>3
      <3>6. ASSUME NEW k \in 1..i, NEW j \in 1..Len(seqs[k])
            PROVE  c[i + 1][p[k - 1] + j] = seqs[k][j]
        <4>1. d[p[k - 1] + j] = seqs[k][j] /\ p[k] = p[k - 1] + Len(seqs[k])
          BY <3>2
        <4>2. p[k - 1] \in Nat /\ p[k] \in Nat /\ k \in 1..n /\ Len(seqs[k]) \in Nat
          <5>1. k - 1 \in 0..n /\ k \in 0..n /\ k \in 1..n
            BY <3>1
          <5>. QED  BY <1>2, <1>4, <5>1
        <4>3. p[k] <= p[i]
          <5>. DEFINE pi == [h \in 0..i |-> p[h]]
          <5>1. pi \in [0..i -> Nat]
            BY <1>4
          <5>2. ASSUME NEW h \in 1..i PROVE pi[h - 1] <= pi[h]
            <6>1. h \in 0..i /\ h - 1 \in 0..i /\ h \in 1..n
              BY <3>1
            <6>2. p[h] = p[h - 1] + Len(seqs[h]) /\ Len(seqs[h]) \in Nat
              BY <1>2, <3>2, <6>1
            <6>3. p[h - 1] \in Nat
              BY <1>4, <6>1
            <6>. QED  BY <6>1, <6>2, <6>3
          <5>3. i \in Nat /\ k \in 0..i /\ i \in k..i
            BY <3>1
          <5>4. pi[k] <= pi[i]
            <6>. HIDE DEF pi
            <6>. QED  BY <5>1, <5>2, <5>3, Ascending
          <5>. QED  BY <5>3, <5>4
        <4>. DEFINE q == p[k - 1] + j
        <4>4. q \in 1..Len(d)
          BY <3>3, <4>1, <4>2, <4>3
        <4>. HIDE DEF d, e, q
        <4>5. Len(d) \in Nat /\ Len(e) \in Nat
          BY <3>3
        <4>6. q \in 1..(Len(d) + Len(e)) /\ q <= Len(d)
          BY <4>4, <4>5
        <4>7. (d \o e)[q] = d[q]
          BY <3>3, <4>6, ConcatProperties
        <4>. QED  BY <3>3, <4>1, <4>7 DEF q
      <3>7. ASSUME NEW k \in 1..(i + 1)
            PROVE  /\ p[k] = p[k - 1] + Len(seqs[k])
                   /\ \A j \in 1..Len(seqs[k]) : c[i + 1][p[k - 1] + j] = seqs[k][j]
        <4>1. CASE k = i + 1
          BY <3>4, <3>5, <4>1
        <4>2. CASE k # i + 1
          <5>1. k \in 1..i
            BY <4>2
          <5>. QED  BY <3>2, <3>6, <5>1
        <4>. QED  BY <4>1, <4>2
      <3>8. At(i + 1)
        BY <3>7
      <3>. HIDE DEF At
      <3>. QED  BY <2>1, <3>8
    <2>. QED  BY <2>2, <2>3
  <1>6. n \in A
    <2>1. \A i \in 0..(n - 1) : i \in A => i + 1 \in A
      BY <1>5
    <2>2. 0 \in A
      OBVIOUS
    <2>. HIDE DEF A
    <2>3. 0..n \subseteq A
      BY <2>1, <2>2, Induction
    <2>. QED  BY <2>3
  <1>7. At(n)
    BY <1>6
  <1>8. Len(c[n]) = p[n]
    BY <1>3
  <1>. HIDE DEF At
  <1>9. Spread(p, n, seqs, c[n])
    BY <1>3, <1>4, <1>7, <1>8 DEF Spread, At
  <1>. QED  BY <1>2, <1>9

-------------------------------------------------------------------------------
(***************************************************************************)
(* Induction along a sequence, and flattening one element after another.   *)
(***************************************************************************)
\* A prefix one element longer is the prefix with that element appended.
LEMMA PrefixGrows ==
  ASSUME NEW S, NEW seq \in Seq(S), NEW k \in 1..Len(seq)
  PROVE  SubSeq(seq, 1, k) = Append(SubSeq(seq, 1, k - 1), seq[k])
<1>1. SubSeq(seq, 1, k) \in Seq(S) /\ Len(SubSeq(seq, 1, k)) = k
  OBVIOUS
<1>2. /\ SubSeq(seq, 1, k - 1) \in Seq(S) /\ Len(SubSeq(seq, 1, k - 1)) = k - 1
      /\ \A i \in 1..(k - 1) : SubSeq(seq, 1, k - 1)[i] = seq[i]
  OBVIOUS
<1>3. \A i \in 1..k : SubSeq(seq, 1, k)[i] = seq[i]
  OBVIOUS
<1> DEFINE shorter == SubSeq(seq, 1, k - 1)
<1>4. /\ Append(shorter, seq[k]) \in Seq(S) /\ Len(Append(shorter, seq[k])) = k
      /\ \A i \in 1..k : Append(shorter, seq[k])[i] = seq[i]
  <2>1. seq[k] \in S /\ k \in Nat
    OBVIOUS
  <2> HIDE DEF shorter
  <2>2. shorter \in Seq(S) /\ Len(shorter) = k - 1 /\ \A i \in 1..(k - 1) : shorter[i] = seq[i]
    BY <1>2 DEF shorter
  <2> QED
    BY <2>1, <2>2
<1> QED
  BY <1>1, <1>3, <1>4

\* What holds of the empty sequence, and is kept by one element more, holds of all.
LEMMA SeqInduction ==
  ASSUME NEW S, NEW A, <<>> \in A, \A t \in Seq(S) : \A b \in S : t \in A => Append(t, b) \in A
  PROVE  Seq(S) \subseteq A
<1> SUFFICES ASSUME NEW seq \in Seq(S)
             PROVE  seq \in A
  OBVIOUS
<1> DEFINE P(i) == SubSeq(seq, 1, i)
           n == Len(seq)
           I == {i \in 0..n : P(i) \in A}
<1>1. n \in Nat
  OBVIOUS
<1>2. 0 \in I
  <2>1. P(0) = <<>>
    BY SubSeqEmpty
  <2>2. P(0) \in A
    <3> HIDE DEF P
    <3> QED
      BY <2>1
  <2> QED
    BY <1>1, <2>2
<1>3. ASSUME NEW i \in 0..(n - 1), i \in I
      PROVE  i + 1 \in I
  <2>1. i + 1 \in 1..n /\ (i + 1) - 1 = i
    BY <1>1
  <2>2. P(i) \in Seq(S) /\ seq[i + 1] \in S
    BY <2>1
  <2>3. P(i + 1) = Append(P(i), seq[i + 1])
    BY <2>1, PrefixGrows
  <2>4. P(i + 1) \in A
    <3> HIDE DEF P
    <3> QED
      BY <1>3, <2>2, <2>3
  <2> QED
    BY <2>1, <2>4
<1>4. 0..n \subseteq I
  <2> HIDE DEF I
  <2> QED
    BY <1>1, <1>2, <1>3, Induction
<1>5. P(n) = seq
  OBVIOUS
<1> QED
  <2>1. n \in I
    BY <1>1, <1>4
  <2> QED
    BY <1>5, <2>1

\* Flattening goes through a sequence one element after the other.
LEMMA FlattenEmpty == FlattenSeq(<<>>) = <<>>
BY DEF FlattenSeq

LEMMA FlattenSnoc ==
  ASSUME NEW S, NEW seqs \in Seq(Seq(S)), NEW last \in Seq(S)
  PROVE  /\ FlattenSeq(seqs) \in Seq(S)
         /\ FlattenSeq(Append(seqs, last)) = FlattenSeq(seqs) \o last
<1> DEFINE n == Len(seqs)
<1>1. n \in Nat /\ seqs \in [1..n -> Seq(S)]
  OBVIOUS
<1>2. Extended(n, seqs, last) = Append(seqs, last)
  <2>1. Extended(n, seqs, last) \in Seq(Seq(S)) /\ Len(Extended(n, seqs, last)) = n + 1
    BY <1>1, IsASeq DEF Extended
  <2>2. Append(seqs, last) \in Seq(Seq(S)) /\ Len(Append(seqs, last)) = n + 1
    OBVIOUS
  <2>3. \A i \in 1..(n + 1) : Extended(n, seqs, last)[i] = Append(seqs, last)[i]
    BY DEF Extended
  <2> QED
    BY <2>1, <2>2, <2>3, SeqEqual
<1> HIDE DEF n
<1>3. FlattenSeq(seqs) \in Seq(S)
  BY <1>1, FlattenType
<1>4. FlattenSeq(Extended(n, seqs, last)) = FlattenSeq(seqs) \o last
  BY <1>1, FlattenAppend
<1> QED
  BY <1>2, <1>3, <1>4, Zenon

LEMMA FlattenConcat ==
  ASSUME NEW S, NEW a \in Seq(Seq(S)), NEW b \in Seq(Seq(S))
  PROVE  FlattenSeq(a \o b) = FlattenSeq(a) \o FlattenSeq(b)
<1> DEFINE A == {t \in Seq(Seq(S)) : FlattenSeq(a \o t) = FlattenSeq(a) \o FlattenSeq(t)}
<1>1. <<>> \in A
  <2>1. a \o <<>> = a
    OBVIOUS
  <2>2. FlattenSeq(a) \in Seq(S)
    BY EmptySeq, FlattenSnoc
  <2>3. FlattenSeq(a) \o <<>> = FlattenSeq(a)
    BY <2>2
  <2>4. FlattenSeq(a \o <<>>) = FlattenSeq(a) \o FlattenSeq(<<>>)
    BY <2>1, <2>3, FlattenEmpty, Zenon
  <2> QED
    BY <2>4, EmptySeq
<1>2. ASSUME NEW t \in Seq(Seq(S)), NEW u \in Seq(S), t \in A
      PROVE  Append(t, u) \in A
  <2>1. a \o Append(t, u) = Append(a \o t, u)
    OBVIOUS
  <2>2. a \o t \in Seq(Seq(S)) /\ Append(t, u) \in Seq(Seq(S))
    OBVIOUS
  <2> DEFINE F(s) == FlattenSeq(s)
  <2>3. F(a) \in Seq(S) /\ F(t) \in Seq(S) /\ F(a \o t) \in Seq(S)
    BY <2>2, FlattenSnoc
  <2>4. F(Append(a \o t, u)) = F(a \o t) \o u /\ F(Append(t, u)) = F(t) \o u
    BY <2>2, FlattenSnoc
  <2>5. F(a \o t) = F(a) \o F(t)
    BY <1>2
  <2>6. (F(a) \o F(t)) \o u = F(a) \o (F(t) \o u)
    BY <2>3, ConcatAssociative
  <2>7. F(a \o Append(t, u)) = F(a) \o F(Append(t, u))
    <3> HIDE DEF F
    <3> QED
      BY <2>1, <2>4, <2>5, <2>6, Zenon
  <2> QED
    BY <2>2, <2>7
<1>3. Seq(Seq(S)) \subseteq A
  <2> HIDE DEF A
  <2> QED
    BY <1>1, <1>2, SeqInduction
<1> QED
  BY <1>3

\* A function on one more position is a sequence with one element more.
LEMMA OneMore ==
  ASSUME NEW T, NEW seq \in Seq(T), NEW last \in T,
         NEW longer \in [1..(Len(seq) + 1) -> T],
         \A k \in 1..Len(seq) : longer[k] = seq[k], longer[Len(seq) + 1] = last
  PROVE  longer = Append(seq, last)
<1> DEFINE a == Append(seq, last)
           l == Len(seq)
<1>1. l \in Nat
  OBVIOUS
<1>2. /\ a \in Seq(T) /\ Len(a) = l + 1
      /\ \A k \in 1..l : a[k] = seq[k]
      /\ a[l + 1] = last
  BY AppendProperties
<1>3. longer \in Seq(T) /\ Len(longer) = l + 1
  BY <1>1
<1>4. ASSUME NEW k \in 1..(l + 1)
      PROVE  longer[k] = a[k]
  <2> HIDE DEF a, l
  <2>1. k = l + 1 \/ k \in 1..l
    BY <1>1
  <2> QED
    BY <1>2, <2>1 DEF l
<1> HIDE DEF a, l
<1>5. longer = a
  BY <1>2, <1>3, <1>4, SeqEqual
<1> QED
  BY <1>5 DEF a

\* To flatten twice is to flatten each part, and what that gives.
FlattenedEach(seqs) == [k \in DOMAIN seqs |-> FlattenSeq(seqs[k])]

LEMMA FlattenFlatten ==
  ASSUME NEW S, NEW seqs \in Seq(Seq(Seq(S)))
  PROVE  /\ FlattenedEach(seqs) \in Seq(Seq(S))
         /\ FlattenSeq(FlattenSeq(seqs)) = FlattenSeq(FlattenedEach(seqs))
<1> DEFINE A == {s \in Seq(Seq(Seq(S))) :
                   /\ FlattenedEach(s) \in Seq(Seq(S))
                   /\ FlattenSeq(FlattenSeq(s)) = FlattenSeq(FlattenedEach(s))}
<1>1. <<>> \in A
  <2>1. FlattenedEach(<<>>) = <<>>
    BY DEF FlattenedEach
  <2>2. <<>> \in Seq(Seq(S)) /\ <<>> \in Seq(Seq(Seq(S)))
    BY EmptySeq
  <2>3. FlattenSeq(FlattenSeq(<<>>)) = FlattenSeq(FlattenedEach(<<>>))
    BY <2>1, FlattenEmpty, Zenon
  <2> QED
    BY <2>1, <2>2, <2>3
<1>2. ASSUME NEW s \in Seq(Seq(Seq(S))), NEW t \in Seq(Seq(S)), s \in A
      PROVE  Append(s, t) \in A
  <2> DEFINE g == FlattenedEach(s)
             f == FlattenSeq(t)
             h == FlattenedEach(Append(s, t))
             l == Len(s)
  <2>1. /\ FlattenSeq(s) \in Seq(Seq(S))
        /\ FlattenSeq(Append(s, t)) = FlattenSeq(s) \o t
    BY FlattenSnoc
  <2>2. f \in Seq(S)
    BY EmptySeq, FlattenSnoc
  <2>3. Append(s, t) \in Seq(Seq(Seq(S))) /\ l \in Nat
    OBVIOUS
  <2>4. g \in Seq(Seq(S)) /\ FlattenSeq(FlattenSeq(s)) = FlattenSeq(g)
    BY <1>2
  <2>5. h = Append(g, f)
    <3>1. DOMAIN s = 1..l /\ DOMAIN Append(s, t) = 1..(l + 1)
      OBVIOUS
    <3>2. (\A k \in 1..l : Append(s, t)[k] = s[k]) /\ Append(s, t)[l + 1] = t
      OBVIOUS
    <3>3. DOMAIN g = 1..l /\ \A k \in 1..l : g[k] = FlattenSeq(s[k])
      BY <3>1 DEF FlattenedEach
    <3>4. /\ h = [k \in 1..(l + 1) |-> FlattenSeq(Append(s, t)[k])]
      BY <3>1 DEF FlattenedEach
    <3>5. \A k \in 1..l : h[k] = FlattenSeq(s[k])
      BY <2>3, <3>2, <3>4
    <3>6. h[l + 1] = f
      <4>1. l + 1 \in 1..(l + 1)
        BY <2>3
      <4> QED
        BY <3>2, <3>4, <4>1
    <3>7. DOMAIN h = 1..(l + 1) /\ h = [k \in 1..(l + 1) |-> h[k]]
      BY <3>4
    <3>8. Len(g) = l
      BY <2>4, <3>3
    <3> HIDE DEF g, f, h, l
    <3>9. \A k \in 1..l : h[k] = g[k]
      BY <3>3, <3>5
    <3> QED
      <4>1. \A k \in 1..l : g[k] \in Seq(S)
        BY <2>4, <3>8, ElementOfSeq
      <4>2. \A k \in 1..(l + 1) : k = l + 1 \/ k \in 1..l
        BY <2>3
      <4>3. \A k \in 1..(l + 1) : h[k] \in Seq(S)
        BY <2>2, <3>6, <3>9, <4>1, <4>2, Zenon
      <4>4. h \in [1..(l + 1) -> Seq(S)]
        BY <3>7, <4>3, Zenon
      <4> QED
        BY <2>2, <2>4, <3>6, <3>8, <3>9, <4>4, OneMore
  <2> HIDE DEF g, f, h
  <2>6. Append(g, f) \in Seq(Seq(S)) /\ FlattenSeq(Append(g, f)) = FlattenSeq(g) \o f
    <3>1. g \in Seq(Seq(S)) /\ f \in Seq(S)
      BY <2>2, <2>4, Zenon
    <3>2. FlattenSeq(Append(g, f)) = FlattenSeq(g) \o f
      BY <3>1, FlattenSnoc, Zenon
    <3>3. Append(g, f) \in Seq(Seq(S))
      BY <3>1
    <3> QED
      BY <3>2, <3>3
  <2>7. FlattenSeq(FlattenSeq(s) \o t) = FlattenSeq(FlattenSeq(s)) \o f
    BY <2>1, FlattenConcat DEF f
  <2>8. h \in Seq(Seq(S)) /\ FlattenSeq(FlattenSeq(Append(s, t))) = FlattenSeq(h)
    BY <2>1, <2>4, <2>5, <2>6, <2>7
  <2> QED
    BY <2>3, <2>8 DEF h
<1>3. Seq(Seq(Seq(S))) \subseteq A
  <2> HIDE DEF A
  <2> QED
    BY <1>1, <1>2, SeqInduction
<1> QED
  BY <1>3

-------------------------------------------------------------------------------
(***************************************************************************)
(* Recursion from the end, and parts of a sequence.                        *)
(***************************************************************************)
\* Whether what is defined at a position depends only on the positions behind it.
Foresees(step, n, S) ==
  \A i \in 1..n : \A f, g \in [1..(n + 1) -> S] :
    (\A j \in (i + 1)..(n + 1) : f[j] = g[j]) => step[i][f] = step[i][g]

\* Whether f is what recursion from the end of 1..n defines.
Descends(f, n, S, base, step) ==
  /\ f \in [1..(n + 1) -> S]
  /\ f[n + 1] = base
  /\ \A i \in 1..n : f[i] = step[i][f]

\* Such a function exists.
LEMMA Backwards ==
  ASSUME NEW n \in Nat, NEW S, NEW base \in S,
         NEW step \in [1..n -> [[1..(n + 1) -> S] -> S]], Foresees(step, n, S)
  PROVE  \E f : Descends(f, n, S, base, step)
<1> DEFINE F == [1..(n + 1) -> S]
           first == [j \in 1..(n + 1) |-> base]
           write == [k \in 1..n |-> [f \in F |-> [f EXCEPT ![n + 1 - k] = step[n + 1 - k][f]]]]
<1>1. first \in F /\ write \in [1..n -> [F -> F]]
  <2>1. ASSUME NEW k \in 1..n, NEW f \in F
        PROVE  [f EXCEPT ![n + 1 - k] = step[n + 1 - k][f]] \in F
    <3>1. n + 1 - k \in 1..n
      OBVIOUS
    <3>2. step[n + 1 - k] \in [F -> S]
      BY <3>1
    <3>3. step[n + 1 - k][f] \in S
      BY <3>2
    <3> HIDE DEF F
    <3> DEFINE s == step[n + 1 - k][f]
               i == n + 1 - k
    <3>4. s \in S /\ f \in [1..(n + 1) -> S]
      BY <3>3 DEF F
    <3> HIDE DEF s, i
    <3>5. [f EXCEPT ![i] = s] \in [1..(n + 1) -> S]
      BY <3>4
    <3> QED
      BY <3>5 DEF F, s, i
  <2>2. first \in F
    OBVIOUS
  <2> HIDE DEF F
  <2> QED
    BY <2>1, <2>2
<1>2. PICK g : Iterates(g, n, F, first, write)
  <2> HIDE DEF F, first, write
  <2> QED
    BY <1>1, Recursion
<1>3. g \in [0..n -> F] /\ g[0] = first /\ \A k \in 1..n : g[k] = write[k][g[k - 1]]
  BY <1>2 DEF Iterates
<1> DEFINE Done(k) == /\ g[k][n + 1] = base
                      /\ \A i \in (n + 1 - k)..n : g[k][i] = step[i][g[k]]
           A == {k \in 0..n : Done(k)}
<1>4. 0 \in A
  <2>1. (n + 1 - 0)..n = {} /\ n + 1 \in 1..(n + 1)
    OBVIOUS
  <2> QED
    BY <1>3, <2>1
<1>5. ASSUME NEW k \in 0..(n - 1), k \in A
      PROVE  k + 1 \in A
  <2> DEFINE e == g[k]
             h == g[k + 1]
             m == n - k
  <2>1. k \in 0..n /\ k + 1 \in 1..n /\ k + 1 \in 0..n /\ (k + 1) - 1 = k /\ n + 1 - (k + 1) = n - k /\ m \in 1..n
    OBVIOUS
  <2>2. e \in F /\ h \in F
    BY <1>3, <2>1
  <2>3. h = write[k + 1][e]
    BY <1>3, <2>1
  <2>4. write[k + 1][e] = [e EXCEPT ![m] = step[m][e]]
    <3> HIDE DEF F, e, m
    <3>1. write[k + 1] = [f \in F |-> [f EXCEPT ![n + 1 - (k + 1)] = step[n + 1 - (k + 1)][f]]]
      BY <2>1
    <3>2. n + 1 - (k + 1) = m
      BY <2>1 DEF m
    <3> QED
      BY <2>2, <3>1, <3>2
  <2>5. e[n + 1] = base /\ \A i \in (n + 1 - k)..n : e[i] = step[i][e]
    BY <1>5
  <2> HIDE DEF e, h, write
  <2>6. e \in [1..(n + 1) -> S] /\ h \in [1..(n + 1) -> S] /\ h = [e EXCEPT ![m] = step[m][e]]
    BY <2>2, <2>3, <2>4
  <2>7. h[m] = step[m][e] /\ \A j \in (m + 1)..(n + 1) : h[j] = e[j]
    BY <2>1, <2>6
  <2>8. \A i \in m..n : step[i][e] = step[i][h]
    <3> SUFFICES ASSUME NEW i \in m..n PROVE step[i][e] = step[i][h]
      OBVIOUS
    <3>1. i \in 1..n /\ \A j \in (i + 1)..(n + 1) : e[j] = h[j]
      BY <2>1, <2>7
    <3> QED
      BY <2>6, <3>1 DEF Foresees
  <2>9. h[n + 1] = base
    BY <2>1, <2>5, <2>7
  <2>10. ASSUME NEW i \in m..n PROVE h[i] = step[i][h]
    <3>1. CASE i = m
      BY <3>1, <2>7, <2>8
    <3>2. CASE i # m
      <4>1. i \in (n + 1 - k)..n /\ i \in (m + 1)..(n + 1)
        BY <3>2
      <4> QED
        BY <4>1, <2>5, <2>7, <2>8
    <3> QED
      BY <3>1, <3>2
  <2>11. Done(k + 1)
    BY <2>1, <2>9, <2>10 DEF h
  <2> HIDE DEF Done
  <2> QED
    BY <2>1, <2>11
<1>6. n \in A
  <2>1. \A k \in 0..(n - 1) : k \in A => k + 1 \in A
    BY <1>5
  <2> HIDE DEF A
  <2>2. 0..n \subseteq A
    BY <1>4, <2>1, Induction
  <2> QED
    BY <2>2
<1>7. Done(n) /\ g[n] \in F
  <2>1. n \in 0..n
    OBVIOUS
  <2> QED
    BY <1>3, <1>6, <2>1
<1>8. Descends(g[n], n, S, base, step)
  <2>1. n + 1 - n = 1
    OBVIOUS
  <2> QED
    BY <1>7, <2>1 DEF Descends
<1> QED
  BY <1>8

\* A bounded set of numbers with an element has a greatest one.
LEMMA HasMax ==
  ASSUME NEW n \in Nat, NEW T \in SUBSET (0..n), T # {}
  PROVE  Max(T) \in T /\ \A x \in T : x <= Max(T)
<1> DEFINE B == {n - x : x \in T}
<1>1. B \in SUBSET Nat /\ B # {}
  <2>1. \A x \in T : n - x \in Nat /\ n - x \in B
    OBVIOUS
  <2> QED
    BY <2>1
<1>2. Min(B) \in B /\ \A x \in B : Min(B) <= x
  BY <1>1, HasMin
<1>3. PICK m \in T : Min(B) = n - m
  BY <1>2
<1>4. \A x \in T : n - m <= n - x
  BY <1>2, <1>3
<1>5. \A x \in T : m >= x
  BY <1>4
<1>6. \E y \in T : \A x \in T : y >= x
  BY <1>5
<1>7. Max(T) \in T /\ \A x \in T : Max(T) >= x
  BY <1>6 DEF Max
<1> QED
  BY <1>7

\* A suffix one element longer.
LEMMA SuffixGrows ==
  ASSUME NEW S, NEW seq \in Seq(S), NEW i \in 1..Len(seq)
  PROVE  <<seq[i]>> \o SubSeq(seq, i + 1, Len(seq)) = SubSeq(seq, i, Len(seq))
<1> DEFINE rest == SubSeq(seq, i + 1, Len(seq))
           all == SubSeq(seq, i, Len(seq))
           one == <<seq[i]>>
<1>1. Len(seq) \in Nat /\ seq[i] \in S
  OBVIOUS
<1>2. /\ rest \in Seq(S) /\ Len(rest) = Len(seq) - i
      /\ \A j \in 1..(Len(seq) - i) : rest[j] = seq[i + j]
  OBVIOUS
<1>3. /\ all \in Seq(S) /\ Len(all) = Len(seq) - i + 1
      /\ \A j \in 1..(Len(seq) - i + 1) : all[j] = seq[i + j - 1]
  OBVIOUS
<1>4. one \in Seq(S) /\ Len(one) = 1 /\ one[1] = seq[i]
  BY <1>1
<1> HIDE DEF rest, all, one
<1>5. /\ one \o rest \in Seq(S) /\ Len(one \o rest) = Len(one) + Len(rest)
      /\ \A j \in 1..(Len(one) + Len(rest)) :
           (one \o rest)[j] = IF j <= Len(one) THEN one[j] ELSE rest[j - Len(one)]
  BY <1>2, <1>4, ConcatProperties
<1>6. ASSUME NEW j \in 1..(Len(seq) - i + 1) PROVE (one \o rest)[j] = all[j]
  <2>1. CASE j = 1
    <3>1. (one \o rest)[1] = one[1]
      BY <1>1, <1>2, <1>4, <1>5
    <3>2. all[1] = seq[i + 1 - 1] /\ i + 1 - 1 = i
      BY <1>3
    <3> QED
      BY <1>4, <2>1, <3>1, <3>2
  <2>2. CASE j # 1
    <3>1. j - 1 \in 1..(Len(seq) - i) /\ i + (j - 1) = i + j - 1
      BY <1>1, <2>2
    <3>2. (one \o rest)[j] = rest[j - 1]
      BY <1>1, <1>2, <1>4, <1>5, <2>2
    <3> QED
      BY <1>2, <1>3, <3>1, <3>2
  <2> QED
    BY <2>1, <2>2
<1>7. Len(one) + Len(rest) = Len(seq) - i + 1
  BY <1>1, <1>2, <1>4
<1>8. one \o rest = all
  <2> DEFINE both == one \o rest
  <2>1. both \in Seq(S) /\ Len(both) = Len(all) /\ \A j \in 1..Len(all) : both[j] = all[j]
    BY <1>3, <1>5, <1>6, <1>7
  <2> HIDE DEF both
  <2>2. both = all
    BY <1>3, <2>1, SeqEqual
  <2> QED
    BY <2>2 DEF both
<1> QED
  BY <1>8 DEF one, rest, all

\* A sequence is what its two parts make.
LEMMA SplitAt ==
  ASSUME NEW S, NEW s \in Seq(S), NEW k \in 0..Len(s)
  PROVE  SubSeq(s, 1, k) \o SubSeq(s, k + 1, Len(s)) = s
<1> DEFINE a == SubSeq(s, 1, k)
           b == SubSeq(s, k + 1, Len(s))
           l == Len(s)
<1>1. l \in Nat /\ k \in Nat /\ k <= l
  OBVIOUS
<1>2. a \in Seq(S) /\ Len(a) = k /\ \A i \in 1..k : a[i] = s[i]
  OBVIOUS
<1>3. b \in Seq(S) /\ Len(b) = l - k /\ \A i \in 1..(l - k) : b[i] = s[k + i]
  OBVIOUS
<1> HIDE DEF a, b
<1> DEFINE both == a \o b
<1>4. /\ both \in Seq(S) /\ Len(both) = Len(a) + Len(b)
      /\ \A i \in 1..(Len(a) + Len(b)) : both[i] = IF i <= Len(a) THEN a[i] ELSE b[i - Len(a)]
  BY <1>2, <1>3, ConcatProperties
<1> HIDE DEF both
<1>5. Len(both) = l
  BY <1>1, <1>2, <1>3, <1>4
<1>6. ASSUME NEW i \in 1..l PROVE both[i] = s[i]
  <2>1. CASE i <= k
    <3>1. i \in 1..k /\ both[i] = a[i]
      BY <1>1, <1>2, <1>3, <1>4, <2>1
    <3> QED
      BY <1>2, <3>1
  <2>2. CASE ~(i <= k)
    <3>1. i - k \in 1..(l - k) /\ both[i] = b[i - k] /\ k + (i - k) = i
      BY <1>1, <1>2, <1>3, <1>4, <2>2
    <3> QED
      BY <1>3, <3>1
  <2> QED
    BY <2>1, <2>2
<1>7. both = s
  BY <1>4, <1>5, <1>6, SeqEqual
<1> QED
  BY <1>7 DEF both, a, b

\* What a flattened sequence is, of no sequences as well.
LEMMA FlattenSpread ==
  ASSUME NEW S, NEW seqs \in Seq(Seq(S))
  PROVE  \E p : Spread(p, Len(seqs), seqs, FlattenSeq(seqs))
<1>1. CASE Len(seqs) = 0
  <2> DEFINE p == [k \in 0..0 |-> 0]
  <2>1. p \in [0..0 -> Nat] /\ p[0] = 0 /\ 1..0 = {}
    OBVIOUS
  <2>2. FlattenSeq(seqs) = seqs
    BY <1>1 DEF FlattenSeq
  <2>3. Spread(p, Len(seqs), seqs, FlattenSeq(seqs))
    BY <1>1, <2>1, <2>2 DEF Spread
  <2> QED
    BY <2>3
<1>2. CASE Len(seqs) # 0
  <2>1. Len(seqs) \in Nat /\ seqs \in [1..Len(seqs) -> Seq(S)]
    OBVIOUS
  <2> QED
    BY <1>2, <2>1, FlattenAt
<1> QED
  BY <1>1, <1>2

\* A sequence is what its elements make, one by one.
LEMMA FlattenSingles ==
  ASSUME NEW S, NEW s \in Seq(S)
  PROVE  LET singles == [j \in 1..Len(s) |-> <<s[j]>>]
         IN  singles \in Seq(Seq(S)) /\ FlattenSeq(singles) = s
<1> DEFINE singles == [j \in 1..Len(s) |-> <<s[j]>>]
           n == Len(s)
<1>1. \A j \in 1..n : <<s[j]>> \in Seq(S) /\ Len(<<s[j]>>) = 1 /\ <<s[j]>>[1] = s[j]
  OBVIOUS
<1>2. singles \in [1..n -> Seq(S)] /\ n \in Nat /\ \A j \in 1..n : singles[j] = <<s[j]>>
  BY <1>1
<1> HIDE DEF singles
<1>3. singles \in Seq(Seq(S)) /\ Len(singles) = n
  BY <1>2
<1> HIDE DEF n
<1>4. PICK p : Spread(p, n, singles, FlattenSeq(singles))
  BY <1>3, FlattenSpread
<1>5. FlattenSeq(singles) \in Seq(S)
  BY <1>2, FlattenType
<1> DEFINE flat == FlattenSeq(singles)
<1> HIDE DEF flat
<1>6. /\ p \in [0..n -> Nat] /\ p[0] = 0 /\ Len(flat) = p[n]
      /\ \A k \in 1..n : p[k] = p[k - 1] + 1
      /\ \A k \in 1..n : flat[p[k - 1] + 1] = s[k]
  <2>1. ASSUME NEW k \in 1..n PROVE Len(singles[k]) = 1 /\ singles[k][1] = s[k] /\ 1 \in 1..1
    <3>1. singles[k] = <<s[k]>>
      BY <1>2
    <3>2. Len(<<s[k]>>) = 1 /\ <<s[k]>>[1] = s[k]
      OBVIOUS
    <3> QED
      BY <3>1, <3>2
  <2> QED
    BY <1>4, <2>1 DEF Spread, flat
<1>7. \A k \in 0..n : p[k] = k
  <2> DEFINE A == {k \in 0..n : p[k] = k}
  <2>1. 0 \in A
    BY <1>2, <1>6
  <2>2. ASSUME NEW k \in 0..(n - 1), k \in A PROVE k + 1 \in A
    <3>1. k + 1 \in 1..n /\ (k + 1) - 1 = k /\ k + 1 \in 0..n /\ p[k] = k
      BY <1>2, <2>2
    <3>2. p[k + 1] = p[(k + 1) - 1] + 1
      BY <1>6, <3>1
    <3> QED
      BY <3>1, <3>2
  <2> HIDE DEF A
  <2>3. 0..n \subseteq A
    BY <1>2, <2>1, <2>2, Induction
  <2> QED
    BY <2>3 DEF A
<1>8. Len(flat) = n /\ \A k \in 1..n : flat[k] = s[k]
  <2>1. \A k \in 1..n : k - 1 \in 0..n /\ (k - 1) + 1 = k
    BY <1>2
  <2>2. n \in 0..n
    BY <1>2
  <2> QED
    BY <1>6, <1>7, <2>1, <2>2
<1>9. flat = s
  BY <1>5, <1>8, SeqEqual DEF flat, n
<1> QED
  BY <1>3, <1>9 DEF singles, n, flat

===============================================================================
