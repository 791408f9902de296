---------------------------- MODULE TextOutputProofs ----------------------------
(***************************************************************************)
(* Proofs about TextOutput, for any bytes: the encoding of a path is       *)
(* reversible outside text, the diagnostics are cut between two pieces,    *)
(* and `apply` reads in a manifest what `prepare` made, for any source and *)
(* any conflicts.                                                          *)
(***************************************************************************)
EXTENDS TextOutput, Stepwise

-------------------------------------------------------------------------------
(***************************************************************************)
(* Paths on a line of output: the decoder reads what is spelled, and what is *)
(* written is spelled byte by byte.                                        *)
(***************************************************************************)

\* Where a byte is one of those that are told apart.
LEMMA ByteCases ==
  ASSUME NEW b \in Bytes
  PROVE  b \in {"A", "9", ".", Quote, Backslash, "%", LF, CR, Esc, "xF0", "x9F", "x9A", "xA9"}
BY DEF Bytes, Ascii, Printable, Controls, Char, Continuation

\* Continuation bytes are no ASCII, nor is the byte that begins a character.
LEMMA KindsDiffer ==
  /\ Char[1] \in Bytes /\ Continuation \subseteq Bytes /\ Char \in Seq(Bytes) /\ Len(Char) = 4
  /\ Bytes = Ascii \cup {Char[1]} \cup Continuation
  /\ Char[1] \notin Ascii /\ Char[1] \notin Continuation /\ Ascii \cap Continuation = {}
  /\ \A r \in 1..4 : Char[r] \notin Ascii /\ (r # 1 => Char[r] \in Continuation)
<1>1. Char[1] = "xF0" /\ Char[2] = "x9F" /\ Char[3] = "x9A" /\ Char[4] = "xA9" /\ Len(Char) = 4
  BY DEF Char
<1>2. \A b \in {"xF0", "x9F", "x9A", "xA9"} : b \notin Ascii
  BY DEF Ascii, Printable, Controls, LF, CR, Esc, Quote, Backslash
<1>3. "xF0" \notin Continuation /\ {"x9F", "x9A", "xA9"} = Continuation
  BY DEF Continuation
<1>4. Bytes = Ascii \cup {Char[1]} \cup Continuation
  BY DEF Bytes
<1>5. \A r \in 1..4 : r = 1 \/ r = 2 \/ r = 3 \/ r = 4
  OBVIOUS
<1>6. Char \in Seq(Bytes)
  <2>1. {"xF0", "x9F", "x9A", "xA9"} \subseteq Bytes
    BY <1>1, <1>3, <1>4
  <2> QED
    BY <2>1 DEF Char
<1>7. \A r \in 1..4 : Char[r] \notin Ascii /\ (r # 1 => Char[r] \in Continuation)
  BY <1>1, <1>2, <1>3, <1>5
<1> QED
  BY <1>1, <1>2, <1>3, <1>4, <1>6, <1>7

\* The digits of every byte.
LEMMA HexDigitsAre ==
  /\ HexDigits("A") = <<"4", "1">> /\ HexDigits("9") = <<"3", "9">> /\ HexDigits(".") = <<"2", "E">>
  /\ HexDigits(Quote) = <<"2", "2">> /\ HexDigits(Backslash) = <<"5", "C">>
  /\ HexDigits("%") = <<"2", "5">> /\ HexDigits(LF) = <<"0", "A">> /\ HexDigits(CR) = <<"0", "D">>
  /\ HexDigits(Esc) = <<"1", "B">>
  /\ HexDigits("xF0") = <<"F", "0">> /\ HexDigits("x9F") = <<"9", "F">>
  /\ HexDigits("x9A") = <<"9", "A">> /\ HexDigits("xA9") = <<"A", "9">>
<1> USE DEF LF, CR, Esc, Quote, Backslash
<1>1. HexDigits("A") = <<"4", "1">> /\ HexDigits("9") = <<"3", "9">> /\ HexDigits(".") = <<"2", "E">>
  BY DEF HexDigits
<1>2. HexDigits(Quote) = <<"2", "2">> /\ HexDigits(Backslash) = <<"5", "C">>
  BY DEF HexDigits
<1>3. HexDigits("%") = <<"2", "5">> /\ HexDigits(LF) = <<"0", "A">> /\ HexDigits(CR) = <<"0", "D">>
  BY DEF HexDigits
<1>4. HexDigits(Esc) = <<"1", "B">> /\ HexDigits("xF0") = <<"F", "0">>
  BY DEF HexDigits
<1>5. HexDigits("x9F") = <<"9", "F">> /\ HexDigits("x9A") = <<"9", "A">> /\ HexDigits("xA9") = <<"A", "9">>
  BY DEF HexDigits
<1> QED
  BY <1>1, <1>2, <1>3, <1>4, <1>5

Digits == {"0", "1", "2", "3", "4", "5", "9", "A", "B", "C", "D", "E", "F"}

\* They are two.
LEMMA HexDigitsType ==
  ASSUME NEW b \in Bytes
  PROVE  HexDigits(b) \in Seq(Digits) /\ Len(HexDigits(b)) = 2
<1>1. \A x \in Digits, y \in Digits : <<x, y>> \in Seq(Digits) /\ Len(<<x, y>>) = 2
  OBVIOUS
<1> DEFINE fine(h) == h \in Seq(Digits) /\ Len(h) = 2
<1>2. fine(<<"4", "1">>) /\ fine(<<"3", "9">>) /\ fine(<<"2", "2">>) /\ fine(<<"2", "E">>)
  BY <1>1 DEF Digits
<1>3. fine(<<"5", "C">>) /\ fine(<<"2", "5">>) /\ fine(<<"0", "A">>) /\ fine(<<"0", "D">>)
  BY <1>1 DEF Digits
<1>4. fine(<<"1", "B">>) /\ fine(<<"F", "0">>) /\ fine(<<"9", "F">>) /\ fine(<<"9", "A">>)
      /\ fine(<<"A", "9">>)
  BY <1>1 DEF Digits
<1> HIDE DEF fine
<1>5. fine(HexDigits(b))
  BY <1>2, <1>3, <1>4, ByteCases, HexDigitsAre
<1> QED
  BY <1>5 DEF fine

\* The digits of two bytes differ.
LEMMA HexDigitsDiffer ==
  ASSUME NEW b \in Bytes, NEW c \in Bytes, HexDigits(b) = HexDigits(c)
  PROVE  b = c
  BY ByteCases, HexDigitsAre

\* An escape is "%" and two digits.
LEMMA EscapeIs ==
  ASSUME NEW b \in Bytes
  PROVE  /\ Escape(b) \in Seq(Digits \cup {"%"}) /\ Len(Escape(b)) = 3 /\ Escape(b)[1] = "%"
         /\ \A i \in 2..3 : Escape(b)[i] = HexDigits(b)[i - 1] /\ Escape(b)[i] \in Digits
<1> DEFINE h == HexDigits(b)
<1>1. h \in Seq(Digits) /\ Len(h) = 2 /\ h[1] \in Digits /\ h[2] \in Digits
  BY HexDigitsType
<1> HIDE DEF h
<1> DEFINE e == <<"%">> \o h
<1>2. e \in Seq(Digits \cup {"%"}) /\ Len(e) = 3 /\ e[1] = "%" /\ e[2] = h[1] /\ e[3] = h[2]
  BY <1>1
<1>3. Escape(b) = e
  BY DEF Escape, h
<1> HIDE DEF e
<1>4. \A i \in 2..3 : e[i] = h[i - 1] /\ e[i] \in Digits
  BY <1>1, <1>2
<1> QED
  BY <1>2, <1>3, <1>4 DEF h

\* The escapes of two bytes differ.
LEMMA EscapesDiffer ==
  ASSUME NEW b \in Bytes, NEW c \in Bytes, Escape(b) = Escape(c)
  PROVE  b = c
<1>1. HexDigits(b) = HexDigits(c)
  <2>1. HexDigits(b)[1] = HexDigits(c)[1] /\ HexDigits(b)[2] = HexDigits(c)[2]
    BY EscapeIs
  <2> QED
    BY <2>1, HexDigitsType
<1> QED
  BY <1>1, HexDigitsDiffer

\* The escapes that stand at a position of a text.
EscapedAt(s, i) ==
  {b \in Bytes \ Printable : i + 2 <= Len(s) /\ SubSeq(s, i, i + 2) = Escape(b)}

DecodedAt(s, at, i) ==
  IF EscapedAt(s, i) # {} THEN <<CHOOSE b \in EscapedAt(s, i) : TRUE>> \o at[i + 3]
  ELSE <<s[i]>> \o at[i + 1]

\* Whether a function has what the decoder reads from each position on.
Decodes(at, s) ==
  /\ at[Len(s) + 1] = <<>>
  /\ \A i \in 1..Len(s) : at[i] = DecodedAt(s, at, i)
  /\ Decoded(s) = at[1]

\* The decoder is a recursion from the end of what it reads.
LEMMA DecodedIs ==
  ASSUME NEW S, NEW s \in Seq(S)
  PROVE  \E at : Decodes(at, s)
<1> DEFINE n == Len(s)
           T == Seq(S \cup Bytes)
           F == [1..(n + 1) -> T]
           step == [i \in 1..n |-> [f \in F |-> DecodedAt(s, f, i)]]
           from(f) == [i \in 1..(n + 1) |-> IF i > n THEN <<>> ELSE DecodedAt(s, f, i)]
<1>1. n \in Nat /\ <<>> \in T
  OBVIOUS
<1>2. ASSUME NEW i \in 1..n, NEW f \in F
      PROVE  DecodedAt(s, f, i) \in T
  <2>1. CASE EscapedAt(s, i) # {}
    <3> DEFINE c == CHOOSE b \in EscapedAt(s, i) : TRUE
    <3>1. c \in Bytes /\ i + 2 <= n
      BY <2>1 DEF EscapedAt
    <3>2. f[i + 3] \in T
      BY <3>1
    <3> HIDE DEF c
    <3>3. <<c>> \in T
      BY <3>1
    <3>4. <<c>> \o f[i + 3] \in T
      BY <3>2, <3>3, ConcatProperties
    <3> QED
      BY <2>1, <3>4 DEF DecodedAt, c
  <2>2. CASE EscapedAt(s, i) = {}
    <3>1. f[i + 1] \in T /\ s[i] \in S
      OBVIOUS
    <3>2. <<s[i]>> \in T
      BY <3>1
    <3>3. <<s[i]>> \o f[i + 1] \in T
      BY <3>1, <3>2, ConcatProperties
    <3> QED
      BY <2>2, <3>3 DEF DecodedAt
  <2> QED
    BY <2>1, <2>2
<1>3. step \in [1..n -> [F -> T]]
  <2> HIDE DEF F, T
  <2> QED
    BY <1>2
<1>4. Foresees(step, n, T)
  <2> SUFFICES ASSUME NEW i \in 1..n, NEW f \in F, NEW g \in F,
                      \A j \in (i + 1)..(n + 1) : f[j] = g[j]
               PROVE  step[i][f] = step[i][g]
    BY DEF Foresees
  <2>1. step[i][f] = DecodedAt(s, f, i) /\ step[i][g] = DecodedAt(s, g, i)
    OBVIOUS
  <2>2. f[i + 1] = g[i + 1]
    OBVIOUS
  <2>3. EscapedAt(s, i) # {} => f[i + 3] = g[i + 3]
    <3>1. EscapedAt(s, i) # {} => i + 3 \in (i + 1)..(n + 1)
      BY DEF EscapedAt
    <3> QED
      BY <3>1
  <2> QED
    BY <2>1, <2>2, <2>3 DEF DecodedAt
<1>5. PICK g : Descends(g, n, T, <<>>, step)
  <2> HIDE DEF n, T, step
  <2>1. step \in [1..n -> [[1..(n + 1) -> T] -> T]]
    BY <1>3
  <2> QED
    BY <1>1, <1>4, <2>1, Backwards
<1>6. g \in F /\ g[n + 1] = <<>> /\ \A i \in 1..n : g[i] = DecodedAt(s, g, i)
  <2>1. g \in F /\ g[n + 1] = <<>> /\ \A i \in 1..n : g[i] = step[i][g]
    <3> HIDE DEF n, T, step
    <3> QED
      BY <1>5 DEF Descends
  <2> QED
    BY <2>1
<1>7. g = from(g)
  <2>1. \A i \in 1..(n + 1) : g[i] = IF i > n THEN <<>> ELSE DecodedAt(s, g, i)
    BY <1>6
  <2>2. g = [i \in 1..(n + 1) |-> g[i]]
    BY <1>6
  <2> QED
    BY <2>1, <2>2
<1> DEFINE at == CHOOSE f : f = from(f)
<1>8. at = from(at)
  BY <1>7
<1>9. Decoded(s) = at[1]
  BY DEF Decoded, DecodedAt, EscapedAt
<1> HIDE DEF at
<1>10. at[n + 1] = <<>> /\ \A i \in 1..n : at[i] = DecodedAt(s, at, i)
  <2>1. n + 1 \in 1..(n + 1) /\ \A i \in 1..n : i \in 1..(n + 1) /\ ~(i > n)
    OBVIOUS
  <2>2. from(at)[n + 1] = <<>> /\ \A i \in 1..n : from(at)[i] = DecodedAt(s, at, i)
    BY <2>1
  <2> HIDE DEF from
  <2> QED
    BY <1>8, <2>2
<1> QED
  BY <1>9, <1>10 DEF Decodes

\* What a byte may be written as, for the decoder to read it again.
Spelled(w, b) == (w = <<b>> /\ b # "%") \/ (b \in Bytes \ Printable /\ w = Escape(b))

SpelledOut(words, bytes) ==
  Len(words) = Len(bytes) /\ \A i \in 1..Len(bytes) : Spelled(words[i], bytes[i])

\* What is spelled byte by byte is decoded byte by byte.
LEMMA DecodedWords ==
  ASSUME NEW bytes \in Seq(Bytes), NEW words, SpelledOut(words, bytes),
         words \in Seq(Seq(Bytes \cup Digits))
  PROVE  Decoded(FlattenSeq(words)) = bytes
<1> DEFINE s == FlattenSeq(words)
           n == Len(bytes)
           T == Bytes \cup Digits
<1>1. PICK p : Spread(p, Len(words), words, s)
  BY FlattenSpread
<1>2. n \in Nat /\ Len(words) = n /\ \A i \in 1..n : Spelled(words[i], bytes[i]) /\ bytes[i] \in Bytes
  BY DEF SpelledOut
<1>3. s \in Seq(T)
  <2> HIDE DEF T
  <2>1. words \in Seq(Seq(T))
    BY DEF T
  <2>2. words \in [1..n -> Seq(T)]
    BY <1>2, <2>1
  <2> QED
    BY <1>2, <2>2, FlattenType
<1>4. PICK at : Decodes(at, s)
  BY <1>3, DecodedIs
<1> HIDE DEF s, n, T
<1>5. /\ p \in [0..n -> Nat] /\ p[0] = 0 /\ Len(s) = p[n]
      /\ \A k \in 1..n : p[k] = p[k - 1] + Len(words[k])
      /\ \A k \in 1..n : \A j \in 1..Len(words[k]) : s[p[k - 1] + j] = words[k][j]
  BY <1>1, <1>2 DEF Spread
<1>6. /\ at[Len(s) + 1] = <<>>
      /\ \A i \in 1..Len(s) : at[i] = DecodedAt(s, at, i)
      /\ Decoded(s) = at[1]
  BY <1>4 DEF Decodes
<1>7. \A k \in 1..n : p[k - 1] \in Nat /\ p[k] \in Nat /\ p[k] <= Len(s) /\ Len(words[k]) \in Nat
  <2> SUFFICES ASSUME NEW k \in 1..n
               PROVE  p[k - 1] \in Nat /\ p[k] \in Nat /\ p[k] <= Len(s) /\ Len(words[k]) \in Nat
    OBVIOUS
  <2>1. \A h \in 1..n : p[h - 1] \in Nat /\ p[h] \in Nat /\ Len(words[h]) \in Nat
    BY <1>2, <1>5
  <2>2. ASSUME NEW h \in 1..n PROVE p[h - 1] <= p[h]
    <3>1. p[h] = p[h - 1] + Len(words[h])
      BY <1>5
    <3> QED
      BY <2>1, <3>1
  <2>3. p[k] <= p[n]
    <3>1. k \in 0..n /\ n \in k..n
      BY <1>2
    <3> QED
      BY <1>2, <1>5, <2>2, <3>1, Ascending
  <2> QED
    BY <1>5, <2>1, <2>3
<1> DEFINE R(k) == at[p[n - k] + 1] = SubSeq(bytes, n - k + 1, n)
           A == {k \in 0..n : R(k)}
<1>8. 0 \in A
  <2>1. n - 0 = n /\ 0 \in 0..n
    BY <1>2
  <2>2. SubSeq(bytes, n + 1, n) = <<>>
    BY <1>2
  <2>3. at[p[n] + 1] = <<>>
    BY <1>5, <1>6
  <2>4. R(0)
    BY <2>1, <2>2, <2>3
  <2> HIDE DEF R
  <2> QED
    BY <2>1, <2>4
<1>9. ASSUME NEW k \in 0..(n - 1), k \in A
      PROVE  k + 1 \in A
  <2> DEFINE i == n - k
             q == p[i - 1] + 1
             b == bytes[i]
             w == words[i]
             rest == SubSeq(bytes, i + 1, n)
  <2>1. i \in 1..n /\ n - (k + 1) = i - 1 /\ k + 1 \in 0..n /\ i - 1 \in Nat
    BY <1>2
  <2>2. at[p[i] + 1] = rest
    BY <1>9
  <2>3. Spelled(w, b) /\ b \in Bytes
    BY <1>2, <2>1
  <2>4. /\ p[i - 1] \in Nat /\ p[i] <= Len(s) /\ p[i] = p[i - 1] + Len(w)
        /\ \A j \in 1..Len(w) : s[p[i - 1] + j] = w[j]
    BY <1>5, <1>7, <2>1
  <2>5. <<b>> \o rest = SubSeq(bytes, i, n)
    <3>1. i \in 1..Len(bytes)
      BY <2>1 DEF n
    <3> QED
      BY <3>1, SuffixGrows DEF n
  <2> HIDE DEF i, b, w, rest, q
  <2>6. ASSUME w = <<b>> /\ b # "%"
        PROVE  at[q] = SubSeq(bytes, i, n)
    <3>1. Len(w) = 1 /\ w[1] = b
      BY <2>6
    <3>2. s[q] = b /\ q \in 1..Len(s) /\ q + 1 = p[i] + 1
      <4>1. Len(s) \in Nat
        BY <1>3
      <4> QED
        BY <2>4, <3>1, <4>1 DEF q
    <3>3. EscapedAt(s, q) = {}
      <4> SUFFICES ASSUME NEW c \in Bytes, q + 2 <= Len(s), SubSeq(s, q, q + 2) = Escape(c)
                   PROVE  FALSE
        BY DEF EscapedAt
      <4>1. SubSeq(s, q, q + 2)[1] = s[q]
        BY <1>3, <3>2
      <4> QED
        BY <2>6, <3>2, <4>1, EscapeIs
    <3>4. at[q] = <<b>> \o at[q + 1]
      BY <1>6, <3>2, <3>3 DEF DecodedAt
    <3> QED
      BY <2>2, <2>5, <3>2, <3>4
  <2>7. ASSUME b \in Bytes \ Printable /\ w = Escape(b)
        PROVE  at[q] = SubSeq(bytes, i, n)
    <3>1. Len(w) = 3
      BY <2>3, <2>7, EscapeIs
    <3>2. q \in 1..Len(s) /\ q + 2 <= Len(s) /\ q + 3 = p[i] + 1 /\ Len(s) \in Nat
      <4>1. Len(s) \in Nat
        BY <1>3
      <4> QED
        BY <2>4, <3>1, <4>1 DEF q
    <3>3. SubSeq(s, q, q + 2) = Escape(b)
      <4>1. SubSeq(s, q, q + 2) \in Seq(T) /\ Len(SubSeq(s, q, q + 2)) = 3
        BY <1>3, <3>2
      <4>2. ASSUME NEW j \in 1..3 PROVE SubSeq(s, q, q + 2)[j] = w[j]
        <5>1. q + j - 1 = p[i - 1] + j
          BY <2>4 DEF q
        <5>2. j \in 1..((q + 2) - q + 1)
          BY <3>2
        <5>3. SubSeq(s, q, q + 2)[j] = s[q + j - 1]
          BY <1>3, <3>2, <5>2, SubSeqProperties
        <5> QED
          BY <2>4, <3>1, <5>1, <5>3
      <4>3. w \in Seq(T)
        BY <1>2, <2>1 DEF w, T
      <4> QED
        BY <2>7, <3>1, <4>1, <4>2, <4>3, SeqEqual
    <3>4. EscapedAt(s, q) = {b}
      BY <2>7, <3>2, <3>3, EscapesDiffer DEF EscapedAt
    <3>5. at[q] = <<b>> \o at[q + 3]
      BY <1>6, <3>2, <3>4 DEF DecodedAt
    <3> QED
      BY <2>2, <2>5, <3>2, <3>5
  <2>8. at[q] = SubSeq(bytes, i, n)
    BY <2>3, <2>6, <2>7 DEF Spelled
  <2>9. R(k + 1)
    <3>1. n - (k + 1) + 1 = i
      BY <1>2 DEF i
    <3> QED
      BY <2>1, <2>8, <3>1 DEF q
  <2> HIDE DEF R
  <2> QED
    BY <2>1, <2>9
<1>10. n \in A
  <2>1. \A k \in 0..(n - 1) : k \in A => k + 1 \in A
    BY <1>9
  <2> HIDE DEF A
  <2>2. 0..n \subseteq A
    BY <1>2, <1>8, <2>1, Induction
  <2> QED
    BY <1>2, <2>2
<1>11. at[1] = SubSeq(bytes, 1, n)
  <2>1. n - n = 0 /\ 0 + 1 = 1
    BY <1>2
  <2>2. R(n)
    BY <1>10
  <2> QED
    BY <1>5, <2>1, <2>2
<1>12. SubSeq(bytes, 1, n) = bytes
  BY DEF n
<1> QED
  BY <1>6, <1>11, <1>12 DEF s

-------------------------------------------------------------------------------
(***************************************************************************)
(* The rendering of a path.                                                *)
(***************************************************************************)

\* What a byte of the path may have been written as.
Written(w, i) ==
  \/ /\ w = <<path[i]>>
     /\ path[i] \in {"%"} \cup Controls => TakenAsText(i)
  \/ path[i] \notin Printable /\ w = Escape(path[i])

\* What was written is so byte by byte.
WrittenOut(words) ==
  /\ words \in Seq(Seq(Bytes \cup Digits)) /\ Len(words) = index
  /\ \A i \in 1..index : Written(words[i], i)
  /\ output = FlattenSeq(words)

PathInv ==
  /\ path \in Seq(Bytes)
  /\ index \in 0..Len(path)
  /\ \E words : WrittenOut(words)

\* Nothing is written of nothing.
LEMMA PathInit == Init => PathInv
<1> SUFFICES ASSUME Init PROVE PathInv
  OBVIOUS
<1>1. path \in Seq(Bytes)
  BY PathOutputAssumption DEF Init
<1>2. index = 0 /\ output = FlattenSeq(<<>>)
  BY FlattenEmpty DEF Init
<1>3. <<>> \in Seq(Seq(Bytes \cup Digits)) /\ Len(<<>>) = 0 /\ 1..0 = {}
  OBVIOUS
<1>4. WrittenOut(<<>>)
  BY <1>2, <1>3 DEF WrittenOut
<1> QED
  BY <1>1, <1>2, <1>4 DEF PathInv

\* Text whose length is a valid prefix of what remains.
LEMMA ValidUpToIs ==
  ASSUME NEW s \in Seq(Bytes)
  PROVE  ValidUpTo(s) \in 0..Len(s) /\ IsUtf8(SubSeq(s, 1, ValidUpTo(s)))
<1> DEFINE T == {k \in 0..Len(s) : IsUtf8(SubSeq(s, 1, k))}
<1>1. Len(s) \in Nat /\ T \in SUBSET (0..Len(s))
  OBVIOUS
<1>2. 0 \in T
  <2>1. SubSeq(s, 1, 0) = <<>> /\ DOMAIN <<>> = {}
    OBVIOUS
  <2>2. IsUtf8(<<>>)
    BY <2>1 DEF IsUtf8
  <2> DEFINE none == SubSeq(s, 1, 0)
  <2>3. none = <<>>
    OBVIOUS
  <2> HIDE DEF none
  <2>4. IsUtf8(none)
    BY <2>2, <2>3
  <2>5. 0 \in 0..Len(s)
    OBVIOUS
  <2> QED
    BY <2>4, <2>5 DEF none
<1> HIDE DEF T
<1>3. Max(T) \in T
  BY <1>1, <1>2, HasMax
<1> QED
  BY <1>3 DEF T, ValidUpTo

\* Text that is taken whole.
LEMMA TextIsWritten ==
  ASSUME PathInv, index < Len(path), NEW valid,
         LET rest == SubSeq(path, index + 1, Len(path)) IN
           /\ rest[1] \notin Ascii /\ valid = ValidUpTo(rest) /\ valid > 0
  PROVE  /\ valid \in 1..(Len(path) - index)
         /\ \A j \in 1..valid :
              path[index + j] \in {"%"} \cup Controls => TakenAsText(index + j)
<1> DEFINE rest == SubSeq(path, index + 1, Len(path))
           n == Len(path) - index
           text == SubSeq(rest, 1, valid)
<1>1. index \in 0..Len(path) /\ path \in Seq(Bytes) /\ n \in Nat /\ n > 0
  BY DEF PathInv
<1>2. rest \in Seq(Bytes) /\ Len(rest) = n /\ \A j \in 1..n : rest[j] = path[index + j]
  BY <1>1
<1>3. rest[1] \notin Ascii /\ valid = ValidUpTo(rest) /\ valid > 0
  OBVIOUS
<1> HIDE DEF rest
<1>4. valid \in 1..n /\ IsUtf8(text)
  <2>1. ValidUpTo(rest) \in 0..n /\ IsUtf8(SubSeq(rest, 1, ValidUpTo(rest)))
    BY <1>2, ValidUpToIs
  <2> QED
    BY <1>1, <1>3, <2>1
<1>5. /\ Len(text) = valid /\ DOMAIN text = 1..valid
      /\ \A j \in 1..valid : text[j] = path[index + j]
  <2> HIDE DEF n
  <2>1. valid \in Nat /\ \A j \in 1..valid : j \in 1..n
    BY <1>1, <1>4
  <2>2. text \in Seq(Bytes) /\ Len(text) = valid /\ \A j \in 1..valid : text[j] = rest[j]
    BY <1>2, <1>4, <2>1
  <2>3. DOMAIN text = 1..valid
    BY <2>2
  <2> QED
    BY <1>2, <2>1, <2>2, <2>3
<1>6. \A j \in 1..valid : WellPlaced(text, j)
  BY <1>4, <1>5 DEF IsUtf8
<1> HIDE DEF text
<1>7. path[index + 1] \notin Ascii
  <2>1. rest[1] = path[index + 1]
    BY <1>1, <1>2
  <2> QED
    BY <1>3, <2>1
<1>8. ASSUME NEW j \in 1..valid, path[index + j] \in {"%"} \cup Controls
      PROVE  TakenAsText(index + j)
  <2> DEFINE first == index + 1
             last == index + j
             part == SubSeq(path, first, last)
  <2>1. first \in 1..last /\ last \in 1..Len(path) /\ j \in Nat
    BY <1>1, <1>4
  <2>2. /\ Len(part) = j /\ DOMAIN part = 1..j
        /\ \A i \in 1..j : part[i] = path[index + i]
    <3>1. part \in Seq(Bytes) /\ Len(part) = j
      BY <1>1, <2>1
    <3>2. ASSUME NEW i \in 1..j PROVE part[i] = path[index + i]
      <4>1. part[i] = path[first + i - 1] /\ first + i - 1 = index + i
        BY <1>1, <2>1
      <4> QED
        BY <4>1
    <3> QED
      BY <3>1, <3>2
  <2> HIDE DEF part
  <2>3. \A i \in 1..j : part[i] = text[i]
    <3>1. \A i \in 1..j : i \in 1..valid
      BY <1>1, <1>4
    <3> QED
      BY <1>5, <2>2, <3>1
  <2>4. text[j] \in Ascii
    BY <1>5, <1>8 DEF Ascii
  <2>5. ASSUME NEW i \in 1..j PROVE WellPlaced(part, i)
    <3>1. i \in 1..valid /\ part[i] = text[i]
      BY <1>1, <1>4, <2>3
    <3>2. WellPlaced(text, i)
      BY <1>6, <3>1
    <3>3. CASE text[i] \in Ascii
      BY <3>1, <3>3 DEF WellPlaced
    <3>4. CASE text[i] \notin Ascii
      <4>1. PICK h \in (i - 3)..i : CharAt(text, h)
        BY <3>2, <3>4 DEF WellPlaced
      <4>2. h \in Nat /\ h >= 1 /\ h <= j /\ \A r \in 1..4 : text[h + r - 1] = Char[r]
        BY <2>1, <4>1 DEF CharAt
      <4>3. h + 3 < j
        <5> SUFFICES ASSUME ~(h + 3 < j) PROVE FALSE
          OBVIOUS
        <5>1. j - h + 1 \in 1..4 /\ h + (j - h + 1) - 1 = j
          BY <2>1, <4>2
        <5>2. text[j] = Char[j - h + 1]
          BY <4>2, <5>1
        <5> QED
          BY <2>4, <5>1, <5>2, KindsDiffer
      <4>4. \A r \in 1..4 : h + r - 1 \in 1..j
        BY <2>1, <4>2, <4>3
      <4>5. \A r \in 1..4 : part[h + r - 1] = Char[r]
        BY <2>3, <4>2, <4>4
      <4>6. CharAt(part, h)
        BY <2>1, <2>2, <4>2, <4>3, <4>5 DEF CharAt
      <4> QED
        BY <4>1, <4>6 DEF WellPlaced
    <3> QED
      BY <3>3, <3>4
  <2>6. IsUtf8(part)
    BY <2>2, <2>5 DEF IsUtf8
  <2>7. first \in 1..last /\ path[first] \notin Ascii
    BY <1>7, <2>1
  <2> QED
    BY <2>6, <2>7 DEF TakenAsText, part
<1> QED
  BY <1>4, <1>8

\* The bytes of the path that an iteration takes, as they are written.
Taken(words) ==
  /\ words \in Seq(Seq(Bytes \cup Digits)) /\ Len(words) \in 1..(Len(path) - index)
  /\ \A j \in 1..Len(words) : Written(words[j], index + j)

\* What one iteration appends is spelled byte by byte, too.
LEMMA PieceIs ==
  ASSUME PathInv, index < Len(path)
  PROVE  \E words : /\ Taken(words)
                    /\ Piece(SubSeq(path, index + 1, Len(path))) = <<FlattenSeq(words), Len(words)>>
<1> DEFINE rest == SubSeq(path, index + 1, Len(path))
           n == Len(path) - index
           valid == ValidUpTo(rest)
           T == Bytes \cup Digits
<1>1. index \in 0..Len(path) /\ path \in Seq(Bytes) /\ n \in Nat /\ n > 0
  BY DEF PathInv
<1>2. rest \in Seq(Bytes) /\ Len(rest) = n /\ \A j \in 1..n : rest[j] = path[index + j]
  BY <1>1
<1>3. CASE rest[1] \notin Ascii /\ valid > 0
  <2> DEFINE text == SubSeq(rest, 1, valid)
             words == [j \in 1..Len(text) |-> <<text[j]>>]
  <2>1. /\ valid \in 1..n
        /\ \A j \in 1..valid :
             path[index + j] \in {"%"} \cup Controls => TakenAsText(index + j)
    BY <1>3, TextIsWritten
  <2> HIDE DEF rest, valid, n
  <2>2. text \in Seq(Bytes) /\ Len(text) = valid /\ \A j \in 1..valid : text[j] = path[index + j]
    <3>1. text \in Seq(Bytes) /\ Len(text) = valid /\ \A j \in 1..valid : text[j] = rest[j]
      BY <1>1, <1>2, <2>1
    <3>2. \A j \in 1..valid : j \in 1..n
      BY <1>1, <2>1
    <3> QED
      BY <1>2, <3>1, <3>2
  <2> HIDE DEF text
  <2>3. words \in Seq(Seq(Bytes)) /\ FlattenSeq(words) = text
    BY <2>2, FlattenSingles
  <2>4. words \in Seq(Seq(Bytes \cup Digits)) /\ Len(words) = valid
    <3>1. Len(words) = valid
      BY <1>1, <2>1, <2>2
    <3>2. Seq(Bytes) \subseteq Seq(Bytes \cup Digits)
      OBVIOUS
    <3> HIDE DEF words
    <3> QED
      BY <2>3, <3>1, <3>2
  <2>5. \A j \in 1..valid : Written(words[j], index + j)
    BY <1>1, <2>1, <2>2 DEF Written
  <2>6. Taken(words)
    <3> HIDE DEF words
    <3> QED
      BY <2>1, <2>4, <2>5 DEF Taken, n
  <2>7. Piece(rest) = <<text, valid>>
    BY <1>3 DEF Piece, text, valid
  <2> QED
    BY <2>3, <2>4, <2>6, <2>7 DEF rest
<1>4. CASE ~(rest[1] \notin Ascii /\ valid > 0)
  <2> DEFINE b == path[index + 1]
             w == IF Literal(b) THEN <<b>> ELSE Escape(b)
  <2>1. rest[1] = b /\ b \in Bytes
    BY <1>1, <1>2
  <2>2. Piece(rest) = <<w, 1>>
    <3> HIDE DEF rest, w
    <3> QED
      BY <1>4, <2>1 DEF Piece, w
  <2>3. w \in Seq(T)
    <3>1. <<b>> \in Seq(T)
      BY <2>1
    <3>2. Escape(b) \in Seq(T)
      <4>1. Digits \cup {"%"} \subseteq T
        BY DEF Bytes, Ascii
      <4> HIDE DEF T
      <4>2. Escape(b) \in Seq(Digits \cup {"%"})
        BY <2>1, EscapeIs
      <4> QED
        BY <4>1, <4>2
    <3> QED
      BY <3>1, <3>2
  <2>4. Written(w, index + 1)
    BY DEF Written, Literal, Printable, Controls, LF, CR, Esc, Quote, Backslash
  <2> HIDE DEF w, rest, b, T
  <2>5. <<w>> \in Seq(Seq(T)) /\ Len(<<w>>) = 1 /\ <<w>>[1] = w
    BY <2>3
  <2>6. FlattenSeq(<<w>>) = w
    <3>1. <<>> \in Seq(Seq(T)) /\ Append(<<>>, w) = <<w>> /\ <<>> \o w = w
      BY <2>3
    <3> QED
      BY <2>3, <3>1, FlattenEmpty, FlattenSnoc
  <2>7. Taken(<<w>>)
    <3>1. Len(<<w>>) \in 1..n
      BY <1>1, <2>5
    <3>2. \A j \in 1..Len(<<w>>) : Written(<<w>>[j], index + j)
      BY <2>4, <2>5
    <3> QED
      BY <2>5, <3>1, <3>2 DEF Taken, T
  <2> QED
    BY <2>2, <2>5, <2>6, <2>7 DEF rest
<1> QED
  BY <1>3, <1>4

\* So it stays: what is written is what was, with the bytes of the piece.
LEMMA PathStep ==
  ASSUME PathInv, Encode
  PROVE  PathInv'
<1> DEFINE T == Bytes \cup Digits
           rest == SubSeq(path, index + 1, Len(path))
<1>1. PICK more : Taken(more) /\ Piece(rest) = <<FlattenSeq(more), Len(more)>>
  BY PieceIs DEF Encode
<1>2. path' = path /\ output' = output \o FlattenSeq(more) /\ index' = index + Len(more)
  BY <1>1 DEF Encode
<1> HIDE DEF rest
<1>3. PICK words : WrittenOut(words)
  BY DEF PathInv
<1>4. words \in Seq(Seq(T)) /\ more \in Seq(Seq(T)) /\ Len(words) = index /\ output = FlattenSeq(words)
  BY <1>1, <1>3 DEF WrittenOut, Taken
<1>5. index \in 0..Len(path) /\ path \in Seq(Bytes) /\ Len(more) \in 1..(Len(path) - index)
  BY <1>1 DEF PathInv, Taken
<1> DEFINE all == words \o more
<1>6. FlattenSeq(all) = output'
  <2> HIDE DEF T
  <2> QED
    BY <1>2, <1>4, FlattenConcat
<1>7. /\ all \in Seq(Seq(T)) /\ Len(all) = index + Len(more)
      /\ \A i \in 1..(index + Len(more)) :
           all[i] = IF i <= index THEN words[i] ELSE more[i - index]
  <2> HIDE DEF T
  <2> QED
    BY <1>4, ConcatProperties
<1> HIDE DEF all
<1>8. index' \in 0..Len(path)
  BY <1>2, <1>5
<1>9. ASSUME NEW i \in 1..index' PROVE Written(all[i], i)
  <2>1. CASE i <= index
    <3>1. i \in 1..index /\ all[i] = words[i]
      BY <1>2, <1>5, <1>7, <2>1
    <3> QED
      BY <1>3, <3>1 DEF WrittenOut
  <2>2. CASE ~(i <= index)
    <3>1. i - index \in 1..Len(more) /\ all[i] = more[i - index] /\ index + (i - index) = i
      BY <1>2, <1>5, <1>7, <2>2
    <3>2. Written(more[i - index], index + (i - index))
      BY <1>1, <3>1 DEF Taken
    <3> QED
      BY <3>1, <3>2
  <2> QED
    BY <2>1, <2>2
<1>10. \A i \in 1..index' : Written(all[i], i)'
  BY <1>2, <1>9 DEF Written, TakenAsText
<1>11. WrittenOut(all)'
  BY <1>2, <1>6, <1>7, <1>10 DEF WrittenOut
<1> QED
  BY <1>2, <1>5, <1>8, <1>11 DEF PathInv

\* Everything that is written where nothing is text that should not be is read
\* again, and takes one line.
LEMMA PathReversible == PathInv => ReversibleOutsideText
<1> SUFFICES ASSUME PathInv,
                    \A i \in 1..index : path[i] \in {"%"} \cup Controls => ~TakenAsText(i)
             PROVE  /\ Decoded(output) = SubSeq(path, 1, index)
                    /\ \A c \in Controls : ~Contains(output, c)
  BY DEF ReversibleOutsideText
<1> DEFINE T == Bytes \cup Digits
           bytes == SubSeq(path, 1, index)
<1>1. PICK words : WrittenOut(words)
  BY DEF PathInv
<1>2. words \in Seq(Seq(T)) /\ Len(words) = index /\ output = FlattenSeq(words)
  BY <1>1 DEF WrittenOut
<1>3. index \in 0..Len(path) /\ path \in Seq(Bytes)
  BY DEF PathInv
<1>4. bytes \in Seq(Bytes) /\ Len(bytes) = index /\ \A i \in 1..index : bytes[i] = path[i]
  BY <1>3
<1>5. ASSUME NEW i \in 1..index
      PROVE  /\ path[i] \in Bytes
             /\ \/ words[i] = <<path[i]>> /\ path[i] \notin {"%"} \cup Controls
                \/ path[i] \notin Printable /\ words[i] = Escape(path[i])
  <2>1. Written(words[i], i)
    BY <1>1 DEF WrittenOut
  <2>2. path[i] \in Bytes
    BY <1>3
  <2> QED
    BY <2>1, <2>2 DEF Written
<1> HIDE DEF bytes
<1>6. SpelledOut(words, bytes)
  <2>1. ASSUME NEW i \in 1..index PROVE Spelled(words[i], bytes[i])
    BY <1>4, <1>5 DEF Spelled
  <2> QED
    BY <1>2, <1>4, <2>1 DEF SpelledOut
<1>7. Decoded(output) = bytes
  BY <1>2, <1>4, <1>6, DecodedWords
<1>8. ASSUME NEW c \in Controls, NEW m \in 1..Len(output), output[m] = c
      PROVE  FALSE
  <2>1. PICK p : Spread(p, Len(words), words, output)
    <3> HIDE DEF T
    <3> QED
      BY <1>2, FlattenSpread
  <2>2. /\ p \in [0..index -> Nat] /\ p[0] = 0 /\ Len(output) = p[index]
        /\ \A k \in 1..index : p[k] = p[k - 1] + Len(words[k])
        /\ \A k \in 1..index : \A j \in 1..Len(words[k]) : output[p[k - 1] + j] = words[k][j]
    BY <1>2, <2>1 DEF Spread
  <2>3. m \in Nat /\ 0 < m /\ m <= p[index] /\ index \in Nat
    BY <1>3, <2>2
  <2>4. PICK k \in 1..index : p[k - 1] < m /\ m <= p[k]
    BY <2>2, <2>3, Reached
  <2> DEFINE j == m - p[k - 1]
             w == words[k]
  <2>5. w \in Seq(T) /\ p[k - 1] \in Nat /\ p[k] = p[k - 1] + Len(w)
    <3> HIDE DEF T
    <3>1. k - 1 \in 0..index /\ k \in 1..Len(words)
      BY <1>2, <2>3
    <3>2. words[k] \in Seq(T)
      BY <1>2, <3>1
    <3>3. p[k - 1] \in Nat /\ p[k] = p[k - 1] + Len(words[k])
      BY <2>2, <3>1
    <3> QED
      BY <3>2, <3>3
  <2>6. j \in 1..Len(w) /\ p[k - 1] + j = m
    BY <2>3, <2>4, <2>5
  <2>7. w[j] = c
    BY <1>8, <2>2, <2>6
  <2>8. CASE w = <<path[k]>> /\ path[k] \notin {"%"} \cup Controls
    <3>1. j = 1 /\ w[1] = path[k]
      BY <2>6, <2>8
    <3> QED
      BY <2>7, <2>8, <3>1
  <2>9. CASE w = Escape(path[k])
    <3>1. path[k] \in Bytes /\ j \in 1..3
      BY <1>5, <2>6, <2>9, EscapeIs
    <3>2. w[j] \in Digits \cup {"%"}
      BY <2>9, <3>1, EscapeIs
    <3> QED
      BY <2>7, <3>2 DEF Digits, Controls, LF, CR, Esc
  <2> QED
    BY <1>5, <2>8, <2>9
<1> QED
  BY <1>7, <1>8 DEF bytes, Contains

\* PathInv is inductive.
THEOREM PathInvariance == Spec => []PathInv
<1>1. PathInv /\ [Encode]_vars => PathInv'
  <2> SUFFICES ASSUME PathInv, [Encode]_vars PROVE PathInv'
    OBVIOUS
  <2>1. CASE Encode
    BY <2>1, PathStep
  <2>2. CASE UNCHANGED vars
    BY <2>2 DEF vars, PathInv, WrittenOut, Written, TakenAsText
  <2> QED
    BY <2>1, <2>2
<1> QED
  BY <1>1, PathInit, PTL DEF Spec

\* What encode_bytes wrote decodes to what it read, on one line, unless it took a "%"
\* or a control byte as text: for any path, at any byte of it.
THEOREM PathsAreReversible == Spec => []ReversibleOutsideText
  BY PathInvariance, PathReversible, PTL

-------------------------------------------------------------------------------
(***************************************************************************)
(* The diagnostics of jj: where the pieces of what is shown begin, and where it *)
(* is cut.                                                                 *)
(***************************************************************************)
Tokens == Bytes \cup Digits
Marks == {"...", "[truncated", "]"}

\* What a byte of the diagnostics is shown as.
Formed(bytes, i, piece) ==
  \/ /\ piece \in Seq(Tokens) /\ Len(piece) = 3 /\ piece[1] = "%"
     /\ piece[2] \in Digits /\ piece[3] \in Digits
     /\ ~WellPlaced(bytes, i)
  \/ /\ piece = Char
     /\ CharAt(bytes, i)
  \/ /\ piece = <<>>
     /\ \E j \in (i - 3)..(i - 1) : CharAt(bytes, j)
  \/ /\ piece = <<bytes[i]>>
     /\ bytes[i] \in Ascii

\* There is a piece for every byte, and it is formed like that.
LEMMA PiecesAre ==
  ASSUME NEW bytes \in Seq(Bytes)
  PROVE  /\ Pieces(bytes) \in Seq(Seq(Tokens)) /\ Len(Pieces(bytes)) = Len(bytes)
         /\ \A i \in 1..Len(bytes) : Formed(bytes, i, Pieces(bytes)[i])
<1>1. Len(bytes) \in Nat /\ DOMAIN bytes = 1..Len(bytes) /\ \A i \in 1..Len(bytes) : bytes[i] \in Bytes
  OBVIOUS
<1>2. Digits \cup {"%"} \subseteq Tokens /\ Bytes \subseteq Tokens /\ Char \in Seq(Tokens)
  <2>1. Digits \cup {"%"} \subseteq Tokens /\ Bytes \subseteq Tokens
    BY DEF Tokens, Bytes, Ascii
  <2> QED
    BY <2>1, KindsDiffer
<1>3. ASSUME NEW i \in 1..Len(bytes)
      PROVE  Formed(bytes, i, Pieces(bytes)[i]) /\ Pieces(bytes)[i] \in Seq(Tokens)
  <2> DEFINE b == bytes[i]
             rest == CASE b \in Ascii -> <<b>> [] b = Char[1] -> Char [] OTHER -> <<>>
  <2>1. Pieces(bytes)[i] = IF ~WellPlaced(bytes, i) THEN Escape(b) ELSE rest
    BY <1>1 DEF Pieces
  <2>2. CASE ~WellPlaced(bytes, i)
    <3>1. Pieces(bytes)[i] = Escape(b) /\ b \in Bytes
      BY <1>1, <2>1, <2>2
    <3> DEFINE e == Escape(b)
    <3>2. e \in Seq(Digits \cup {"%"}) /\ Len(e) = 3 /\ e[1] = "%" /\ e[2] \in Digits /\ e[3] \in Digits
      BY <3>1, EscapeIs
    <3> HIDE DEF e
    <3>3. e \in Seq(Tokens)
      BY <1>2, <3>2
    <3> QED
      BY <2>2, <3>1, <3>2, <3>3 DEF Formed, e
  <2>3. CASE WellPlaced(bytes, i) /\ b \in Ascii
    <3>1. b # Char[1] /\ b \notin Continuation
      BY <2>3, KindsDiffer
    <3>2. Pieces(bytes)[i] = <<b>>
      BY <2>1, <2>3, <3>1
    <3> QED
      BY <1>1, <1>2, <2>3, <3>2 DEF Formed
  <2>4. CASE WellPlaced(bytes, i) /\ b \notin Ascii
    <3>1. PICK j \in (i - 3)..i : CharAt(bytes, j)
      BY <2>4 DEF WellPlaced
    <3>2. i - j + 1 \in 1..4 /\ j + (i - j + 1) - 1 = i
      BY <3>1
    <3>3. b = Char[i - j + 1]
      BY <3>1, <3>2 DEF CharAt
    <3>4. CASE j = i
      <4>1. b = Char[1]
        BY <3>3, <3>4
      <4>2. rest = Char
        BY <2>4, <4>1, KindsDiffer
      <4> QED
        BY <1>2, <2>1, <2>4, <3>1, <3>4, <4>2 DEF Formed
    <3>5. CASE j # i
      <4>1. j \in (i - 3)..(i - 1) /\ i - j + 1 # 1
        BY <3>1, <3>5
      <4>2. b \in Continuation /\ b # Char[1]
        BY <3>2, <3>3, <4>1, KindsDiffer
      <4>3. rest = <<>>
        BY <2>4, <4>2
      <4>4. Pieces(bytes)[i] = <<>>
        BY <2>1, <2>4, <4>3
      <4> QED
        BY <3>1, <4>1, <4>4, EmptySeq DEF Formed
    <3> QED
      BY <3>4, <3>5
  <2> QED
    BY <2>2, <2>3, <2>4
<1>4. Pieces(bytes) \in [1..Len(bytes) -> Seq(Tokens)]
  <2>1. Pieces(bytes) = [i \in 1..Len(bytes) |-> Pieces(bytes)[i]]
    BY <1>1 DEF Pieces
  <2> QED
    BY <1>3, <2>1
<1> QED
  BY <1>1, <1>3, <1>4, IsASeq

\* Where a token of the rendering comes from.
Rendering(bytes, p) ==
  /\ p \in [0..Len(bytes) -> Nat] /\ p[0] = 0 /\ Len(Rendered(bytes)) = p[Len(bytes)]
  /\ Rendered(bytes) \in Seq(Tokens)
  /\ Spread(p, Len(bytes), Pieces(bytes), Rendered(bytes))

\* Where the pieces are in the rendering.
LEMMA RenderingIs ==
  ASSUME NEW bytes \in Seq(Bytes)
  PROVE  \E p : Rendering(bytes, p)
<1>1. Pieces(bytes) \in Seq(Seq(Tokens)) /\ Len(Pieces(bytes)) = Len(bytes)
  BY PiecesAre
<1>2. PICK p : Spread(p, Len(bytes), Pieces(bytes), Rendered(bytes))
  BY <1>1, FlattenSpread DEF Rendered
<1>3. Rendered(bytes) \in Seq(Tokens)
  <2>1. Pieces(bytes) \in [1..Len(bytes) -> Seq(Tokens)] /\ Len(bytes) \in Nat
    BY <1>1
  <2> QED
    BY <2>1, FlattenType DEF Rendered
<1> QED
  BY <1>2, <1>3 DEF Rendering, Spread

\* The m-th token is the q-th of the k-th piece.
Token(bytes, p, m, k, q) ==
  LET piece == Pieces(bytes)[k] IN
  /\ k \in 1..Len(bytes) /\ q \in 1..Len(piece)
  /\ p[k - 1] \in Nat /\ p[k] = p[k - 1] + Len(piece) /\ m = p[k - 1] + q
  /\ p[k] <= p[Len(bytes)]
  /\ \A j \in 1..Len(piece) : Rendered(bytes)[p[k - 1] + j] = piece[j]
  /\ Formed(bytes, k, piece) /\ Len(piece) \in Nat

\* Every place of the rendering belongs to a piece.
LEMMA TokenIs ==
  ASSUME NEW bytes \in Seq(Bytes), NEW p, Rendering(bytes, p), NEW m \in 1..p[Len(bytes)]
  PROVE  \E k, q : Token(bytes, p, m, k, q)
<1> DEFINE n == Len(bytes)
           seqs == Pieces(bytes)
<1>1. n \in Nat /\ seqs \in Seq(Seq(Tokens)) /\ Len(seqs) = n /\ \A i \in 1..n : Formed(bytes, i, seqs[i])
  BY PiecesAre
<1>2. \A i \in 1..n : Len(seqs[i]) \in Nat
  <2> HIDE DEF seqs, n
  <2>1. \A i \in 1..n : seqs[i] \in Seq(Tokens)
    BY <1>1
  <2> QED
    BY <2>1
<1> HIDE DEF seqs, n
<1>3. /\ p \in [0..n -> Nat] /\ p[0] = 0
      /\ \A k \in 1..n : p[k] = p[k - 1] + Len(seqs[k])
      /\ \A k \in 1..n : \A j \in 1..Len(seqs[k]) : Rendered(bytes)[p[k - 1] + j] = seqs[k][j]
  BY DEF Rendering, Spread, n, seqs
<1>4. \A k \in 1..n : p[k - 1] \in Nat /\ p[k] \in Nat
  BY <1>1, <1>3
<1>5. m \in Nat /\ 0 < m /\ m <= p[n]
  BY DEF n
<1>6. PICK k \in 1..n : p[k - 1] < m /\ m <= p[k]
  BY <1>1, <1>3, <1>5, Reached
<1>7. p[k] <= p[n]
  <2>1. ASSUME NEW h \in 1..n PROVE p[h - 1] <= p[h]
    <3>1. p[h] = p[h - 1] + Len(seqs[h])
      BY <1>3
    <3> QED
      BY <1>2, <1>4, <3>1
  <2>2. k \in 0..n /\ n \in k..n
    BY <1>1
  <2> QED
    BY <1>1, <1>3, <2>1, <2>2, Ascending
<1> DEFINE q == m - p[k - 1]
<1>8. q \in 1..Len(seqs[k]) /\ m = p[k - 1] + q
  BY <1>2, <1>3, <1>4, <1>5, <1>6
<1> HIDE DEF q
<1>9. Token(bytes, p, m, k, q)
  BY <1>1, <1>2, <1>3, <1>4, <1>7, <1>8 DEF Token, n, seqs
<1> QED
  BY <1>9

Boundary(bytes, p, m) == \E k \in 0..Len(bytes) : p[k] = m

\* A "%" stands at the beginning of its piece.
LEMMA PercentBegins ==
  ASSUME NEW bytes \in Seq(Bytes), NEW p, Rendering(bytes, p), NEW m \in 1..p[Len(bytes)],
         Rendered(bytes)[m] = "%"
  PROVE  Boundary(bytes, p, m - 1)
<1>1. PICK k, q : Token(bytes, p, m, k, q)
  BY TokenIs
<1> DEFINE piece == Pieces(bytes)[k]
<1>2. piece[q] = "%" /\ q \in 1..Len(piece) /\ Formed(bytes, k, piece) /\ k \in 1..Len(bytes)
      /\ m = p[k - 1] + q /\ p[k - 1] \in Nat /\ Len(piece) \in Nat
  BY <1>1 DEF Token
<1> HIDE DEF piece
<1>3. q = 1
  <2>1. "%" \notin Digits /\ "%" \in Ascii
    BY DEF Digits, Ascii
  <2>2. CASE Len(piece) = 3 /\ piece[2] \in Digits /\ piece[3] \in Digits
    <3>1. q # 2 /\ q # 3
      BY <1>2, <2>1, <2>2
    <3> QED
      BY <1>2, <2>2, <3>1
  <2>3. CASE piece = Char
    BY <1>2, <2>1, <2>3, KindsDiffer
  <2>4. CASE piece = <<>> \/ piece = <<bytes[k]>>
    BY <1>2, <2>4
  <2> QED
    BY <1>2, <2>2, <2>3, <2>4 DEF Formed
<1>4. p[k - 1] = m - 1 /\ k - 1 \in 0..Len(bytes)
  BY <1>2, <1>3
<1> QED
  BY <1>4 DEF Boundary

\* Behind the first byte of a character the others stand, and nowhere else.
LEMMA ContinuationFollows ==
  ASSUME NEW bytes \in Seq(Bytes), NEW p, Rendering(bytes, p), NEW m \in 1..p[Len(bytes)],
         Rendered(bytes)[m] \in Continuation
  PROVE  \E d \in 1..3 : m - d >= 1 /\ Rendered(bytes)[m - d] = Char[1]
<1>1. PICK k, q : Token(bytes, p, m, k, q)
  BY TokenIs
<1> DEFINE piece == Pieces(bytes)[k]
<1>2. piece[q] \in Continuation /\ q \in 1..Len(piece) /\ Formed(bytes, k, piece)
      /\ m = p[k - 1] + q /\ p[k - 1] \in Nat /\ Len(piece) \in Nat
      /\ \A j \in 1..Len(piece) : Rendered(bytes)[p[k - 1] + j] = piece[j]
  BY <1>1 DEF Token
<1> HIDE DEF piece
<1>3. q \in 2..4 /\ piece[1] = Char[1]
  <2>1. Continuation \cap (Digits \cup {"%"}) = {}
    BY DEF Digits, Continuation
  <2>2. CASE Len(piece) = 3 /\ piece[1] = "%" /\ piece[2] \in Digits /\ piece[3] \in Digits
    <3>1. q = 1 \/ q = 2 \/ q = 3
      BY <1>2, <2>2
    <3> QED
      BY <1>2, <2>1, <2>2, <3>1
  <2>3. CASE piece = Char
    <3>1. q \in 1..4 /\ q # 1
      BY <1>2, <2>3, KindsDiffer
    <3> QED
      BY <2>3, <3>1
  <2>4. CASE piece = <<>>
    BY <1>2, <2>4
  <2>5. CASE piece = <<bytes[k]>> /\ bytes[k] \in Ascii
    <3>1. q = 1 /\ piece[1] = bytes[k]
      BY <1>2, <2>5
    <3> QED
      BY <1>2, <2>5, <3>1, KindsDiffer
  <2> QED
    BY <1>2, <2>2, <2>3, <2>4, <2>5 DEF Formed
<1>4. q - 1 \in 1..3 /\ m - (q - 1) = p[k - 1] + 1 /\ m - (q - 1) >= 1 /\ 1 \in 1..Len(piece)
  BY <1>2, <1>3
<1>5. Rendered(bytes)[m - (q - 1)] = Char[1]
  BY <1>2, <1>3, <1>4
<1> QED
  BY <1>4, <1>5

\* A place that splits neither an escape nor a character is between two pieces.
LEMMA WholePieces ==
  ASSUME NEW bytes \in Seq(Bytes), NEW p, Rendering(bytes, p), NEW m \in 0..p[Len(bytes)],
         m >= 1 => Rendered(bytes)[m] # "%",
         m >= 2 => Rendered(bytes)[m - 1] # "%",
         m < p[Len(bytes)] => Rendered(bytes)[m + 1] \notin Continuation
  PROVE  Boundary(bytes, p, m)
<1>1. p[0] = 0 /\ p[Len(bytes)] \in Nat /\ Len(bytes) \in Nat
  BY DEF Rendering
<1>2. CASE m = 0
  BY <1>1, <1>2 DEF Boundary
<1>3. CASE m # 0
  <2>1. m \in 1..p[Len(bytes)] /\ m \in Nat
    BY <1>1, <1>3
  <2>2. PICK k, q : Token(bytes, p, m, k, q)
    BY <2>1, TokenIs
  <2> DEFINE piece == Pieces(bytes)[k]
             l == Len(piece)
  <2>3. /\ q \in 1..l /\ Formed(bytes, k, piece) /\ k \in 1..Len(bytes)
        /\ m = p[k - 1] + q /\ p[k - 1] \in Nat /\ l \in Nat
        /\ p[k] = p[k - 1] + l /\ p[k] <= p[Len(bytes)]
        /\ \A j \in 1..l : Rendered(bytes)[p[k - 1] + j] = piece[j]
    BY <2>2 DEF Token
  <2> HIDE DEF piece
  <2>4. q = l
    <3> SUFFICES ASSUME q # l PROVE FALSE
      OBVIOUS
    <3>1. q + 1 \in 1..l /\ m + 1 = p[k - 1] + (q + 1) /\ m < p[Len(bytes)]
      <4> HIDE DEF l
      <4>1. q + 1 \in 1..l /\ m + 1 = p[k - 1] + (q + 1)
        BY <2>3
      <4>2. m < p[k - 1] + l
        BY <2>3, <4>1
      <4> QED
        BY <1>1, <2>3, <4>1, <4>2
    <3>2. piece[q + 1] \notin Continuation
      BY <2>3, <3>1
    <3>3. piece[q] # "%"
      BY <2>1, <2>3
    <3>4. q = 2 => piece[1] # "%"
      <4> SUFFICES ASSUME q = 2 PROVE piece[1] # "%"
        OBVIOUS
      <4>1. 1 \in 1..l /\ m - 1 = p[k - 1] + 1 /\ m >= 2
        BY <2>3
      <4> QED
        BY <2>3, <4>1
    <3>5. CASE l = 3 /\ piece[1] = "%"
      <4>1. q = 1 \/ q = 2
        BY <2>3, <3>5
      <4> QED
        BY <3>3, <3>4, <3>5, <4>1
    <3>6. CASE piece = Char
      <4>1. q + 1 \in 1..4 /\ q + 1 # 1
        BY <2>3, <3>1, <3>6, KindsDiffer
      <4> QED
        BY <3>2, <3>6, <4>1, KindsDiffer
    <3>7. CASE piece = <<>> \/ piece = <<bytes[k]>>
      BY <2>3, <3>1, <3>7
    <3> QED
      BY <2>3, <3>5, <3>6, <3>7 DEF Formed
  <2>5. p[k] = m /\ k \in 0..Len(bytes)
    BY <1>1, <2>3, <2>4
  <2> QED
    BY <2>5 DEF Boundary
<1> QED
  BY <1>2, <1>3

\* What the rendering loses with the final line ending.
LEMMA WithoutFinalEolIs ==
  ASSUME NEW S, NEW flat \in Seq(S)
  PROVE  LET text == WithoutFinalEol(flat) IN
         /\ text \in Seq(S) /\ Len(text) \in (Len(flat) - 2)..Len(flat)
         /\ Len(text) < Len(flat) => flat[Len(text) + 1] \in {CR, LF}
         /\ Len(text) \in Nat /\ \A j \in 1..Len(text) : text[j] = flat[j]
<1> DEFINE n == Len(flat)
           eol == IF n > 1 /\ flat[n - 1] = CR /\ flat[n] = LF THEN 2
                  ELSE IF n > 0 /\ flat[n] \in {CR, LF} THEN 1 ELSE 0
           l == n - eol
           text == SubSeq(flat, 1, l)
<1>1. n \in Nat /\ l \in 0..n /\ l >= n - 2 /\ (l < n => flat[l + 1] \in {CR, LF})
  <2>1. n \in Nat
    OBVIOUS
  <2>2. CASE n > 1 /\ flat[n - 1] = CR /\ flat[n] = LF
    <3>1. l = n - 2 /\ l + 1 = n - 1
      BY <2>1, <2>2
    <3> QED
      BY <2>1, <2>2, <3>1
  <2>3. CASE ~(n > 1 /\ flat[n - 1] = CR /\ flat[n] = LF) /\ n > 0 /\ flat[n] \in {CR, LF}
    <3>1. l = n - 1 /\ l + 1 = n
      BY <2>1, <2>3
    <3> QED
      BY <2>1, <2>3, <3>1
  <2>4. CASE ~(n > 1 /\ flat[n - 1] = CR /\ flat[n] = LF) /\ ~(n > 0 /\ flat[n] \in {CR, LF})
    <3>1. l = n
      BY <2>1, <2>4
    <3> QED
      BY <2>1, <3>1
  <2> QED
    BY <2>2, <2>3, <2>4
<1>2. WithoutFinalEol(flat) = text
  BY DEF WithoutFinalEol
<1> HIDE DEF eol, l
<1>3. text \in Seq(S) /\ Len(text) = l /\ \A j \in 1..l : text[j] = flat[j]
  BY <1>1
<1> HIDE DEF text
<1> QED
  BY <1>1, <1>2, <1>3

\* What is known of the text that is cut.
Text(bytes, p, text) ==
  LET flat == Rendered(bytes) IN
  /\ Rendering(bytes, p) /\ text \in Seq(Tokens)
  /\ Len(text) \in (Len(flat) - 2)..Len(flat)
  /\ Len(text) < Len(flat) => flat[Len(text) + 1] \in {CR, LF}
  /\ Len(text) \in Nat /\ \A j \in 1..Len(text) : text[j] = flat[j]

\* What is_char_boundary says of a place of the shown text.
LEMMA CharBoundaryIs ==
  ASSUME NEW bytes \in Seq(Bytes), NEW p, NEW text, Text(bytes, p, text),
         NEW most \in 0..Len(text)
  PROVE  LET c == CharBoundary(text, most) IN
         c \in 0..most /\ c >= most - 3 /\ IsCharBoundary(text, c)
<1> DEFINE T == {j \in 0..most : IsCharBoundary(text, j)}
           flat == Rendered(bytes)
<1>1. /\ most \in Nat /\ Len(text) \in Nat /\ Len(text) <= Len(flat)
      /\ Len(flat) = p[Len(bytes)] /\ Rendering(bytes, p) /\ Len(flat) \in Nat
      /\ \A j \in 1..Len(text) : text[j] = flat[j]
  <2>1. Rendering(bytes, p) /\ Len(text) \in Nat /\ \A j \in 1..Len(text) : text[j] = flat[j]
    BY DEF Text
  <2>2. flat \in Seq(Tokens) /\ Len(flat) = p[Len(bytes)]
    BY <2>1 DEF Rendering
  <2>3. Len(flat) \in Nat
    BY <2>2
  <2>4. Len(text) <= Len(flat)
    BY <2>3 DEF Text
  <2> QED
    BY <2>1, <2>2, <2>3, <2>4
<1> HIDE DEF flat
<1>2. ASSUME NEW j \in 1..Len(text), text[j] \in Continuation
      PROVE  \E d \in 1..3 : j - d >= 1 /\ text[j - d] = Char[1]
  <2>1. j \in 1..p[Len(bytes)] /\ flat[j] \in Continuation
    BY <1>1, <1>2
  <2>2. PICK d \in 1..3 : j - d >= 1 /\ flat[j - d] = Char[1]
    BY <1>1, <2>1, ContinuationFollows DEF flat
  <2>3. j - d \in 1..Len(text)
    BY <1>1, <2>2
  <2>4. text[j - d] = Char[1]
    BY <1>1, <2>2, <2>3
  <2> QED
    BY <2>2, <2>4
<1>3. \E j \in T : j >= most - 3
  <2>1. CASE IsCharBoundary(text, most)
    BY <1>1, <2>1
  <2>2. CASE ~IsCharBoundary(text, most)
    <3>1. most + 1 \in 1..Len(text) /\ text[most + 1] \in Continuation
      BY <1>1, <2>2 DEF IsCharBoundary
    <3>2. PICK d \in 1..3 : (most + 1) - d >= 1 /\ text[(most + 1) - d] = Char[1]
      BY <1>2, <3>1
    <3>3. most - d \in 0..most /\ most - d >= most - 3 /\ (most + 1) - d = (most - d) + 1
      BY <1>1, <3>2
    <3>4. text[(most - d) + 1] \notin Continuation
      BY <3>2, <3>3, KindsDiffer
    <3>5. IsCharBoundary(text, most - d)
      BY <3>4 DEF IsCharBoundary
    <3> QED
      BY <3>3, <3>5
  <2> QED
    BY <2>1, <2>2
<1>4. T \in SUBSET (0..most)
  OBVIOUS
<1>5. Max(T) \in T /\ \A j \in T : j <= Max(T)
  <2> HIDE DEF T
  <2> QED
    BY <1>1, <1>3, <1>4, HasMax
<1>6. CharBoundary(text, most) = Max(T)
  BY DEF CharBoundary
<1> DEFINE c == Max(T)
<1>7. c \in 0..most /\ IsCharBoundary(text, c) /\ \E j \in 0..most : j >= most - 3 /\ j <= c
  BY <1>3, <1>5
<1> HIDE DEF T, c
<1>8. c >= most - 3
  BY <1>1, <1>7
<1> QED
  BY <1>6, <1>7, <1>8 DEF c

\* Where the text is cut: between two pieces, five tokens early at most.
LEMMA CutIs ==
  ASSUME NEW bytes \in Seq(Bytes), NEW p, NEW text, Text(bytes, p, text),
         NEW most \in 0..Len(text)
  PROVE  LET cut == EscapeBoundary(text, CharBoundary(text, most)) IN
         cut \in 0..most /\ cut >= most - 5 /\ Boundary(bytes, p, cut)
<1> DEFINE c == CharBoundary(text, most)
           flat == Rendered(bytes)
           n == p[Len(bytes)]
<1>1. c \in 0..most /\ c >= most - 3 /\ IsCharBoundary(text, c)
  BY CharBoundaryIs
<1> HIDE DEF c
<1>2. /\ Rendering(bytes, p) /\ Len(text) \in Nat /\ most \in Nat
      /\ Len(text) <= n /\ (Len(text) < n => flat[Len(text) + 1] \in {CR, LF})
      /\ n \in Nat /\ \A j \in 1..Len(text) : text[j] = flat[j]
  <2>1. Rendering(bytes, p) /\ Len(text) \in Nat /\ \A j \in 1..Len(text) : text[j] = flat[j]
    BY DEF Text
  <2>2. Len(flat) = n /\ flat \in Seq(Tokens)
    BY <2>1 DEF Rendering
  <2>3. n \in Nat
    BY <2>2
  <2>4. Len(text) \in (n - 2)..n /\ (Len(text) < n => flat[Len(text) + 1] \in {CR, LF})
    BY <2>2 DEF Text
  <2> QED
    BY <2>1, <2>3, <2>4
<1> HIDE DEF n, flat
<1>3. c \in Nat /\ c <= Len(text) /\ c \in 0..n /\ Len(text) <= n
  BY <1>1, <1>2
<1>4. c < n => flat[c + 1] \notin Continuation
  <2> SUFFICES ASSUME c < n PROVE flat[c + 1] \notin Continuation
    OBVIOUS
  <2>1. CASE c = Len(text)
    <3>1. flat[c + 1] \in {CR, LF}
      BY <1>2, <2>1
    <3> QED
      BY <3>1, KindsDiffer DEF Ascii, Controls
  <2>2. CASE c # Len(text)
    <3>1. c + 1 \in 1..Len(text) /\ text[c + 1] \notin Continuation
      BY <1>1, <1>2, <1>3, <2>2 DEF IsCharBoundary
    <3> QED
      BY <1>2, <3>1
  <2> QED
    BY <2>1, <2>2
<1>5. \A j \in 1..c : text[j] = flat[j] /\ j \in 1..n
  BY <1>2, <1>3
<1>6. CASE c > 0 /\ text[c] = "%"
  <2>1. c \in 1..c /\ c \in 1..n /\ flat[c] = "%"
    BY <1>3, <1>5, <1>6
  <2>2. Boundary(bytes, p, c - 1)
    BY <1>2, <2>1, PercentBegins DEF flat, n
  <2>3. EscapeBoundary(text, c) = c - 1
    BY <1>6 DEF EscapeBoundary
  <2>4. c - 1 \in 0..most /\ c - 1 >= most - 5
    BY <1>1, <1>2, <1>6
  <2> QED
    BY <2>2, <2>3, <2>4 DEF c
<1>7. CASE ~(c > 0 /\ text[c] = "%") /\ c > 1 /\ text[c - 1] = "%"
  <2>1. c - 1 \in 1..c /\ c - 1 \in 1..n /\ flat[c - 1] = "%" /\ (c - 1) - 1 = c - 2
    BY <1>3, <1>5, <1>7
  <2>2. Boundary(bytes, p, c - 2)
    <3>1. Boundary(bytes, p, (c - 1) - 1)
      BY <1>2, <2>1, PercentBegins DEF flat, n
    <3> QED
      BY <2>1, <3>1
  <2>3. EscapeBoundary(text, c) = c - 2
    BY <1>7 DEF EscapeBoundary
  <2>4. c - 2 \in 0..most /\ c - 2 >= most - 5
    BY <1>1, <1>2, <1>7
  <2> QED
    BY <2>2, <2>3, <2>4 DEF c
<1>8. CASE ~(c > 0 /\ text[c] = "%") /\ ~(c > 1 /\ text[c - 1] = "%")
  <2>1. c >= 1 => flat[c] # "%"
    BY <1>3, <1>5, <1>8
  <2>2. c >= 2 => flat[c - 1] # "%"
    BY <1>3, <1>5, <1>8
  <2>3. Boundary(bytes, p, c)
    BY <1>2, <1>3, <1>4, <2>1, <2>2, WholePieces DEF flat, n
  <2>4. EscapeBoundary(text, c) = c
    BY <1>8 DEF EscapeBoundary
  <2>5. c \in 0..most /\ c >= most - 5
    BY <1>1, <1>2
  <2> QED
    BY <2>3, <2>4, <2>5 DEF c
<1> QED
  BY <1>6, <1>7, <1>8

\* The rendering is no shorter than the bytes it shows, nor is a beginning of it.
LEMMA NoShorter ==
  ASSUME NEW bytes \in Seq(Bytes), NEW p, Rendering(bytes, p), NEW k \in 0..Len(bytes)
  PROVE  p[k] >= k
<1> DEFINE n == Len(bytes)
           A == {i \in 0..n : p[i] >= i /\ \A j \in 1..i : CharAt(bytes, j) => p[i] >= j + 3}
<1>1. n \in Nat /\ p \in [0..n -> Nat] /\ p[0] = 0
  BY DEF Rendering
<1>2. ASSUME NEW i \in 1..n
      PROVE  /\ p[i] = p[i - 1] + Len(Pieces(bytes)[i])
             /\ Formed(bytes, i, Pieces(bytes)[i]) /\ p[i - 1] \in Nat /\ i - 1 \in 0..n
  BY <1>1, PiecesAre DEF Rendering, Spread
<1>3. 0 \in A
  BY <1>1
<1>4. ASSUME NEW i \in 0..(n - 1), i \in A PROVE i + 1 \in A
  <2> DEFINE piece == Pieces(bytes)[i + 1]
             b == bytes[i + 1]
  <2>1. i + 1 \in 1..n /\ (i + 1) - 1 = i /\ i \in Nat /\ i + 1 \in 0..n
    BY <1>1
  <2>2. p[i + 1] = p[i] + Len(piece) /\ Formed(bytes, i + 1, piece) /\ p[i] \in Nat
    BY <1>2, <2>1
  <2>3. p[i] >= i /\ \A j \in 1..i : CharAt(bytes, j) => p[i] >= j + 3
    BY <1>4
  <2> HIDE DEF piece
  <2>4. CharAt(bytes, i + 1) => piece = Char
    <3> SUFFICES ASSUME piece # Char, CharAt(bytes, i + 1) PROVE FALSE
      OBVIOUS
    <3>1. b = Char[1] /\ b \notin Ascii
      <4>1. 1 \in 1..4 /\ (i + 1) + 1 - 1 = i + 1
        BY <2>1
      <4>2. b = Char[1]
        BY <4>1 DEF CharAt
      <4> QED
        BY <4>2, KindsDiffer
    <3>2. WellPlaced(bytes, i + 1)
      BY <2>1 DEF WellPlaced
    <3>3. PICK j \in ((i + 1) - 3)..((i + 1) - 1) : CharAt(bytes, j)
      BY <2>2, <3>1, <3>2 DEF Formed
    <3> DEFINE r == i - j + 2
    <3>4. r \in 2..4 /\ r \in 1..4 /\ j + r - 1 = i + 1
      BY <2>1, <3>3
    <3> HIDE DEF r
    <3>5. bytes[j + r - 1] = Char[r]
      BY <3>3, <3>4 DEF CharAt
    <3>6. b = Char[r]
      BY <3>4, <3>5
    <3>7. b \in Continuation
      BY <3>4, <3>6, KindsDiffer
    <3> QED
      BY <3>1, <3>7, KindsDiffer
  <2>5. ASSUME NEW j \in 1..(i + 1), CharAt(bytes, j) PROVE p[i + 1] >= j + 3
    <3>1. CASE j \in 1..i
      <4>1. p[i] >= j + 3 /\ Len(piece) \in Nat
        <5>1. Len(piece) \in Nat
          BY <2>2, KindsDiffer DEF Formed
        <5> QED
          BY <2>3, <2>5, <3>1, <5>1
      <4> QED
        BY <2>2, <3>1, <4>1
    <3>2. CASE j = i + 1
      <4>1. Len(piece) = 4
        BY <2>4, <2>5, <3>2, KindsDiffer
      <4> QED
        BY <2>1, <2>2, <2>3, <3>2, <4>1
    <3> QED
      BY <2>1, <3>1, <3>2
  <2>6. p[i + 1] >= i + 1
    <3>1. CASE piece = <<>>
      <4>1. Len(piece) = 0 /\ piece # Char /\ piece # <<b>>
        <5> DEFINE one == <<b>>
        <5>1. Len(piece) = 0
          BY <3>1
        <5>2. Len(one) = 1 /\ Len(Char) = 4
          BY KindsDiffer
        <5> HIDE DEF one
        <5>3. piece = Char => Len(piece) = Len(Char)
          BY Zenon
        <5>4. piece = one => Len(piece) = Len(one)
          BY Zenon
        <5> QED
          BY <5>1, <5>2, <5>3, <5>4 DEF one
      <4>2. PICK j \in ((i + 1) - 3)..((i + 1) - 1) : CharAt(bytes, j)
        BY <2>2, <4>1 DEF Formed
      <4>3. j \in 1..i /\ j + 3 >= i + 1
        BY <2>1, <4>2 DEF CharAt
      <4>4. p[i] >= j + 3
        BY <2>3, <4>2, <4>3
      <4> QED
        BY <2>1, <2>2, <4>1, <4>3, <4>4
    <3>2. CASE piece # <<>>
      <4>1. Len(piece) = 1 \/ Len(piece) = 3 \/ Len(piece) = 4
        <5>1. Len(<<b>>) = 1
          OBVIOUS
        <5> QED
          BY <2>2, <3>2, <5>1, KindsDiffer DEF Formed
      <4> DEFINE l == Len(piece)
                 before == p[i]
      <4>2. p[i + 1] = before + l /\ before \in Nat /\ l \in {1, 3, 4} /\ before >= i
        BY <2>2, <2>3, <4>1
      <4> HIDE DEF l, before
      <4>3. before + l >= i + 1
        BY <2>1, <4>2
      <4> QED
        BY <4>2, <4>3
    <3> QED
      BY <3>1, <3>2
  <2> QED
    BY <2>1, <2>5, <2>6
<1>5. 0..n \subseteq A
  <2>1. \A i \in 0..(n - 1) : i \in A => i + 1 \in A
    BY <1>4
  <2> HIDE DEF A, n
  <2> QED
    BY <1>1, <1>3, <2>1, Induction
<1> QED
  BY <1>5

\* The first pieces make the first tokens.
LEMMA PiecesBegin ==
  ASSUME NEW bytes \in Seq(Bytes), NEW p, Rendering(bytes, p), NEW k \in 0..Len(bytes)
  PROVE  /\ p[k] \in 0..Len(Rendered(bytes))
         /\ FlattenSeq(SubSeq(Pieces(bytes), 1, k)) = SubSeq(Rendered(bytes), 1, p[k])
<1> DEFINE seqs == Pieces(bytes)
           n == Len(bytes)
           pre == SubSeq(seqs, 1, k)
           post == SubSeq(seqs, k + 1, n)
           flat == Rendered(bytes)
           a == FlattenSeq(pre)
           b == FlattenSeq(post)
<1>1. seqs \in Seq(Seq(Tokens)) /\ Len(seqs) = n /\ n \in Nat /\ k \in Nat /\ k <= n
  BY PiecesAre
<1>2. p \in [0..n -> Nat] /\ p[0] = 0 /\ \A i \in 1..n : p[i] = p[i - 1] + Len(seqs[i])
  BY DEF Rendering, Spread
<1>3. flat = FlattenSeq(seqs)
  BY DEF Rendered
<1> HIDE DEF seqs, n, flat
<1>4. /\ pre \in Seq(Seq(Tokens)) /\ Len(pre) = k /\ \A i \in 1..k : pre[i] = seqs[i]
      /\ post \in Seq(Seq(Tokens))
  BY <1>1
<1>5. pre \o post = seqs
  <2> DEFINE U == Seq(Tokens)
  <2> HIDE DEF U
  <2>1. seqs \in Seq(U) /\ k \in 0..Len(seqs)
    BY <1>1 DEF U
  <2> QED
    BY <1>1, <2>1, SplitAt
<1> HIDE DEF pre, post
<1>6. flat = a \o b
  BY <1>3, <1>4, <1>5, FlattenConcat
<1>7. a \in Seq(Tokens) /\ b \in Seq(Tokens)
  BY <1>4, FlattenSnoc
<1>8. PICK r : Spread(r, k, pre, a)
  BY <1>4, FlattenSpread
<1> HIDE DEF a, b
<1>9. Len(a) = p[k]
  <2>1. /\ r \in [0..k -> Nat] /\ r[0] = 0 /\ Len(a) = r[k]
        /\ \A i \in 1..k : r[i] = r[i - 1] + Len(pre[i])
    BY <1>8 DEF Spread
  <2> DEFINE A == {i \in 0..k : r[i] = p[i]}
  <2>2. 0 \in A
    BY <1>1, <1>2, <2>1
  <2>3. ASSUME NEW i \in 0..(k - 1), i \in A PROVE i + 1 \in A
    <3>1. i + 1 \in 1..k /\ (i + 1) - 1 = i /\ i + 1 \in 1..n /\ i + 1 \in 0..k
      BY <1>1
    <3>2. r[i + 1] = r[(i + 1) - 1] + Len(pre[i + 1])
      BY <2>1, <3>1
    <3>3. p[i + 1] = p[(i + 1) - 1] + Len(seqs[i + 1])
      BY <1>2, <3>1
    <3>4. pre[i + 1] = seqs[i + 1] /\ r[i] = p[i]
      BY <1>4, <2>3, <3>1
    <3> QED
      BY <3>1, <3>2, <3>3, <3>4
  <2>4. 0..k \subseteq A
    <3> HIDE DEF A
    <3> QED
      BY <1>1, <2>2, <2>3, Induction
  <2>5. k \in 0..k
    BY <1>1
  <2> QED
    BY <2>1, <2>4, <2>5
<1>10. Len(a) \in 0..Len(flat) /\ SubSeq(flat, 1, Len(a)) = a
  <2> DEFINE both == a \o b
             cut == SubSeq(both, 1, Len(a))
  <2>1. /\ both \in Seq(Tokens) /\ Len(both) = Len(a) + Len(b) /\ Len(a) \in Nat /\ Len(b) \in Nat
        /\ \A j \in 1..Len(a) : both[j] = a[j]
    <3>1. Len(a) \in Nat /\ Len(b) \in Nat
      BY <1>7
    <3>2. /\ both \in Seq(Tokens) /\ Len(both) = Len(a) + Len(b)
          /\ \A j \in 1..(Len(a) + Len(b)) : both[j] = IF j <= Len(a) THEN a[j] ELSE b[j - Len(a)]
      BY <1>7, ConcatProperties
    <3>3. \A j \in 1..Len(a) : j \in 1..(Len(a) + Len(b)) /\ j <= Len(a)
      BY <3>1
    <3> QED
      BY <3>1, <3>2, <3>3
  <2> HIDE DEF both
  <2>2. cut \in Seq(Tokens) /\ Len(cut) = Len(a) /\ \A j \in 1..Len(a) : cut[j] = both[j]
    BY <2>1
  <2> HIDE DEF cut
  <2>3. cut = a
    BY <1>7, <2>1, <2>2, SeqEqual
  <2>4. flat = both
    BY <1>6 DEF both
  <2> QED
    BY <2>1, <2>3, <2>4 DEF cut
<1> QED
  BY <1>9, <1>10 DEF a, pre, seqs, flat

\* The pieces before the last three bytes kept are those of all the bytes.
LEMMA PiecesKept ==
  ASSUME NEW all \in Seq(Bytes), NEW l \in Nat, l < Len(all), NEW k \in Nat, k + 3 <= l
  PROVE  SubSeq(Pieces(SubSeq(all, 1, l)), 1, k) = SubSeq(Pieces(all), 1, k)
<1> DEFINE kept == SubSeq(all, 1, l)
           U == Seq(Tokens)
           a == Pieces(kept)
           b == Pieces(all)
<1>1. kept \in Seq(Bytes) /\ Len(kept) = l /\ \A i \in 1..l : kept[i] = all[i]
  OBVIOUS
<1>2. Len(all) \in Nat /\ DOMAIN all = 1..Len(all) /\ DOMAIN kept = 1..l
  BY <1>1
<1> HIDE DEF kept
<1>3. ASSUME NEW i \in 1..k PROVE a[i] = b[i]
  <2>1. i \in 1..l /\ i + 3 <= l /\ i \in 1..Len(all)
    BY <1>2
  <2>2. kept[i] = all[i]
    BY <1>1, <2>1
  <2>3. ASSUME NEW j \in (i - 3)..i PROVE CharAt(kept, j) <=> CharAt(all, j)
    <3>1. j + 3 <= l /\ j + 3 <= Len(all)
      BY <1>2, <2>1
    <3>2. j >= 1 => \A r \in 1..4 : kept[j + r - 1] = all[j + r - 1]
      <4>1. j >= 1 => \A r \in 1..4 : j + r - 1 \in 1..l
        BY <2>1, <3>1
      <4> QED
        BY <1>1, <4>1
    <3> QED
      BY <1>1, <3>1, <3>2 DEF CharAt
  <2>4. WellPlaced(kept, i) <=> WellPlaced(all, i)
    BY <2>2, <2>3 DEF WellPlaced
  <2>5. i \in DOMAIN all /\ i \in DOMAIN kept
    BY <1>2, <2>1
  <2> QED
    BY <2>2, <2>4, <2>5 DEF Pieces
<1>4. a \in Seq(U) /\ b \in Seq(U) /\ Len(a) = l /\ Len(b) = Len(all)
  BY <1>1, PiecesAre
<1> HIDE DEF U, a, b
<1> DEFINE x == SubSeq(a, 1, k)
           y == SubSeq(b, 1, k)
<1>5. x \in Seq(U) /\ Len(x) = k /\ \A i \in 1..k : x[i] = a[i]
  BY <1>4
<1>6. y \in Seq(U) /\ Len(y) = k /\ \A i \in 1..k : y[i] = b[i]
  BY <1>2, <1>4
<1> HIDE DEF x, y
<1>7. x = y
  BY <1>3, <1>5, <1>6, SeqEqual
<1> QED
  BY <1>7 DEF x, y, a, b, kept

\* What is shown uncut is the rendering, with or without its last line ending.
LEMMA RenderedText ==
  ASSUME NEW bytes \in Seq(Bytes)
  PROVE  \E p : Text(bytes, p, WithoutFinalEol(Rendered(bytes)))
<1>1. PICK p : Rendering(bytes, p)
  BY RenderingIs
<1>2. Rendered(bytes) \in Seq(Tokens)
  BY <1>1 DEF Rendering
<1> QED
  BY <1>1, <1>2, WithoutFinalEolIs DEF Text

\* The marker ends with what is no token of the rendering.
LEMMA MarkerIs ==
  /\ TruncatedMarker \in Seq(Marks) /\ Len(TruncatedMarker) = 3
  /\ Last(TruncatedMarker) = TruncatedMarker[3] /\ Last(TruncatedMarker) \notin Tokens
<1>1. Len(TruncatedMarker) = 3 /\ TruncatedMarker[3] = "]" /\ TruncatedMarker \in Seq(Marks)
  BY DEF TruncatedMarker, Marks
<1>2. Last(TruncatedMarker) = TruncatedMarker[3]
  BY <1>1 DEF Last
<1>3. "]" \notin Tokens
  BY DEF Tokens, Digits, Bytes, Ascii, Printable, Controls, LF, CR, Esc, Quote, Backslash,
         Continuation, Char
<1> QED
  BY <1>1, <1>2, <1>3

\* A text that is shown whole.
LEMMA ShownWhole ==
  ASSUME NEW stderr \in Seq(Bytes), Len(stderr) <= JjDiagnosticLimit,
         Len(WithoutFinalEol(Rendered(stderr))) <= JjDiagnosticLimit
  PROVE  CutBetweenPieces(stderr)
<1> DEFINE text == WithoutFinalEol(Rendered(stderr))
<1>1. ~(Len(stderr) > JjDiagnosticLimit) /\ JjDiagnosticLimit \in Nat /\ Len(stderr) \in Nat
  BY JjDiagnosticLimitAssumption
<1>2. DiagnosticsOf(stderr) = text
  BY <1>1 DEF DiagnosticsOf, Diagnostics
<1>3. PICK p : Text(stderr, p, text)
  BY RenderedText
<1>4. text \in Seq(Tokens) /\ Len(text) <= JjDiagnosticLimit
  BY <1>3 DEF Text
<1> HIDE DEF text
<1>5. ~(text # <<>> /\ Last(text) = Last(TruncatedMarker))
  <2> SUFFICES ASSUME text # <<>> PROVE Last(text) # Last(TruncatedMarker)
    OBVIOUS
  <2>1. Last(text) \in Tokens
    BY <1>4 DEF Last
  <2> QED
    BY <2>1, MarkerIs
<1> QED
  BY <1>2, <1>4, <1>5 DEF CutBetweenPieces, text

\* What is shown of one that is cut.
LEMMA ShownCut ==
  ASSUME NEW bytes \in Seq(Bytes), NEW truncated \in BOOLEAN,
         truncated \/ Len(WithoutFinalEol(Rendered(bytes))) > JjDiagnosticLimit,
         truncated => Len(bytes) = JjDiagnosticLimit
  PROVE  \E k \in 0..Len(bytes) :
           LET part  == FlattenSeq(SubSeq(Pieces(bytes), 1, k))
               shown == Diagnostics(bytes, truncated)
           IN /\ shown = part \o TruncatedMarker /\ part \in Seq(Tokens)
              /\ Len(part) <= JjDiagnosticLimit - 3
              /\ Len(part) >= JjDiagnosticLimit - 8
              /\ k <= Len(part)
              /\ ~truncated => Len(Rendered(bytes)) > JjDiagnosticLimit
<1> DEFINE text == WithoutFinalEol(Rendered(bytes))
           flat == Rendered(bytes)
           room == JjDiagnosticLimit - Len(TruncatedMarker)
           most == IF Len(text) < room THEN Len(text) ELSE room
           cut == EscapeBoundary(text, CharBoundary(text, most))
           L == JjDiagnosticLimit
<1>1. L \in Nat /\ L > 3 /\ Len(TruncatedMarker) = 3 /\ room = L - 3
  BY JjDiagnosticLimitAssumption, MarkerIs
<1>2. PICK p : Text(bytes, p, text)
  BY RenderedText
<1>3. /\ Rendering(bytes, p) /\ text \in Seq(Tokens) /\ flat \in Seq(Tokens) /\ Len(text) \in Nat
      /\ \A j \in 1..Len(text) : text[j] = flat[j]
  BY <1>2 DEF Text, Rendering
<1>4. Len(flat) \in Nat /\ Len(text) \in (Len(flat) - 2)..Len(flat)
  <2>1. Len(flat) \in Nat
    BY <1>3
  <2> QED
    BY <1>2, <2>1 DEF Text
<1>5. Diagnostics(bytes, truncated) = SubSeq(text, 1, cut) \o TruncatedMarker
  <2>1. ~(~truncated /\ Len(text) <= L)
    BY <1>1, <1>3
  <2> QED
    BY <2>1 DEF Diagnostics
<1> HIDE DEF text, flat
<1>6. most = L - 3
  <2>1. truncated => Len(flat) >= L
    <3> SUFFICES ASSUME truncated PROVE Len(flat) >= L
      OBVIOUS
    <3>1. Len(bytes) = L /\ L \in 0..L
      BY <1>1
    <3>2. p[Len(bytes)] >= Len(bytes)
      BY <1>1, <1>3, <3>1, NoShorter
    <3>3. p[Len(bytes)] = Len(flat)
      BY <1>3 DEF Rendering, flat
    <3> QED
      BY <3>1, <3>2, <3>3
  <2>2. ~truncated => Len(text) > L
    BY DEF text
  <2>3. ~(Len(text) < room)
    BY <1>1, <1>3, <1>4, <2>1, <2>2
  <2> QED
    BY <1>1, <2>3
<1>7. most \in 0..Len(text)
  BY <1>1, <1>3
<1> HIDE DEF most, room
<1>8. cut \in 0..most /\ cut >= most - 5 /\ Boundary(bytes, p, cut)
  BY <1>2, <1>7, CutIs
<1> HIDE DEF cut
<1>9. PICK k \in 0..Len(bytes) : p[k] = cut
  BY <1>8 DEF Boundary
<1> DEFINE part == FlattenSeq(SubSeq(Pieces(bytes), 1, k))
<1>10. cut \in 0..Len(text) /\ cut \in Nat
  BY <1>3, <1>6, <1>7, <1>8
<1>11. part = SubSeq(text, 1, cut)
  <2>1. part = SubSeq(flat, 1, cut) /\ cut \in 0..Len(flat)
    BY <1>3, <1>9, PiecesBegin DEF flat
  <2> HIDE DEF part
  <2> DEFINE x == SubSeq(flat, 1, cut)
             y == SubSeq(text, 1, cut)
  <2>2. x \in Seq(Tokens) /\ Len(x) = cut /\ \A j \in 1..cut : x[j] = flat[j]
    BY <1>3, <2>1
  <2>3. y \in Seq(Tokens) /\ Len(y) = cut /\ \A j \in 1..cut : y[j] = text[j]
    BY <1>3, <1>10
  <2>4. \A j \in 1..cut : j \in 1..Len(text)
    BY <1>3, <1>10
  <2> HIDE DEF x, y
  <2>5. x = y
    BY <1>3, <2>2, <2>3, <2>4, SeqEqual
  <2> QED
    BY <2>1, <2>5 DEF x, y
<1>12. SubSeq(text, 1, cut) \in Seq(Tokens) /\ Len(SubSeq(text, 1, cut)) = cut
  BY <1>3, <1>10
<1>13. k <= cut
  <2>1. p[k] >= k
    BY <1>3, NoShorter
  <2> QED
    BY <1>9, <2>1
<1>14. ~truncated => Len(flat) > L
  <2>1. ~truncated => Len(text) > L
    BY DEF text
  <2> QED
    BY <1>1, <1>3, <1>4, <2>1
<1> HIDE DEF part
<1>15. part \in Seq(Tokens) /\ Len(part) = cut /\ Diagnostics(bytes, truncated) = part \o TruncatedMarker
  BY <1>5, <1>11, <1>12
<1>16. cut <= L - 3 /\ cut >= L - 8
  BY <1>1, <1>6, <1>8, <1>10
<1> QED
  BY <1>13, <1>14, <1>15, <1>16 DEF part, flat

\* Whatever the limit is and wherever it falls, the cut is between two pieces.
LEMMA CutWhole ==
  ASSUME NEW stderr \in Seq(Bytes)
  PROVE  CutBetweenPieces(stderr)
<1> DEFINE L == JjDiagnosticLimit
           truncated == Len(stderr) > L
           kept == IF truncated THEN SubSeq(stderr, 1, L) ELSE stderr
           shown == DiagnosticsOf(stderr)
           whole == Rendered(stderr)
           part == SubSeq(shown, 1, Len(shown) - Len(TruncatedMarker))
<1>1. L \in Nat /\ L > 3 /\ Len(TruncatedMarker) = 3 /\ Len(stderr) \in Nat
  BY JjDiagnosticLimitAssumption, MarkerIs
<1>2. CASE ~truncated /\ Len(WithoutFinalEol(Rendered(stderr))) <= L
  BY <1>1, <1>2, ShownWhole
<1>3. CASE ~(~truncated /\ Len(WithoutFinalEol(Rendered(stderr))) <= L)
  <2>1. kept \in Seq(Bytes) /\ (truncated => Len(kept) = L) /\ truncated \in BOOLEAN
    BY <1>1
  <2>2. ~truncated => kept = stderr
    OBVIOUS
  <2>3. Len(WithoutFinalEol(Rendered(stderr))) \in Nat
    BY RenderedText DEF Text
  <2>4. truncated \/ Len(WithoutFinalEol(Rendered(kept))) > L
    BY <1>1, <1>3, <2>2, <2>3
  <2>5. shown = Diagnostics(kept, truncated)
    BY DEF DiagnosticsOf
  <2> HIDE DEF kept, truncated
  <2>6. PICK k \in 0..Len(kept) :
           LET first == FlattenSeq(SubSeq(Pieces(kept), 1, k))
           IN /\ shown = first \o TruncatedMarker /\ first \in Seq(Tokens)
              /\ Len(first) <= L - 3
              /\ Len(first) >= L - 8
              /\ k <= Len(first)
              /\ ~truncated => Len(Rendered(kept)) > L
    BY <2>1, <2>4, <2>5, ShownCut
  <2> DEFINE first == FlattenSeq(SubSeq(Pieces(kept), 1, k))
  <2>7. /\ shown = first \o TruncatedMarker /\ first \in Seq(Tokens) /\ Len(first) \in Nat
        /\ Len(first) <= L - 3 /\ Len(first) >= L - 8 /\ k <= Len(first)
        /\ ~truncated => Len(Rendered(kept)) > L
    <3>1. first \in Seq(Tokens)
      BY <2>6
    <3> QED
      BY <2>6, <3>1
  <2>8. k \in 0..Len(stderr) /\ first = FlattenSeq(SubSeq(Pieces(stderr), 1, k))
    <3>1. k \in Nat
      BY <2>1
    <3>2. CASE truncated
      <4>1. L < Len(stderr) /\ kept = SubSeq(stderr, 1, L)
        BY <3>2 DEF truncated, kept
      <4>2. k + 3 <= L
        BY <1>1, <2>7, <3>1
      <4>3. SubSeq(Pieces(kept), 1, k) = SubSeq(Pieces(stderr), 1, k)
        BY <1>1, <3>1, <4>1, <4>2, PiecesKept
      <4>4. first = FlattenSeq(SubSeq(Pieces(stderr), 1, k))
        BY <4>3, Zenon DEF first
      <4>5. k \in 0..Len(stderr)
        BY <1>1, <3>1, <4>1, <4>2
      <4> HIDE DEF first
      <4> QED
        BY <4>4, <4>5
    <3>3. CASE ~truncated
      BY <2>2, <3>3
    <3> QED
      BY <3>2, <3>3
  <2> HIDE DEF first, shown
  <2>9. /\ shown # <<>> /\ Last(shown) = Last(TruncatedMarker) /\ part = first
        /\ Len(shown) = Len(first) + 3
    <3> DEFINE T == Tokens \cup Marks
               l == Len(first)
    <3>1. first \in Seq(T) /\ TruncatedMarker \in Seq(T) /\ l \in Nat
      BY <2>7, MarkerIs
    <3> HIDE DEF T
    <3>2. /\ shown \in Seq(T) /\ Len(shown) = l + 3
          /\ \A j \in 1..(l + 3) : shown[j] = IF j <= l THEN first[j] ELSE TruncatedMarker[j - l]
      <4> DEFINE m == TruncatedMarker
                 both == first \o m
      <4>1. m \in Seq(T) /\ Len(m) = 3
        BY <3>1, MarkerIs
      <4> HIDE DEF m
      <4>2. /\ both \in Seq(T) /\ Len(both) = Len(first) + Len(m)
            /\ \A j \in 1..(Len(first) + Len(m)) :
                 both[j] = IF j <= Len(first) THEN first[j] ELSE m[j - Len(first)]
        BY <3>1, <4>1, ConcatProperties
      <4>3. shown = both
        BY <2>7 DEF m
      <4> HIDE DEF both
      <4> QED
        BY <4>1, <4>2, <4>3 DEF m
    <3>3. shown # <<>> /\ Last(shown) = Last(TruncatedMarker)
      <4>1. l + 3 \in 1..(l + 3) /\ ~(l + 3 <= l) /\ (l + 3) - l = 3
        BY <3>1
      <4>2. shown[l + 3] = TruncatedMarker[3]
        BY <3>2, <4>1
      <4> QED
        BY <3>1, <3>2, <4>2, MarkerIs DEF Last
    <3>4. part = first
      <4>1. part = SubSeq(shown, 1, l)
        <5>1. Len(shown) - Len(TruncatedMarker) = l
          BY <3>1, <3>2, MarkerIs
        <5> QED
          BY <5>1
      <4> DEFINE y == SubSeq(shown, 1, l)
      <4>2. y \in Seq(T) /\ Len(y) = l /\ \A j \in 1..l : y[j] = shown[j]
        BY <3>1, <3>2
      <4>3. \A j \in 1..l : shown[j] = first[j]
        BY <3>1, <3>2
      <4> HIDE DEF y
      <4>4. y = first
        BY <3>1, <4>2, <4>3, SeqEqual
      <4> QED
        BY <4>1, <4>4 DEF y
    <3> HIDE DEF part
    <3> QED
      BY <3>2, <3>3, <3>4
  <2>10. Len(whole) > L
    <3>1. CASE truncated
      <4>1. PICK p : Rendering(stderr, p)
        BY RenderingIs
      <4>2. p[Len(stderr)] >= Len(stderr) /\ p[Len(stderr)] = Len(whole) /\ p[Len(stderr)] \in Nat
        <5>1. Len(stderr) \in 0..Len(stderr)
          BY <1>1
        <5> QED
          BY <4>1, <5>1, NoShorter DEF Rendering
      <4>3. Len(stderr) > L
        BY <3>1 DEF truncated
      <4> QED
        BY <1>1, <4>2, <4>3
    <3>2. CASE ~truncated
      BY <2>2, <2>7, <3>2
    <3> QED
      BY <3>1, <3>2
  <2>11. Len(shown) <= L
    BY <1>1, <2>7, <2>9
  <2>12. Len(part) >= L - Len(TruncatedMarker) - 5
    BY <1>1, <2>7, <2>9
  <2>13. \E h \in 0..Len(stderr) : part = FlattenSeq(SubSeq(Pieces(stderr), 1, h))
    BY <2>8, <2>9
  <2> QED
    BY <2>9, <2>10, <2>11, <2>12, <2>13, Zenon DEF CutBetweenPieces, shown
<1> QED
  BY <1>2, <1>3

\* prepare.rs:601: the diagnostics are cut between two characters or escapes, for any
\* bytes and any limit that has room for the marker.
THEOREM DiagnosticsStayWhole == Spec => []DiagnosticsAreCutWhole
<1>1. PathInv => DiagnosticsAreCutWhole
  BY CutWhole DEF PathInv, DiagnosticsAreCutWhole
<1> QED
  BY <1>1, PathInvariance, PTL

-------------------------------------------------------------------------------
(***************************************************************************)
(* The manifest: strings.                                                  *)
(***************************************************************************)
EscapeChars == {Quote, Backslash, "n", "r", "u", "0", "1", "b"}

EscapeOf(c) ==
  CASE c = Quote     -> <<Backslash, Quote>>
    [] c = Backslash -> <<Backslash, Backslash>>
    [] c = LF        -> <<Backslash, "n">>
    [] c = CR        -> <<Backslash, "r">>
    [] OTHER         -> <<Backslash, "u", "0", "0", "1", "b">>

Escaped == {Quote, Backslash, LF, CR, Esc}

\* The escapes begin alike and differ in their second character.
LEMMA EscapesAre ==
  /\ Escapes = {EscapeOf(c) : c \in Escaped}
  /\ \A c \in Escaped :
       /\ EscapeOf(c) \in Seq(EscapeChars) /\ Len(EscapeOf(c)) \in {2, 6}
       /\ EscapeOf(c)[1] = Backslash /\ Unescaped(EscapeOf(c)) = c /\ JsonEscape(c) = EscapeOf(c)
  /\ \A c, d \in Escaped : EscapeOf(c)[2] = EscapeOf(d)[2] => c = d
<1> DEFINE q == <<Backslash, Quote>>
           b == <<Backslash, Backslash>>
           n == <<Backslash, "n">>
           r == <<Backslash, "r">>
           u == <<Backslash, "u", "0", "0", "1", "b">>
<1>1. /\ Quote # Backslash /\ Quote # LF /\ Quote # Esc /\ Backslash # LF /\ Backslash # Esc /\ LF # Esc
      /\ CR # Quote /\ CR # Backslash /\ CR # LF /\ CR # Esc
      /\ Quote # "n" /\ Quote # "u" /\ Backslash # "n" /\ Backslash # "u"
      /\ Quote # "r" /\ Backslash # "r"
  BY DEF Quote, Backslash, LF, CR, Esc
<1>2. /\ EscapeOf(Quote) = q /\ EscapeOf(Backslash) = b /\ EscapeOf(LF) = n /\ EscapeOf(CR) = r
      /\ EscapeOf(Esc) = u
      /\ JsonEscape(Quote) = q /\ JsonEscape(Backslash) = b /\ JsonEscape(LF) = n
      /\ JsonEscape(CR) = r /\ JsonEscape(Esc) = u
  <2> HIDE DEF q, b, n, r, u
  <2> QED
    BY <1>1 DEF EscapeOf, JsonEscape, q, b, n, r, u
<1>3. q \in Seq(EscapeChars) /\ Len(q) = 2 /\ q[1] = Backslash /\ q[2] = Quote
  BY DEF EscapeChars
<1>4. b \in Seq(EscapeChars) /\ Len(b) = 2 /\ b[1] = Backslash /\ b[2] = Backslash
  BY DEF EscapeChars
<1>5. n \in Seq(EscapeChars) /\ Len(n) = 2 /\ n[1] = Backslash /\ n[2] = "n"
  BY DEF EscapeChars
<1>6. r \in Seq(EscapeChars) /\ Len(r) = 2 /\ r[1] = Backslash /\ r[2] = "r"
  BY DEF EscapeChars
<1>7. u \in Seq(EscapeChars) /\ Len(u) = 6 /\ u[1] = Backslash /\ u[2] = "u"
  BY DEF EscapeChars
<1>8. Escapes = {q, b, n, r, u}
  BY <1>2 DEF Escapes
<1>9. /\ Unescaped(q) = Quote /\ Unescaped(b) = Backslash /\ Unescaped(n) = LF
      /\ Unescaped(r) = CR /\ Unescaped(u) = Esc
  <2> HIDE DEF q, b, n, r, u
  <2>1. /\ q # b /\ q # n /\ q # r /\ q # u /\ b # n /\ b # r /\ b # u
        /\ n # r /\ n # u /\ r # u
    BY <1>1, <1>3, <1>4, <1>5, <1>6, <1>7
  <2> QED
    BY <2>1 DEF Unescaped, q, b, n, r
<1> HIDE DEF q, b, n, r, u
<1>10. \A c \in Escaped : c = Quote \/ c = Backslash \/ c = LF \/ c = CR \/ c = Esc
  BY DEF Escaped
<1>11. Escapes = {EscapeOf(c) : c \in Escaped}
  <2>1. Quote \in Escaped /\ Backslash \in Escaped /\ LF \in Escaped /\ CR \in Escaped /\ Esc \in Escaped
    BY DEF Escaped
  <2> QED
    BY <1>2, <1>8, <1>10, <2>1
<1>12. ASSUME NEW c \in Escaped
       PROVE  /\ EscapeOf(c) \in Seq(EscapeChars) /\ Len(EscapeOf(c)) \in {2, 6}
              /\ EscapeOf(c)[1] = Backslash /\ Unescaped(EscapeOf(c)) = c /\ JsonEscape(c) = EscapeOf(c)
  BY <1>2, <1>3, <1>4, <1>5, <1>6, <1>7, <1>9, <1>10
<1>13. ASSUME NEW c \in Escaped, NEW d \in Escaped, EscapeOf(c)[2] = EscapeOf(d)[2]
       PROVE  c = d
  <2>1. /\ EscapeOf(Quote)[2] = Quote /\ EscapeOf(Backslash)[2] = Backslash
        /\ EscapeOf(LF)[2] = "n" /\ EscapeOf(CR)[2] = "r" /\ EscapeOf(Esc)[2] = "u"
        /\ "n" # "u" /\ "n" # "r" /\ "r" # "u"
    BY <1>2, <1>3, <1>4, <1>5, <1>6, <1>7
  <2> QED
    BY <1>1, <1>10, <1>13, <2>1
<1> QED
  BY <1>11, <1>12, <1>13

\* What is not escaped is copied.
LEMMA JsonEscapeIs ==
  ASSUME NEW S, NEW c \in S
  PROVE  /\ JsonEscape(c) \in Seq(S \cup EscapeChars)
         /\ c \notin Escaped => JsonEscape(c) = <<c>>
<1>1. CASE c \in Escaped
  <2> DEFINE e == EscapeOf(c)
  <2>1. e \in Seq(EscapeChars) /\ JsonEscape(c) = e
    BY <1>1, EscapesAre
  <2> HIDE DEF e
  <2>2. EscapeChars \subseteq S \cup EscapeChars
    OBVIOUS
  <2> QED
    BY <1>1, <2>1, <2>2
<1>2. CASE c \notin Escaped
  <2>1. JsonEscape(c) = <<c>>
    BY <1>2 DEF JsonEscape, Escaped
  <2> QED
    BY <2>1
<1> QED
  BY <1>1, <1>2

\* The escapes that stand at a position of a text.
EscapesAt(json, j) ==
  {e \in Escapes : j + Len(e) - 1 <= Len(json) /\ SubSeq(json, j, j + Len(e) - 1) = e}

Then(text, rest) == IF rest = NoField THEN rest ELSE [rest EXCEPT !.text = text \o @]

ReadAt(json, read, j) ==
  CASE json[j] = Quote      -> [text |-> <<>>, next |-> j + 1]
    [] json[j] \in Controls -> NoField
    [] json[j] = Backslash  ->
         IF EscapesAt(json, j) = {} THEN NoField
         ELSE LET e == CHOOSE e \in EscapesAt(json, j) : TRUE
              IN Then(<<Unescaped(e)>>, read[j + Len(e)])
    [] OTHER                -> Then(<<json[j]>>, read[j + 1])

\* Whether a function has what is read from each position on.
Reads(read, json) ==
  /\ read[Len(json) + 1] = NoField
  /\ \A j \in 1..Len(json) : read[j] = ReadAt(json, read, j)
  /\ \A i \in 0..Len(json) : StringAt(json, i) = read[i + 1]

\* The reader of strings is a recursion from the end of what it reads.
LEMMA StringAtIs ==
  ASSUME NEW S, NEW json \in Seq(S)
  PROVE  \E read : Reads(read, json)
<1> DEFINE n == Len(json)
           T == [text : Seq(S \cup Escaped \cup {"rejected"}), next : Nat]
           F == [1..(n + 1) -> T]
           step == [i \in 1..n |-> [f \in F |-> ReadAt(json, f, i)]]
           from(f) == [i \in 1..(n + 1) |-> IF i > n THEN NoField ELSE ReadAt(json, f, i)]
<1>1. n \in Nat /\ NoField \in T
  BY DEF NoField, Rejected
<1>2. ASSUME NEW c \in S \cup Escaped, NEW rest \in T PROVE Then(<<c>>, rest) \in T
  <2> DEFINE U == S \cup Escaped \cup {"rejected"}
  <2>1. <<c>> \in Seq(U) /\ rest.text \in Seq(U)
    OBVIOUS
  <2>2. <<c>> \o rest.text \in Seq(U)
    <3> HIDE DEF U
    <3> QED
      BY <2>1, ConcatProperties
  <2> DEFINE t == <<c>> \o rest.text
  <2> HIDE DEF U, t
  <2>3. [rest EXCEPT !.text = t] \in T
    BY <2>2 DEF t, U
  <2> QED
    BY <2>3 DEF Then, t
<1>3. ASSUME NEW j \in 1..n, NEW e \in EscapesAt(json, j)
      PROVE  j + Len(e) \in (j + 1)..(n + 1) /\ Unescaped(e) \in Escaped
  <2>1. PICK c \in Escaped : e = EscapeOf(c)
    BY EscapesAre DEF EscapesAt
  <2>2. Len(e) \in {2, 6} /\ Unescaped(e) = c
    BY <2>1, EscapesAre
  <2>3. j + Len(e) - 1 <= n
    BY DEF EscapesAt
  <2> DEFINE l == Len(e)
  <2> HIDE DEF n, l
  <2>4. j \in 1..n /\ l \in {2, 6} /\ j + l - 1 <= n
    BY <2>2, <2>3 DEF l
  <2>5. j + l \in (j + 1)..(n + 1)
    BY <1>1, <2>4
  <2> QED
    BY <2>2, <2>5 DEF l
<1>4. ASSUME NEW i \in 1..n, NEW f \in F
      PROVE  ReadAt(json, f, i) \in T
  <2> DEFINE e == CHOOSE e \in EscapesAt(json, i) : TRUE
  <2>1. f[i + 1] \in T /\ json[i] \in S
    OBVIOUS
  <2>2. Then(<<json[i]>>, f[i + 1]) \in T
    <3> HIDE DEF T
    <3> QED
      BY <1>2, <2>1
  <2>3. EscapesAt(json, i) # {} => Then(<<Unescaped(e)>>, f[i + Len(e)]) \in T
    <3> SUFFICES ASSUME EscapesAt(json, i) # {} PROVE Then(<<Unescaped(e)>>, f[i + Len(e)]) \in T
      OBVIOUS
    <3>1. e \in EscapesAt(json, i)
      OBVIOUS
    <3> HIDE DEF T, e
    <3>2. i + Len(e) \in 1..(n + 1) /\ Unescaped(e) \in Escaped
      BY <1>1, <1>3, <3>1
    <3>3. f[i + Len(e)] \in T
      BY <3>2
    <3> QED
      BY <1>2, <3>2, <3>3
  <2>4. [text |-> <<>>, next |-> i + 1] \in T
    OBVIOUS
  <2> HIDE DEF T, e, n
  <2> QED
    BY <1>1, <2>2, <2>3, <2>4 DEF ReadAt, e
<1>5. step \in [1..n -> [F -> T]]
  <2> HIDE DEF F, T
  <2> QED
    BY <1>4
<1>6. Foresees(step, n, T)
  <2> SUFFICES ASSUME NEW i \in 1..n, NEW f \in F, NEW g \in F,
                      \A j \in (i + 1)..(n + 1) : f[j] = g[j]
               PROVE  step[i][f] = step[i][g]
    BY DEF Foresees
  <2>1. step[i][f] = ReadAt(json, f, i) /\ step[i][g] = ReadAt(json, g, i)
    OBVIOUS
  <2>2. f[i + 1] = g[i + 1]
    BY <1>1
  <2>3. \A e \in EscapesAt(json, i) : f[i + Len(e)] = g[i + Len(e)]
    BY <1>3
  <2> HIDE DEF n, T, F, step
  <2>4. ReadAt(json, f, i) = ReadAt(json, g, i)
    <3>1. CASE EscapesAt(json, i) = {}
      BY <2>2, <3>1 DEF ReadAt
    <3>2. CASE EscapesAt(json, i) # {}
      <4> DEFINE e == CHOOSE e \in EscapesAt(json, i) : TRUE
      <4>1. f[i + Len(e)] = g[i + Len(e)]
        BY <2>3, <3>2
      <4> QED
        BY <2>2, <3>2, <4>1 DEF ReadAt
    <3> QED
      BY <3>1, <3>2
  <2> QED
    BY <2>1, <2>4
<1>7. PICK g : Descends(g, n, T, NoField, step)
  <2> HIDE DEF n, T, step
  <2>1. step \in [1..n -> [[1..(n + 1) -> T] -> T]]
    BY <1>5
  <2> QED
    BY <1>1, <1>6, <2>1, Backwards
<1>8. g \in F /\ g[n + 1] = NoField /\ \A i \in 1..n : g[i] = ReadAt(json, g, i)
  <2>1. g \in F /\ g[n + 1] = NoField /\ \A i \in 1..n : g[i] = step[i][g]
    <3> HIDE DEF n, T, step
    <3> QED
      BY <1>7 DEF Descends
  <2> HIDE DEF T
  <2> QED
    BY <2>1
<1>9. g = from(g)
  <2> HIDE DEF T
  <2>1. \A i \in 1..(n + 1) : g[i] = IF i > n THEN NoField ELSE ReadAt(json, g, i)
    BY <1>1, <1>8
  <2>2. g = [i \in 1..(n + 1) |-> g[i]]
    BY <1>8
  <2> QED
    BY <2>1, <2>2
<1> DEFINE read == CHOOSE f : f = from(f)
<1>10. read = from(read)
  BY <1>9
<1>11. \A i \in 0..n : StringAt(json, i) = read[i + 1]
  BY DEF StringAt, ReadAt, EscapesAt, Then
<1> HIDE DEF read
<1>12. read[n + 1] = NoField /\ \A i \in 1..n : read[i] = ReadAt(json, read, i)
  <2>1. n + 1 \in 1..(n + 1) /\ \A i \in 1..n : i \in 1..(n + 1) /\ ~(i > n)
    BY <1>1
  <2>2. from(read)[n + 1] = NoField /\ \A i \in 1..n : from(read)[i] = ReadAt(json, read, i)
    BY <1>1, <2>1
  <2> HIDE DEF from
  <2> QED
    BY <1>10, <2>2
<1> QED
  BY <1>11, <1>12 DEF Reads

\* What is written as a string is read as what it was, whatever it was.
LEMMA StringReadsBack ==
  ASSUME NEW S, NEW text \in Seq(S)
  PROVE  TextOf(JsonString(text)) = text
<1> DEFINE n == Len(text)
           words == [i \in DOMAIN text |-> JsonEscape(text[i])]
           T == S \cup EscapeChars
           flat == FlattenSeq(words)
           json == JsonString(text)
<1>1. n \in Nat /\ DOMAIN text = 1..n /\ \A i \in 1..n : text[i] \in S
  OBVIOUS
<1>2. \A i \in 1..n : words[i] = JsonEscape(text[i]) /\ words[i] \in Seq(T)
  BY <1>1, JsonEscapeIs
<1>3. words \in Seq(Seq(T)) /\ Len(words) = n
  <2>1. words \in [1..n -> Seq(T)]
    BY <1>1, <1>2
  <2> HIDE DEF words, T
  <2> QED
    BY <1>1, <2>1, IsASeq
<1>4. json = <<Quote>> \o flat \o <<Quote>>
  BY DEF JsonString
<1> HIDE DEF words, T, json
<1>5. flat \in Seq(T)
  BY <1>1, <1>3, FlattenType
<1>6. PICK p : Spread(p, n, words, flat)
  BY <1>3, FlattenSpread
<1> HIDE DEF flat, n
<1>7. /\ p \in [0..n -> Nat] /\ p[0] = 0 /\ Len(flat) = p[n]
      /\ \A k \in 1..n : p[k] = p[k - 1] + Len(words[k])
      /\ \A k \in 1..n : \A j \in 1..Len(words[k]) : flat[p[k - 1] + j] = words[k][j]
  BY <1>6 DEF Spread
<1>8. /\ json \in Seq(T) /\ Len(json) = p[n] + 2
      /\ json[1] = Quote /\ json[p[n] + 2] = Quote
      /\ \A m \in 1..p[n] : json[m + 1] = flat[m]
  <2> DEFINE a == <<Quote>> \o flat
             q == <<Quote>>
  <2>1. q \in Seq(T) /\ Len(q) = 1 /\ q[1] = Quote
    BY DEF T, EscapeChars
  <2> HIDE DEF q
  <2>2. a = q \o flat
    BY DEF q
  <2>3. p[n] \in Nat
    BY <1>1, <1>7
  <2>4. /\ a \in Seq(T) /\ Len(a) = p[n] + 1
        /\ \A i \in 1..(p[n] + 1) : a[i] = IF i <= 1 THEN q[i] ELSE flat[i - 1]
    <3>1. Len(q) + Len(flat) = p[n] + 1
      BY <1>7, <2>1, <2>3
    <3> QED
      BY <1>5, <2>1, <2>2, <3>1, ConcatProperties
  <2> HIDE DEF a
  <2>5. json = a \o q
    BY <1>4 DEF a, q
  <2>6. /\ json \in Seq(T) /\ Len(json) = p[n] + 2
        /\ \A i \in 1..(p[n] + 2) : json[i] = IF i <= p[n] + 1 THEN a[i] ELSE q[i - (p[n] + 1)]
    <3>1. Len(a) + Len(q) = p[n] + 2 /\ Len(a) = p[n] + 1
      BY <2>1, <2>3, <2>4
    <3>2. /\ json \in Seq(T) /\ Len(json) = Len(a) + Len(q)
          /\ \A i \in 1..(Len(a) + Len(q)) : json[i] = IF i <= Len(a) THEN a[i] ELSE q[i - Len(a)]
      BY <2>1, <2>4, <2>5, ConcatProperties
    <3> QED
      BY <3>1, <3>2
  <2>7. json[1] = Quote
    BY <2>1, <2>3, <2>4, <2>6
  <2>8. json[p[n] + 2] = Quote
    <3> DEFINE y == p[n]
               z == y + 2
    <3>1. y \in Nat
      BY <2>3
    <3> HIDE DEF y
    <3>2. z \in 1..z /\ z - (y + 1) = 1 /\ ~(z <= y + 1)
      BY <3>1
    <3>3. \A i \in 1..z : json[i] = IF i <= y + 1 THEN a[i] ELSE q[i - (y + 1)]
      BY <2>6 DEF y
    <3> HIDE DEF z
    <3>4. json[z] = q[1]
      BY <3>2, <3>3
    <3> QED
      BY <2>1, <3>4 DEF y, z
  <2>9. ASSUME NEW m \in 1..p[n] PROVE json[m + 1] = flat[m]
    <3>1. m + 1 \in 1..(p[n] + 1) /\ m + 1 \in 1..(p[n] + 2) /\ m + 1 <= p[n] + 1 /\ ~(m + 1 <= 1)
          /\ (m + 1) - 1 = m
      BY <2>3
    <3> QED
      BY <2>4, <2>6, <3>1
  <2> QED
    BY <2>6, <2>7, <2>8, <2>9
<1>9. PICK read : Reads(read, json)
  BY <1>8, StringAtIs
<1>10. \A k \in 1..n : p[k - 1] \in Nat /\ p[k] \in Nat /\ p[k] <= p[n] /\ Len(words[k]) \in Nat
  <2>1. ASSUME NEW k \in 1..n PROVE p[k - 1] \in Nat /\ p[k] \in Nat /\ Len(words[k]) \in Nat /\ p[k - 1] <= p[k]
    <3>1. k - 1 \in 0..n /\ k \in 0..n
      BY <1>1
    <3>2. words[k] \in Seq(T)
      BY <1>2
    <3>3. p[k] = p[k - 1] + Len(words[k])
      BY <1>7
    <3> QED
      BY <1>7, <3>1, <3>2, <3>3
  <2>2. ASSUME NEW k \in 1..n PROVE p[k] <= p[n]
    <3>1. k \in 0..n /\ n \in k..n
      BY <1>1
    <3> QED
      BY <1>1, <1>7, <2>1, <3>1, Ascending
  <2> QED
    BY <2>1, <2>2
<1> DEFINE end == p[n] + 3
           R(k) == read[p[n - k] + 2] = [text |-> SubSeq(text, n - k + 1, n), next |-> end]
           A == {k \in 0..n : R(k)}
<1>11. 0 \in A
  <2>1. n - 0 = n /\ 0 \in 0..n /\ p[n] \in Nat
    BY <1>1, <1>7
  <2>2. SubSeq(text, n + 1, n) = <<>>
    BY <1>1
  <2>3. p[n] + 2 \in 1..Len(json) /\ p[n] + 2 + 1 = end
    BY <1>8, <2>1
  <2>4. read[p[n] + 2] = ReadAt(json, read, p[n] + 2)
    BY <1>9, <2>3 DEF Reads
  <2>5. ReadAt(json, read, p[n] + 2) = [text |-> <<>>, next |-> p[n] + 2 + 1]
    BY <1>8 DEF ReadAt, Quote, Controls, LF, CR, Esc, Backslash
  <2>6. R(0)
    BY <2>1, <2>2, <2>3, <2>4, <2>5
  <2> HIDE DEF R
  <2> QED
    BY <2>1, <2>6
<1>12. ASSUME NEW k \in 0..(n - 1), k \in A
       PROVE  k + 1 \in A
  <2> DEFINE i == n - k
             j == p[i - 1] + 2
             c == text[i]
             w == words[i]
             rest == SubSeq(text, i + 1, n)
             field == [text |-> rest, next |-> end]
  <2>1. i \in 1..n /\ n - (k + 1) = i - 1 /\ k + 1 \in 0..n /\ i - 1 \in Nat
    BY <1>1
  <2>2. read[p[i] + 2] = field
    BY <1>12
  <2>3. w = JsonEscape(c) /\ c \in S /\ w \in Seq(T)
    BY <1>1, <1>2, <2>1
  <2>4. /\ p[i - 1] \in Nat /\ p[i] <= p[n] /\ p[i] = p[i - 1] + Len(w) /\ p[i] \in Nat /\ Len(w) \in Nat
        /\ \A h \in 1..Len(w) : flat[p[i - 1] + h] = w[h]
    BY <1>7, <1>10, <2>1
  <2>5. p[n] \in Nat
    BY <1>1, <1>7
  <2>6. \A h \in 1..Len(w) : json[p[i - 1] + h + 1] = w[h] /\ p[i - 1] + h + 1 \in 1..Len(json)
    <3> SUFFICES ASSUME NEW h \in 1..Len(w)
                 PROVE  json[p[i - 1] + h + 1] = w[h] /\ p[i - 1] + h + 1 \in 1..Len(json)
      OBVIOUS
    <3> HIDE DEF i, w
    <3>1. p[i - 1] + h \in 1..p[n] /\ p[i - 1] + h + 1 \in 1..Len(json)
      BY <1>8, <2>4, <2>5
    <3> QED
      BY <1>8, <2>4, <3>1
  <2>7. <<c>> \o rest = SubSeq(text, i, n)
    <3>1. i \in 1..Len(text)
      BY <2>1 DEF n
    <3> QED
      BY <3>1, SuffixGrows DEF n
  <2>8. Then(<<c>>, field) = [text |-> SubSeq(text, i, n), next |-> end]
    <3>1. end # 1
      BY <2>5
    <3>2. field # NoField
      BY <3>1 DEF NoField
    <3> QED
      BY <2>7, <3>2 DEF Then
  <2> HIDE DEF i, c, w, rest, field, end
  <2>9. j \in 1..Len(json) /\ read[j] = ReadAt(json, read, j)
    <3>1. j \in 1..Len(json)
      <4>1. p[i - 1] <= p[n]
        BY <2>4, <2>5
      <4> QED
        BY <1>8, <2>4, <2>5, <4>1
    <3> QED
      BY <1>9, <3>1 DEF Reads
  <2>10. ASSUME c \notin Escaped PROVE read[j] = Then(<<c>>, field)
    <3>1. w = <<c>>
      BY <2>3, <2>10, JsonEscapeIs
    <3>2. Len(w) = 1 /\ w[1] = c
      BY <3>1
    <3>3. json[j] = c /\ j + 1 = p[i] + 2
      <4>1. p[i - 1] + 1 + 1 = j /\ 1 \in 1..Len(w)
        BY <2>4, <3>2
      <4> QED
        BY <2>4, <2>6, <3>2, <4>1
    <3>4. ReadAt(json, read, j) = Then(<<c>>, read[j + 1])
      BY <2>10, <3>3 DEF ReadAt, Escaped, Controls
    <3> QED
      BY <2>2, <2>9, <3>3, <3>4
  <2>11. ASSUME c \in Escaped PROVE read[j] = Then(<<c>>, field)
    <3> DEFINE l == Len(w)
    <3>1. w \in Escapes /\ l \in {2, 6} /\ w[1] = Backslash /\ Unescaped(w) = c
      BY <2>3, <2>11, EscapesAre
    <3>2. l \in Nat /\ j + l - 1 <= Len(json) /\ j + l = p[i] + 2
      <4> HIDE DEF l
      <4>1. l = Len(w) /\ p[i] = p[i - 1] + l /\ p[i] <= p[n] /\ Len(json) = p[n] + 2 /\ l \in Nat
        BY <1>8, <2>4 DEF l
      <4> QED
        BY <2>4, <2>5, <4>1
    <3>3. ASSUME NEW h \in 1..l PROVE json[j + h - 1] = w[h]
      <4>1. p[i - 1] + h + 1 = j + h - 1
        BY <2>4
      <4> QED
        BY <2>6, <4>1
    <3> HIDE DEF j
    <3>4. SubSeq(json, j, j + l - 1) = w
      <4> DEFINE x == SubSeq(json, j, j + l - 1)
      <4>1. \A h \in j..(j + l - 1) : h \in 1..Len(json)
        BY <1>8, <2>9, <3>2
      <4>2. j \in Int /\ j + l - 1 \in Int /\ (j + l - 1) - j + 1 = l /\ j <= j + l - 1
        BY <2>9, <3>1, <3>2
      <4>3. \A h \in j..(j + l - 1) : json[h] \in T
        BY <1>8, <4>1
      <4>4. /\ x \in Seq(T) /\ Len(x) = l
            /\ \A h \in 1..l : x[h] = json[j + h - 1]
        BY <4>2, <4>3, SubSeqProperties
      <4> HIDE DEF x
      <4>5. x = w
        BY <2>3, <3>3, <4>4, SeqEqual
      <4> QED
        BY <4>5 DEF x
    <3>5. json[j] = Backslash /\ json[j + 1] = w[2]
      <4>1. l \in {2, 6} /\ j \in Nat
        BY <2>9, <3>1
      <4> HIDE DEF l
      <4>2. 1 \in 1..l /\ 2 \in 1..l /\ j + 1 - 1 = j /\ j + 2 - 1 = j + 1
        BY <4>1
      <4>3. json[j + 1 - 1] = w[1] /\ json[j + 2 - 1] = w[2]
        BY <3>3, <4>2
      <4> QED
        BY <3>1, <4>2, <4>3
    <3>6. ASSUME NEW e \in EscapesAt(json, j) PROVE e = w
      <4>1. PICK d \in Escaped : e = EscapeOf(d)
        BY EscapesAre DEF EscapesAt
      <4>2. Len(e) \in {2, 6} /\ j + Len(e) - 1 <= Len(json) /\ SubSeq(json, j, j + Len(e) - 1) = e
        BY <4>1, EscapesAre DEF EscapesAt
      <4> DEFINE m == Len(e)
      <4>3. SubSeq(json, j, j + m - 1)[2] = json[j + 1]
        <5> HIDE DEF m
        <5>1. m \in {2, 6} /\ j + m - 1 <= Len(json)
          BY <4>2 DEF m
        <5>2. j \in Int /\ j + m - 1 \in Int /\ 2 \in 1..((j + m - 1) - j + 1) /\ j + 2 - 1 = j + 1
          BY <2>9, <5>1
        <5>3. \A h \in j..(j + m - 1) : json[h] \in T
          <6>1. \A h \in j..(j + m - 1) : h \in 1..Len(json)
            BY <1>8, <2>9, <5>1, <5>2
          <6> QED
            BY <1>8, <6>1
        <5>4. SubSeq(json, j, j + m - 1)[2] = json[j + 2 - 1]
          BY <5>2, <5>3, SubSeqProperties
        <5> QED
          BY <5>2, <5>4
      <4>4. e[2] = w[2]
        BY <3>5, <4>2, <4>3
      <4>5. w = EscapeOf(c)
        BY <2>3, <2>11, EscapesAre
      <4> QED
        BY <2>11, <4>1, <4>4, <4>5, EscapesAre
    <3>7. w \in EscapesAt(json, j)
      BY <3>1, <3>2, <3>4 DEF EscapesAt
    <3>8. EscapesAt(json, j) = {w}
      BY <3>6, <3>7
    <3>9. ReadAt(json, read, j) = Then(<<c>>, read[j + Len(w)])
      <4>1. (CHOOSE e \in EscapesAt(json, j) : TRUE) = w /\ EscapesAt(json, j) # {}
        BY <3>8
      <4>2. json[j] = Backslash /\ Backslash # Quote /\ Backslash \notin Controls
        BY <3>5 DEF Backslash, Quote, Controls, LF, CR, Esc
      <4> QED
        BY <3>1, <4>1, <4>2 DEF ReadAt
    <3> QED
      BY <2>2, <2>9, <3>2, <3>9
  <2>12. read[j] = [text |-> SubSeq(text, i, n), next |-> end]
    BY <2>8, <2>10, <2>11
  <2>13. R(k + 1)
    <3>1. n - (k + 1) + 1 = i
      BY <1>1 DEF i
    <3> QED
      BY <2>1, <2>12, <3>1 DEF i
  <2> HIDE DEF R
  <2> QED
    BY <2>1, <2>13
<1>13. n \in A
  <2>1. \A k \in 0..(n - 1) : k \in A => k + 1 \in A
    BY <1>12
  <2> HIDE DEF A
  <2>2. 0..n \subseteq A
    BY <1>1, <1>11, <2>1, Induction
  <2> QED
    BY <1>1, <2>2
<1>14. StringAt(json, 1) = [text |-> text, next |-> Len(json) + 1]
  <2>1. n - n = 0 /\ 0 + 1 = 1 /\ p[n] \in Nat
    BY <1>1, <1>7
  <2>2. R(n)
    BY <1>13
  <2>3. SubSeq(text, 1, n) = text
    BY DEF n
  <2>4. read[2] = [text |-> text, next |-> p[n] + 3]
    <3>1. n - n + 1 = 1 /\ p[n - n] = 0 /\ p[n - n] + 2 = 2
      BY <1>7, <2>1
    <3>2. read[p[n - n] + 2] = [text |-> SubSeq(text, n - n + 1, n), next |-> end]
      BY <2>2
    <3> QED
      BY <2>3, <3>1, <3>2
  <2>5. 1 \in 0..Len(json) /\ Len(json) + 1 = p[n] + 3 /\ 1 + 1 = 2
    BY <1>8, <2>1
  <2>6. StringAt(json, 1) = read[1 + 1]
    BY <1>9, <2>5 DEF Reads
  <2> QED
    BY <2>4, <2>5, <2>6
<1>15. json # Null
  <2>1. Null[1] = "null"
    BY DEF Null
  <2> QED
    BY <1>8, <2>1 DEF Quote
<1> QED
  BY <1>8, <1>14, <1>15 DEF TextOf, json

-------------------------------------------------------------------------------
(***************************************************************************)
(* The manifest: hexadecimal digits.                                       *)
(***************************************************************************)
HexBytes == Bytes \cup {"/"}
LowerDigits == {"0", "1", "2", "3", "4", "5", "9", "a", "b", "c", "d", "e", "f"}

\* The byte that only an absolute path has.
LEMMA SlashIs == "/" \notin Bytes /\ HexDigits("/") = <<"2", "F">>
<1> USE DEF LF, CR, Esc, Quote, Backslash
<1>1. "/" \notin Bytes
  BY DEF Bytes, Ascii, Printable, Controls, Char, Continuation
<1>2. HexDigits("/") = <<"2", "F">>
  BY DEF HexDigits
<1> QED
  BY <1>1, <1>2

Lower(d) ==
  CASE d = "A" -> "a" [] d = "B" -> "b" [] d = "C" -> "c"
    [] d = "D" -> "d" [] d = "E" -> "e" [] d = "F" -> "f" [] OTHER -> d

\* The digits in lower case.
LEMMA LowerIs ==
  /\ \A d \in {"0", "1", "2", "3", "4", "5", "9"} : Lower(d) = d
  /\ Lower("A") = "a" /\ Lower("B") = "b" /\ Lower("C") = "c"
  /\ Lower("D") = "d" /\ Lower("E") = "e" /\ Lower("F") = "f"
BY DEF Lower

\* Both digits of a byte are.
LEMMA LowerHexIs ==
  ASSUME NEW b
  PROVE  LowerHexDigits(b) = <<Lower(HexDigits(b)[1]), Lower(HexDigits(b)[2])>>
<1>1. LowerHexDigits(b) = [i \in 1..2 |-> Lower(HexDigits(b)[i])]
  BY DEF LowerHexDigits, Lower
<1> DEFINE x == Lower(HexDigits(b)[1])
           y == Lower(HexDigits(b)[2])
<1>2. [i \in 1..2 |-> Lower(HexDigits(b)[i])] = [i \in 1..2 |-> IF i = 1 THEN x ELSE y]
  OBVIOUS
<1> HIDE DEF x, y
<1>3. [i \in 1..2 |-> IF i = 1 THEN x ELSE y] = <<x, y>>
  OBVIOUS
<1> QED
  BY <1>1, <1>2, <1>3 DEF x, y

\* The digits of every byte, in lower case.
LEMMA LowerHexDigitsAre ==
  /\ LowerHexDigits("A") = <<"4", "1">> /\ LowerHexDigits("9") = <<"3", "9">>
  /\ LowerHexDigits(".") = <<"2", "e">> /\ LowerHexDigits("/") = <<"2", "f">>
  /\ LowerHexDigits(Quote) = <<"2", "2">> /\ LowerHexDigits(Backslash) = <<"5", "c">>
  /\ LowerHexDigits("%") = <<"2", "5">> /\ LowerHexDigits(LF) = <<"0", "a">>
  /\ LowerHexDigits(CR) = <<"0", "d">> /\ LowerHexDigits(Esc) = <<"1", "b">>
  /\ LowerHexDigits("xF0") = <<"f", "0">> /\ LowerHexDigits("x9F") = <<"9", "f">>
  /\ LowerHexDigits("x9A") = <<"9", "a">> /\ LowerHexDigits("xA9") = <<"a", "9">>
<1>1. ASSUME NEW b, NEW d, NEW e, HexDigits(b) = <<d, e>>
      PROVE  LowerHexDigits(b) = <<Lower(d), Lower(e)>>
  BY <1>1, LowerHexIs
<1>2. LowerHexDigits("A") = <<"4", "1">> /\ LowerHexDigits("9") = <<"3", "9">>
  BY <1>1, HexDigitsAre, LowerIs
<1>3. LowerHexDigits(".") = <<"2", "e">> /\ LowerHexDigits("/") = <<"2", "f">>
  BY <1>1, HexDigitsAre, SlashIs, LowerIs
<1>4. LowerHexDigits(Quote) = <<"2", "2">> /\ LowerHexDigits(Backslash) = <<"5", "c">>
  BY <1>1, HexDigitsAre, LowerIs
<1>5. LowerHexDigits("%") = <<"2", "5">> /\ LowerHexDigits(LF) = <<"0", "a">>
  BY <1>1, HexDigitsAre, LowerIs
<1>6. LowerHexDigits(CR) = <<"0", "d">> /\ LowerHexDigits(Esc) = <<"1", "b">>
  BY <1>1, HexDigitsAre, LowerIs
<1>7. LowerHexDigits("xF0") = <<"f", "0">> /\ LowerHexDigits("x9F") = <<"9", "f">>
  BY <1>1, HexDigitsAre, LowerIs
<1>8. LowerHexDigits("x9A") = <<"9", "a">> /\ LowerHexDigits("xA9") = <<"a", "9">>
  BY <1>1, HexDigitsAre, LowerIs
<1> QED
  BY <1>2, <1>3, <1>4, <1>5, <1>6, <1>7, <1>8

\* They are two.
LEMMA LowerHexType ==
  ASSUME NEW b \in HexBytes
  PROVE  LowerHexDigits(b) \in Seq(LowerDigits) /\ Len(LowerHexDigits(b)) = 2
<1>1. \A x \in LowerDigits, y \in LowerDigits : <<x, y>> \in Seq(LowerDigits) /\ Len(<<x, y>>) = 2
  OBVIOUS
<1> DEFINE fine(h) == h \in Seq(LowerDigits) /\ Len(h) = 2
<1>2. fine(<<"4", "1">>) /\ fine(<<"3", "9">>) /\ fine(<<"2", "2">>) /\ fine(<<"2", "f">>)
  BY <1>1 DEF LowerDigits
<1>3. fine(<<"5", "c">>) /\ fine(<<"2", "5">>) /\ fine(<<"0", "a">>) /\ fine(<<"2", "e">>)
  BY <1>1 DEF LowerDigits
<1>4. fine(<<"1", "b">>) /\ fine(<<"0", "d">>) /\ fine(<<"f", "0">>) /\ fine(<<"9", "f">>)
      /\ fine(<<"9", "a">>) /\ fine(<<"a", "9">>)
  BY <1>1 DEF LowerDigits
<1> HIDE DEF fine
<1>5. \/ b = "/"
      \/ b \in {"A", "9", ".", Quote, Backslash, "%", LF, CR, Esc, "xF0", "x9F", "x9A", "xA9"}
  BY ByteCases DEF HexBytes
<1>6. fine(LowerHexDigits(b))
  BY <1>2, <1>3, <1>4, <1>5, LowerHexDigitsAre
<1> QED
  BY <1>6 DEF fine

\* The digits that are written, in lower case, are the digits of no other byte, in
\* either case.
LEMMA HexMeansOne ==
  ASSUME NEW b \in HexBytes, NEW c \in HexBytes,
         LowerHexDigits(b) \in {HexDigits(c), LowerHexDigits(c)}
  PROVE  b = c
<1> DEFINE all == {"/", "A", "9", ".", Quote, Backslash, "%", LF, CR, Esc,
                   "xF0", "x9F", "x9A", "xA9"}
<1>1. b \in all /\ c \in all
  BY ByteCases DEF HexBytes
<1>2. CASE LowerHexDigits(b) = LowerHexDigits(c)
  BY <1>1, <1>2, LowerHexDigitsAre
<1>3. CASE LowerHexDigits(b) = HexDigits(c)
  BY <1>1, <1>3, LowerHexDigitsAre, HexDigitsAre, SlashIs
<1> QED
  BY <1>2, <1>3

\* Pieces of two characters each.
LEMMA PairsAre ==
  ASSUME NEW S, NEW words \in Seq(Seq(S)), \A i \in 1..Len(words) : Len(words[i]) = 2
  PROVE  LET flat == FlattenSeq(words) IN
         /\ flat \in Seq(S) /\ Len(flat) = 2 * Len(words)
         /\ \A i \in 1..Len(words) : SubSeq(flat, 2 * i - 1, 2 * i) = words[i]
<1> DEFINE flat == FlattenSeq(words)
           n == Len(words)
<1>1. n \in Nat /\ words \in [1..n -> Seq(S)]
  OBVIOUS
<1>2. flat \in Seq(S)
  <2> HIDE DEF n
  <2> QED
    BY <1>1, FlattenType
<1>3. PICK p : Spread(p, n, words, flat)
  BY FlattenSpread
<1> HIDE DEF flat
<1>4. /\ p \in [0..n -> Nat] /\ p[0] = 0 /\ Len(flat) = p[n]
      /\ \A k \in 1..n : p[k] = p[k - 1] + 2
      /\ \A k \in 1..n : \A j \in 1..2 : flat[p[k - 1] + j] = words[k][j]
  BY <1>3 DEF Spread
<1> DEFINE A == {k \in 0..n : p[k] = 2 * k}
<1>5. 0 \in A
  BY <1>1, <1>4
<1>6. ASSUME NEW k \in 0..(n - 1), k \in A PROVE k + 1 \in A
  <2>1. k + 1 \in 1..n /\ k + 1 - 1 = k /\ k + 1 \in 0..n
    BY <1>1
  <2>2. p[k + 1] = p[k] + 2 /\ p[k] = 2 * k
    BY <1>4, <1>6, <2>1
  <2> QED
    BY <2>1, <2>2
<1>7. 0..n \subseteq A
  <2>1. \A k \in 0..(n - 1) : k \in A => k + 1 \in A
    BY <1>6
  <2> HIDE DEF A, n
  <2> QED
    BY <1>1, <1>5, <2>1, Induction
<1>8. Len(flat) = 2 * n
  BY <1>1, <1>4, <1>7
<1>9. ASSUME NEW i \in 1..n PROVE SubSeq(flat, 2 * i - 1, 2 * i) = words[i]
  <2> DEFINE x == SubSeq(flat, 2 * i - 1, 2 * i)
             w == words[i]
  <2>1. i \in Nat /\ i - 1 \in 0..n /\ n \in Nat /\ i <= n /\ 1 <= i
    BY <1>1
  <2>2. p[i - 1] = 2 * (i - 1)
    BY <1>7, <2>1
  <2>3. w \in Seq(S) /\ Len(w) = 2 /\ \A j \in 1..2 : flat[2 * (i - 1) + j] = w[j]
    BY <1>1, <1>4, <2>2
  <2> HIDE DEF w, n
  <2>4. /\ 2 * i - 1 \in 1..Len(flat) /\ 2 * i \in 1..Len(flat)
        /\ 2 * i - (2 * i - 1) + 1 = 2
        /\ 2 * i - 1 + 1 - 1 = 2 * (i - 1) + 1 /\ 2 * i - 1 + 2 - 1 = 2 * (i - 1) + 2
    BY <1>8, <2>1
  <2> DEFINE a == 2 * i - 1
             b == 2 * i
  <2>5. \A h \in a..b : flat[h] \in S
    <3>1. \A h \in a..b : h \in 1..Len(flat)
      BY <2>1, <2>4
    <3> QED
      BY <1>2, <3>1
  <2>6. /\ a \in Int /\ b \in Int /\ b - a + 1 = 2 /\ a <= b
        /\ a + 1 - 1 = 2 * (i - 1) + 1 /\ a + 2 - 1 = 2 * (i - 1) + 2
    BY <2>1, <2>4
  <2>7. x = SubSeq(flat, a, b)
    OBVIOUS
  <2> HIDE DEF a, b, x
  <2>8. x \in Seq(S) /\ Len(x) = 2 /\ \A h \in 1..2 : x[h] = flat[a + h - 1]
    <3>1. /\ SubSeq(flat, a, b) \in Seq(S)
          /\ Len(SubSeq(flat, a, b)) = IF a <= b THEN b - a + 1 ELSE 0
          /\ \A h \in 1..(b - a + 1) : SubSeq(flat, a, b)[h] = flat[a + h - 1]
      <4>1. a \in Int /\ b \in Int
        BY <2>6
      <4> QED
        BY ONLY <2>5, <4>1, SubSeqProperties
    <3> QED
      BY <2>6, <2>7, <3>1
  <2>9. x[1] = w[1] /\ x[2] = w[2]
    <3>1. 1 \in 1..2 /\ 2 \in 1..2
      OBVIOUS
    <3>2. x[1] = flat[2 * (i - 1) + 1] /\ x[2] = flat[2 * (i - 1) + 2]
      BY <2>6, <2>8, <3>1
    <3> QED
      BY <2>3, <3>1, <3>2
  <2>10. x = w
    <3>1. Len(x) = Len(w) /\ \A h \in 1..Len(x) : x[h] = w[h]
      BY <2>3, <2>8, <2>9
    <3> QED
      BY <2>3, <2>8, <3>1, SeqEqual
  <2> QED
    BY <2>10 DEF x, w
<1> QED
  BY <1>2, <1>8, <1>9 DEF flat

\* decode_hex is the inverse of hex_digest.
LEMMA HexReadsBack ==
  ASSUME NEW bytes \in Seq(HexBytes)
  PROVE  /\ HexOf(bytes) \in Seq(LowerDigits)
         /\ BytesOf(HexOf(bytes)) = bytes /\ DigestOf(HexOf(bytes)) = bytes
<1> DEFINE n == Len(bytes)
           words == [i \in DOMAIN bytes |-> LowerHexDigits(bytes[i])]
           hex == HexOf(bytes)
           meant(i) == {b \in HexBytes :
                          SubSeq(hex, 2 * i - 1, 2 * i) \in {HexDigits(b), LowerHexDigits(b)}}
<1>1. n \in Nat /\ DOMAIN bytes = 1..n /\ \A i \in 1..n : bytes[i] \in HexBytes
  OBVIOUS
<1>2. \A i \in 1..n : /\ words[i] = LowerHexDigits(bytes[i])
                      /\ words[i] \in Seq(LowerDigits) /\ Len(words[i]) = 2
  BY <1>1, LowerHexType
<1>3. words \in Seq(Seq(LowerDigits)) /\ Len(words) = n
  <2>1. words \in [1..n -> Seq(LowerDigits)]
    BY <1>1, <1>2
  <2> HIDE DEF words, n
  <2> QED
    BY <1>1, <2>1, IsASeq
<1>4. hex = FlattenSeq(words)
  BY DEF HexOf
<1> HIDE DEF words, hex
<1>5. /\ hex \in Seq(LowerDigits) /\ Len(hex) = 2 * n
      /\ \A i \in 1..n : SubSeq(hex, 2 * i - 1, 2 * i) = words[i]
  BY <1>2, <1>3, <1>4, PairsAre
<1>6. \A i \in 1..n : meant(i) = {bytes[i]}
  <2> SUFFICES ASSUME NEW i \in 1..n PROVE meant(i) = {bytes[i]}
    OBVIOUS
  <2>1. SubSeq(hex, 2 * i - 1, 2 * i) = LowerHexDigits(bytes[i])
    BY <1>2, <1>5
  <2>2. \A b \in HexBytes : b \in meant(i) <=> b = bytes[i]
    BY <1>1, <2>1, HexMeansOne
  <2> QED
    BY <1>1, <2>2
<1>7. Len(hex) % 2 = 0 /\ Len(hex) \div 2 = n
  <2> DEFINE m == n
  <2> HIDE DEF n
  <2> QED
    BY <1>1, <1>5
<1>8. BytesOf(hex) = IF Len(hex) % 2 # 0 \/ \E i \in 1..(Len(hex) \div 2) : meant(i) = {} THEN Rejected
                     ELSE [i \in 1..(Len(hex) \div 2) |-> CHOOSE b \in meant(i) : TRUE]
  BY DEF BytesOf, HexBytes
<1> HIDE DEF meant
<1>9. BytesOf(hex) = bytes
  <2> DEFINE read == [i \in 1..n |-> CHOOSE b \in meant(i) : TRUE]
  <2>1. \A i \in 1..n : read[i] = bytes[i] /\ meant(i) # {}
    BY <1>6
  <2>2. read = bytes
    <3> HIDE DEF n
    <3>1. bytes = [i \in 1..n |-> bytes[i]]
      BY <1>1
    <3> QED
      BY <2>1, <3>1
  <2>3. BytesOf(hex) = read
    <3> HIDE DEF n
    <3> QED
      BY <1>7, <1>8, <2>1
  <2> QED
    BY <2>2, <2>3
<1>10. DigestOf(hex) = BytesOf(hex)
  <2>1. \A i \in DOMAIN hex : hex[i] \in LowerDigits
    BY <1>5
  <2> QED
    BY <2>1 DEF DigestOf, LowerDigits
<1> QED
  BY <1>5, <1>9, <1>10 DEF hex

-------------------------------------------------------------------------------
(***************************************************************************)
(* The manifest: paths.                                                    *)
(***************************************************************************)
LEMMA PathReadsBack ==
  ASSUME NEW bytes \in Seq(HexBytes), bytes # <<>>
  PROVE  /\ PathOf(TextOf(JsonString(Lossy(bytes))), TextOf(JsonString(HexOf(bytes)))) = bytes
         /\ bytes # Rejected
<1> DEFINE text == Lossy(bytes)
           hex == HexOf(bytes)
           S == HexBytes \cup {Replacement}
           n == Len(bytes)
<1>1. n \in Nat /\ DOMAIN bytes = 1..n /\ n # 0 /\ \A i \in 1..n : bytes[i] \in HexBytes
  BY EmptySeq
<1>2. text \in Seq(S) /\ Len(text) = n
  <2>1. text \in [1..n -> S]
    BY <1>1 DEF Lossy
  <2> HIDE DEF text, S, n
  <2> QED
    BY <1>1, <2>1, IsASeq
<1>3. hex \in Seq(LowerDigits) /\ BytesOf(hex) = bytes
  BY HexReadsBack
<1>4. TextOf(JsonString(text)) = text /\ TextOf(JsonString(hex)) = hex
  <2> HIDE DEF text, hex, S
  <2> QED
    BY <1>2, <1>3, StringReadsBack
<1>5. IsUtf8(bytes) => text = bytes
  <2>1. bytes = [i \in DOMAIN bytes |-> bytes[i]]
    BY <1>1
  <2> QED
    BY <2>1 DEF Lossy, IsUtf8
<1>6. "absent" \notin S /\ "rejected" \notin HexBytes /\ "absent" \notin LowerDigits
  BY DEF HexBytes, LowerDigits, Bytes, Ascii, Printable, Controls, LF, CR, Esc, Quote, Backslash,
         Char, Continuation, Replacement
<1> HIDE DEF text, hex, S
<1>7. Absent[1] = "absent" /\ Len(Absent) = 1 /\ Rejected[1] = "rejected" /\ Len(Rejected) = 1
  BY DEF Absent, Rejected
<1>8. text # Absent /\ hex # Absent /\ bytes # Rejected /\ text # <<>>
  <2>1. text # <<>>
    BY <1>1, <1>2
  <2>2. text[1] \in S /\ bytes[1] \in HexBytes
    <3>1. 1 \in 1..n
      BY <1>1
    <3> QED
      BY <1>1, <1>2, <3>1
  <2>3. hex # Absent
    BY <1>3, <1>6, <1>7
  <2> QED
    BY <1>6, <1>7, <2>1, <2>2, <2>3
<1> QED
  BY <1>3, <1>4, <1>5, <1>8 DEF PathOf, text, hex

-------------------------------------------------------------------------------
(***************************************************************************)
(* The manifest: terms, regions and the whole of it.                       *)
(***************************************************************************)
Kinds == {"Side", "Base"}
Letters == {"s", "i", "d", "e", "b", "a"}

\* The two kinds of terms have two names.
LEMMA KindReadsBack ==
  ASSUME NEW kind \in Kinds
  PROVE  /\ TextOf(JsonString(KindName[kind])) = KindName[kind]
         /\ {k \in DOMAIN KindName : KindName[k] = KindName[kind]} = {kind}
<1> DEFINE side == <<"s", "i", "d", "e">>
           base == <<"b", "a", "s", "e">>
<1>1. side \in Seq(Letters) /\ base \in Seq(Letters) /\ side[1] = "s" /\ base[1] = "b"
  BY DEF Letters
<1>2. DOMAIN KindName = Kinds /\ KindName["Side"] = side /\ KindName["Base"] = base
  BY DEF KindName, Kinds
<1> HIDE DEF side, base
<1>3. KindName[kind] \in Seq(Letters)
  BY <1>1, <1>2 DEF Kinds
<1>4. \A k \in Kinds : KindName[k] = KindName[kind] => k = kind
  BY <1>1, <1>2 DEF Kinds
<1> QED
  BY <1>2, <1>3, <1>4, StringReadsBack

\* A record with three of its fields replaced.
LEMMA ExceptIs ==
  ASSUME NEW o, NEW a, NEW k, NEW l, NEW d, NEW K, NEW L, NEW D
  PROVE  LET t == [ordinal |-> o, artifact_path |-> a, kind |-> k, label |-> l, digest |-> d] IN
         [t EXCEPT !.kind = K, !.label = L, !.digest = D]
           = [ordinal |-> o, artifact_path |-> a, kind |-> K, label |-> L, digest |-> D]
<1> DEFINE t == [ordinal |-> o, artifact_path |-> a, kind |-> k, label |-> l, digest |-> d]
           u == [t EXCEPT !.kind = K, !.label = L, !.digest = D]
           v == [ordinal |-> o, artifact_path |-> a, kind |-> K, label |-> L, digest |-> D]
           F == {"ordinal", "artifact_path", "kind", "label", "digest"}
<1>1. u = [x \in F |-> u[x]] /\ v = [x \in F |-> v[x]]
  OBVIOUS
<1>2. /\ u["ordinal"] = v["ordinal"] /\ u["artifact_path"] = v["artifact_path"]
      /\ u["kind"] = v["kind"] /\ u["label"] = v["label"] /\ u["digest"] = v["digest"]
  OBVIOUS
<1>3. u = v
  <2> HIDE DEF u, v
  <2> QED
    BY <1>1, <1>2
<1> QED
  BY <1>3

\* A term of a manifest, with its place in it.
TermOf(ordinal, artifact, term) ==
  [ordinal |-> ordinal, artifact_path |-> artifact,
   kind |-> term.kind, label |-> term.label, digest |-> term.digest]

Terms == [kind : Kinds, label : Seq(Bytes), digest : Seq(Bytes)]

\* What is written of a term.
LEMMA TermJsonIs ==
  ASSUME NEW o, NEW a, NEW k, NEW l, NEW d
  PROVE  TermJson([ordinal |-> o, artifact_path |-> a, kind |-> k, label |-> l, digest |-> d])
           = [ordinal |-> o, artifact_path |-> a, kind |-> JsonString(KindName[k]),
              label |-> JsonString(l), digest |-> JsonString(HexOf(d))]
<1> DEFINE t == [ordinal |-> o, artifact_path |-> a, kind |-> k, label |-> l, digest |-> d]
<1>1. t.kind = k /\ t.label = l /\ t.digest = d
  OBVIOUS
<1>2. TermJson(t) = [t EXCEPT !.kind = JsonString(KindName[k]), !.label = JsonString(l),
                              !.digest = JsonString(HexOf(d))]
  BY <1>1, Zenon DEF TermJson
<1> QED
  BY ONLY <1>2, ExceptIs

\* A term is read as it was.
LEMMA TermReadsBack ==
  ASSUME NEW ordinal, NEW artifact, NEW term \in Terms
  PROVE  DecodeTerm(TermJson(TermOf(ordinal, artifact, term))) = TermOf(ordinal, artifact, term)
<1> DEFINE name == KindName[term.kind]
           kText == JsonString(name)
           lText == JsonString(term.label)
           dText == JsonString(HexOf(term.digest))
           json == [ordinal |-> ordinal, artifact_path |-> artifact,
                    kind |-> kText, label |-> lText, digest |-> dText]
<1>1. term.kind \in Kinds /\ term.label \in Seq(Bytes) /\ term.digest \in Seq(Bytes)
  BY DEF Terms
<1>2. TermJson(TermOf(ordinal, artifact, term)) = json
  <2> DEFINE k == term.kind
             l == term.label
             d == term.digest
  <2>1. TermOf(ordinal, artifact, term)
          = [ordinal |-> ordinal, artifact_path |-> artifact, kind |-> k, label |-> l, digest |-> d]
    BY DEF TermOf
  <2>2. json = [ordinal |-> ordinal, artifact_path |-> artifact, kind |-> JsonString(KindName[k]),
                label |-> JsonString(l), digest |-> JsonString(HexOf(d))]
    OBVIOUS
  <2> HIDE DEF k, l, d, json
  <2> QED
    BY <2>1, <2>2, TermJsonIs
<1>3. TextOf(kText) = name /\ {k \in DOMAIN KindName : KindName[k] = name} = {term.kind}
  BY <1>1, KindReadsBack
<1>4. TextOf(lText) = term.label
  BY <1>1, StringReadsBack
<1>5. DigestOf(TextOf(dText)) = term.digest
  <2>1. term.digest \in Seq(HexBytes)
    BY <1>1 DEF HexBytes
  <2>2. HexOf(term.digest) \in Seq(LowerDigits) /\ DigestOf(HexOf(term.digest)) = term.digest
    BY <2>1, HexReadsBack
  <2> QED
    BY <2>2, StringReadsBack
<1> DEFINE kinds == {k \in DOMAIN KindName : KindName[k] = TextOf(kText)}
           read == IF kinds = {} THEN "Rejected" ELSE CHOOSE k \in kinds : TRUE
<1>6. read = term.kind
  BY <1>3
<1>7. DecodeTerm(json) = [ordinal |-> ordinal, artifact_path |-> artifact, kind |-> read,
                          label |-> TextOf(lText), digest |-> DigestOf(TextOf(dText))]
  <2>1. json.kind = kText /\ json.label = lText /\ json.digest = dText
    OBVIOUS
  <2> HIDE DEF kText, lText, dText
  <2>2. DecodeTerm(json)
          = [json EXCEPT !.kind = read, !.label = TextOf(lText), !.digest = DigestOf(TextOf(dText))]
    BY <2>1, Zenon DEF DecodeTerm
  <2> HIDE DEF read
  <2> QED
    BY ONLY <2>2, ExceptIs
<1> QED
  BY <1>2, <1>4, <1>5, <1>6, <1>7 DEF TermOf

\* Lossy text is the text, of bytes that are text.
LEMMA TextIsWhole ==
  ASSUME NEW bytes \in Seq(Bytes), IsUtf8(bytes)
  PROVE  Lossy(bytes) = bytes
<1>1. bytes = [i \in DOMAIN bytes |-> bytes[i]]
  OBVIOUS
<1> QED
  BY <1>1 DEF Lossy, IsUtf8

Ranges == [start : Nat, end : Nat]
Found == [source_range : Ranges, seed : Seq(Bytes), terms : Seq(Terms)]

RegionOf(region_index, conflict) ==
  [region_index |-> region_index,
   source_range |-> conflict.source_range,
   seed         |-> conflict.seed,
   terms        |-> [k \in DOMAIN conflict.terms |->
                       TermOf(k - 1, ArtifactPath(region_index, k - 1), conflict.terms[k])]]

\* A region is read as it was, and its terms are counted.
LEMMA RegionReadsBack ==
  ASSUME NEW region_index, NEW conflict \in Found, IsUtf8(conflict.seed)
  PROVE  LET region == RegionOf(region_index, conflict)
             json == RegionJson(region)
         IN  /\ DecodeRegion(json) = region
             /\ json.term_count = Len(json.terms)
<1> DEFINE region == RegionOf(region_index, conflict)
           json == RegionJson(region)
           terms == conflict.terms
           n == Len(terms)
           made == [k \in 1..n |-> TermOf(k - 1, ArtifactPath(region_index, k - 1), terms[k])]
           written == [k \in 1..n |-> TermJson(made[k])]
           read == [k \in 1..n |-> DecodeTerm(written[k])]
<1>1. /\ terms \in Seq(Terms) /\ n \in Nat /\ DOMAIN terms = 1..n
      /\ \A k \in 1..n : terms[k] \in Terms
      /\ conflict.seed \in Seq(Bytes)
  BY DEF Found
<1>2. \A k \in 1..n : read[k] = made[k]
  BY <1>1, TermReadsBack
<1>3. read = made
  BY <1>2
<1>4. Len(made) = n /\ Len(written) = n
  <2> HIDE DEF n
  <2> QED
    BY <1>1
<1>5. /\ region.region_index = region_index /\ region.source_range = conflict.source_range
      /\ region.seed = conflict.seed /\ region.terms = made
      /\ region = [region_index |-> region_index, source_range |-> conflict.source_range,
                   seed |-> conflict.seed, terms |-> made]
  BY <1>1 DEF RegionOf
<1>6. TextOf(JsonString(Lossy(conflict.seed))) = conflict.seed
  <2>1. Lossy(conflict.seed) = conflict.seed
    BY <1>1, TextIsWhole
  <2> QED
    BY <1>1, <2>1, StringReadsBack
<1> DEFINE seed == JsonString(Lossy(conflict.seed))
<1>7. json = [region_index |-> region_index, source_range |-> conflict.source_range,
              seed |-> seed, term_count |-> n, terms |-> written]
  <2>1. DOMAIN made = 1..n
    OBVIOUS
  <2> HIDE DEF region, made, n
  <2> QED
    BY <1>4, <1>5, <2>1 DEF RegionJson
<1>8. DOMAIN written = 1..n
  OBVIOUS
<1> HIDE DEF region, json, seed, written, made, n
<1>9. DecodeRegion(json) = [region_index |-> region_index, source_range |-> conflict.source_range,
                            seed |-> TextOf(seed), terms |-> read]
  BY <1>7, <1>8 DEF DecodeRegion
<1>10. DecodeRegion(json) = region
  <2> HIDE DEF read
  <2> QED
    BY <1>3, <1>5, <1>6, <1>9 DEF seed
<1>11. json.term_count = Len(json.terms)
  BY <1>4, <1>7
<1> QED
  BY <1>10, <1>11 DEF json, region

\* What the parser finds in a source: regions of it in order and apart, with terms.
InOrder(conflicts) ==
  /\ conflicts \in Seq(Found)
  /\ \A i \in 1..Len(conflicts) :
       /\ conflicts[i].source_range.start < conflicts[i].source_range.end
       /\ i > 1 => conflicts[i - 1].source_range.end <= conflicts[i].source_range.start
       /\ IsUtf8(conflicts[i].seed) /\ conflicts[i].seed # <<>>
       /\ conflicts[i].terms # <<>>

Sources == [canonical_path : {<<"/">> \o name : name \in Seq(Bytes)},
            repository_relative : (Seq(Bytes) \ {<<>>, ParentDir}) \cup {Absent}]

\* No text is what stands for an error or for nothing.
LEMMA TextIsNoError ==
  ASSUME NEW text \in Seq(Bytes)
  PROVE  text # Rejected /\ text # Absent
<1>1. "absent" \notin Bytes /\ "rejected" \notin Bytes
  BY DEF Bytes, Ascii, Printable, Controls, LF, CR, Esc, Quote, Backslash, Char, Continuation
<1>2. Absent[1] = "absent" /\ Len(Absent) = 1 /\ Rejected[1] = "rejected" /\ Len(Rejected) = 1
  BY DEF Absent, Rejected
<1>3. Len(text) = 1 => text[1] \in Bytes
  OBVIOUS
<1> QED
  BY <1>1, <1>2, <1>3

\* The paths of the source are read as they were, and are of the kind that is asked for.
LEMMA SourceReadsBack ==
  ASSUME NEW source \in Sources
  PROVE  LET json == SourceJson(source)
             relative == source.repository_relative
             canonical == source.canonical_path
         IN  /\ PathOf(TextOf(json.canonical_path), TextOf(json.canonical_path_bytes_hex))
                  = canonical
             /\ PathOf(TextOf(json.repository_relative), TextOf(json.repository_relative_bytes_hex))
                  = relative
             /\ canonical # Rejected /\ relative # Rejected
             /\ IsAbsolute(canonical)
             /\ ~IsAbsolute(relative) /\ ~HasParentDir(relative)
<1> DEFINE json == SourceJson(source)
           relative == source.repository_relative
           canonical == source.canonical_path
<1>1. PICK name \in Seq(Bytes) : canonical = <<"/">> \o name
  BY DEF Sources
<1>2. canonical \in Seq(HexBytes) /\ canonical # <<>> /\ canonical[1] = "/"
  <2> DEFINE slash == <<"/">>
             S == HexBytes
  <2>1. slash \in Seq(S) /\ Len(slash) = 1 /\ slash[1] = "/" /\ name \in Seq(S)
    BY DEF HexBytes
  <2> HIDE DEF slash, S
  <2>2. /\ slash \o name \in Seq(S) /\ Len(slash \o name) = Len(slash) + Len(name)
        /\ \A i \in 1..(Len(slash) + Len(name)) :
             (slash \o name)[i] = IF i <= Len(slash) THEN slash[i] ELSE name[i - Len(slash)]
    BY <2>1, ConcatProperties
  <2>3. Len(name) \in Nat
    OBVIOUS
  <2>4. (slash \o name)[1] = "/" /\ slash \o name # <<>>
    <3>1. 1 \in 1..(Len(slash) + Len(name)) /\ Len(slash) + Len(name) # 0
      BY <2>1, <2>3
    <3>2. (slash \o name)[1] = "/"
      BY <2>1, <2>2, <3>1
    <3>3. slash \o name # <<>>
      BY <2>2, <3>1
    <3> QED
      BY <3>2, <3>3
  <2> QED
    BY <1>1, <2>2, <2>4 DEF slash, S
<1>3. /\ json.canonical_path = JsonString(Lossy(canonical))
      /\ json.canonical_path_bytes_hex = JsonString(HexOf(canonical))
      /\ relative = Absent => /\ json.repository_relative = Null
                              /\ json.repository_relative_bytes_hex = Null
      /\ relative # Absent => /\ json.repository_relative = JsonString(Lossy(relative))
                              /\ json.repository_relative_bytes_hex = JsonString(HexOf(relative))
  BY DEF SourceJson
<1>4. /\ PathOf(TextOf(json.canonical_path), TextOf(json.canonical_path_bytes_hex)) = canonical
      /\ canonical # Rejected /\ IsAbsolute(canonical)
  BY <1>2, <1>3, PathReadsBack DEF IsAbsolute
<1>5. /\ PathOf(TextOf(json.repository_relative), TextOf(json.repository_relative_bytes_hex))
           = relative
      /\ relative # Rejected /\ ~IsAbsolute(relative) /\ ~HasParentDir(relative)
  <2>1. CASE relative = Absent
    <3>1. TextOf(Null) = Absent
      BY DEF TextOf
    <3>2. Absent # Rejected /\ ~IsAbsolute(Absent) /\ ~HasParentDir(Absent)
      <4>1. Len(Absent) = 1 /\ 1..(1 - 1) = {}
        BY DEF Absent
      <4> QED
        BY <4>1 DEF Absent, Rejected, IsAbsolute, HasParentDir
    <3> QED
      BY <1>3, <2>1, <3>1, <3>2 DEF PathOf
  <2>2. CASE relative # Absent
    <3>1. relative \in Seq(Bytes) /\ relative # <<>> /\ relative # ParentDir
      BY <2>2 DEF Sources
    <3>2. relative \in Seq(HexBytes)
      BY <3>1 DEF HexBytes
    <3>3. relative[1] \in Bytes
      BY <3>1
    <3>4. ~HasParentDir(relative)
      <4> DEFINE n == Len(relative)
      <4> SUFFICES ASSUME NEW i \in 1..(n - 1), relative[i] = ".", relative[i + 1] = ".",
                          i = 1 \/ relative[i - 1] = "/", i + 1 = n \/ relative[i + 2] = "/"
                   PROVE  FALSE
        BY DEF HasParentDir
      <4>1. n \in Nat /\ \A j \in 1..n : relative[j] # "/"
        BY <3>1, SlashIs
      <4>2. i = 1
        <5>1. i # 1 => i - 1 \in 1..n
          BY <4>1
        <5> QED
          BY <4>1, <5>1
      <4>3. n = 2
        <5>1. i + 1 # n => i + 2 \in 1..n
          BY <4>1
        <5> QED
          BY <4>1, <4>2, <5>1
      <4> DEFINE dots == ParentDir
      <4>4. dots \in Seq({"."}) /\ Len(dots) = 2 /\ dots[1] = "." /\ dots[2] = "."
        BY DEF ParentDir
      <4> HIDE DEF dots
      <4>5. \A j \in 1..2 : relative[j] = dots[j]
        <5>1. \A j \in 1..2 : j = 1 \/ j = 2
          OBVIOUS
        <5> QED
          BY <4>2, <4>4, <5>1
      <4>6. relative = dots
        <5> DEFINE T == Bytes \cup {"."}
        <5>1. relative \in Seq(T) /\ dots \in Seq(T)
          BY <3>1, <4>4
        <5> HIDE DEF T
        <5> QED
          BY <4>3, <4>4, <4>5, <5>1, SeqEqual
      <4> QED
        BY <3>1, <4>6 DEF dots
    <3> QED
      BY <1>3, <2>2, <3>1, <3>2, <3>3, <3>4, PathReadsBack, SlashIs DEF IsAbsolute
  <2> QED
    BY <2>1, <2>2
<1> QED
  BY <1>4, <1>5

\* What make_manifest makes of the conflicts, region by region.
LEMMA MakeManifestIs ==
  ASSUME NEW source, NEW digest, NEW conflicts \in Seq(Found)
  PROVE  MakeManifest(source, digest, conflicts)
           = [source |-> source, source_digest |-> digest,
              regions |-> [i \in 1..Len(conflicts) |-> RegionOf(i - 1, conflicts[i])]]
<1>1. DOMAIN conflicts = 1..Len(conflicts)
  OBVIOUS
<1>2. MakeManifest(source, digest, conflicts)
        = [source |-> source, source_digest |-> digest,
           regions |-> [i \in DOMAIN conflicts |-> RegionOf(i - 1, conflicts[i])]]
  BY Zenon DEF MakeManifest, RegionOf, TermOf
<1> QED
  BY <1>1, <1>2

\* What it makes passes the checks of the reader.
LEMMA RegionsAreValid ==
  ASSUME NEW conflicts, InOrder(conflicts)
  PROVE  LET regions == [i \in 1..Len(conflicts) |-> RegionOf(i - 1, conflicts[i])] IN
         /\ ValidRegions(regions)
         /\ \A i \in 1..Len(conflicts) : \A term \in Range(regions[i].terms) :
              term.kind # "Rejected" /\ Rejected \notin {term.label, term.digest}
<1> DEFINE n == Len(conflicts)
           regions == [i \in 1..n |-> RegionOf(i - 1, conflicts[i])]
<1>1. n \in Nat /\ \A i \in 1..n : conflicts[i] \in Found
  BY DEF InOrder
<1>2. ASSUME NEW i \in 1..n
      PROVE  LET region == regions[i]
                 conflict == conflicts[i]
             IN  /\ region.region_index = i - 1 /\ region.source_range = conflict.source_range
                 /\ region.seed = conflict.seed
                 /\ region.terms = [k \in 1..Len(conflict.terms) |->
                                      TermOf(k - 1, ArtifactPath(i - 1, k - 1), conflict.terms[k])]
                 /\ conflict.terms \in Seq(Terms) /\ conflict.seed \in Seq(Bytes)
  <2> DEFINE conflict == conflicts[i]
  <2>1. conflict.terms \in Seq(Terms) /\ conflict.seed \in Seq(Bytes)
    BY <1>1 DEF Found
  <2>2. DOMAIN conflict.terms = 1..Len(conflict.terms)
    BY <2>1
  <2>3. regions[i] = RegionOf(i - 1, conflict)
    OBVIOUS
  <2> HIDE DEF conflict, regions
  <2>4. /\ regions[i].region_index = i - 1 /\ regions[i].source_range = conflict.source_range
        /\ regions[i].seed = conflict.seed
        /\ regions[i].terms = [k \in DOMAIN conflict.terms |->
                                 TermOf(k - 1, ArtifactPath(i - 1, k - 1), conflict.terms[k])]
    BY <2>3 DEF RegionOf
  <2> QED
    BY <2>1, <2>2, <2>4 DEF conflict
<1>3. DOMAIN regions = 1..n
  OBVIOUS
<1> HIDE DEF regions, n
<1>4. ASSUME NEW i \in 1..n, NEW k \in DOMAIN regions[i].terms
      PROVE  LET term == regions[i].terms[k] IN
             /\ term.ordinal = k - 1 /\ term.artifact_path = ArtifactPath(i - 1, k - 1)
             /\ term.kind # "Rejected" /\ Rejected \notin {term.label, term.digest}
  <2> DEFINE terms == conflicts[i].terms
             made == regions[i].terms[k]
             given == terms[k]
  <2>1. k \in 1..Len(terms) /\ terms \in Seq(Terms)
    BY <1>2
  <2>2. given \in Terms
    BY <2>1
  <2>3. made = TermOf(k - 1, ArtifactPath(i - 1, k - 1), given)
    BY <1>2, <2>1
  <2> HIDE DEF given, made
  <2>4. /\ made.ordinal = k - 1 /\ made.artifact_path = ArtifactPath(i - 1, k - 1)
        /\ made.kind = given.kind /\ made.label = given.label /\ made.digest = given.digest
    BY <2>3 DEF TermOf
  <2>5. given.kind \in Kinds /\ given.label \in Seq(Bytes) /\ given.digest \in Seq(Bytes)
    BY <2>2 DEF Terms
  <2>6. made.kind # "Rejected" /\ made.label # Rejected /\ made.digest # Rejected
    BY <2>4, <2>5, TextIsNoError DEF Kinds
  <2> QED
    BY <2>4, <2>6 DEF made
<1>5. ASSUME NEW i \in 1..n
      PROVE  /\ regions[i].source_range.start < regions[i].source_range.end
             /\ i > 1 => regions[i - 1].source_range.end <= regions[i].source_range.start
             /\ regions[i].seed \notin {<<>>, Rejected, Absent} /\ regions[i].terms # <<>>
  <2>1. /\ conflicts[i].source_range.start < conflicts[i].source_range.end
        /\ i > 1 => conflicts[i - 1].source_range.end <= conflicts[i].source_range.start
        /\ conflicts[i].seed # <<>> /\ conflicts[i].terms # <<>>
    BY DEF InOrder, n
  <2>2. i > 1 => i - 1 \in 1..n
    BY <1>1
  <2>3. regions[i].seed \in Seq(Bytes)
    BY <1>2
  <2>4. regions[i].seed \notin {Rejected, Absent}
    BY <2>3, TextIsNoError
  <2>5. regions[i].terms # <<>>
    <3> DEFINE l == Len(conflicts[i].terms)
               terms == regions[i].terms
    <3>1. conflicts[i].terms \in Seq(Terms) /\ l \in Nat /\ l # 0
      <4>1. conflicts[i].terms \in Seq(Terms)
        BY <1>2
      <4> HIDE DEF l
      <4> QED
        BY <2>1, <4>1, EmptySeq DEF l
    <3>2. DOMAIN terms = 1..l
      BY <1>2
    <3> HIDE DEF terms, l
    <3>3. 1 \in DOMAIN terms
      BY <3>1, <3>2
    <3> QED
      BY <3>3 DEF terms
  <2> QED
    BY <1>2, <2>1, <2>2, <2>4, <2>5
<1>6. ValidRegions(regions)
  BY <1>2, <1>3, <1>4, <1>5 DEF ValidRegions
<1>7. ASSUME NEW i \in 1..n, NEW term \in Range(regions[i].terms)
      PROVE  term.kind # "Rejected" /\ Rejected \notin {term.label, term.digest}
  <2>1. PICK k \in DOMAIN regions[i].terms : term = regions[i].terms[k]
    BY DEF Range
  <2> QED
    BY <1>4, <2>1
<1> QED
  BY <1>6, <1>7 DEF regions, n

\* Whatever the source is called, whatever its bytes are and however many conflicts
\* it has, `apply` reads in the manifest what `prepare` made.
THEOREM ManifestIsDecoded ==
  ASSUME NEW source \in Sources, NEW digest \in Seq(Bytes), NEW conflicts, InOrder(conflicts)
  PROVE  LET manifest == MakeManifest(source, digest, conflicts) IN
         DecodeManifest(ManifestJson(manifest)) = {manifest}
<1> DEFINE n == Len(conflicts)
           regions == [i \in 1..n |-> RegionOf(i - 1, conflicts[i])]
           written == [i \in 1..n |-> RegionJson(regions[i])]
           read == [i \in 1..n |-> DecodeRegion(written[i])]
           manifest == MakeManifest(source, digest, conflicts)
           json == ManifestJson(manifest)
<1>1. n \in Nat /\ \A i \in 1..n : conflicts[i] \in Found /\ IsUtf8(conflicts[i].seed)
  BY DEF InOrder
<1>2. manifest = [source |-> source, source_digest |-> digest, regions |-> regions]
  BY MakeManifestIs DEF InOrder
<1>3. \A i \in 1..n : read[i] = regions[i] /\ written[i].term_count = Len(written[i].terms)
  BY <1>1, RegionReadsBack
<1>4. read = regions
  BY <1>3
<1>5. DOMAIN regions = 1..n /\ DOMAIN written = 1..n /\ Len(regions) = n /\ Len(written) = n
  <2>1. DOMAIN regions = 1..n /\ DOMAIN written = 1..n
    OBVIOUS
  <2> HIDE DEF regions, written, n
  <2> QED
    BY <1>1, <2>1
<1> DEFINE digits == JsonString(HexOf(digest))
           sourceJson == SourceJson(source)
<1>6. json = [source |-> sourceJson, source_sha256 |-> digits, region_count |-> n,
              regions |-> written]
  <2>1. /\ manifest.source = source /\ manifest.source_digest = digest
        /\ manifest.regions = regions
    BY <1>2
  <2> HIDE DEF manifest, regions
  <2> QED
    BY <1>5, <2>1 DEF ManifestJson
<1>7. TextOf(digits) = HexOf(digest) /\ DigestOf(TextOf(digits)) = digest /\ digest # Rejected
  <2>1. digest \in Seq(HexBytes)
    BY DEF HexBytes
  <2>2. HexOf(digest) \in Seq(LowerDigits) /\ DigestOf(HexOf(digest)) = digest
    BY <2>1, HexReadsBack
  <2> QED
    BY <2>2, StringReadsBack, TextIsNoError
<1> DEFINE canonical == PathOf(TextOf(sourceJson.canonical_path),
                               TextOf(sourceJson.canonical_path_bytes_hex))
           relative == PathOf(TextOf(sourceJson.repository_relative),
                              TextOf(sourceJson.repository_relative_bytes_hex))
<1>8. /\ canonical = source.canonical_path /\ relative = source.repository_relative
      /\ canonical # Rejected /\ relative # Rejected
      /\ IsAbsolute(canonical) /\ ~IsAbsolute(relative) /\ ~HasParentDir(relative)
  BY SourceReadsBack
<1>9. source = [canonical_path |-> canonical, repository_relative |-> relative]
  <2> HIDE DEF canonical, relative
  <2> QED
    BY <1>8 DEF Sources
<1>10. ValidRegions(regions)
       /\ \A i \in 1..n : \A term \in Range(regions[i].terms) :
            term.kind # "Rejected" /\ Rejected \notin {term.label, term.digest}
  BY RegionsAreValid
<1> DEFINE m == [source |-> [canonical_path |-> canonical, repository_relative |-> relative],
                 source_digest |-> DigestOf(TextOf(json.source_sha256)),
                 regions |-> [i \in DOMAIN json.regions |-> DecodeRegion(json.regions[i])]]
           terms == UNION {Range(region.terms) : region \in Range(m.regions)}
           counted == /\ json.region_count = Len(json.regions)
                      /\ \A region \in Range(json.regions) :
                           region.term_count = Len(region.terms)
           decoded == /\ Rejected \notin {canonical, relative, m.source_digest}
                      /\ IsAbsolute(canonical)
                      /\ ~IsAbsolute(relative) /\ ~HasParentDir(relative)
                      /\ \A term \in terms :
                           term.kind # "Rejected" /\ Rejected \notin {term.label, term.digest}
<1>11. /\ json.source = sourceJson /\ json.source_sha256 = digits
       /\ json.region_count = n /\ json.regions = written
  <2> HIDE DEF sourceJson, digits, written, json, n
  <2> QED
    BY <1>6
<1>12. DecodeManifest(json) = IF counted /\ decoded /\ ValidRegions(m.regions) THEN {m} ELSE {}
  <2> HIDE DEF json
  <2> QED
    BY <1>11, Zenon DEF DecodeManifest
<1> HIDE DEF json, manifest, digits, sourceJson, canonical, relative, written, regions
<1>13. m.regions = regions /\ m.source_digest = digest /\ m = manifest
  <2>1. m.regions = read /\ m.source_digest = DigestOf(TextOf(digits))
    BY <1>5, <1>11
  <2> HIDE DEF read
  <2>2. m.regions = regions /\ m.source_digest = digest
    BY <1>4, <1>7, <2>1
  <2>3. m = [source |-> source, source_digest |-> m.source_digest, regions |-> m.regions]
    BY <1>9
  <2> HIDE DEF m
  <2> QED
    BY <1>2, <2>2, <2>3
<1>14. counted
  <2>1. \A region \in Range(written) : region.term_count = Len(region.terms)
    BY <1>3, <1>5 DEF Range
  <2> QED
    BY <1>5, <1>11, <2>1
<1> HIDE DEF m
<1>15. decoded
  <2>1. ASSUME NEW term \in terms
        PROVE  term.kind # "Rejected" /\ Rejected \notin {term.label, term.digest}
    <3>1. PICK region \in Range(regions) : term \in Range(region.terms)
      BY <1>13
    <3>2. PICK i \in 1..n : region = regions[i]
      BY <1>5, <3>1 DEF Range
    <3> QED
      BY <1>10, <3>1, <3>2
  <2> QED
    BY <1>7, <1>8, <1>13, <2>1
<1>16. DecodeManifest(json) = {manifest}
  <2> HIDE DEF counted, decoded
  <2> QED
    BY <1>10, <1>12, <1>13, <1>14, <1>15
<1> QED
  BY <1>16 DEF json, manifest

\* So do the two conflicts of the runs, for any name.
LEMMA NameReadsBack ==
  ASSUME NEW name \in Seq(Bytes), name # <<>>
  PROVE  ReadsBack(name)
<1> DEFINE label == IF IsUtf8(name) /\ ~Contains(name, LF) THEN name ELSE <<"A">>
           term(kind) == [kind |-> kind, label |-> label, digest |-> name]
           seed == <<"9", LF>>
           terms(kinds) == [k \in DOMAIN kinds |-> term(kinds[k])]
           conflict(start, kinds) ==
             [source_range |-> [start |-> start, end |-> start + 1], seed |-> seed,
              terms |-> terms(kinds)]
           three == <<"Side", "Base", "Side">>
           one == <<"Side">>
           conflicts == <<conflict(0, three), conflict(1, one)>>
<1>1. "A" \in Bytes /\ "9" \in Bytes /\ LF \in Bytes
  BY DEF Bytes, Ascii, Printable, Controls
<1>2. label \in Seq(Bytes)
  BY <1>1
<1>3. seed \in Seq(Bytes) /\ seed # <<>> /\ IsUtf8(seed)
  <2>1. seed \in Seq(Bytes) /\ seed # <<>> /\ DOMAIN seed = 1..2 /\ seed[1] = "9" /\ seed[2] = LF
    BY <1>1
  <2>2. \A i \in 1..2 : seed[i] \in Ascii
    BY <2>1 DEF Ascii, Printable, Controls
  <2> HIDE DEF seed
  <2> QED
    BY <2>1, <2>2 DEF IsUtf8, WellPlaced
<1>4. three \in Seq(Kinds) /\ one \in Seq(Kinds) /\ three # <<>> /\ one # <<>>
  BY DEF Kinds
<1> HIDE DEF label, seed
<1>5. ASSUME NEW start \in Nat, NEW kinds \in Seq(Kinds), kinds # <<>>
      PROVE  /\ conflict(start, kinds) \in Found /\ conflict(start, kinds).terms # <<>>
             /\ conflict(start, kinds).source_range.start = start
             /\ conflict(start, kinds).source_range.end = start + 1
             /\ conflict(start, kinds).seed = seed
  <2> DEFINE n == Len(kinds)
             all == terms(kinds)
  <2>1. n \in Nat /\ n # 0 /\ DOMAIN kinds = 1..n /\ \A k \in 1..n : kinds[k] \in Kinds
    BY <1>5, EmptySeq
  <2>2. \A kind \in Kinds : term(kind) \in Terms
    BY <1>2 DEF Terms
  <2> HIDE DEF term
  <2>3. all \in [1..n -> Terms]
    BY <2>1, <2>2
  <2> HIDE DEF all, n
  <2>4. all \in Seq(Terms) /\ all # <<>>
    <3>1. all \in Seq(Terms) /\ Len(all) = n
      BY <2>1, <2>3, IsASeq
    <3> QED
      BY <2>1, <3>1
  <2>5. [start |-> start, end |-> start + 1] \in Ranges
    BY DEF Ranges
  <2>6. conflict(start, kinds)
          = [source_range |-> [start |-> start, end |-> start + 1], seed |-> seed, terms |-> all]
    BY DEF all
  <2> HIDE DEF conflict
  <2> QED
    BY <1>3, <2>4, <2>5, <2>6 DEF Found
<1> HIDE DEF conflict, three, one
<1>6. InOrder(conflicts)
  <2> DEFINE a == conflict(0, three)
             b == conflict(1, one)
  <2>1. /\ a \in Found /\ a.terms # <<>> /\ a.source_range.start = 0 /\ a.source_range.end = 0 + 1
        /\ a.seed = seed
    BY <1>4, <1>5
  <2>2. /\ b \in Found /\ b.terms # <<>> /\ b.source_range.start = 1 /\ b.source_range.end = 1 + 1
        /\ b.seed = seed
    BY <1>4, <1>5
  <2>3. conflicts = <<a, b>>
    OBVIOUS
  <2> HIDE DEF conflicts, a, b
  <2>4. conflicts \in Seq(Found) /\ Len(conflicts) = 2 /\ conflicts[1] = a /\ conflicts[2] = b
    BY <2>1, <2>2, <2>3
  <2>5. \A i \in 1..2 : i = 1 \/ i = 2
    OBVIOUS
  <2>6. 2 - 1 = 1 /\ ~(1 > 1)
    OBVIOUS
  <2> QED
    BY <1>3, <2>1, <2>2, <2>4, <2>5, <2>6 DEF InOrder
<1>7. ASSUME NEW relative \in {name, Absent} \ {ParentDir}
      PROVE  LET source == [canonical_path |-> <<"/">> \o name, repository_relative |-> relative]
                 manifest == MakeManifest(source, name, conflicts)
             IN DecodeManifest(ManifestJson(manifest)) = {manifest}
  <2> DEFINE source == [canonical_path |-> <<"/">> \o name, repository_relative |-> relative]
  <2>1. source \in Sources
    BY DEF Sources
  <2> HIDE DEF source, conflicts
  <2>2. LET manifest == MakeManifest(source, name, conflicts) IN
        DecodeManifest(ManifestJson(manifest)) = {manifest}
    BY <1>6, <2>1, ManifestIsDecoded
  <2> QED
    BY <2>2 DEF source
<1> QED
  BY <1>7, Zenon DEF ReadsBack, conflicts, conflict, three, one, label, seed

\* prepare.rs:1014, apply.rs:507: what one side of the codec writes the other side reads,
\* for a name of any length.
THEOREM ManifestIsRead == Spec => []ManifestReadsBack
<1>1. PathInv => ManifestReadsBack
  <2> SUFFICES ASSUME PathInv, index = 0, Len(path) \in 1..MaxNameBytes PROVE ReadsBack(path)
    BY DEF ManifestReadsBack
  <2>1. path \in Seq(Bytes) /\ path # <<>>
    BY DEF PathInv
  <2> QED
    BY <2>1, NameReadsBack
<1> QED
  BY <1>1, PathInvariance, PTL

===============================================================================
