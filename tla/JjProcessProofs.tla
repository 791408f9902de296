---------------------------- MODULE JjProcessProofs ----------------------------
(* Theorems about JjProcess, for any output of jj, any capacity of the pipes  *)
(* and any limit on what is kept of stderr.                                   *)
EXTENDS JjProcess, FiniteSetTheorems, TLAPS

(***************************************************************************)
(* The constants.                                                          *)
(***************************************************************************)
LEMMA Numbers == Capacity \in Nat /\ Capacity > 0 /\ Limit \in Nat /\ MaxFaults \in Nat
  <1>1. Limit \in {Limit, MaxFaults} /\ MaxFaults \in {Limit, MaxFaults}
    OBVIOUS
  <1>2. {Limit, MaxFaults} \subseteq Nat /\ Capacity \in Nat \ {0}
    BY JjAssumption
  <1>. QED  BY <1>1, <1>2

LEMMA OutputType ==
  ASSUME output \in Outputs
  PROVE  /\ Len(output) \in Nat
         /\ \A i \in 1..Len(output) : output[i] \in Streams
  <1>1. output \in Seq(Streams)
    BY JjAssumption
  <1>. QED  BY <1>1

(***************************************************************************)
(* Counting the blocks of a stream.                                        *)
(***************************************************************************)
\* Nothing is written at first.
LEMMA NoBlocks ==
  ASSUME NEW s
  PROVE  Blocks(s, 0) = 0
  <1>1. {i \in 1..0 : output[i] = s} = {}
    OBVIOUS
  <1>. QED  BY <1>1, FS_EmptySet DEF Blocks

LEMMA BlocksType ==
  ASSUME NEW s, NEW n \in Nat
  PROVE  /\ IsFiniteSet({i \in 1..n : output[i] = s})
         /\ Blocks(s, n) \in Nat
  <1>1. IsFiniteSet(1..n)
    BY FS_Interval
  <1>2. {i \in 1..n : output[i] = s} \in SUBSET (1..n)
    OBVIOUS
  <1>3. IsFiniteSet({i \in 1..n : output[i] = s})
    BY <1>1, <1>2, FS_Subset
  <1>. QED  BY <1>3, FS_CardinalityType DEF Blocks

\* One more block of the output is one more block of its stream.
LEMMA OneMoreBlock ==
  ASSUME NEW s, NEW n \in Nat
  PROVE  Blocks(s, n + 1) = IF output[n + 1] = s THEN Blocks(s, n) + 1 ELSE Blocks(s, n)
  <1>. DEFINE B(m) == {i \in 1..m : output[i] = s}
  <1>1. IsFiniteSet(B(n)) /\ Cardinality(B(n)) \in Nat
    BY BlocksType DEF Blocks
  <1>2. CASE output[n + 1] = s
    <2>1. B(n + 1) = B(n) \cup {n + 1} /\ n + 1 \notin B(n)
      BY <1>2
    <2>. QED  BY <1>1, <1>2, <2>1, FS_AddElement DEF Blocks
  <1>3. CASE output[n + 1] # s
    <2>1. B(n + 1) = B(n)
      BY <1>3
    <2>. QED  BY <1>3, <2>1 DEF Blocks
  <1>. QED  BY <1>2, <1>3

\* What drain_bounded_pipe keeps does not depend on how the blocks arrive.
LEMMA RetainsTheFirst ==
  ASSUME NEW g \in Nat, NEW n \in Nat, NEW k \in Nat, NEW l \in Nat, k = Smaller(g, l)
  PROVE  Smaller(k + n, l) = Smaller(g + n, l)
BY DEF Smaller

-------------------------------------------------------------------------------
(***************************************************************************)
(* The first state.                                                        *)
(***************************************************************************)
LEMMA InitInv == Init => IInv
  <1>. SUFFICES ASSUME Init PROVE IInv
    OBVIOUS
  <1>. USE DEF Init
  <1>1. TypeOK
    <2>1. output \in Outputs /\ Len(output) \in Nat
      BY OutputType
    <2>2. /\ pipe \in [Streams -> 0..Capacity] /\ got \in [Streams -> Nat]
          /\ kept \in 0..Limit /\ faults \in 0..MaxFaults
      BY Numbers
    <2>3. written \in 0..Len(output)
      BY <2>1
    <2>4. reader \in [Streams -> {"none", "reading", "ended", "failed"}] /\ heir \in BOOLEAN
      OBVIOUS
    <2>. QED  BY <2>1, <2>2, <2>3, <2>4 DEF TypeOK
  <1>2. BlocksInv
    BY NoBlocks, Numbers DEF BlocksInv, Smaller, Streams
  <1>3. ParentInv /\ WritersInv /\ AnswerInv
    BY DEF ParentInv, WritersInv, AnswerInv, AllClosed, Ended, Streams
  <1>. QED  BY <1>1, <1>2, <1>3 DEF IInv

-------------------------------------------------------------------------------
(***************************************************************************)
(* Types and the conservation of blocks.                                   *)
(***************************************************************************)
LEMMA TypeStep ==
  ASSUME TypeOK, [Next]_vars
  PROVE  TypeOK'
  <1>. USE Numbers DEF TypeOK
  <1>0. Len(output) \in Nat /\ \A i \in 1..Len(output) : output[i] \in Streams
    BY OutputType
  <1>1. CASE Write
    <2>1. output[written + 1] \in Streams
      BY <1>0, <1>1 DEF Write
    <2>. QED  BY <1>0, <1>1, <2>1 DEF Write
  <1>2. CASE Break \/ JjEnds \/ HeirEnds
    BY <1>2 DEF Break, JjEnds, HeirEnds
  <1>3. ASSUME NEW s \in Streams, Drain(s) PROVE TypeOK'
    <2>1. PICK n \in 1..pipe[s] :
            /\ pipe' = [pipe EXCEPT ![s] = @ - n]
            /\ got' = [got EXCEPT ![s] = @ + n]
            /\ kept' = IF s = "err" THEN Retain(n) ELSE kept
      BY <1>3 DEF Drain
    <2>2. pipe[s] \in 0..Capacity /\ n \in Nat /\ pipe[s] - n \in 0..Capacity
      BY <2>1
    <2>3. kept' \in 0..Limit
      BY <2>1, <2>2 DEF Retain, Smaller
    <2>. QED  BY <1>3, <2>1, <2>2, <2>3 DEF Drain
  <1>4. ASSUME NEW s \in Streams, DrainEnds(s) \/ DrainFails(s) PROVE TypeOK'
    BY <1>4 DEF DrainEnds, DrainFails, Fault
  <1>5. ASSUME NEW s \in Streams, StartDrain(s) PROVE TypeOK'
    BY <1>5 DEF StartDrain
  <1>6. CASE Spawn \/ SpawnFails \/ Wait \/ WaitFails
    BY <1>6 DEF Spawn, SpawnFails, Wait, WaitFails, Fault, Return
  <1>7. CASE JoinOut \/ JoinErr
    BY <1>7 DEF JoinOut, JoinErr, Return, Answer
  <1>8. CASE UNCHANGED vars
    BY <1>8 DEF vars
  <1>. QED
    BY <1>1, <1>2, <1>3, <1>4, <1>5, <1>6, <1>7, <1>8
    DEF Next, Parent, Writers, Thread, Faults

LEMMA BlocksStep ==
  ASSUME TypeOK, BlocksInv, [Next]_vars
  PROVE  BlocksInv'
  <1>. USE DEF BlocksInv
  <1>1. CASE Write
    <2>. DEFINE t == output[written + 1]
    <2>1. written \in Nat /\ UNCHANGED <<output, got, kept>> /\ written' = written + 1
      BY <1>1, Numbers, OutputType DEF Write, TypeOK
    <2>2. pipe' = [pipe EXCEPT ![t] = @ + 1]
      BY <1>1 DEF Write
    <2>3. ASSUME NEW s \in Streams PROVE pipe'[s] + got'[s] = Blocks(s, written)'
      <3>1. Blocks(s, written)' = IF t = s THEN Blocks(s, written) + 1 ELSE Blocks(s, written)
        <4>1. Blocks(s, written)' = Blocks(s, written + 1)
          BY <2>1 DEF Blocks
        <4>. QED  BY <2>1, <4>1, OneMoreBlock
      <3>2. pipe'[s] = IF t = s THEN pipe[s] + 1 ELSE pipe[s]
        BY <2>2 DEF TypeOK
      <3>3. pipe[s] \in Nat /\ got[s] \in Nat /\ Blocks(s, written) \in Nat
        BY <2>1, BlocksType, Numbers, OutputType DEF TypeOK
      <3>. QED  BY <2>1, <3>1, <3>2, <3>3
    <2>. QED  BY <2>1, <2>3
  <1>2. ASSUME NEW s \in Streams, Drain(s) PROVE BlocksInv'
    <2>1. PICK n \in 1..pipe[s] :
            /\ pipe' = [pipe EXCEPT ![s] = @ - n]
            /\ got' = [got EXCEPT ![s] = @ + n]
            /\ kept' = IF s = "err" THEN Retain(n) ELSE kept
      BY <1>2 DEF Drain
    <2>2. UNCHANGED <<output, written>>
      BY <1>2 DEF Drain
    <2>3. pipe[s] \in Nat /\ n \in Nat /\ got[s] \in Nat /\ kept \in Nat /\ Limit \in Nat
      BY <2>1, Numbers, OutputType DEF TypeOK
    <2>4. ASSUME NEW t \in Streams PROVE pipe'[t] + got'[t] = Blocks(t, written)'
      <3>1. Blocks(t, written)' = Blocks(t, written)
        BY <2>2 DEF Blocks
      <3>2. CASE t = s
        BY <2>1, <2>3, <3>1, <3>2 DEF TypeOK
      <3>3. CASE t # s
        BY <2>1, <3>1, <3>3 DEF TypeOK
      <3>. QED  BY <3>2, <3>3
    <2>5. kept' = Smaller(got'["err"], Limit)
      <3>1. CASE s = "err"
        <4>1. got'["err"] = got["err"] + n
          BY <2>1, <3>1 DEF TypeOK
        <4>. QED  BY <2>1, <2>3, <3>1, <4>1, RetainsTheFirst DEF Retain
      <3>2. CASE s # "err"
        BY <2>1, <3>2 DEF TypeOK
      <3>. QED  BY <3>1, <3>2
    <2>. QED  BY <2>4, <2>5
  <1>3. CASE UNCHANGED <<output, written, pipe, got, kept>>
    BY <1>3 DEF Blocks
  <1>4. CASE \/ Break \/ JjEnds \/ HeirEnds \/ Spawn \/ SpawnFails \/ Wait \/ WaitFails
             \/ JoinOut \/ JoinErr
    BY <1>3, <1>4
    DEF Break, JjEnds, HeirEnds, Spawn, SpawnFails, Wait, WaitFails, JoinOut, JoinErr
  <1>5. ASSUME NEW s \in Streams, DrainEnds(s) \/ DrainFails(s) \/ StartDrain(s)
        PROVE  BlocksInv'
    BY <1>3, <1>5 DEF DrainEnds, DrainFails, StartDrain
  <1>6. CASE UNCHANGED vars
    BY <1>3, <1>6 DEF vars
  <1>. QED
    BY <1>1, <1>2, <1>4, <1>5, <1>6 DEF Next, Parent, Writers, Thread, Faults

-------------------------------------------------------------------------------
(***************************************************************************)
(* The parent, the threads and the processes.                              *)
(***************************************************************************)
\* While a process can write, neither thread has seen the end of its pipe.
LEMMA NotBothEnds ==
  ASSUME WritersInv, jj = "running" \/ heir
  PROVE  ~AllClosed /\ \A s \in Streams : reader[s] # "ended"
BY DEF WritersInv, AtEnd, AllClosed, Ended

LEMMA ProtocolStep ==
  ASSUME TypeOK, ParentInv, WritersInv, AnswerInv, [Next]_vars
  PROVE  ParentInv' /\ WritersInv' /\ AnswerInv'
  <1>. USE DEF ParentInv, WritersInv, AnswerInv
  <1>1. CASE Write
    BY <1>1, NotBothEnds DEF Write, AtEnd, AllClosed, Ended, TypeOK
  <1>2. CASE Break
    <2>1. output[written + 1] \in Streams
      BY <1>2, Numbers, OutputType DEF Break, TypeOK
    <2>2. reader[output[written + 1]] = "failed"
      BY <1>2, <2>1, NotBothEnds DEF Break, HasReader, TypeOK
    <2>. QED
      BY <1>2, <2>1, <2>2, NotBothEnds DEF Break, AtEnd, AllClosed, Ended
  <1>3. CASE JjEnds
    BY <1>3, NotBothEnds, Numbers, OutputType DEF JjEnds, AtEnd, AllClosed, Ended, TypeOK
  <1>4. CASE HeirEnds
    BY <1>4, NotBothEnds, Numbers, OutputType DEF HeirEnds, AtEnd, AllClosed, Ended, TypeOK
  <1>5. ASSUME NEW s \in Streams, Drain(s)
        PROVE  ParentInv' /\ WritersInv' /\ AnswerInv'
    <2>1. \A t \in Streams : reader[t] = "ended" => t # s /\ pipe'[t] = pipe[t]
      BY <1>5 DEF Drain, TypeOK
    <2>. QED
      BY <1>5, <2>1 DEF Drain, AtEnd, AllClosed, Ended
  <1>6. ASSUME NEW s \in Streams, DrainEnds(s)
        PROVE  ParentInv' /\ WritersInv' /\ AnswerInv'
    BY <1>6 DEF DrainEnds, AtEnd, AllClosed, Ended, TypeOK
  <1>7. ASSUME NEW s \in Streams, DrainFails(s)
        PROVE  ParentInv' /\ WritersInv' /\ AnswerInv'
    BY <1>7 DEF DrainFails, Fault, AtEnd, AllClosed, Ended, TypeOK
  <1>8. ASSUME NEW s \in Streams, StartDrain(s)
        PROVE  ParentInv' /\ WritersInv' /\ AnswerInv'
    BY <1>8 DEF StartDrain, AtEnd, AllClosed, Ended, TypeOK, Streams
  <1>9. CASE Spawn \/ SpawnFails
    BY <1>9, Numbers, OutputType DEF Spawn, SpawnFails, Fault, Return, AtEnd, AllClosed, Ended, TypeOK
  <1>10. CASE Wait \/ WaitFails
    BY <1>10, Numbers, OutputType DEF Wait, WaitFails, Fault, Return, AtEnd, AllClosed, Ended, TypeOK
  <1>11. CASE JoinOut
    BY <1>11, Numbers, OutputType DEF JoinOut, Return, AtEnd, AllClosed, Ended, TypeOK, Streams
  <1>12. CASE JoinErr
    <2>1. /\ parent = "join-err" /\ parent' = "done" /\ result' = Answer
          /\ UNCHANGED <<jj, output, written, heir, pipe, reader, got, kept, faults>>
      BY <1>12 DEF JoinErr, Return
    <2>2. WritersInv'
      BY <2>1 DEF AtEnd, AllClosed, Ended
    <2>3. reader["out"] = "ended" /\ jj \in {"succeeded", "failed", "broken"}
      BY <2>1 DEF Ended
    <2>4. CASE reader["err"] = "failed"
      <3>1. result' = "could-not-drain"
        BY <2>1, <2>4 DEF Answer
      <3>2. faults > 0
        BY <2>4, Numbers DEF Streams, TypeOK
      <3>. QED  BY <2>1, <2>2, <2>3, <3>1, <3>2 DEF Ended
    <2>5. CASE reader["err"] = "ended"
      <3>1. result' = IF jj = "succeeded" THEN "ok" ELSE "jj-failed"
        BY <2>1, <2>5 DEF Answer
      <3>. QED  BY <2>1, <2>2, <2>3, <2>5, <3>1 DEF Ended, Streams
    <2>. QED  BY <1>12, <2>4, <2>5 DEF JoinErr
  <1>13. CASE UNCHANGED vars
    BY <1>13 DEF vars, AtEnd, AllClosed, Ended
  <1>. QED
    BY <1>1, <1>2, <1>3, <1>4, <1>5, <1>6, <1>7, <1>8, <1>9, <1>10, <1>11, <1>12, <1>13
    DEF Next, Parent, Writers, Thread, Faults

-------------------------------------------------------------------------------
(***************************************************************************)
(* The theorems.                                                           *)
(***************************************************************************)
\* The inductive invariant holds in every reachable state.
THEOREM Invariance == Spec => []IInv
  <1>1. Init => IInv
    BY InitInv
  <1>2. IInv /\ [Next]_vars => IInv'
    BY TypeStep, BlocksStep, ProtocolStep DEF IInv
  <1>. QED  BY <1>1, <1>2, PTL DEF Spec

\* Every variable keeps its type: no pipe holds more than its capacity, and never
\* more than JJ_DIAGNOSTIC_LIMIT is kept of stderr (prepare.rs:601-654).
THEOREM TypeCorrect == Spec => []TypeOK
  <1>1. IInv => TypeOK
    BY DEF IInv
  <1>. QED  BY <1>1, Invariance, PTL

\* Whatever jj writes to both outputs, in whatever order, and however the threads
\* take it: what is parsed after an exit code of 0 is the whole output.
THEOREM RenderIsWhole == Spec => []OkIsWhole
  <1>1. IInv => OkIsWhole
    <2>. SUFFICES ASSUME IInv, result = "ok" PROVE jj = "succeeded" /\ got["out"] = Blocks("out", Len(output))
      BY DEF OkIsWhole
    <2>1. jj = "succeeded" /\ pipe["out"] = 0 /\ AllClosed /\ \A s \in Streams : reader[s] = "ended"
      BY DEF IInv, AnswerInv, WritersInv, AtEnd, Streams
    <2>2. written = Len(output)
      BY <2>1, Numbers, OutputType DEF IInv, WritersInv, TypeOK
    <2>3. got["out"] \in Nat /\ pipe["out"] + got["out"] = Blocks("out", written)
      BY DEF IInv, BlocksInv, TypeOK, Streams
    <2>. QED  BY <2>1, <2>2, <2>3
  <1>. QED  BY <1>1, Invariance, PTL

\* No amount of output, and no limit on what is kept of it, ends jj or makes a
\* failure of its success (prepare.rs:507-536).
THEOREM SuccessReported == Spec => []SuccessIsReported
  <1>1. IInv => SuccessIsReported
    BY DEF IInv, TypeOK, ParentInv, WritersInv, AnswerInv, SuccessIsReported
  <1>. QED  BY <1>1, Invariance, PTL

\* The diagnostics shown of a jj that failed are the first of what it wrote.
THEOREM DiagnosticsComplete == Spec => []DiagnosticsAreComplete
  <1>1. IInv => DiagnosticsAreComplete
    <2>. SUFFICES ASSUME IInv, result = "jj-failed", faults = 0
                  PROVE  kept = Smaller(Blocks("err", Len(output)), Limit)
      BY DEF DiagnosticsAreComplete
    <2>1. pipe["err"] = 0 /\ AllClosed /\ \A s \in Streams : reader[s] = "ended"
      BY DEF IInv, AnswerInv, WritersInv, AtEnd, Streams
    <2>2. written = Len(output)
      BY <2>1, Numbers, OutputType DEF IInv, WritersInv, TypeOK
    <2>3. got["err"] \in Nat /\ pipe["err"] + got["err"] = Blocks("err", written)
      BY DEF IInv, BlocksInv, TypeOK, Streams
    <2>. QED  BY <2>1, <2>2, <2>3 DEF IInv, BlocksInv
  <1>. QED  BY <1>1, Invariance, PTL
===============================================================================
