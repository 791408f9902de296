------------------------------- MODULE JjProcess -------------------------------
(***************************************************************************)
(* invoke_process (prepare.rs): jj runs as a child whose two outputs are   *)
(* pipes of a limited capacity, each drained by a thread of its own; the   *)
(* parent waits for the child, then for the threads.  jj writes its blocks *)
(* in any order and blocks on a full pipe; a process that jj started may   *)
(* hold the pipes open after jj has ended.                                 *)
(***************************************************************************)
EXTENDS Integers, Sequences, FiniteSets

CONSTANTS
  Outputs,    \* what jj may write: sequences of "out" and "err", a block each
  Capacity,   \* the blocks a pipe holds
  Limit,      \* the blocks of stderr that are kept, JJ_DIAGNOSTIC_LIMIT
  MaxFaults   \* bound: failures of a system call

Streams == {"out", "err"}

ASSUME JjAssumption ==
  /\ Outputs \subseteq Seq(Streams)
  /\ Capacity \in Nat \ {0}
  /\ {Limit, MaxFaults} \subseteq Nat

VARIABLES
  parent,   \* what invoke_process does next
  jj,       \* "none", "running", "succeeded", "failed", or "broken" by a closed pipe
  output,   \* all that jj and the processes it starts write
  written,  \* how many blocks of it are written
  heir,     \* whether a process that jj started holds the pipes
  pipe,     \* for each stream, the blocks in its pipe
  reader,   \* for each stream, its thread: "none", "reading", "ended" or "failed"
  got,      \* for each stream, the blocks its thread has read
  kept,     \* the blocks of stderr it has kept
  result,   \* "none", "ok", or what the error says
  faults

vars == <<parent, jj, output, written, heir, pipe, reader, got, kept, result, faults>>

Smaller(a, b) == IF a < b THEN a ELSE b

\* The blocks of a stream among the first n that jj writes.
Blocks(stream, n) == Cardinality({i \in 1..n : output[i] = stream})

Init ==
  /\ parent = "spawn"
  /\ jj = "none"
  /\ output \in Outputs
  /\ written = 0
  /\ heir = FALSE
  /\ pipe = [s \in Streams |-> 0]
  /\ reader = [s \in Streams |-> "none"]
  /\ got = [s \in Streams |-> 0]
  /\ kept = 0
  /\ result = "none"
  /\ faults = 0

Fault == faults < MaxFaults /\ faults' = faults + 1

Return(what) == parent' = "done" /\ result' = what

-------------------------------------------------------------------------------
(* jj, and the pipes                                                       *)

\* The end of the pipe that is read from is open.
HasReader(s) == reader[s] \in {"none", "reading"}

Write ==
  /\ jj = "running" \/ heir
  /\ written < Len(output)
  /\ LET s == output[written + 1] IN
     /\ HasReader(s)
     /\ pipe[s] < Capacity
     /\ pipe' = [pipe EXCEPT ![s] = @ + 1]
  /\ written' = written + 1
  /\ UNCHANGED <<parent, jj, output, heir, reader, got, kept, result, faults>>

\* A write to a pipe that nobody can read ends the process that writes.
Break ==
  /\ jj = "running" \/ heir
  /\ written < Len(output)
  /\ ~HasReader(output[written + 1])
  /\ jj' = IF jj = "running" THEN "broken" ELSE jj
  /\ heir' = FALSE
  /\ UNCHANGED <<parent, output, written, pipe, reader, got, kept, result, faults>>

\* jj ends; a process it started may hold the pipes, and write what is left.
JjEnds ==
  /\ jj = "running"
  /\ jj' \in {"succeeded", "failed"}
  /\ heir' \in {held \in BOOLEAN : held \/ written = Len(output)}
  /\ UNCHANGED <<parent, output, written, pipe, reader, got, kept, result, faults>>

HeirEnds ==
  /\ heir
  /\ written = Len(output)
  /\ heir' = FALSE
  /\ UNCHANGED <<parent, jj, output, written, pipe, reader, got, kept, result, faults>>

Ended == jj \in {"succeeded", "failed", "broken"}

AllClosed == Ended /\ ~heir

-------------------------------------------------------------------------------
(* drain_pipe, drain_bounded_pipe                                          *)

\* Mistake: a block is kept whole as long as the limit is not reached.
RetainWhole(n) == IF kept < Limit THEN kept + n ELSE kept

\* What is kept of stderr after n more blocks; they are read all the same.
Retain(n) == Smaller(kept + n, Limit)

Drain(s) ==
  /\ reader[s] = "reading"
  /\ \E n \in 1..pipe[s] :
       /\ pipe' = [pipe EXCEPT ![s] = @ - n]
       /\ got' = [got EXCEPT ![s] = @ + n]
       /\ kept' = IF s = "err" THEN Retain(n) ELSE kept
  /\ UNCHANGED <<parent, jj, output, written, heir, reader, result, faults>>

\* Mistake: the thread ends with the child, whatever is left in the pipe.
AtEndOfChild(s) == AllClosed

\* Mistake: nothing is read after the limit.
AtLimit(s) ==
  \/ s = "err" /\ kept >= Limit
  \/ pipe[s] = 0 /\ AllClosed

\* read returns 0: nothing is left and no process can write more.
AtEnd(s) == pipe[s] = 0 /\ AllClosed

DrainEnds(s) ==
  /\ reader[s] = "reading"
  /\ AtEnd(s)
  /\ reader' = [reader EXCEPT ![s] = "ended"]
  /\ UNCHANGED <<parent, jj, output, written, heir, pipe, got, kept, result, faults>>

DrainFails(s) ==
  /\ reader[s] = "reading"
  /\ Fault
  /\ reader' = [reader EXCEPT ![s] = "failed"]
  /\ UNCHANGED <<parent, jj, output, written, heir, pipe, got, kept, result>>

-------------------------------------------------------------------------------
(* invoke_process                                                          *)

Spawn ==
  /\ parent = "spawn"
  /\ parent' = "drain-out"
  /\ jj' = "running"
  /\ UNCHANGED <<output, written, heir, pipe, reader, got, kept, result, faults>>

SpawnFails ==
  /\ parent = "spawn"
  /\ Fault
  /\ Return("could-not-start")
  /\ UNCHANGED <<jj, output, written, heir, pipe, reader, got, kept>>

\* Mistake: one output is drained to its end before the other.
OneAfterTheOther(s) == s = "err" => reader["out"] \in {"ended", "failed"}

\* Both outputs are drained at once.
MayStart(s) == s = "err" => reader["out"] # "none"

StartDrain(s) ==
  /\ parent = IF s = "out" THEN "drain-out" ELSE "drain-err"
  /\ MayStart(s)
  /\ reader' = [reader EXCEPT ![s] = "reading"]
  /\ parent' = IF s = "out" THEN "drain-err" ELSE "wait"
  /\ UNCHANGED <<jj, output, written, heir, pipe, got, kept, result, faults>>

Wait ==
  /\ parent = "wait"
  /\ Ended
  /\ parent' = "join-out"
  /\ UNCHANGED <<jj, output, written, heir, pipe, reader, got, kept, result, faults>>

WaitFails ==
  /\ parent = "wait"
  /\ Fault
  /\ Return("could-not-wait")
  /\ UNCHANGED <<jj, output, written, heir, pipe, reader, got, kept>>

JoinOut ==
  /\ parent = "join-out"
  /\ reader["out"] \in {"ended", "failed"}
  /\ IF reader["out"] = "failed"
     THEN Return("could-not-drain")
     ELSE parent' = "join-err" /\ UNCHANGED result
  /\ UNCHANGED <<jj, output, written, heir, pipe, reader, got, kept, faults>>

Answer ==
  IF reader["err"] = "failed" THEN "could-not-drain"
  ELSE IF jj = "succeeded" THEN "ok" ELSE "jj-failed"

JoinErr ==
  /\ parent = "join-err"
  /\ reader["err"] \in {"ended", "failed"}
  /\ Return(Answer)
  /\ UNCHANGED <<jj, output, written, heir, pipe, reader, got, kept, faults>>

Parent == Spawn \/ (\E s \in Streams : StartDrain(s)) \/ Wait \/ JoinOut \/ JoinErr

Writers == Write \/ Break \/ JjEnds \/ HeirEnds

Thread(s) == Drain(s) \/ DrainEnds(s)

Faults == SpawnFails \/ WaitFails \/ \E s \in Streams : DrainFails(s)

Next == Parent \/ Writers \/ (\E s \in Streams : Thread(s)) \/ Faults

(***************************************************************************)
(* The threads and processes run.  jj writes a finite output and ends, and *)
(* so does every process that holds the pipes: the code has no timeout.    *)
(***************************************************************************)
Fairness ==
  /\ WF_vars(Parent) /\ WF_vars(Writers)
  /\ \A s \in Streams : WF_vars(Thread(s))

Spec == Init /\ [][Next]_vars /\ Fairness

-------------------------------------------------------------------------------
(* Properties.                                                             *)

\* Every variable has its type; no pipe holds more than its capacity, and no
\* thread keeps more than the limit.
TypeOK ==
  /\ parent \in {"spawn", "drain-out", "drain-err", "wait", "join-out", "join-err", "done"}
  /\ jj \in {"none", "running", "succeeded", "failed", "broken"}
  /\ output \in Outputs
  /\ written \in 0..Len(output)
  /\ heir \in BOOLEAN
  /\ pipe \in [Streams -> 0..Capacity]
  /\ reader \in [Streams -> {"none", "reading", "ended", "failed"}]
  /\ got \in [Streams -> Nat]
  /\ kept \in 0..Limit
  /\ result \in {"none", "ok", "jj-failed", "could-not-start", "could-not-wait",
                 "could-not-drain"}
  /\ faults \in 0..MaxFaults

\* The render that is parsed is all that a successful jj has written, also what
\* it wrote last, and what a process it started wrote for it.
OkIsWhole ==
  result = "ok" =>
    /\ jj = "succeeded"
    /\ got["out"] = Blocks("out", Len(output))

\* However much is written to either output, jj is never ended by it and a jj
\* that succeeds is not reported as a failure, unless a system call failed.
SuccessIsReported ==
  faults = 0 =>
    /\ jj # "broken"
    /\ result \notin {"none", "ok"} => jj = "failed"

\* The diagnostics of a jj that failed are its first ones, up to the limit.
DiagnosticsAreComplete ==
  result = "jj-failed" /\ faults = 0 =>
    kept = Smaller(Blocks("err", Len(output)), Limit)

\* The call returns: neither output can block jj while the parent waits for it,
\* whatever jj writes, in whatever order, also when a thread fails.
Returns == <>(parent = "done")

-------------------------------------------------------------------------------
(***************************************************************************)
(* The inductive invariant.                                                *)
(***************************************************************************)
\* No block is lost or made up: each that is written is in its pipe or read, and
\* of those of stderr the first are kept.
BlocksInv ==
  /\ \A s \in Streams : pipe[s] + got[s] = Blocks(s, written)
  /\ kept = Smaller(got["err"], Limit)

\* How far the parent is tells which threads and processes there are.
ParentInv ==
  /\ result = "none" <=> parent # "done"
  /\ jj = "none" <=> parent = "spawn" \/ result = "could-not-start"
  /\ parent \in {"spawn", "drain-out"} => reader["out"] = "none"
  /\ parent \in {"spawn", "drain-out", "drain-err"} => reader["err"] = "none"
  /\ parent \in {"join-out", "join-err"} => Ended
  /\ parent = "join-err" => reader["out"] = "ended"

\* A thread ends only behind all that was written, and only a thread that failed
\* can make a process end before it has written everything.
WritersInv ==
  /\ heir => jj \in {"succeeded", "failed"}
  /\ \A s \in Streams : reader[s] = "ended" => AtEnd(s)
  /\ faults = 0 => \A s \in Streams : reader[s] # "failed"
  /\ jj = "broken" => \E s \in Streams : reader[s] = "failed"
  /\ AllClosed /\ written < Len(output) => \E s \in Streams : reader[s] = "failed"

\* An answer about jj is given only when both threads have read to the end.
AnswerInv ==
  /\ result \in {"ok", "jj-failed"} => \A s \in Streams : reader[s] = "ended"
  /\ result = "ok" => jj = "succeeded"
  /\ result = "jj-failed" => jj \in {"failed", "broken"}
  /\ result \in {"could-not-start", "could-not-wait", "could-not-drain"} => faults > 0

IInv == TypeOK /\ BlocksInv /\ ParentInv /\ WritersInv /\ AnswerInv

===============================================================================
