------------------------------ MODULE AtomicPrepare ------------------------------
(***************************************************************************)
(* What `jcw prepare` promises, without saying how: a workspace becomes     *)
(* usable in one step, complete, and of one version of the source; a        *)
(* workspace that is not usable is never mistaken for one; and the report   *)
(* of each invocation says what is left.                                    *)
(***************************************************************************)
CONSTANTS
  Procs,     \* the invocations
  Names,     \* names of workspaces
  Versions   \* contents of the source that have a conflict

None == "none"
Nobody == "nobody"

VARIABLES
  source,      \* contents of the source
  workspaces,  \* for each name [by, holds]: who made it, and the version that
               \* `apply` finds in it, None as long as it cannot be used
  phase,       \* "idle", "working", "writing", "published", "discarding", "done"
  base,        \* the source as each invocation read it
  place,       \* the workspace of each invocation
  report       \* what it told its user

vars == <<source, workspaces, phase, base, place, report>>

Free == [by |-> Nobody, holds |-> None]

Enter(p, from, to) == phase[p] = from /\ phase' = [phase EXCEPT ![p] = to]

Finish(p, from, what) ==
  /\ Enter(p, from, "done")
  /\ report' = [report EXCEPT ![p] = what]

-------------------------------------------------------------------------------
Read(p) ==
  /\ Enter(p, "idle", "working")
  /\ base' = [base EXCEPT ![p] = source]
  /\ UNCHANGED <<source, workspaces, place, report>>

\* Nothing has been created, and nothing is left.
Fail(p) ==
  /\ \E from \in {"idle", "working"} : Finish(p, from, "failed")
  /\ UNCHANGED <<source, workspaces, base, place>>

Create(p, n) ==
  /\ Enter(p, "working", "writing")
  /\ base[p] \in Versions
  /\ workspaces[n] = Free
  /\ workspaces' = [workspaces EXCEPT ![n].by = p]
  /\ place' = [place EXCEPT ![p] = n]
  /\ UNCHANGED <<source, base, report>>

\* The manifest, which is written last, makes the workspace usable.
Publish(p) ==
  /\ Enter(p, "writing", "published")
  /\ workspaces' = [workspaces EXCEPT ![place[p]].holds = base[p]]
  /\ UNCHANGED <<source, base, place, report>>

Confirm(p) ==
  /\ Finish(p, "published", "prepared")
  /\ UNCHANGED <<source, workspaces, base, place>>

\* A write fails, and the workspace is removed piece by piece.
Discard(p) ==
  /\ \E from \in {"writing", "published"} : Enter(p, from, "discarding")
  /\ UNCHANGED <<source, workspaces, base, place, report>>

Spoil(p) ==
  /\ phase[p] = "discarding"
  /\ workspaces' = [workspaces EXCEPT ![place[p]].holds = None]
  /\ UNCHANGED <<source, phase, base, place, report>>

\* Mistake: the removal is reported whether or not it succeeded.
RemoveReported(p) ==
  /\ Finish(p, "discarding", "cleanup-completed")
  /\ UNCHANGED <<source, workspaces, base, place>>

Remove(p) ==
  /\ Finish(p, "discarding", "cleanup-completed")
  /\ workspaces' = [workspaces EXCEPT ![place[p]] = Free]
  /\ UNCHANGED <<source, base, place>>

Retain(p) ==
  /\ Finish(p, "discarding", "retained-partial-workspace")
  /\ UNCHANGED <<source, workspaces, base, place>>

Invocation(p) ==
  \/ Read(p) \/ Fail(p) \/ (\E n \in Names : Create(p, n)) \/ Publish(p)
  \/ Confirm(p) \/ Discard(p) \/ Spoil(p) \/ Remove(p) \/ Retain(p)

-------------------------------------------------------------------------------
Kill(p) ==
  /\ \E from \in {"idle", "working", "writing", "published", "discarding"} :
       Finish(p, from, "killed")
  /\ UNCHANGED <<source, workspaces, base, place>>

\* A workspace that loses any of its files is no longer usable.
Losses(n) ==
  {workspaces[n]} \cup IF workspaces[n].by \in Procs
                       THEN {[workspaces[n] EXCEPT !.holds = None]} ELSE {}

\* A loss of power, as far as the workspaces and the invocations are concerned.
Crash ==
  /\ workspaces' \in {w \in [Names -> UNION {Losses(n) : n \in Names}] :
                        \A n \in Names : w[n] \in Losses(n)}
  /\ phase' = [p \in Procs |-> "done"]
  /\ report' = [p \in Procs |-> "killed"]
  /\ UNCHANGED <<base, place>>

PowerLoss == Crash /\ UNCHANGED source

EditSource ==
  /\ source' # source
  /\ UNCHANGED <<workspaces, phase, base, place, report>>

Init ==
  /\ \A n \in Names : workspaces[n].by \notin Procs /\ workspaces[n].holds = None
  /\ phase = [p \in Procs |-> "idle"]
  /\ base = [p \in Procs |-> source]
  /\ place = [p \in Procs |-> None]
  /\ report = [p \in Procs |-> "none"]

Next ==
  \/ \E p \in Procs : Invocation(p) \/ Kill(p)
  \/ PowerLoss
  \/ EditSource

Spec == Init /\ [][Next]_vars

===============================================================================
