----------------------------- MODULE GuardedReplace -----------------------------
(***************************************************************************)
(* What `jcw apply --write` promises, without saying how: the source is     *)
(* replaced in one step, by a resolution that validation accepts for what   *)
(* the source and the workspace hold at that very moment, or it is not      *)
(* replaced at all; and the answer of each invocation is true.              *)
(*                                                                         *)
(* The one reservation of the README is a part of the promise: between the  *)
(* final recheck and the rename another program can still write.  An        *)
(* invocation that this happened to is `disturbed`.                         *)
(***************************************************************************)
CONSTANTS
  Procs,    \* the invocations
  Data,     \* whole contents of a file
  Inputs,   \* the files of the workspace, "resolved" among them
  Accepts   \* the contents of source and inputs that validation accepts

VARIABLES
  inputs,     \* contents of each file of the workspace
  source,     \* contents of the source
  kept,       \* the contents it may come back with after a loss of power
  phase,      \* "idle", "working", "final", "replaced", "durable" or "done"
  disturbed,  \* "window": a file was written during the final phase of the
              \* invocation; "temp": its temporary file was, at any time
  answer      \* what the invocation said

vars == <<inputs, source, kept, phase, disturbed, answer>>

Phases  == {"idle", "working", "final", "replaced", "durable", "done"}
Answers == {"none", "unchanged", "ambiguous", "wrote", "killed"}

\* Mistake: the source is taken to be still what the workspace was made from.
ViewOfManifest ==
  [x \in Inputs \cup {"source"} |-> IF x = "source" THEN inputs["manifest"] ELSE inputs[x]]

View == [x \in Inputs \cup {"source"} |-> IF x = "source" THEN source ELSE inputs[x]]

AcceptedResolutions == {v["resolved"] : v \in Accepts}

\* Others may be in their final phase when a file is written.
Disturb(others) ==
  \E ps \in SUBSET {p \in others : phase[p] = "final"} :
    disturbed' = [p \in Procs |-> IF p \in ps THEN disturbed[p] \cup {"window"}
                                  ELSE disturbed[p]]

Enter(p, from, to) == phase[p] = from /\ phase' = [phase EXCEPT ![p] = to]

Answer(p, what) == answer' = [answer EXCEPT ![p] = what]

-------------------------------------------------------------------------------
Begin(p) ==
  /\ Enter(p, "idle", "working")
  /\ UNCHANGED <<inputs, source, kept, disturbed, answer>>

\* The directory is synchronised and the final recheck begins.
BeginFinal(p) ==
  /\ Enter(p, "working", "final")
  /\ kept' = {source}
  /\ UNCHANGED <<inputs, source, disturbed, answer>>

\* The invocation ends and leaves the source alone.
Refuse(p) ==
  /\ Enter(p, phase[p], "done")
  /\ phase[p] \in {"working", "final"}
  /\ Answer(p, "unchanged")
  /\ UNCHANGED <<inputs, source, kept, disturbed>>

\* The contents that may replace the source: the accepted resolution of what is
\* there; a resolution accepted earlier, if a file was written since; whatever
\* another program has put into the temporary file since its last check.
MayReplaceBy(p, d) ==
  \/ /\ View \in Accepts
     /\ d = inputs["resolved"]
     /\ d # source
  \/ "window" \in disturbed[p] /\ d \in AcceptedResolutions
  \/ {"window", "temp"} \subseteq disturbed[p]

Replaced(p) ==
  /\ source' \in Data
  /\ MayReplaceBy(p, source')
  /\ kept' = kept \cup {source'}
  /\ Disturb(Procs \ {p})
  /\ UNCHANGED inputs

Replace(p) ==
  /\ Enter(p, "final", "replaced")
  /\ Replaced(p)
  /\ UNCHANGED answer

\* The operating system does not say whether the replacement took effect.
Doubt(p) ==
  /\ Enter(p, "final", "done")
  /\ Replaced(p) \/ UNCHANGED <<inputs, source, kept, disturbed>>
  /\ Answer(p, "ambiguous")

Sync(p) ==
  /\ Enter(p, "replaced", "durable")
  /\ kept' = {source}
  /\ UNCHANGED <<inputs, source, disturbed, answer>>

SyncFails(p) ==
  /\ Enter(p, "replaced", "done")
  /\ Answer(p, "ambiguous")
  /\ UNCHANGED <<inputs, source, kept, disturbed>>

\* Mistake: success is reported before the directory is synchronised.
ConfirmEarly(p) ==
  /\ phase[p] \in {"replaced", "durable"}
  /\ Enter(p, phase[p], "done")
  /\ Answer(p, "wrote")
  /\ UNCHANGED <<inputs, source, kept, disturbed>>

\* Only what survives a loss of power is reported as a success.
Confirm(p) ==
  /\ Enter(p, "durable", "done")
  /\ Answer(p, "wrote")
  /\ UNCHANGED <<inputs, source, kept, disturbed>>

Invocation(p) ==
  \/ Begin(p) \/ BeginFinal(p) \/ Refuse(p) \/ Replace(p) \/ Doubt(p)
  \/ Sync(p) \/ SyncFails(p) \/ Confirm(p)

-------------------------------------------------------------------------------
Kill(p) ==
  /\ phase[p] \notin {"idle", "done"}
  /\ Enter(p, phase[p], "done")
  /\ Answer(p, "killed")
  /\ UNCHANGED <<inputs, source, kept, disturbed>>

\* A loss of power, as far as the source and the invocations are concerned.
Crash ==
  /\ source' \in kept
  /\ kept' = {source'}
  /\ phase' = [p \in Procs |-> IF phase[p] = "idle" THEN "idle" ELSE "done"]
  /\ answer' = [p \in Procs |-> IF phase[p] \in {"idle", "done"} THEN answer[p]
                                ELSE "killed"]
  /\ UNCHANGED disturbed

PowerLoss == Crash /\ UNCHANGED inputs

\* Another program writes, and what it writes is durable; or it touches the
\* temporary file of an invocation.
Change ==
  /\ inputs' \in [Inputs -> Data]
  /\ source' \in Data
  /\ \/ kept' = {source'}
     \/ UNCHANGED <<source, kept>>
  /\ Disturb(Procs)
  /\ UNCHANGED <<phase, answer>>

TouchTemp(p) ==
  /\ \E late \in SUBSET {"window"} :
       /\ late # {} => phase[p] = "final"
       /\ disturbed' = [disturbed EXCEPT ![p] = @ \cup {"temp"} \cup late]
  /\ UNCHANGED <<inputs, source, kept, phase, answer>>

Init ==
  /\ inputs \in [Inputs -> Data]
  /\ source \in Data
  /\ kept = {source}
  /\ phase = [p \in Procs |-> "idle"]
  /\ disturbed = [p \in Procs |-> {}]
  /\ answer = [p \in Procs |-> "none"]

Next ==
  \/ \E p \in Procs : Invocation(p) \/ Kill(p) \/ TouchTemp(p)
  \/ PowerLoss
  \/ Change

Spec == Init /\ [][Next]_vars

===============================================================================
