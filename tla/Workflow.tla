-------------------------------- MODULE Workflow --------------------------------
(***************************************************************************)
(* One conflicted file from `jcw prepare` to the resolution in its place:   *)
(* invocations of `prepare` and of `apply --write` over the same source and *)
(* the same workspaces, at the grain of what each of the two commands       *)
(* promises (AtomicPrepare, GuardedReplace), with the user who resolves,    *)
(* reads exit codes, starts again and removes what is of no more use, with  *)
(* programs that change the source, failing calls, kills and losses of      *)
(* power.                                                                  *)
(*                                                                         *)
(* The two commands share nothing but files.  An action here is an action   *)
(* of one command, together with what that does to the view of the other.   *)
(***************************************************************************)
EXTENDS Integers

CONSTANTS
  Preparers,    \* the terminals in which `jcw prepare` is run
  Appliers,     \* the terminals in which `jcw apply --write` is run
  Names,        \* names of workspaces
  Versions,     \* contents of the source that have a conflict
  Resolutions,  \* for each of them, the contents that resolve it
  MaxEdits,     \* bound: changes made by other programs
  MaxLosses,    \* bound: kills and losses of power
  MaxFaults     \* bound: calls to the operating system that fail

Resolved == UNION {Resolutions[v] : v \in Versions}

ASSUME ResolutionsAssumption ==
  /\ DOMAIN Resolutions = Versions
  /\ Resolved \cap Versions = {}
ASSUME BoundsAssumption == {MaxEdits, MaxLosses, MaxFaults} \subseteq Nat

VARIABLES
  source, kept,                              \* the file, shared by all
  workspaces, prepPhase, base, place, report, \* of AtomicPrepare
  applyPhase, disturbed, answer,             \* of GuardedReplace
  resolved,   \* contents of `resolved` in each workspace
  target,     \* the workspace each `apply` was given
  touched,    \* invocations under way whose files another actor has changed
  standing,   \* those of `apply` whose replacement no program has overwritten
  edits, losses, faults

preparing == <<workspaces, prepPhase, base, place, report>>
applying  == <<kept, applyPhase, disturbed, answer>>
counters  == <<edits, losses, faults>>
vars == <<source, preparing, applying, resolved, target, touched, standing, counters>>

P == INSTANCE AtomicPrepare WITH Procs <- Preparers, phase <- prepPhase

Unresolved == "unresolved"  \* the canvas, with its placeholders

\* What `apply` reads of workspace n, the source aside.
InputsOf(n) == [manifest |-> workspaces[n].holds, resolved |-> resolved[n]]

Accepts == UNION {[manifest : {v}, source : {v}, resolved : Resolutions[v]] : v \in Versions}

A(n) == INSTANCE GuardedReplace WITH
  Procs   <- Appliers,
  Data    <- Versions \cup Resolved \cup {Unresolved, P!None},
  Inputs  <- {"manifest", "resolved"},
  inputs  <- InputsOf(n),
  phase   <- applyPhase

-------------------------------------------------------------------------------
Fault == faults < MaxFaults /\ faults' = faults + 1 /\ UNCHANGED <<edits, losses>>

\* A workspace that becomes usable has the canvas, with every placeholder.
FollowWorkspaces ==
  resolved' = [n \in Names |-> IF workspaces'[n].holds = workspaces[n].holds
                               THEN resolved[n] ELSE Unresolved]

\* A change of the files of workspace n, by anyone but the appliers.
FilesChange(n) == A(n)!Change

\* The file is read before jj runs and compared afterwards; a name that is taken
\* is not used.
PrepareMustFail(p) ==
  /\ prepPhase[p] = "working"
  /\ \/ p \in touched
     \/ base[p] \notin Versions
     \/ \A n \in Names : workspaces[n] # P!Free

PrepareProceeds(p) ==
  /\ \/ P!Read(p) \/ (\E n \in Names : P!Create(p, n)) \/ P!Publish(p)
     \/ P!Confirm(p) \/ P!Spoil(p) \/ P!Remove(p) \/ P!Retain(p)
     \/ PrepareMustFail(p) /\ P!Fail(p)
  /\ UNCHANGED counters

PrepareFails(p) == (P!Fail(p) \/ P!Discard(p)) /\ Fault

Prepare(p) ==
  /\ PrepareProceeds(p) \/ PrepareFails(p)
  /\ FollowWorkspaces
  /\ UNCHANGED <<kept, target, standing>>
  /\ \E n \in Names : FilesChange(n)

\* Mistake: it may refuse whatever it finds, its own changes of the temporary file
\* for instance.
ApplyMayRefuse(a, n) == TRUE

\* An `apply` that nothing disturbs refuses only what validation does not accept
\* (UndisturbedProceeds of ApplyInstall).
ApplyMustRefuse(a, n) == a \in touched \/ A(n)!View \notin Accepts

ApplyProceeds(a, n) ==
  /\ \/ A(n)!BeginFinal(a) \/ A(n)!Replace(a) \/ A(n)!Sync(a) \/ A(n)!Confirm(a)
     \/ ApplyMustRefuse(a, n) /\ A(n)!Refuse(a)
  /\ UNCHANGED counters

ApplyFails(a, n) ==
  (A(n)!Refuse(a) \/ A(n)!Doubt(a) \/ A(n)!SyncFails(a)) /\ Fault

Apply(a) ==
  /\ target[a] \in Names
  /\ UNCHANGED <<preparing, resolved, target>>
  /\ ApplyProceeds(a, target[a]) \/ ApplyFails(a, target[a])
  /\ standing' = IF source' = source THEN standing ELSE standing \cup {a}

-------------------------------------------------------------------------------
(* The user.                                                               *)

\* Exit code 0 of an `apply` ends the user's work, unless the file has been
\* written since.
Believed == \E a \in standing : answer[a] = "wrote"

\* `resolved` is edited until no placeholder is left.
Resolve(n) ==
  /\ workspaces[n].holds \in Versions
  /\ resolved[n] = Unresolved
  /\ \E r \in Resolutions[workspaces[n].holds] : resolved' = [resolved EXCEPT ![n] = r]
  /\ UNCHANGED <<source, kept, preparing, target, standing, counters>>
  /\ FilesChange(n)

\* With any workspace that seems ready, a stale one included.
StartApply(a, n) ==
  /\ resolved[n] # Unresolved
  /\ target' = [target EXCEPT ![a] = n]
  /\ UNCHANGED <<preparing, resolved, standing, counters>>
  /\ A(n)!Begin(a)

\* Every exit code but 0 makes the user try again.
ApplyAgain(a) ==
  /\ ~Believed
  /\ applyPhase[a] = "done"
  /\ applyPhase' = [applyPhase EXCEPT ![a] = "idle"]
  /\ answer' = [answer EXCEPT ![a] = "none"]
  /\ disturbed' = [disturbed EXCEPT ![a] = {}]
  /\ target' = [target EXCEPT ![a] = P!None]
  /\ standing' = standing \ {a}
  /\ UNCHANGED <<source, kept, preparing, resolved, counters>>

PrepareAgain(p) ==
  /\ ~Believed
  /\ prepPhase[p] = "done"
  /\ \A n \in Names : workspaces[n].holds # source
  /\ prepPhase' = [prepPhase EXCEPT ![p] = "idle"]
  /\ report' = [report EXCEPT ![p] = "none"]
  /\ base' = [base EXCEPT ![p] = source]
  /\ place' = [place EXCEPT ![p] = P!None]
  /\ UNCHANGED <<source, workspaces, applying, resolved, target, standing, counters>>

\* A directory that no `prepare` is writing, and that is not of this source: what
\* a failure or a loss of power left, or the workspace of an older version.
TidyUp(n) ==
  /\ workspaces[n].by \in Preparers
  /\ workspaces[n].holds # source
  /\ \A p \in Preparers : place[p] = n => prepPhase[p] = "done"
  /\ workspaces' = [workspaces EXCEPT ![n] = P!Free]
  /\ FollowWorkspaces
  /\ UNCHANGED <<source, kept, prepPhase, base, place, report, target, standing, counters>>
  /\ FilesChange(n)

-------------------------------------------------------------------------------
(* Everything else.                                                        *)

\* Another program writes the source: jj, an editor, a user who resolves by hand.
EditSource ==
  /\ edits < MaxEdits /\ edits' = edits + 1
  /\ source' \in Versions \cup Resolved
  /\ P!EditSource
  /\ standing' = {}
  /\ UNCHANGED <<resolved, target, losses, faults>>
  /\ \E n \in Names : FilesChange(n)

\* A user changes a resolution while it may be being applied.
ChangeOfMind(n) ==
  /\ edits < MaxEdits /\ edits' = edits + 1
  /\ resolved[n] # Unresolved
  /\ \E r \in Resolutions[workspaces[n].holds] \cup {Unresolved} :
       /\ r # resolved[n]
       /\ resolved' = [resolved EXCEPT ![n] = r]
  /\ UNCHANGED <<source, kept, preparing, target, standing, losses, faults>>
  /\ FilesChange(n)

Lose == losses < MaxLosses /\ losses' = losses + 1 /\ UNCHANGED <<edits, faults>>

KillPrepare(p) ==
  /\ Lose
  /\ P!Kill(p)
  /\ UNCHANGED <<applying, resolved, target, standing>>

KillApply(a) ==
  /\ Lose
  /\ target[a] \in Names
  /\ UNCHANGED <<preparing, resolved, target, standing>>
  /\ A(target[a])!Kill(a)

PowerLoss ==
  /\ Lose
  /\ P!Crash
  /\ FollowWorkspaces
  /\ \E n \in Names : A(n)!Crash
  /\ UNCHANGED <<target, standing>>

-------------------------------------------------------------------------------
Changed(a) ==
  \/ source' # source
  \/ target[a] \in Names /\ (InputsOf(target[a]))' # InputsOf(target[a])

\* Whose files have changed since they began; and nobody is disturbed by a change
\* of files that are not theirs.
Notice ==
  /\ touched' =
       {a \in Appliers :
          /\ applyPhase[a] # "idle" /\ applyPhase'[a] \in {"working", "final"}
          /\ a \in touched \/ Changed(a)}
       \cup
       {p \in Preparers :
          /\ prepPhase[p] # "idle" /\ prepPhase'[p] = "working"
          /\ p \in touched \/ source' # source}
  /\ \A a \in Appliers : disturbed'[a] \subseteq disturbed[a] \/ Changed(a)

Jcw ==
  \/ \E p \in Preparers : Prepare(p)
  \/ \E a \in Appliers : Apply(a)

User ==
  \/ \E n \in Names : Resolve(n) \/ TidyUp(n)
  \/ \E a \in Appliers, n \in Names : StartApply(a, n)
  \/ \E a \in Appliers : ApplyAgain(a)
  \/ \E p \in Preparers : PrepareAgain(p)

Environment ==
  \/ EditSource \/ PowerLoss
  \/ \E n \in Names : ChangeOfMind(n)
  \/ \E p \in Preparers : KillPrepare(p)
  \/ \E a \in Appliers : KillApply(a)

Init ==
  /\ source \in Versions
  /\ workspaces = [n \in Names |-> P!Free]
  /\ resolved = [n \in Names |-> Unresolved]
  /\ P!Init
  /\ kept = {source}
  /\ applyPhase = [a \in Appliers |-> "idle"]
  /\ disturbed = [a \in Appliers |-> {}]
  /\ answer = [a \in Appliers |-> "none"]
  /\ target = [a \in Appliers |-> P!None]
  /\ touched = {}
  /\ standing = {}
  /\ edits = 0 /\ losses = 0 /\ faults = 0

Next == (Jcw \/ User \/ Environment) /\ Notice

(***************************************************************************)
(* The scheduler runs what can run.  The user goes on as long as there is   *)
(* something to do; strong fairness for the choice of a workspace, so that  *)
(* one who has two of them does not try the same wrong one for ever.        *)
(***************************************************************************)
Fairness ==
  /\ \A p \in Preparers :
       /\ WF_vars(Prepare(p) /\ PrepareProceeds(p) /\ Notice)
       /\ WF_vars(PrepareAgain(p) /\ Notice)
  /\ \A a \in Appliers :
       /\ WF_vars(Apply(a) /\ UNCHANGED counters /\ Notice)
       /\ WF_vars(ApplyAgain(a) /\ Notice)
  /\ \A n \in Names :
       /\ WF_vars(Resolve(n) /\ Notice)
       /\ SF_vars(TidyUp(n) /\ Notice)
       /\ \A a \in Appliers : SF_vars(StartApply(a, n) /\ Notice)

Spec == Init /\ [][Next]_vars /\ Fairness

-------------------------------------------------------------------------------
(* Properties.                                                             *)

\* An exit code of 0 can be relied on: a source that `apply` said it wrote, and
\* that no other program has written since, has its conflict resolved, through
\* losses of power and whatever other invocations, of older workspaces and late
\* ones included, do after it.
SuccessStands ==
  \A a \in standing : answer[a] = "wrote" => source \notin Versions

\* Both commands together, in any number of terminals and with workspaces of any
\* age, keep the promise that the user relies on: no version of the source and no
\* edit is lost, whatever comes back after a loss of power is the version that was
\* resolved or its resolution, and exit code 0 is given only when the conflict
\* cannot come back.
C == INSTANCE ConflictFile WITH
  trusted <- Believed,
  raced   <- \E a \in Appliers : disturbed[a] # {}

ImplementsConflictFile == C!Spec

\* The workflow is never stuck: once the others leave the files alone, a user who
\* goes on whenever the exit code is not 0 gets the conflict resolved, whatever
\* partial workspaces, stale workspaces and doubtful answers there were.
EventuallyResolved == <>[](source \notin Versions)

-------------------------------------------------------------------------------
(* The inductive invariant of the proofs.                                  *)

Contents == Versions \cup Resolved

TypeOK ==
  /\ source \in Contents /\ kept \subseteq Contents
  /\ applyPhase \in [Appliers -> {"idle", "working", "final", "replaced", "durable", "done"}]
  /\ disturbed \in [Appliers -> SUBSET {"window"}]
  /\ answer \in [Appliers -> {"none", "unchanged", "ambiguous", "wrote", "killed"}]
  /\ standing \subseteq Appliers

\* Only an invocation that has ended has an answer.
AnswerInv == \A a \in Appliers : answer[a] # "none" => applyPhase[a] = "done"

\* From the replacement on the source is resolved, whoever replaces it next; from
\* the synchronisation on nothing else can come back.
StandingInv ==
  \A a \in standing :
    /\ applyPhase[a] \in {"replaced", "durable"} \/ answer[a] = "wrote" => source \notin Versions
    /\ applyPhase[a] = "durable" \/ answer[a] = "wrote" => kept \cap Versions = {}

\* A version with a conflict is the only one that a loss of power brings back.
VersionInv == source \in Versions => kept = {source}

IInv == TypeOK /\ AnswerInv /\ StandingInv /\ VersionInv

===============================================================================
