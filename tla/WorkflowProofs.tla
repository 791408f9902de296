----------------------------- MODULE WorkflowProofs -----------------------------
(***************************************************************************)
(* What can be relied on across both commands, for any number of terminals, *)
(* names and versions, and any bounds on interference: an exit code of 0    *)
(* stands, and the two commands keep the promise of ConflictFile.           *)
(***************************************************************************)
EXTENDS Workflow, TLAPS

USE DEF P!None

-------------------------------------------------------------------------------
(***************************************************************************)
(* What may replace the source.                                            *)
(***************************************************************************)
\* What validation accepts is a version of the source with a resolution of it.
LEMMA AcceptedView ==
  ASSUME NEW n, A(n)!View \in Accepts
  PROVE  source \in Versions /\ resolved[n] \in Resolutions[source]
  <1>. DEFINE view == A(n)!View
  <1>1. view["source"] = source /\ view["resolved"] = resolved[n]
    BY DEF A!View, InputsOf
  <1>2. PICK v \in Versions :
          view \in [manifest : {v}, source : {v}, resolved : Resolutions[v]]
    BY DEF Accepts
  <1>3. view["source"] = v /\ view["resolved"] \in Resolutions[v]
    BY <1>2
  <1>. QED  BY <1>1, <1>3

LEMMA AcceptedAreResolved ==
  ASSUME NEW n, NEW d \in A(n)!AcceptedResolutions
  PROVE  d \in Resolved
  <1>1. PICK view \in Accepts : d = view["resolved"]
    BY DEF A!AcceptedResolutions
  <1>2. PICK v \in Versions :
          view \in [manifest : {v}, source : {v}, resolved : Resolutions[v]]
    BY DEF Accepts
  <1>3. d \in Resolutions[v]
    BY <1>1, <1>2
  <1>. QED  BY <1>3 DEF Resolved

LEMMA ResolvedIsNoVersion == Resolved \cap Versions = {}
BY ResolutionsAssumption

\* A replacement makes of a version its resolution, which is all that a loss of
\* power can bring back beside it; but one that was raced can make any resolution
\* of whatever there is.
Replacement(a) ==
  /\ kept' = kept \cup {source'}
  /\ source' \in Resolved
  /\ \/ source \in Versions /\ source' \in Resolutions[source]
     \/ disturbed[a] # {}

\* Nobody touches a temporary file here, so that whatever replaces the source
\* resolves a version of it.
LEMMA ReplacedByResolved ==
  ASSUME TypeOK, NEW a \in Appliers, NEW n, A(n)!Replaced(a)
  PROVE  Replacement(a)
  <1>1. A(n)!MayReplaceBy(a, source') /\ kept' = kept \cup {source'}
    BY DEF A!Replaced
  <1>2. "temp" \notin disturbed[a]
    BY DEF TypeOK
  <1>3. CASE A(n)!View \in Accepts /\ source' = InputsOf(n)["resolved"]
    <2>1. source \in Versions /\ source' \in Resolutions[source]
      BY <1>3, AcceptedView DEF InputsOf
    <2>. QED  BY <1>1, <2>1 DEF Replacement, Resolved
  <1>4. CASE "window" \in disturbed[a] /\ source' \in A(n)!AcceptedResolutions
    BY <1>1, <1>4, AcceptedAreResolved DEF Replacement
  <1>. QED  BY <1>1, <1>2, <1>3, <1>4 DEF A!MayReplaceBy

\* A file is written while others may be in their final phase.
LEMMA DisturbedType ==
  ASSUME TypeOK, NEW n, NEW others, A(n)!Disturb(others)
  PROVE  disturbed' \in [Appliers -> SUBSET {"window"}]
  <1>1. PICK ps : disturbed' = [a \in Appliers |-> IF a \in ps
                                                   THEN disturbed[a] \cup {"window"}
                                                   ELSE disturbed[a]]
    BY DEF A!Disturb
  <1>. QED  BY <1>1 DEF TypeOK

-------------------------------------------------------------------------------
(***************************************************************************)
(* The steps of `apply`.                                                   *)
(***************************************************************************)
\* The invocation a goes on; nothing but a resolution replaces the source, and
\* the others stay where they are.
ApplyEffect(a) ==
  /\ applyPhase' \in [Appliers -> {"idle", "working", "final", "replaced", "durable", "done"}]
  /\ answer' \in [Appliers -> {"none", "unchanged", "ambiguous", "wrote", "killed"}]
  /\ disturbed' \in [Appliers -> SUBSET {"window"}]
  /\ \A b \in Appliers \ {a} : applyPhase'[b] = applyPhase[b] /\ answer'[b] = answer[b]
  /\ applyPhase[a] # "done"
  /\ answer'[a] = answer[a] \/ applyPhase'[a] = "done"
  /\ \/ source' = source /\ kept' \in {kept, {source}}
     \/ Replacement(a) /\ answer'[a] # "wrote"
  /\ applyPhase'[a] = "replaced" => source' \in Resolved
  /\ applyPhase'[a] = "durable" =>
       applyPhase[a] = "replaced" /\ source' = source /\ kept' = {source}
  /\ \/ answer'[a] # "wrote" \/ answer'[a] = answer[a]
     \/ applyPhase[a] = "durable" /\ source' = source /\ kept' = kept

LEMMA ApplyStepEffect ==
  ASSUME TypeOK, AnswerInv, NEW a \in Appliers, NEW n,
         ApplyProceeds(a, n) \/ ApplyFails(a, n)
  PROVE  ApplyEffect(a)
  <1>1. CASE A(n)!BeginFinal(a)
    BY <1>1 DEF A!BeginFinal, A!Enter, ApplyEffect, TypeOK
  <1>2. CASE A(n)!Replace(a)
    <2>1. /\ applyPhase[a] = "final" /\ applyPhase' = [applyPhase EXCEPT ![a] = "replaced"]
          /\ A(n)!Replaced(a) /\ UNCHANGED answer
      BY <1>2 DEF A!Replace, A!Enter
    <2>2. Replacement(a) /\ source' \in Resolved
      BY <2>1, ReplacedByResolved DEF Replacement
    <2>3. disturbed' \in [Appliers -> SUBSET {"window"}]
      BY <2>1, DisturbedType DEF A!Replaced
    <2>4. answer[a] # "wrote"
      BY <2>1 DEF AnswerInv
    <2>. QED  BY <2>1, <2>2, <2>3, <2>4 DEF ApplyEffect, TypeOK
  <1>3. CASE A(n)!Sync(a)
    BY <1>3 DEF A!Sync, A!Enter, ApplyEffect, TypeOK
  <1>4. CASE A(n)!Confirm(a)
    BY <1>4 DEF A!Confirm, A!Enter, A!Answer, ApplyEffect, TypeOK
  <1>5. CASE A(n)!Refuse(a)
    BY <1>5 DEF A!Refuse, A!Enter, A!Answer, ApplyEffect, TypeOK
  <1>6. CASE A(n)!Doubt(a)
    <2>1. /\ applyPhase[a] = "final" /\ applyPhase' = [applyPhase EXCEPT ![a] = "done"]
          /\ answer' = [answer EXCEPT ![a] = "ambiguous"]
      BY <1>6 DEF A!Doubt, A!Enter, A!Answer
    <2>2. CASE A(n)!Replaced(a)
      <3>1. Replacement(a)
        BY <2>2, ReplacedByResolved
      <3>2. disturbed' \in [Appliers -> SUBSET {"window"}]
        BY <2>2, DisturbedType DEF A!Replaced
      <3>. QED  BY <2>1, <3>1, <3>2 DEF ApplyEffect, TypeOK
    <2>3. CASE UNCHANGED <<source, kept, disturbed>>
      BY <2>1, <2>3 DEF ApplyEffect, TypeOK
    <2>. QED  BY <1>6, <2>2, <2>3 DEF A!Doubt
  <1>7. CASE A(n)!SyncFails(a)
    BY <1>7 DEF A!SyncFails, A!Enter, A!Answer, ApplyEffect, TypeOK
  <1>. QED  BY <1>1, <1>2, <1>3, <1>4, <1>5, <1>6, <1>7 DEF ApplyProceeds, ApplyFails

LEMMA ApplyInv ==
  ASSUME IInv, NEW a \in Appliers, Apply(a)
  PROVE  IInv'
  <1>1. ApplyEffect(a)
    BY ApplyStepEffect DEF Apply, IInv
  <1>a. \/ source' = source /\ kept' \in {kept, {source}}
        \/ source' \in Resolved /\ kept' = kept \cup {source'}
    BY <1>1 DEF ApplyEffect, Replacement
  <1>2. standing' = IF source' = source THEN standing ELSE standing \cup {a}
    BY DEF Apply
  <1>3. TypeOK'
    BY <1>1, <1>a, <1>2 DEF ApplyEffect, IInv, TypeOK, Contents
  <1>4. AnswerInv'
    BY <1>1 DEF ApplyEffect, IInv, AnswerInv
  <1>5. ASSUME NEW b \in standing'
        PROVE  /\ applyPhase'[b] \in {"replaced", "durable"} \/ answer'[b] = "wrote" =>
                    source' \notin Versions
               /\ applyPhase'[b] = "durable" \/ answer'[b] = "wrote" =>
                    kept' \cap Versions = {}
    <2>1. b \in Appliers
      BY <1>3, <1>5 DEF TypeOK
    <2>2. CASE b # a
      <3>1. b \in standing /\ applyPhase'[b] = applyPhase[b] /\ answer'[b] = answer[b]
        BY <1>1, <1>2, <2>1, <2>2 DEF ApplyEffect
      <3>. QED  BY <1>a, <3>1, ResolvedIsNoVersion DEF IInv, StandingInv
    <2>3. CASE b = a
      <3>1. answer[a] # "wrote"
        BY <1>1 DEF ApplyEffect, IInv, AnswerInv
      <3>2. source' = source => a \in standing
        BY <1>2, <2>3
      <3>. QED  BY <1>1, <1>a, <2>3, <3>1, <3>2, ResolvedIsNoVersion DEF ApplyEffect, IInv, StandingInv
    <2>. QED  BY <2>2, <2>3
  <1>6. StandingInv'
    BY <1>5 DEF StandingInv
  <1>7. VersionInv'
    BY <1>a, ResolvedIsNoVersion DEF IInv, VersionInv
  <1>. QED  BY <1>3, <1>4, <1>6, <1>7 DEF IInv

-------------------------------------------------------------------------------
(***************************************************************************)
(* Everything else.                                                        *)
(***************************************************************************)
\* `prepare` and the user leave the source and the invocations of `apply` alone.
LEMMA QuietInv ==
  ASSUME IInv, UNCHANGED <<source, kept, applyPhase, answer, standing>>,
         disturbed' \in [Appliers -> SUBSET {"window"}]
  PROVE  IInv'
  <1>1. TypeOK'
    BY DEF IInv, TypeOK, Contents
  <1>2. AnswerInv'
    BY DEF IInv, AnswerInv
  <1>3. StandingInv' /\ VersionInv'
    BY DEF IInv, StandingInv, VersionInv
  <1>. QED  BY <1>1, <1>2, <1>3 DEF IInv

LEMMA FilesChangeEffect ==
  ASSUME TypeOK, NEW n, FilesChange(n)
  PROVE  UNCHANGED <<applyPhase, answer>> /\ disturbed' \in [Appliers -> SUBSET {"window"}]
BY DisturbedType DEF FilesChange, A!Change

LEMMA PrepareInv ==
  ASSUME IInv, NEW p \in Preparers, Prepare(p)
  PROVE  IInv'
  <1>1. UNCHANGED source
    <2>1. PrepareProceeds(p) \/ PrepareFails(p)
      BY DEF Prepare
    <2>. QED
      BY <2>1
      DEF PrepareProceeds, PrepareFails, P!Read, P!Create, P!Publish, P!Confirm, P!Spoil,
          P!Remove, P!Retain, P!Fail, P!Discard
  <1>2. UNCHANGED <<kept, standing>> /\ \E n \in Names : FilesChange(n)
    BY DEF Prepare
  <1>3. UNCHANGED <<applyPhase, answer>> /\ disturbed' \in [Appliers -> SUBSET {"window"}]
    BY <1>2, FilesChangeEffect DEF IInv
  <1>. QED  BY <1>1, <1>2, <1>3, QuietInv

LEMMA UserInv ==
  ASSUME IInv, User
  PROVE  IInv'
  <1>1. ASSUME NEW n \in Names, Resolve(n) \/ TidyUp(n) PROVE IInv'
    <2>1. UNCHANGED <<source, kept, standing>> /\ FilesChange(n)
      BY <1>1 DEF Resolve, TidyUp
    <2>2. UNCHANGED <<applyPhase, answer>> /\ disturbed' \in [Appliers -> SUBSET {"window"}]
      BY <2>1, FilesChangeEffect DEF IInv
    <2>. QED  BY <2>1, <2>2, QuietInv
  <1>2. ASSUME NEW a \in Appliers, NEW n \in Names, StartApply(a, n) PROVE IInv'
    <2>1. /\ applyPhase[a] = "idle" /\ applyPhase' = [applyPhase EXCEPT ![a] = "working"]
          /\ UNCHANGED <<source, kept, disturbed, answer, standing>>
      BY <1>2 DEF StartApply, A!Begin, A!Enter
    <2>2. answer[a] = "none"
      BY <2>1 DEF IInv, AnswerInv
    <2>3. TypeOK'
      BY <2>1 DEF IInv, TypeOK, Contents
    <2>4. AnswerInv'
      BY <2>1, <2>2 DEF IInv, AnswerInv, TypeOK
    <2>5. StandingInv' /\ VersionInv'
      BY <2>1 DEF IInv, StandingInv, TypeOK, VersionInv
    <2>. QED  BY <2>3, <2>4, <2>5 DEF IInv
  <1>3. ASSUME NEW a \in Appliers, ApplyAgain(a) PROVE IInv'
    <2>1. /\ applyPhase' = [applyPhase EXCEPT ![a] = "idle"]
          /\ answer' = [answer EXCEPT ![a] = "none"]
          /\ disturbed' = [disturbed EXCEPT ![a] = {}]
          /\ standing' = standing \ {a} /\ UNCHANGED <<source, kept>>
      BY <1>3 DEF ApplyAgain
    <2>2. TypeOK'
      BY <2>1 DEF IInv, TypeOK, Contents
    <2>3. AnswerInv'
      BY <2>1 DEF IInv, AnswerInv, TypeOK
    <2>4. StandingInv' /\ VersionInv'
      BY <2>1 DEF IInv, StandingInv, TypeOK, VersionInv
    <2>. QED  BY <2>2, <2>3, <2>4 DEF IInv
  <1>4. ASSUME NEW p \in Preparers, PrepareAgain(p) PROVE IInv'
    <2>1. UNCHANGED <<source, applying, standing>>
      BY <1>4 DEF PrepareAgain
    <2>. QED  BY <2>1, QuietInv DEF applying, IInv, TypeOK
  <1>. QED  BY <1>1, <1>2, <1>3, <1>4 DEF User

LEMMA EditSourceInv ==
  ASSUME IInv, EditSource
  PROVE  IInv'
  <1>1. source' \in Contents /\ standing' = {} /\ \E n \in Names : FilesChange(n)
    BY DEF EditSource, Contents
  <1>2. PICK n \in Names : FilesChange(n)
    BY <1>1
  <1>3. UNCHANGED <<applyPhase, answer>> /\ disturbed' \in [Appliers -> SUBSET {"window"}]
    BY <1>2, FilesChangeEffect DEF IInv
  <1>4. kept' = {source'} \/ kept' = kept
    BY <1>2 DEF FilesChange, A!Change
  <1>5. TypeOK'
    BY <1>1, <1>3, <1>4 DEF IInv, TypeOK, Contents
  <1>6. AnswerInv' /\ StandingInv'
    BY <1>1, <1>3 DEF IInv, AnswerInv, StandingInv
  <1>7. VersionInv'
    BY <1>2, <1>4 DEF EditSource, P!EditSource, FilesChange, A!Change, VersionInv
  <1>. QED  BY <1>5, <1>6, <1>7 DEF IInv

\* What has been reported as written survives the loss of power.
LEMMA PowerLossInv ==
  ASSUME IInv, PowerLoss
  PROVE  IInv'
  <1>1. PICK n \in Names : A(n)!Crash
    BY DEF PowerLoss
  <1>2. /\ source' \in kept /\ kept' = {source'}
        /\ applyPhase' = [a \in Appliers |-> IF applyPhase[a] = "idle" THEN "idle" ELSE "done"]
        /\ answer' = [a \in Appliers |-> IF applyPhase[a] \in {"idle", "done"} THEN answer[a]
                                         ELSE "killed"]
        /\ UNCHANGED <<disturbed, standing>>
    BY <1>1 DEF A!Crash, PowerLoss
  <1>3. TypeOK'
    BY <1>2 DEF IInv, TypeOK, Contents
  <1>4. AnswerInv'
    BY <1>2 DEF IInv, AnswerInv
  <1>5. StandingInv' /\ VersionInv'
    BY <1>2 DEF IInv, StandingInv, TypeOK, VersionInv
  <1>. QED  BY <1>3, <1>4, <1>5 DEF IInv

LEMMA EnvironmentInv ==
  ASSUME IInv, Environment
  PROVE  IInv'
  <1>1. ASSUME NEW n \in Names, ChangeOfMind(n) PROVE IInv'
    <2>1. UNCHANGED <<source, kept, standing>> /\ FilesChange(n)
      BY <1>1 DEF ChangeOfMind
    <2>2. UNCHANGED <<applyPhase, answer>> /\ disturbed' \in [Appliers -> SUBSET {"window"}]
      BY <2>1, FilesChangeEffect DEF IInv
    <2>. QED  BY <2>1, <2>2, QuietInv
  <1>2. ASSUME NEW p \in Preparers, KillPrepare(p) PROVE IInv'
    <2>1. UNCHANGED <<source, applying, standing>>
      BY <1>2 DEF KillPrepare, P!Kill
    <2>. QED  BY <2>1, QuietInv DEF applying, IInv, TypeOK
  <1>3. ASSUME NEW a \in Appliers, KillApply(a) PROVE IInv'
    <2>1. /\ applyPhase' = [applyPhase EXCEPT ![a] = "done"]
          /\ answer' = [answer EXCEPT ![a] = "killed"]
          /\ UNCHANGED <<source, kept, disturbed, standing>>
      BY <1>3 DEF KillApply, A!Kill, A!Enter, A!Answer
    <2>2. TypeOK'
      BY <2>1 DEF IInv, TypeOK, Contents
    <2>3. AnswerInv'
      BY <2>1 DEF IInv, AnswerInv, TypeOK
    <2>4. StandingInv' /\ VersionInv'
      BY <2>1 DEF IInv, StandingInv, TypeOK, VersionInv
    <2>. QED  BY <2>2, <2>3, <2>4 DEF IInv
  <1>. QED  BY <1>1, <1>2, <1>3, EditSourceInv, PowerLossInv DEF Environment

-------------------------------------------------------------------------------
(***************************************************************************)
(* The theorems.                                                           *)
(***************************************************************************)
LEMMA InitInv == Init => IInv
  <1>. SUFFICES ASSUME Init PROVE IInv
    OBVIOUS
  <1>1. TypeOK
    BY DEF Init, TypeOK, Contents
  <1>2. AnswerInv /\ StandingInv /\ VersionInv
    BY DEF Init, AnswerInv, StandingInv, VersionInv
  <1>. QED  BY <1>1, <1>2 DEF IInv

LEMMA NextInv == IInv /\ [Next]_vars => IInv'
  <1>. SUFFICES ASSUME IInv, [Next]_vars PROVE IInv'
    OBVIOUS
  <1>1. CASE UNCHANGED vars
    <2>1. UNCHANGED <<source, applying, standing>>
      BY <1>1 DEF vars
    <2>. QED  BY <2>1, QuietInv DEF applying, IInv, TypeOK
  <1>2. CASE Next
    BY <1>2, PrepareInv, ApplyInv, UserInv, EnvironmentInv DEF Next, Jcw
  <1>. QED  BY <1>1, <1>2

\* The invariant of the workflow: which contents can come back, from the
\* replacement of the source to the end of its invocation and beyond.
THEOREM Invariance == Spec => []IInv
  <1>. QED  BY InitInv, NextInv, PTL DEF Spec

\* Exit code 0 of `apply --write` can be relied on for as long as no other program
\* writes the source: losses of power, late invocations of `apply` with older
\* workspaces, and new ones of `prepare` do not bring the conflict back.
THEOREM Reliable == Spec => []SuccessStands
  <1>1. IInv => SuccessStands
    BY DEF IInv, StandingInv, SuccessStands
  <1>. QED  BY <1>1, Invariance, PTL

-------------------------------------------------------------------------------
(***************************************************************************)
(* The promise of ConflictFile: each step is one of its steps, or changes   *)
(* nothing of what it speaks about.                                        *)
(***************************************************************************)
Promised == [C!Next]_<<source, kept, Believed>>

LEMMA QuietPromised ==
  ASSUME UNCHANGED <<source, kept, answer, standing>>
  PROVE  Promised
  <1>1. Believed' = Believed
    BY DEF Believed
  <1>. QED  BY <1>1 DEF Promised

\* The success that is reported is that of a replacement which nobody has
\* overwritten, or of one that has lost the user's trust before.
LEMMA ApplyPromised ==
  ASSUME IInv, NEW a \in Appliers, Apply(a)
  PROVE  Promised
  <1>1. ApplyEffect(a)
    BY ApplyStepEffect DEF Apply, IInv
  <1>2. standing' = IF source' = source THEN standing ELSE standing \cup {a}
    BY DEF Apply
  <1>3. standing \subseteq Appliers /\ answer[a] # "wrote"
    BY <1>1 DEF ApplyEffect, IInv, TypeOK, AnswerInv
  <1>4. ASSUME answer'[a] # "wrote"
        PROVE  Believed' = Believed
    <2>1. \A b \in Appliers : answer'[b] = "wrote" <=> answer[b] = "wrote"
      BY <1>1, <1>3, <1>4 DEF ApplyEffect
    <2>2. \A b : b \in standing' => b \in Appliers
      BY <1>2, <1>3
    <2>3. \A b : b # a => (b \in standing' <=> b \in standing)
      BY <1>2
    <2>. QED  BY <1>3, <1>4, <2>1, <2>2, <2>3 DEF Believed
  <1>5. CASE answer'[a] = "wrote"
    <2>1. applyPhase[a] = "durable" /\ UNCHANGED <<source, kept, standing>>
      BY <1>1, <1>2, <1>3, <1>5 DEF ApplyEffect
    <2>2. CASE a \in standing
      <3>1. source \notin Versions /\ kept \cap Versions = {}
        BY <2>1, <2>2 DEF IInv, StandingInv
      <3>2. Believed' = TRUE
        BY <1>5, <2>1, <2>2 DEF Believed
      <3>3. C!Announce
        BY <2>1, <3>1, <3>2 DEF C!Announce
      <3>. QED  BY <3>3 DEF Promised, C!Next
    <2>3. CASE a \notin standing
      <3>1. \A b \in standing : answer'[b] = answer[b]
        BY <1>1, <1>3, <2>3 DEF ApplyEffect
      <3>2. Believed' = Believed
        BY <2>1, <3>1 DEF Believed
      <3>. QED  BY <2>1, <3>2 DEF Promised
    <2>. QED  BY <2>2, <2>3
  <1>6. CASE answer'[a] # "wrote" /\ source' = source /\ kept' \in {kept, {source}}
    <2>1. Believed' = Believed
      BY <1>4, <1>6
    <2>2. CASE kept' = kept
      BY <1>6, <2>1, <2>2 DEF Promised
    <2>3. CASE kept' = {source}
      <3>1. C!Sync
        BY <1>6, <2>1, <2>3 DEF C!Sync
      <3>. QED  BY <3>1 DEF Promised, C!Next
    <2>. QED  BY <1>6, <2>2, <2>3
  <1>7. CASE answer'[a] # "wrote" /\ Replacement(a)
    <2>1. Believed' = Believed
      BY <1>4, <1>7
    <2>2. CASE source \in Versions /\ source' \in Resolutions[source]
      <3>1. kept = {source}
        BY <2>2 DEF IInv, VersionInv
      <3>2. C!Resolve
        BY <1>7, <2>1, <2>2, <3>1 DEF C!Resolve, Replacement
      <3>. QED  BY <3>2 DEF Promised, C!Next
    <2>3. CASE disturbed[a] # {}
      <3>1. C!Overrun
        BY <1>7, <2>1, <2>3 DEF C!Overrun, Replacement, C!Resolved, Resolved
      <3>. QED  BY <3>1 DEF Promised, C!Next
    <2>. QED  BY <1>7, <2>2, <2>3 DEF Replacement
  <1>. QED  BY <1>1, <1>5, <1>6, <1>7 DEF ApplyEffect

LEMMA PreparePromised ==
  ASSUME IInv, NEW p \in Preparers, Prepare(p)
  PROVE  Promised
  <1>1. PrepareProceeds(p) \/ PrepareFails(p)
    BY DEF Prepare
  <1>2. UNCHANGED source
    BY <1>1
    DEF PrepareProceeds, PrepareFails, P!Read, P!Create, P!Publish, P!Confirm, P!Spoil,
        P!Remove, P!Retain, P!Fail, P!Discard
  <1>3. UNCHANGED <<kept, standing, answer>>
    BY FilesChangeEffect DEF Prepare, IInv
  <1>. QED  BY <1>2, <1>3, QuietPromised

LEMMA UserPromised ==
  ASSUME IInv, User
  PROVE  Promised
  <1>1. ASSUME NEW n \in Names, Resolve(n) \/ TidyUp(n) PROVE Promised
    <2>1. UNCHANGED <<source, kept, standing>> /\ FilesChange(n)
      BY <1>1 DEF Resolve, TidyUp
    <2>. QED  BY <2>1, FilesChangeEffect, QuietPromised DEF IInv
  <1>2. ASSUME NEW a \in Appliers, NEW n \in Names, StartApply(a, n) PROVE Promised
    <2>1. UNCHANGED <<source, kept, answer, standing>>
      BY <1>2 DEF StartApply, A!Begin
    <2>. QED  BY <2>1, QuietPromised
  <1>3. ASSUME NEW a \in Appliers, ApplyAgain(a) PROVE Promised
    <2>1. /\ ~Believed /\ UNCHANGED <<source, kept>> /\ standing' = standing \ {a}
          /\ answer' = [answer EXCEPT ![a] = "none"]
      BY <1>3 DEF ApplyAgain
    <2>2. \A b \in standing' : b \in standing /\ answer'[b] = answer[b]
      BY <2>1 DEF IInv, TypeOK
    <2>3. Believed' = Believed
      BY <2>1, <2>2 DEF Believed
    <2>. QED  BY <2>1, <2>3 DEF Promised
  <1>4. ASSUME NEW p \in Preparers, PrepareAgain(p) PROVE Promised
    <2>1. UNCHANGED <<source, kept, answer, standing>>
      BY <1>4 DEF PrepareAgain, applying
    <2>. QED  BY <2>1, QuietPromised
  <1>. QED  BY <1>1, <1>2, <1>3, <1>4 DEF User

LEMMA EnvironmentPromised ==
  ASSUME IInv, Environment
  PROVE  Promised
  <1>1. ASSUME EditSource PROVE Promised
    <2>1. source' \in Versions \cup Resolved /\ source' # source /\ standing' = {}
      BY <1>1 DEF EditSource, P!EditSource
    <2>2. kept' = {source'}
      BY <1>1, <2>1 DEF EditSource, FilesChange, A!Change
    <2>3. Believed' = FALSE
      BY <2>1 DEF Believed
    <2>4. C!Write
      BY <2>1, <2>2, <2>3 DEF C!Write, C!Resolved, Resolved
    <2>. QED  BY <2>4 DEF Promised, C!Next
  <1>2. ASSUME PowerLoss PROVE Promised
    <2>1. PICK n \in Names : A(n)!Crash
      BY <1>2 DEF PowerLoss
    <2>2. /\ source' \in kept /\ kept' = {source'} /\ UNCHANGED standing
          /\ answer' = [a \in Appliers |-> IF applyPhase[a] \in {"idle", "done"} THEN answer[a]
                                           ELSE "killed"]
      BY <1>2, <2>1 DEF A!Crash, PowerLoss
    <2>3. \A a \in Appliers : answer'[a] = "wrote" <=> answer[a] = "wrote"
      BY <2>2 DEF IInv, AnswerInv
    <2>4. Believed' = Believed
      BY <2>2, <2>3 DEF Believed, IInv, TypeOK
    <2>5. C!PowerLoss
      BY <2>2, <2>4 DEF C!PowerLoss
    <2>. QED  BY <2>5 DEF Promised, C!Next
  <1>3. ASSUME NEW n \in Names, ChangeOfMind(n) PROVE Promised
    <2>1. UNCHANGED <<source, kept, standing>> /\ FilesChange(n)
      BY <1>3 DEF ChangeOfMind
    <2>. QED  BY <2>1, FilesChangeEffect, QuietPromised DEF IInv
  <1>4. ASSUME NEW p \in Preparers, KillPrepare(p) PROVE Promised
    <2>1. UNCHANGED <<source, kept, answer, standing>>
      BY <1>4 DEF KillPrepare, P!Kill, applying
    <2>. QED  BY <2>1, QuietPromised
  <1>5. ASSUME NEW a \in Appliers, KillApply(a) PROVE Promised
    <2>1. /\ applyPhase[a] # "done" /\ answer' = [answer EXCEPT ![a] = "killed"]
          /\ UNCHANGED <<source, kept, standing>>
      BY <1>5 DEF KillApply, A!Kill, A!Answer
    <2>2. \A b \in Appliers : answer'[b] = "wrote" <=> answer[b] = "wrote"
      BY <2>1 DEF IInv, AnswerInv, TypeOK
    <2>3. Believed' = Believed
      BY <2>1, <2>2 DEF Believed, IInv, TypeOK
    <2>. QED  BY <2>1, <2>3 DEF Promised
  <1>. QED  BY <1>1, <1>2, <1>3, <1>4, <1>5 DEF Environment

\* Whatever `prepare`, `apply` and their user do in any number of terminals, with
\* kills, losses of power and other programs between any two steps, is what the
\* whole promises of the one file: no version and no edit is lost outside the
\* admitted window, and no success is reported that a loss of power takes back.
THEOREM Implementation == Spec => ImplementsConflictFile
  <1>1. Init => C!Init
    BY DEF Init, C!Init, Believed
  <1>2. IInv /\ [Next]_vars => [C!Next]_<<source, kept, Believed>>
    <2>. SUFFICES ASSUME IInv, [Next]_vars PROVE Promised
      BY DEF Promised
    <2>1. CASE UNCHANGED vars
      BY <2>1, QuietPromised DEF vars, applying
    <2>2. CASE Next
      BY <2>2, PreparePromised, ApplyPromised, UserPromised, EnvironmentPromised DEF Next, Jcw
    <2>. QED  BY <2>1, <2>2
  <1>. QED  BY <1>1, <1>2, Invariance, PTL DEF Spec, ImplementsConflictFile, C!Spec, C!vars

===============================================================================
