-------------------------- MODULE ApplyInstallProofs --------------------------
(* Theorems about ApplyInstall, for all values of its constants.           *)
EXTENDS ApplyInstall, TLAPS

(***************************************************************************)
(* Types.                                                                  *)
(***************************************************************************)
LEMMA AfterType ==
  ASSUME NEW s, NEW op
  PROVE  After(s, op) \in ControllerStates
BY DEF After, ControllerStates

LEMMA CompleteType ==
  ASSUME TypeOK, NEW p \in Procs, NEW op, Complete(p, op)
  PROVE  ctl' \in [Procs -> ControllerStates]
BY AfterType DEF Complete, TypeOK

LEMMA OrderType ==
  ASSUME NEW k \in 1..4
  PROVE  /\ PassOrder[k] \in Paths /\ SnapshotOrder[k] \in Paths
         /\ Len(PassOrder) = 4 /\ Len(SnapshotOrder) = 4
BY DEF PassOrder, SnapshotOrder, Paths

LEMMA InitType == Init => TypeOK
BY AcceptsAssumption, DataAssumption, InodesAssumption, BoundsAssumption
DEF Init, TypeOK, File, View, NoView, Steps, Results, ControllerStates, Paths

LEMMA ParentType ==
  ASSUME TypeOK
  PROVE  Parent \in Dirs /\ NoView \in View
BY DEF TypeOK, Parent, Paths, File, View, NoView

LEMMA SeenType ==
  ASSUME TypeOK, NEW p \in Procs, NEW x \in Paths, view[p].seen[x] # None
  PROVE  view[p].seen[x] \in File
BY DEF TypeOK, View

LEMMA ReadType ==
  ASSUME TypeOK, NEW p \in Procs, NEW s \in Steps, NEW t \in Steps, Read(p, s, t)
  PROVE  TypeOK'
  <1>. DEFINE x == PassOrder[at[p]]
  <1>1. x \in Paths /\ Len(PassOrder) = 4
    BY OrderType DEF TypeOK
  <1>2. view' \in [Procs -> View]
    <2>1. CASE view' = view
      BY <2>1 DEF TypeOK
    <2>2. CASE view' = [view EXCEPT ![p].seen[x] = files[x]]
      <3>1. files[x] \in File /\ view[p] \in View
        BY <1>1 DEF TypeOK
      <3>2. [view[p] EXCEPT !.seen[x] = files[x]] \in View
        BY <1>1, <3>1 DEF View
      <3>. QED  BY <2>2, <3>2 DEF TypeOK
    <2>. QED  BY <2>1, <2>2 DEF Read
  <1>3. at' \in [Procs -> 1..4]
    <2>1. at[p] < 4 => at[p] + 1 \in 1..4
      BY DEF TypeOK
    <2>2. \/ at' = at
          \/ at[p] < 4 /\ at' = [at EXCEPT ![p] = at[p] + 1]
          \/ at' = [at EXCEPT ![p] = 1]
      BY <1>1 DEF Read
    <2>. QED  BY <2>1, <2>2 DEF TypeOK
  <1>4. pc' \in [Procs -> Steps] /\ result' \in [Procs -> Results]
    BY DEF TypeOK, Read, Finish, Steps, Results
  <1>. QED
    BY <1>2, <1>3, <1>4 DEF TypeOK, Read

LEMMA StartType ==
  ASSUME TypeOK, NEW p \in Procs, Start(p)
  PROVE  TypeOK'
BY DEF TypeOK, Start, Goto, Steps, PassSteps

LEMMA RefusePassType ==
  ASSUME TypeOK, NEW p \in Procs, RefusePass(p)
  PROVE  TypeOK'
BY DEF TypeOK, RefusePass, Finish, Steps, Results

LEMMA Validate1Type ==
  ASSUME TypeOK, NEW p \in Procs, Validate1(p)
  PROVE  TypeOK'
  <1>1. [view[p] EXCEPT !.parent = Parent] \in View
    BY ParentType DEF View, TypeOK
  <1>2. first' \in [Procs -> View]
    BY <1>1 DEF TypeOK, Validate1
  <1>3. view' \in [Procs -> View]
    BY ParentType DEF TypeOK, Validate1
  <1>4. pc' \in [Procs -> Steps] /\ result' \in [Procs -> Results]
    BY DEF TypeOK, Validate1, Finish, Steps, PassSteps, Results
  <1>. QED  BY <1>2, <1>3, <1>4 DEF TypeOK, Validate1

LEMMA Validate2Type ==
  ASSUME TypeOK, NEW p \in Procs, Validate2(p)
  PROVE  TypeOK'
  <1>1. [view[p] EXCEPT !.parent = Parent] \in View
    BY ParentType DEF View, TypeOK
  <1>2. view' \in [Procs -> View]
    BY <1>1 DEF TypeOK, Validate2
  <1>3. pc' \in [Procs -> Steps]
    BY DEF TypeOK, Validate2, Finish, Steps, PreCommitSteps
  <1>4. result' \in [Procs -> Results]
    BY DEF TypeOK, Validate2, Finish, Results
  <1>5. said' \in [Procs -> SUBSET CleanupStatus]
    <2>1. PICK S \in SUBSET CleanupStatus :
            said' = said \/ said' = [said EXCEPT ![p] = S]
      BY DEF Validate2, CleanupStatus
    <2>. QED  BY <2>1 DEF TypeOK
  <1>. QED  BY <1>2, <1>3, <1>4, <1>5 DEF TypeOK, Validate2

LEMMA RefuseInstallType ==
  ASSUME TypeOK, NEW p \in Procs, RefuseInstall(p)
  PROVE  TypeOK'
  <1>1. temp' \in [Procs -> File \cup {None}]
    BY DEF TypeOK, RefuseInstall, Cleanup, Cleanup
  <1>2. said' \in [Procs -> SUBSET CleanupStatus]
    <2>1. PICK S \in SUBSET CleanupStatus : said' = [said EXCEPT ![p] = S]
      BY DEF RefuseInstall, Cleanup, CleanupStatus
    <2>. QED  BY <2>1 DEF TypeOK
  <1>3. pc' \in [Procs -> Steps] /\ result' \in [Procs -> Results]
    BY DEF TypeOK, RefuseInstall, Cleanup, Finish, Steps, Results
  <1>. QED  BY <1>1, <1>2, <1>3 DEF TypeOK, RefuseInstall, Cleanup, Cleanup

LEMMA CheckParentType ==
  ASSUME TypeOK, NEW p \in Procs, NEW s \in Steps, NEW t \in Steps, NEW op,
         CheckParent(p, s, op, t)
  PROVE  TypeOK'
BY CompleteType DEF TypeOK, CheckParent, Goto

LEMMA RecheckInputType ==
  ASSUME TypeOK, NEW p \in Procs, NEW s \in Steps, NEW t \in Steps,
         RecheckInput(p, s, t)
  PROVE  TypeOK'
  <1>1. at' \in [Procs -> 1..4]
    <2>1. Len(SnapshotOrder) = 4
      BY OrderType
    <2>2. at[p] < 4 => at[p] + 1 \in 1..4
      BY DEF TypeOK
    <2>3. \/ at[p] < 4 /\ at' = [at EXCEPT ![p] = at[p] + 1]
          \/ at' = [at EXCEPT ![p] = 1]
      BY <2>1 DEF RecheckInput
    <2>. QED  BY <2>2, <2>3 DEF TypeOK
  <1>2. ctl' \in [Procs -> ControllerStates]
    BY CompleteType DEF TypeOK, RecheckInput
  <1>3. pc' \in [Procs -> Steps]
    BY DEF TypeOK, RecheckInput
  <1>. QED  BY <1>1, <1>2, <1>3 DEF TypeOK, RecheckInput

LEMMA RecheckDestinationType ==
  ASSUME TypeOK, NEW p \in Procs, NEW s \in Steps, NEW t \in Steps,
         RecheckDestination(p, s, t)
  PROVE  TypeOK'
BY CompleteType DEF TypeOK, RecheckDestination, Goto

LEMMA CreateTempType ==
  ASSUME TypeOK, NEW p \in Procs, CreateTemp(p)
  PROVE  TypeOK'
  <1>1. PICK f \in File : /\ temp' = [temp EXCEPT ![p] = f]
                          /\ own' = [own EXCEPT ![p] = f]
    BY ParentType, DataAssumption DEF CreateTemp, NewInode, File
  <1>. QED
    BY <1>1, CompleteType DEF TypeOK, CreateTemp, Goto, Steps, PreCommitSteps

LEMMA ThroughHandleType ==
  ASSUME TypeOK, NEW p \in Procs, NEW f \in File, ThroughHandle(p, f)
  PROVE  /\ own' \in [Procs -> File \cup {None}]
         /\ temp' \in [Procs -> File \cup {None}]
  <1>1. temp[p] # None => [f EXCEPT !.dir = temp[p].dir] \in File
    BY DEF TypeOK, File
  <1>. QED  BY <1>1 DEF TypeOK, ThroughHandle

LEMMA WriteType ==
  ASSUME TypeOK, NEW p \in Procs, ViewInv(p), TempInv(p),
         WriteReplacement(p) \/ CopyMetadata(p) \/ SyncTemp(p)
  PROVE  TypeOK'
  <1>1. pc[p] \in TempSteps \cap InstallSteps
    BY DEF WriteReplacement, CopyMetadata, SyncTemp, Goto, TempSteps, HandleOpen,
           InstallSteps, PreCommitSteps
  <1>2. own[p] \in File
    BY <1>1 DEF TempInv, TypeOK
  <1>3. view[p].seen["resolved"] \in File /\ view[p].seen["source"] \in File
    BY <1>1, SeenType DEF ViewInv, Paths
  <1>4. PICK f \in File : ThroughHandle(p, f)
    BY <1>2, <1>3 DEF WriteReplacement, CopyMetadata, SyncTemp, File
  <1>5. /\ own' \in [Procs -> File \cup {None}]
        /\ temp' \in [Procs -> File \cup {None}]
    BY <1>4, ThroughHandleType
  <1>6. ctl' \in [Procs -> ControllerStates] /\ pc' \in [Procs -> Steps]
    BY CompleteType DEF TypeOK, WriteReplacement, CopyMetadata, SyncTemp, Goto,
                        Steps, PreCommitSteps, RecheckSteps
  <1>. QED
    BY <1>5, <1>6 DEF TypeOK, WriteReplacement, CopyMetadata, SyncTemp

LEMMA CaptureType ==
  ASSUME TypeOK, NEW p \in Procs, TempInv(p), Capture(p)
  PROVE  TypeOK'
  <1>1. own[p] \in File
    BY DEF Capture, Goto, TempInv, TempSteps, HandleOpen, TypeOK
  <1>2. own' \in [Procs -> File \cup {None}]
    BY <1>1, ParentType DEF TypeOK, Capture, File
  <1>3. ctl' \in [Procs -> ControllerStates]
    BY AfterType DEF TypeOK, Capture
  <1>. QED
    BY <1>2, <1>3 DEF TypeOK, Capture, Goto, Steps, PreCommitSteps

LEMMA SyncParentType ==
  ASSUME TypeOK, NEW p \in Procs,
         SyncParentBeforeCommit(p) \/ SyncParentAfterCommit(p)
  PROVE  TypeOK'
  <1>1. disk' \in SUBSET File
    BY DEF TypeOK, SyncParentBeforeCommit, SyncParentAfterCommit, Paths
  <1>2. ctl' \in [Procs -> ControllerStates]
    BY CompleteType DEF SyncParentBeforeCommit, SyncParentAfterCommit
  <1>3. pc' \in [Procs -> Steps]
    BY DEF TypeOK, SyncParentBeforeCommit, SyncParentAfterCommit, Goto, Steps,
           PreCommitSteps, RecheckSteps, FinalSteps, PostCommitSteps
  <1>. QED
    BY <1>1, <1>2, <1>3 DEF TypeOK, SyncParentBeforeCommit, SyncParentAfterCommit

LEMMA FinalRecheckType ==
  ASSUME TypeOK, NEW p \in Procs, RecheckTemp(p) \/ RecheckParent(p)
  PROVE  TypeOK'
BY DEF TypeOK, RecheckTemp, RecheckParent, Goto, Steps, PreCommitSteps,
       RecheckSteps, FinalSteps, ControllerStates

LEMMA RaceType ==
  ASSUME TypeOK, NEW ps, Race(ps)
  PROVE  raced' \in [Procs -> SUBSET {"window", "temp"}]
BY DEF Race, TypeOK

LEMMA ReplaceType ==
  ASSUME TypeOK, NEW p \in Procs, Replace(p)
  PROVE  /\ files' \in [Paths -> File]
         /\ disk' \in SUBSET File
         /\ temp' \in [Procs -> File \cup {None}]
         /\ commit' \in [Procs -> CommitRecord \cup {None}]
         /\ raced' \in [Procs -> SUBSET {"window", "temp"}]
  <1>1. temp[p] \in File /\ files["source"] \in File
    BY DEF TypeOK, Replace, Paths
  <1>2. [x \in Paths |-> files[x].data] \in [Paths -> Data]
    BY DEF TypeOK, File
  <1>. QED
    BY <1>1, <1>2, RaceType DEF TypeOK, Replace, CommitRecord

LEMMA RenameType ==
  ASSUME TypeOK, NEW p \in Procs, Rename(p) \/ RenameUncertain(p)
  PROVE  TypeOK'
  <1>1. CASE Rename(p)
    BY <1>1, ReplaceType, CompleteType
    DEF TypeOK, Rename, Goto, Steps, PostCommitSteps
  <1>2. CASE RenameUncertain(p)
    <2>1. CASE Replace(p)
      BY <1>2, <2>1, ReplaceType
      DEF TypeOK, RenameUncertain, Finish, Steps, Results, ControllerStates
    <2>2. CASE ~Replace(p)
      BY <1>2, <2>2
      DEF TypeOK, RenameUncertain, Finish, Steps, Results, ControllerStates
    <2>. QED  BY <2>1, <2>2
  <1>. QED  BY <1>1, <1>2

LEMMA BoundsType ==
  ASSUME TypeOK
  PROVE  /\ edits < MaxEdits => edits + 1 \in 0..MaxEdits
         /\ losses < MaxLosses => losses + 1 \in 0..MaxLosses
BY BoundsAssumption DEF TypeOK

LEMMA EndType ==
  ASSUME TypeOK, NEW p \in Procs, SyncParentFails(p) \/ CleanupTemp(p) \/ Kill(p)
  PROVE  TypeOK'
  <1>1. CASE SyncParentFails(p)
    BY <1>1 DEF TypeOK, SyncParentFails, Finish, Steps, Results
  <1>2. CASE CleanupTemp(p)
    BY <1>2, CompleteType DEF TypeOK, CleanupTemp, Finish, Steps, Results
  <1>3. CASE Kill(p)
    BY <1>3, BoundsType DEF TypeOK, Kill, Finish, Steps, Results
  <1>. QED  BY <1>1, <1>2, <1>3

LEMMA EditType ==
  ASSUME TypeOK, NEW x \in Paths, Edit(x)
  PROVE  TypeOK'
  <1>1. PICK f \in File : files' = [files EXCEPT ![x] = f]
    <2>1. Contents[x] \in SUBSET Data
      BY ContentAssumption
    <2>2. NewInode \in SUBSET Inodes /\ files[x] \in File
      BY DEF NewInode, TypeOK
    <2>3. PICK d \in Contents[x], m \in Metas, i \in {files[x].ino} \cup NewInode :
            files' = [files EXCEPT ![x] = [files[x] EXCEPT
                        !.data = d, !.meta = m, !.ino = i, !.synced = TRUE]]
      BY DEF Edit
    <2>. QED  BY <2>1, <2>2, <2>3 DEF File
  <1>2. disk' \in SUBSET File
    BY <1>1 DEF Edit, TypeOK
  <1>. QED
    BY <1>1, <1>2, RaceType, BoundsType DEF TypeOK, Edit, process

LEMMA ReplaceParentType ==
  ASSUME TypeOK, ReplaceParent
  PROVE  TypeOK'
  <1>1. PICK f \in File : files' = [files EXCEPT !["source"] = f]
    <2>1. Contents["source"] \in SUBSET Data
      BY ContentAssumption DEF Paths
    <2>2. NewInode \in SUBSET Inodes /\ files["source"] \in File
      BY DEF NewInode, TypeOK, Paths
    <2>3. PICK d \in Contents["source"], i \in NewInode, dir \in Dirs \ {Parent} :
            files' = [files EXCEPT !["source"] = [files["source"] EXCEPT
                        !.data = d, !.ino = i, !.dir = dir, !.synced = TRUE]]
      BY DEF ReplaceParent
    <2>. QED  BY <2>1, <2>2, <2>3 DEF File
  <1>2. disk' \in SUBSET File
    BY <1>1 DEF ReplaceParent, TypeOK, Paths
  <1>. QED
    BY <1>1, <1>2, RaceType, BoundsType DEF TypeOK, ReplaceParent, process

LEMMA TouchTempType ==
  ASSUME TypeOK, NEW p \in Procs, TouchTemp(p)
  PROVE  TypeOK'
  <1>1. /\ temp' \in [Procs -> File \cup {None}]
        /\ own' \in [Procs -> File \cup {None}]
    <2>1. CASE temp' = [temp EXCEPT ![p] = None] /\ own' = own
      BY <2>1 DEF TypeOK
    <2>2. ASSUME NEW f \in File, temp' = [temp EXCEPT ![p] = f],
                 own' = own \/ own' = [own EXCEPT ![p] = f]
          PROVE  <1>1!1 /\ <1>1!2
      BY <2>2 DEF TypeOK
    <2>3. Contents["resolved"] \in SUBSET Data /\ NewInode \in SUBSET Inodes
      BY ContentAssumption DEF Paths, NewInode
    <2>4. temp[p] \in File
      BY DEF TouchTemp, TypeOK
    <2>5. ASSUME NEW d \in Contents["resolved"], NEW m \in Metas,
                 NEW i \in {temp[p].ino} \cup NewInode
          PROVE  [temp[p] EXCEPT !.data = d, !.meta = m, !.ino = i, !.synced = TRUE]
                   \in File
      BY <2>3, <2>4 DEF File
    <2>. QED  BY <2>1, <2>2, <2>5 DEF TouchTemp
  <1>2. raced' \in [Procs -> SUBSET {"window", "temp"}]
    BY DEF TypeOK, TouchTemp
  <1>. QED
    BY <1>1, <1>2, BoundsType DEF TypeOK, TouchTemp

LEMMA PowerLossType ==
  ASSUME TypeOK, PowerLoss
  PROVE  TypeOK'
  <1>1. files' \in [Paths -> File]
    <2>1. PICK f \in disk, lost \in BOOLEAN :
            files' = [files EXCEPT !["source"] =
                        [f EXCEPT !.data = IF lost THEN Torn ELSE @, !.synced = TRUE]]
      BY DEF PowerLoss
    <2>2. f \in File
      BY DEF TypeOK
    <2>3. [f EXCEPT !.data = IF lost THEN Torn ELSE @, !.synced = TRUE] \in File
      BY <2>2, DataAssumption DEF File
    <2>. QED  BY <2>1, <2>3 DEF TypeOK
  <1>2. disk' \in SUBSET File
    BY <1>1 DEF PowerLoss, Paths
  <1>3. temp' \in [Procs -> File \cup {None}]
    BY DEF TypeOK, PowerLoss
  <1>4. pc' \in [Procs -> Steps] /\ result' \in [Procs -> Results]
    BY DEF TypeOK, PowerLoss, Steps, Results
  <1>. QED
    BY <1>1, <1>2, <1>3, <1>4, BoundsType DEF TypeOK, PowerLoss

-------------------------------------------------------------------------------
(***************************************************************************)
(* Steps that change neither the files nor the history.                    *)
(***************************************************************************)
\* Nothing about a process other than p changes.
OthersKeep(p) ==
  \A q \in Procs \ {p} :
    /\ temp'[q] = temp[q] /\ pc'[q] = pc[q] /\ at'[q] = at[q]
    /\ view'[q] = view[q] /\ own'[q] = own[q] /\ ctl'[q] = ctl[q]
    /\ created'[q] = created[q] /\ result'[q] = result[q] /\ said'[q] = said[q]
    /\ commit'[q] = commit[q] /\ raced'[q] = raced[q]

USE DEF Committed

LEMMA Unmoved ==
  ASSUME NEW q \in Procs, ProcessInv(q), UNCHANGED files,
         temp'[q] = temp[q], pc'[q] = pc[q], at'[q] = at[q],
         view'[q] = view[q], own'[q] = own[q], ctl'[q] = ctl[q],
         created'[q] = created[q], result'[q] = result[q], said'[q] = said[q],
         commit'[q] = commit[q], raced'[q] = raced[q]
  PROVE  ProcessInv(q)'
  <1>1. DataOf(q)' = DataOf(q)
    BY DEF DataOf
  <1>2. PositionInv(q)' /\ TempInv(q)' /\ CommitInv(q)'
    BY DEF ProcessInv, PositionInv, TempInv, CommitInv
  <1>3. ViewInv(q)'
    BY <1>1 DEF ProcessInv, ViewInv
  <1>4. ControllerInv(q)'
    BY DEF ProcessInv, ControllerInv
  <1>5. WholeInv(q)'
    BY DEF ProcessInv, WholeInv, Whole
  <1>6. CheckedInv(q)'
    BY DEF ProcessInv, CheckedInv, Same
  <1>7. CommitMatches(q)' /\ ReportTruthful(q)' /\ LeftoverReported(q)'
    BY <1>1 DEF ProcessInv, CommitMatches, ReportTruthful, LeftoverReported, Same
  <1>. QED
    BY <1>2, <1>3, <1>4, <1>5, <1>6, <1>7 DEF ProcessInv

LEMMA QuietStep ==
  ASSUME IInv, TypeOK', NEW p \in Procs, OthersKeep(p), UNCHANGED files,
         disk' \subseteq disk \cup {files["source"]}, ProcessInv(p)'
  PROVE  IInv'
  <1>1. ASSUME NEW q \in Procs, q # p PROVE ProcessInv(q)'
    BY <1>1, Unmoved DEF IInv, OthersKeep
  <1>2. SourceIsWhole'
    BY DEF IInv, SourceIsWhole, Whole
  <1>. QED  BY <1>1, <1>2 DEF IInv

LEMMA EndStep ==
  ASSUME IInv, TypeOK', NEW p \in Procs, OthersKeep(p), UNCHANGED <<files, disk>>,
         pc'[p] = "done", ctl'[p] # "Rejected",
         commit'[p] = commit[p], raced'[p] = raced[p],
         Committed(p) => view'[p] = view[p],
         ~created'[p] => temp'[p] = None,
         ReportTruthful(p)', LeftoverReported(p)'
  PROVE  IInv'
  <1>1. ProcessInv(p)
    BY DEF IInv
  <1>2. PositionInv(p)' /\ TempInv(p)' /\ CommitInv(p)' /\ ControllerInv(p)'
    BY DEF PositionInv, TempInv, CommitInv, ControllerInv, TempSteps, HandleOpen,
           FinalSteps, PostCommitSteps, PassSteps
  <1>3. Committed(p) => DataOf(p)' = DataOf(p)
    BY DEF DataOf
  <1>4. ViewInv(p)'
    BY <1>1, <1>3 DEF ProcessInv, ViewInv, InstallSteps, PreCommitSteps,
                      RecheckSteps, FinalSteps, PostCommitSteps
  <1>5. WholeInv(p)' /\ CheckedInv(p)'
    BY DEF WholeInv, CheckedInv, TempSteps, HandleOpen, FinalSteps
  <1>6. CommitMatches(p)'
    BY <1>1, <1>3 DEF ProcessInv, CommitMatches, Same
  <1>. QED
    BY <1>2, <1>4, <1>5, <1>6, QuietStep DEF ProcessInv

\* The steps at which the temporary file is incomplete.
Filling == {"write", "copy-metadata", "sync-temp"}

LEMMA MoveStep ==
  ASSUME IInv, TypeOK', NEW p \in Procs, OthersKeep(p), UNCHANGED files,
         disk' \subseteq disk \cup {files["source"]},
         pc[p] \in InstallSteps \ Filling, pc'[p] \in InstallSteps \ Filling,
         pc'[p] \in TempSteps <=> pc[p] \in TempSteps,
         pc'[p] \in PostCommitSteps <=> pc[p] \in PostCommitSteps,
         view'[p] = view[p], temp'[p] = temp[p], created'[p] = created[p],
         own[p] # None => own'[p] # None,
         result'[p] = result[p], said'[p] = said[p],
         commit'[p] = commit[p], raced'[p] = raced[p],
         PositionInv(p)', ControllerInv(p)', CheckedInv(p)'
  PROVE  IInv'
  <1>1. ProcessInv(p)
    BY DEF IInv
  <1>2. /\ pc[p] \notin {"read1", "read2", "validate1", "validate2", "done"}
        /\ pc'[p] \notin {"read1", "read2", "validate1", "validate2", "done"}
    BY DEF InstallSteps, PreCommitSteps, RecheckSteps, FinalSteps, PostCommitSteps
  <1>3. DataOf(p)' = DataOf(p)
    BY DEF DataOf
  <1>4. ViewInv(p)'
    BY <1>1, <1>2, <1>3 DEF ProcessInv, ViewInv
  <1>5. TempInv(p)' /\ CommitInv(p)'
    BY <1>1, <1>2 DEF ProcessInv, TempInv, CommitInv
  <1>6. WholeInv(p)'
    BY <1>1 DEF ProcessInv, WholeInv, Whole, Filling
  <1>7. CommitMatches(p)' /\ ReportTruthful(p)' /\ LeftoverReported(p)'
    BY <1>1, <1>2, <1>3 DEF ProcessInv, CommitMatches, ReportTruthful,
                            LeftoverReported, Same
  <1>. QED
    BY <1>4, <1>5, <1>6, <1>7, QuietStep DEF ProcessInv

LEMMA StartStep ==
  ASSUME IInv, NEW p \in Procs, Start(p)
  PROVE  IInv'
  <1>1. TypeOK' /\ OthersKeep(p) /\ ProcessInv(p)
    BY StartType DEF IInv, TypeOK, Start, Goto, OthersKeep
  <1>2. /\ pc[p] = "start" /\ pc'[p] = "read1" /\ UNCHANGED <<files, disk, at, view>>
        /\ UNCHANGED <<own, ctl, created, result, said, commit, raced, temp>>
    BY DEF Start, Goto, IInv, TypeOK
  <1>3. at'[p] = 1 /\ ~Committed(p) /\ ctl[p] = "Ready"
    BY <1>1, <1>2 DEF ProcessInv, PositionInv, CommitInv, ControllerInv,
                      PostCommitSteps
  <1>4. PositionInv(p)' /\ TempInv(p)' /\ CommitInv(p)'
    BY <1>1, <1>2, <1>3 DEF ProcessInv, PositionInv, TempInv, CommitInv, TempSteps,
                            HandleOpen, FinalSteps, PostCommitSteps
  <1>5. ViewInv(p)'
    BY <1>2, <1>3 DEF ViewInv, InstallSteps, PreCommitSteps, RecheckSteps, FinalSteps,
                      PostCommitSteps
  <1>6. ControllerInv(p)'
    BY <1>2, <1>3 DEF ControllerInv, FinalSteps, PostCommitSteps
  <1>7. WholeInv(p)' /\ CheckedInv(p)'
    BY <1>2 DEF WholeInv, CheckedInv, TempSteps, HandleOpen, FinalSteps
  <1>8. CommitMatches(p)' /\ ReportTruthful(p)' /\ LeftoverReported(p)'
    BY <1>1, <1>2, <1>3 DEF ProcessInv, CommitMatches, ReportTruthful, LeftoverReported
  <1>. QED
    BY <1>1, <1>2, <1>4, <1>5, <1>6, <1>7, <1>8, QuietStep DEF ProcessInv

\* Before the installer there is neither a temporary file nor a commit.
LEMMA InPass ==
  ASSUME IInv, NEW p \in Procs, pc[p] \in PassSteps
  PROVE  /\ ctl[p] = "Ready" /\ ~Committed(p) /\ ~created[p] /\ temp[p] = None
         /\ said[p] = {}
  <1>1. ProcessInv(p)
    BY DEF IInv
  <1>. QED
    BY <1>1 DEF ProcessInv, ControllerInv, TempInv, CommitInv, PassSteps, TempSteps,
                HandleOpen, FinalSteps, PostCommitSteps, IInv, TypeOK

\* A pass that ends the invocation.
LEMMA PassEnds ==
  ASSUME IInv, TypeOK', NEW p \in Procs, NEW r \in Results \ {"wrote"},
         pc[p] \in PassSteps, Finish(p, r),
         UNCHANGED <<files, disk, temp, ctl, created, commit, raced>>,
         "completed" \notin said'[p], OthersKeep(p)
  PROVE  IInv'
  <1>1. pc'[p] = "done" /\ result'[p] = r
    BY DEF Finish, IInv, TypeOK
  <1>. QED
    BY <1>1, InPass, EndStep DEF ReportTruthful, LeftoverReported

\* A pass that goes on.
LEMMA PassGoesOn ==
  ASSUME IInv, TypeOK', NEW p \in Procs, OthersKeep(p),
         pc[p] \in PassSteps, pc'[p] \in PassSteps \cup {"prepare-parent"},
         UNCHANGED <<files, disk, temp, own, ctl, created, result, said, commit, raced>>,
         PositionInv(p)', ViewInv(p)'
  PROVE  IInv'
  <1>1. ProcessInv(p)
    BY DEF IInv
  <1>2. pc'[p] \notin TempSteps \cup PostCommitSteps \cup {"done"}
    BY DEF TempSteps, HandleOpen, FinalSteps, PostCommitSteps, PassSteps
  <1>3. TempInv(p)' /\ CommitInv(p)'
    BY <1>2, InPass DEF TempInv, CommitInv
  <1>4. ControllerInv(p)'
    BY InPass DEF ControllerInv, PassSteps, FinalSteps, PostCommitSteps
  <1>5. WholeInv(p)' /\ CheckedInv(p)'
    BY InPass DEF WholeInv, CheckedInv, PassSteps
  <1>6. CommitMatches(p)' /\ ReportTruthful(p)' /\ LeftoverReported(p)'
    BY <1>1, <1>2, InPass DEF ProcessInv, CommitMatches, ReportTruthful, LeftoverReported
  <1>. QED
    BY <1>3, <1>4, <1>5, <1>6, QuietStep DEF ProcessInv

LEMMA ReadStep ==
  ASSUME IInv, NEW p \in Procs, NEW s, NEW t, Read(p, s, t),
         <<s, t>> \in {<<"read1", "validate1">>, <<"read2", "validate2">>}
  PROVE  IInv'
  <1>. DEFINE x == PassOrder[at[p]]
  <1>1. s \in PassSteps /\ t \in PassSteps /\ s \in Steps /\ t \in Steps /\ pc[p] = s
    BY DEF Steps, PassSteps, Read
  <1>2. TypeOK' /\ ProcessInv(p) /\ x \in Paths /\ Len(PassOrder) = 4
    BY <1>1, ReadType, OrderType DEF IInv, TypeOK
  <1>3. OthersKeep(p)
    BY DEF Read, Finish, OthersKeep, IInv, TypeOK
  <1>4. UNCHANGED <<files, disk, temp, own, ctl, created, said, commit, raced>>
    BY DEF Read
  <1>5. CASE Finish(p, "stale-source")
    BY <1>1, <1>2, <1>3, <1>4, <1>5, InPass, PassEnds DEF Results
  <1>6. CASE ~Finish(p, "stale-source")
    <2>1. /\ view' = [view EXCEPT ![p].seen[x] = files[x]] /\ UNCHANGED result
          /\ \/ at[p] < 4 /\ at' = [at EXCEPT ![p] = at[p] + 1] /\ pc' = pc
             \/ at[p] = 4 /\ at' = [at EXCEPT ![p] = 1] /\ pc' = [pc EXCEPT ![p] = t]
      <3>1. at[p] \in 1..4
        BY DEF IInv, TypeOK
      <3>2. /\ view' = [view EXCEPT ![p].seen[x] = files[x]]
            /\ IF at[p] < 4
               THEN at' = [at EXCEPT ![p] = @ + 1] /\ UNCHANGED pc
               ELSE at' = [at EXCEPT ![p] = 1] /\ pc' = [pc EXCEPT ![p] = t]
            /\ UNCHANGED result
        BY <1>2, <1>6 DEF Read
      <3>. QED  BY <3>1, <3>2
    <2>2. view'[p].seen = [view[p].seen EXCEPT ![x] = files[x]]
      BY <2>1, <1>2 DEF IInv, TypeOK, View
    <2>3. files[x] # None
      BY <1>2, NoneAssumption DEF IInv, TypeOK
    <2>4. ASSUME NEW k \in 1..4, k <= at[p]
          PROVE  view'[p].seen[PassOrder[k]] # None
      <3>1. k < at[p] => view[p].seen[PassOrder[k]] # None
        BY <1>1, <1>2 DEF ProcessInv, ViewInv, PassSteps
      <3>. QED
        BY <3>1, <2>2, <2>3, <2>4, <1>2, OrderType DEF IInv, TypeOK, View
    <2>5. CASE at[p] < 4
      <3>1. pc'[p] = s /\ at'[p] = at[p] + 1 /\ at[p] \in 1..4
        BY <2>1, <2>5, <1>1 DEF IInv, TypeOK
      <3>2. PositionInv(p)'
        BY <3>1 DEF PositionInv
      <3>3. ViewInv(p)'
        <4>1. \A k \in 1..4 : k < at'[p] => view'[p].seen[PassOrder[k]] # None
          BY <2>4, <3>1
        <4>. QED
          BY <4>1, <3>1, <1>4, InPass, <1>1
          DEF ViewInv, InstallSteps, PreCommitSteps, RecheckSteps, FinalSteps,
              PostCommitSteps
      <3>. QED
        BY <1>1, <1>2, <1>3, <1>4, <2>1, <3>1, <3>2, <3>3, PassGoesOn
    <2>6. CASE at[p] = 4
      <3>1. pc'[p] = t /\ at'[p] = 1
        BY <2>1, <2>6, <1>1 DEF IInv, TypeOK
      <3>2. PositionInv(p)'
        BY <3>1 DEF PositionInv
      <3>3. ViewInv(p)'
        <4>1. \A y \in Paths : view'[p].seen[y] # None
          <5>1. \A y \in Paths : \E k \in 1..4 : y = PassOrder[k]
            BY DEF Paths, PassOrder
          <5>. QED  BY <5>1, <2>4, <2>6
        <4>. QED
          BY <4>1, <3>1, <1>4, InPass, <1>1
          DEF ViewInv, InstallSteps, PreCommitSteps, RecheckSteps, FinalSteps,
              PostCommitSteps
      <3>. QED
        BY <1>1, <1>2, <1>3, <1>4, <2>1, <3>1, <3>2, <3>3, PassGoesOn
    <2>. QED  BY <2>1, <2>5, <2>6
  <1>. QED
    BY <1>5, <1>6

LEMMA ValidateStep ==
  ASSUME IInv, NEW p \in Procs, RefusePass(p) \/ Validate1(p) \/ Validate2(p)
  PROVE  IInv'
  <1>1. TypeOK' /\ pc[p] \in PassSteps /\ ProcessInv(p) /\ OthersKeep(p)
    <2>1. TypeOK'
      BY RefusePassType, Validate1Type, Validate2Type DEF IInv
    <2>2. OthersKeep(p)
      BY DEF RefusePass, Validate1, Validate2, Finish, OthersKeep, IInv, TypeOK
    <2>. QED  BY <2>1, <2>2 DEF RefusePass, Validate1, Validate2, PassSteps, IInv
  <1>2. UNCHANGED <<files, disk, temp, at, own, ctl, created, commit, raced>>
    BY DEF RefusePass, Validate1, Validate2
  <1>3. CASE Finish(p, "refused") /\ said' = said
    BY <1>1, <1>2, <1>3, InPass, PassEnds DEF Results
  <1>4. CASE Finish(p, "dry-run") /\ said' = said
    BY <1>1, <1>2, <1>4, InPass, PassEnds DEF Results
  <1>5. CASE Finish(p, "nothing-to-write") /\ said' = said
    BY <1>1, <1>2, <1>5, InPass, PassEnds DEF Results
  <1>6. CASE Finish(p, "unsafe-write") /\ said' = [said EXCEPT ![p] = {"not-needed"}]
    <2>1. "completed" \notin said'[p]
      BY <1>6 DEF IInv, TypeOK
    <2>. QED  BY <1>1, <1>2, <1>6, <2>1, PassEnds DEF Results
  <1>7. CASE Validate1(p) /\ pc' = [pc EXCEPT ![p] = "read2"] /\ UNCHANGED result
    <2>1. at'[p] = 1 /\ pc'[p] = "read2" /\ UNCHANGED said
      BY <1>1, <1>2, <1>7 DEF Validate1, ProcessInv, PositionInv, IInv, TypeOK
    <2>2. PositionInv(p)' /\ ViewInv(p)'
      BY <2>1, <1>1, <1>2, InPass
      DEF PositionInv, ViewInv, InstallSteps, PreCommitSteps, RecheckSteps,
          FinalSteps, PostCommitSteps
    <2>. QED
      BY <1>1, <1>2, <1>7, <2>1, <2>2, PassGoesOn DEF PassSteps
  <1>8. CASE /\ Validate2(p) /\ pc' = [pc EXCEPT ![p] = "prepare-parent"]
             /\ UNCHANGED <<result, said>>
    <2>1. at'[p] = 1 /\ pc'[p] = "prepare-parent" /\ DataOf(p) \in Accepts
      BY <1>1, <1>2, <1>8 DEF Validate2, ProcessInv, PositionInv, IInv, TypeOK
    <2>2. \A x \in Paths : view[p].seen[x] # None
      BY <1>1, <1>8 DEF Validate2, ProcessInv, ViewInv
    <2>3. view'[p].seen = view[p].seen
      BY <1>8 DEF Validate2, IInv, TypeOK, View
    <2>4. DataOf(p)' = DataOf(p)
      BY <2>3 DEF DataOf
    <2>5. PositionInv(p)' /\ ViewInv(p)'
      BY <2>1, <2>2, <2>3, <2>4 DEF PositionInv, ViewInv
    <2>. QED
      BY <1>1, <1>2, <1>8, <2>1, <2>5, PassGoesOn
  <1>. QED
    BY <1>3, <1>4, <1>5, <1>6, <1>7, <1>8 DEF RefusePass, Validate1, Validate2

-------------------------------------------------------------------------------
(***************************************************************************)
(* The installer.                                                          *)
(***************************************************************************)
LEMMA RefuseInstallStep ==
  ASSUME IInv, NEW p \in Procs, RefuseInstall(p)
  PROVE  IInv'
  <1>1. TypeOK' /\ ProcessInv(p)
    BY RefuseInstallType DEF IInv
  <1>2. OthersKeep(p)
    BY DEF RefuseInstall, Cleanup, Finish, OthersKeep, IInv, TypeOK
  <1>3. ~Committed(p) /\ ctl[p] # "Rejected" /\ (~created[p] => temp[p] = None)
    BY <1>1 DEF RefuseInstall, Cleanup, ProcessInv, CommitInv, ControllerInv, TempInv,
                PreCommitSteps, RecheckSteps, FinalSteps, PostCommitSteps
  <1>4. /\ UNCHANGED <<files, disk, view, ctl, created, commit, raced>>
        /\ pc'[p] = "done" /\ result'[p] \in {"ambiguous", "unsafe-write"}
    BY DEF RefuseInstall, Cleanup, Finish, IInv, TypeOK
  <1>5. LeftoverReported(p)' /\ (~created'[p] => temp'[p] = None)
    <2>1. CASE ~created[p]
      <3>1. temp'[p] = None /\ created'[p] = created[p]
        BY <1>3, <1>4, <2>1 DEF RefuseInstall, Cleanup
      <3>. QED  BY <3>1, <2>1 DEF LeftoverReported
    <2>2. CASE created[p] /\ temp'[p] = None
      BY <2>2, <1>4 DEF LeftoverReported
    <2>3. CASE created[p] /\ temp'[p] # None
      <3>1. PICK nested \in SUBSET {"not-needed"} :
              said' = [said EXCEPT ![p] = nested \cup {"partial-artifact-remains"}]
        BY <2>3 DEF RefuseInstall, Cleanup, IInv, TypeOK
      <3>2. said'[p] = nested \cup {"partial-artifact-remains"}
        BY <3>1 DEF IInv, TypeOK
      <3>3. /\ "partial-artifact-remains" \in said'[p]
            /\ "completed" \notin said'[p]
        BY <3>2
      <3>. QED  BY <2>3, <3>3, <1>4 DEF LeftoverReported
    <2>. QED  BY <2>1, <2>2, <2>3
  <1>6. ReportTruthful(p)'
    BY <1>3, <1>4 DEF ReportTruthful
  <1>. QED
    BY <1>1, <1>2, <1>3, <1>4, <1>5, <1>6, EndStep

\* What the controller does with each operation of the installer.
LEMMA AfterValues ==
  /\ After("Ready", "PrepareParent") = "ParentPrepared"
  /\ After("ParentPrepared", "RecheckInput") = "InputsRechecked"
  /\ After("InputsRechecked", "RecheckDestination") = "DestinationRechecked"
  /\ After("DestinationRechecked", "RecheckParent") = "ParentRechecked"
  /\ After("ParentRechecked", "CreateTemp") = "TempCreated"
  /\ After("TempCreated", "WriteReplacement") = "ReplacementWritten"
  /\ After("ReplacementWritten", "CopyMetadata") = "MetadataCopied"
  /\ After("MetadataCopied", "SyncTemp") = "TempSynced"
  /\ After("TempSynced", "RecheckInput") = "InputsRechecked"
  /\ After("DestinationRechecked", "RecheckTemp") = "TempRechecked"
  /\ After("TempRechecked", "RecheckParent") = "ParentRechecked"
  /\ After("ParentRechecked", "SyncParentBeforeCommit") = "ParentSyncedBeforeCommit"
  /\ After("TempRechecked", "Rename") = "Committed"
  /\ After("Committed", "SyncParentAfterCommit") = "Committed"
  /\ After("Committed", "CleanupTemp") = "Finished"
BY DEF After

LEMMA EndingStep ==
  ASSUME IInv, NEW p \in Procs, SyncParentFails(p) \/ CleanupTemp(p) \/ Kill(p)
  PROVE  IInv'
  <1>1. TypeOK' /\ ProcessInv(p)
    BY EndType DEF IInv
  <1>2. OthersKeep(p)
    BY DEF SyncParentFails, CleanupTemp, Complete, Kill, Finish, OthersKeep, IInv, TypeOK
  <1>3. /\ UNCHANGED <<files, disk, temp, view, created, said, commit, raced>>
        /\ pc'[p] = "done"
    BY DEF SyncParentFails, CleanupTemp, Kill, Finish, IInv, TypeOK
  <1>4. pc[p] # "done" /\ said[p] = {} /\ (~created[p] => temp[p] = None)
    BY <1>1 DEF SyncParentFails, CleanupTemp, Kill, ProcessInv, TempInv
  <1>5. CASE CleanupTemp(p)
    <2>1. pc[p] = "cleanup-temp" /\ result'[p] = "wrote"
      BY <1>5 DEF CleanupTemp, Finish, IInv, TypeOK
    <2>2. ctl[p] = "Committed" /\ Committed(p) /\ temp[p] = None
      BY <1>1, <2>1 DEF ProcessInv, ControllerInv, CommitInv, TempInv, PostCommitSteps
    <2>3. ctl'[p] = "Finished"
      BY <1>5, <2>2, AfterValues DEF CleanupTemp, Complete, IInv, TypeOK
    <2>4. ReportTruthful(p)' /\ LeftoverReported(p)'
      BY <2>1, <2>2, <1>3, <1>4 DEF ReportTruthful, LeftoverReported
    <2>. QED
      BY <1>1, <1>2, <1>3, <1>4, <2>3, <2>4, EndStep
  <1>6. CASE SyncParentFails(p) \/ Kill(p)
    <2>1. ctl'[p] = ctl[p] /\ result'[p] \in {"ambiguous", "killed"}
      BY <1>6 DEF SyncParentFails, Kill, Finish, IInv, TypeOK
    <2>2. ctl[p] # "Rejected"
      BY <1>1 DEF ProcessInv, ControllerInv
    <2>3. ReportTruthful(p)' /\ LeftoverReported(p)'
      BY <2>1, <1>3, <1>4 DEF ReportTruthful, LeftoverReported
    <2>. QED
      BY <1>1, <1>2, <1>3, <1>4, <2>1, <2>2, <2>3, EndStep
  <1>. QED  BY <1>5, <1>6

\* Outside the lists that are walked, the position is the first.
LEMMA AtOne ==
  ASSUME IInv, NEW p \in Procs,
         pc[p] \notin {"read1", "read2", "inputs1", "inputs2", "inputs3", "done"}
  PROVE  at[p] = 1
BY DEF IInv, ProcessInv, PositionInv

LEMMA CheckParentStep ==
  ASSUME IInv, NEW p \in Procs,
         \/ CheckParent(p, "prepare-parent", "PrepareParent", "inputs1")
         \/ CheckParent(p, "parent1", "RecheckParent", "create-temp")
  PROVE  IInv'
  <1>1. TypeOK' /\ ProcessInv(p)
    BY CheckParentType DEF IInv, Steps, PreCommitSteps, RecheckSteps
  <1>2. OthersKeep(p)
    BY DEF CheckParent, Complete, Goto, OthersKeep, IInv, TypeOK
  <1>3. /\ UNCHANGED <<files, disk, temp, at, view, own, created, result, said, commit, raced>>
        /\ \/ pc[p] = "prepare-parent" /\ pc'[p] = "inputs1"
           \/ pc[p] = "parent1" /\ pc'[p] = "create-temp"
    BY DEF CheckParent, Goto, IInv, TypeOK
  <1>4. PositionInv(p)' /\ CheckedInv(p)'
    BY <1>3, AtOne DEF PositionInv, CheckedInv
  <1>5. ControllerInv(p)'
    <2>1. CASE pc[p] = "prepare-parent"
      <3>1. Complete(p, "PrepareParent") /\ pc'[p] = "inputs1"
        BY <1>3, <2>1 DEF CheckParent, Goto
      <3>2. ctl[p] = "Ready"
        BY <1>1, <2>1 DEF ProcessInv, ControllerInv
      <3>3. ctl'[p] = "ParentPrepared"
        BY <3>1, <3>2, AfterValues DEF Complete, IInv, TypeOK
      <3>. QED  BY <3>1, <3>3 DEF ControllerInv, PassSteps, FinalSteps, PostCommitSteps
    <2>2. CASE pc[p] = "parent1"
      <3>1. Complete(p, "RecheckParent") /\ pc'[p] = "create-temp"
        BY <1>3, <2>2 DEF CheckParent, Goto
      <3>2. ctl[p] = "DestinationRechecked"
        BY <1>1, <2>2 DEF ProcessInv, ControllerInv
      <3>3. ctl'[p] = "ParentRechecked"
        BY <3>1, <3>2, AfterValues DEF Complete, IInv, TypeOK
      <3>. QED  BY <3>1, <3>3 DEF ControllerInv, PassSteps, FinalSteps, PostCommitSteps
    <2>. QED  BY <2>1, <2>2, <1>3
  <1>. QED
    BY <1>1, <1>2, <1>3, <1>4, <1>5, MoveStep
    DEF InstallSteps, PreCommitSteps, RecheckSteps, FinalSteps, PostCommitSteps,
        TempSteps, HandleOpen, Filling

LEMMA RecheckDestinationStep ==
  ASSUME IInv, NEW p \in Procs,
         \/ RecheckDestination(p, "destination1", "parent1")
         \/ RecheckDestination(p, "destination2", "capture")
         \/ RecheckDestination(p, "destination3", "temp3")
  PROVE  IInv'
  <1>1. TypeOK' /\ ProcessInv(p)
    BY RecheckDestinationType DEF IInv, Steps, PreCommitSteps, RecheckSteps, FinalSteps
  <1>2. OthersKeep(p)
    BY DEF RecheckDestination, Complete, Goto, OthersKeep, IInv, TypeOK
  <1>3. /\ UNCHANGED <<files, disk, temp, at, view, own, created, result, said, commit, raced>>
        /\ Same(files["source"], view[p].seen["source"])
        /\ \/ pc[p] = "destination1" /\ pc'[p] = "parent1"
           \/ pc[p] = "destination2" /\ pc'[p] = "capture"
           \/ pc[p] = "destination3" /\ pc'[p] = "temp3"
    BY DEF RecheckDestination, Goto, IInv, TypeOK
  <1>4. PositionInv(p)'
    BY <1>3, AtOne DEF PositionInv
  <1>5. CheckedInv(p)'
    BY <1>1, <1>3 DEF ProcessInv, CheckedInv, Same
  <1>6. ControllerInv(p)'
    <2>1. \/ pc'[p] \in {"parent1", "capture"} /\ ctl'[p] = "DestinationRechecked"
          \/ pc'[p] = "temp3" /\ ctl'[p] = "ParentSyncedBeforeCommit"
      <3>1. CASE pc[p] = "destination3"
        BY <1>1, <1>3, <3>1
        DEF RecheckDestination, Goto, ProcessInv, ControllerInv, FinalSteps
      <3>2. CASE pc[p] # "destination3"
        <4>1. Complete(p, "RecheckDestination")
          BY <1>3, <3>2 DEF RecheckDestination, Goto
        <4>2. ctl[p] = "InputsRechecked"
          BY <1>1, <1>3, <3>2 DEF ProcessInv, ControllerInv
        <4>3. ctl'[p] = "DestinationRechecked"
          BY <4>1, <4>2, AfterValues DEF Complete, IInv, TypeOK
        <4>. QED  BY <4>3, <1>3, <3>2
      <3>. QED  BY <3>1, <3>2
    <2>. QED  BY <2>1 DEF ControllerInv, PassSteps, FinalSteps, PostCommitSteps
  <1>. QED
    BY <1>1, <1>2, <1>3, <1>4, <1>5, <1>6, MoveStep
    DEF InstallSteps, PreCommitSteps, RecheckSteps, FinalSteps, PostCommitSteps,
        TempSteps, HandleOpen, Filling

LEMMA RecheckInputStep ==
  ASSUME IInv, NEW p \in Procs,
         \/ RecheckInput(p, "inputs1", "destination1")
         \/ RecheckInput(p, "inputs2", "destination2")
         \/ RecheckInput(p, "inputs3", "destination3")
  PROVE  IInv'
  <1>1. TypeOK' /\ ProcessInv(p)
    BY RecheckInputType DEF IInv, Steps, PreCommitSteps, RecheckSteps, FinalSteps
  <1>2. OthersKeep(p)
    BY DEF RecheckInput, Complete, OthersKeep, IInv, TypeOK
  <1>3. /\ UNCHANGED <<files, disk, temp, view, own, created, result, said, commit, raced>>
        /\ Same(files[SnapshotOrder[at[p]]], view[p].seen[SnapshotOrder[at[p]]])
    BY DEF RecheckInput
  <1>4. /\ at[p] \in 1..4
        /\ \/ pc[p] = "inputs1" /\ pc'[p] \in {"inputs1", "destination1"}
           \/ pc[p] = "inputs2" /\ pc'[p] \in {"inputs2", "destination2"}
           \/ pc[p] = "inputs3" /\ pc'[p] \in {"inputs3", "destination3"}
        /\ \/ pc'[p] = pc[p] /\ at'[p] = at[p] + 1 /\ ctl'[p] = ctl[p]
           \/ pc'[p] # pc[p] /\ at'[p] = 1 /\ at[p] = 4
    <2>1. at[p] \in 1..4 /\ Len(SnapshotOrder) = 4
      BY OrderType DEF IInv, TypeOK
    <2>2. PICK s, t :
            /\ \/ s = "inputs1" /\ t = "destination1"
               \/ s = "inputs2" /\ t = "destination2"
               \/ s = "inputs3" /\ t = "destination3"
            /\ RecheckInput(p, s, t)
      OBVIOUS
    <2>3. CASE at[p] < 4
      <3>1. at' = [at EXCEPT ![p] = at[p] + 1] /\ UNCHANGED <<pc, ctl>> /\ pc[p] = s
        BY <2>1, <2>2, <2>3 DEF RecheckInput
      <3>2. at'[p] = at[p] + 1
        BY <3>1 DEF IInv, TypeOK
      <3>. QED  BY <2>1, <2>2, <3>1, <3>2
    <2>4. CASE at[p] = 4
      <3>1. at' = [at EXCEPT ![p] = 1] /\ pc' = [pc EXCEPT ![p] = t] /\ pc[p] = s
        BY <2>1, <2>2, <2>4 DEF RecheckInput
      <3>2. at'[p] = 1 /\ pc'[p] = t
        BY <3>1 DEF IInv, TypeOK
      <3>. QED  BY <2>1, <2>2, <2>4, <3>1, <3>2
    <2>. QED  BY <2>1, <2>3, <2>4
  <1>5. PositionInv(p)'
    BY <1>4 DEF PositionInv
  <1>6. CheckedInv(p)'
    <2>. SUFFICES ASSUME "window" \notin raced[p], pc[p] = "inputs3"
                  PROVE  CheckedInv(p)'
      BY <1>3, <1>4 DEF CheckedInv
    <2>1. ASSUME NEW k \in 1..4, k <= at[p], SnapshotOrder[k] # "source"
          PROVE  Same(files[SnapshotOrder[k]], view[p].seen[SnapshotOrder[k]])
      BY <1>1, <1>3, <1>4, <2>1 DEF ProcessInv, CheckedInv
    <2>2. CASE pc'[p] = "inputs3"
      <3>1. at'[p] = at[p] + 1 /\ at[p] \in 1..4
        BY <1>4, <2>2
      <3>2. \A k \in 1..4 : k < at'[p] => k <= at[p]
        BY <3>1
      <3>3. ASSUME NEW k \in 1..4, k < at'[p] /\ SnapshotOrder[k] # "source"
            PROVE  Same(files'[SnapshotOrder[k]], view'[p].seen[SnapshotOrder[k]])
        <4>1. Same(files[SnapshotOrder[k]], view[p].seen[SnapshotOrder[k]])
          BY <2>1, <3>2, <3>3
        <4>. QED  BY <1>3, <4>1
      <3>. QED  BY <2>2, <3>3 DEF CheckedInv, Same
    <2>3. CASE pc'[p] = "destination3"
      <3>1. \A x \in Paths : \E k \in 1..4 : x = SnapshotOrder[k]
        BY DEF Paths, SnapshotOrder
      <3>2. \A x \in Paths \ {"source"} : Same(files[x], view[p].seen[x])
        BY <3>1, <2>1, <2>3, <1>4
      <3>. QED  BY <1>3, <2>3, <3>2 DEF CheckedInv, Same
    <2>. QED  BY <2>2, <2>3, <1>4
  <1>7. ControllerInv(p)'
    <2>1. CASE pc'[p] = pc[p]
      BY <1>1, <1>4, <2>1 DEF ProcessInv, ControllerInv
    <2>2. CASE pc'[p] # pc[p]
      <3>1. \/ pc'[p] \in {"destination1", "destination2"} /\ ctl'[p] = "InputsRechecked"
            \/ pc'[p] = "destination3" /\ ctl'[p] = "ParentSyncedBeforeCommit"
        <4>1. CASE pc[p] = "inputs3"
          BY <1>1, <1>4, <2>2, <4>1, OrderType
          DEF RecheckInput, ProcessInv, ControllerInv, FinalSteps
        <4>2. CASE pc[p] # "inputs3"
          <5>1. Complete(p, "RecheckInput")
            BY <1>4, <2>2, <4>2, OrderType DEF RecheckInput
          <5>2. ctl[p] \in {"ParentPrepared", "TempSynced"}
            BY <1>1, <1>4, <4>2 DEF ProcessInv, ControllerInv
          <5>. QED
            BY <5>1, <5>2, <1>4, <2>2, <4>2, AfterValues DEF Complete, IInv, TypeOK
        <4>. QED  BY <4>1, <4>2
      <3>. QED  BY <3>1 DEF ControllerInv, PassSteps, FinalSteps, PostCommitSteps
    <2>. QED  BY <2>1, <2>2
  <1>. QED
    BY <1>1, <1>2, <1>3, <1>4, <1>5, <1>6, <1>7, MoveStep
    DEF InstallSteps, PreCommitSteps, RecheckSteps, FinalSteps, PostCommitSteps,
        TempSteps, HandleOpen, Filling

\* A step that creates or fills the temporary file.
LEMMA FillStep ==
  ASSUME IInv, TypeOK', NEW p \in Procs, OthersKeep(p),
         UNCHANGED <<files, disk, at, view, result, said, commit, raced>>,
         pc[p] \in Filling \cup {"create-temp"}, pc'[p] \in Filling \cup {"inputs2"},
         created'[p], own'[p] # None, ControllerInv(p)', WholeInv(p)'
  PROVE  IInv'
  <1>1. ProcessInv(p) /\ at'[p] = 1
    BY AtOne DEF IInv, Filling
  <1>2. /\ pc[p] \in InstallSteps /\ pc'[p] \in TempSteps
        /\ pc[p] \notin PostCommitSteps \cup {"done"}
        /\ pc'[p] \notin PostCommitSteps \cup {"done"}
    BY DEF Filling, InstallSteps, PreCommitSteps, RecheckSteps, FinalSteps, TempSteps,
           HandleOpen, PostCommitSteps
  <1>3. ~Committed(p) /\ said[p] = {} /\ DataOf(p)' = DataOf(p)
    BY <1>1, <1>2 DEF ProcessInv, CommitInv, TempInv, DataOf
  <1>4. PositionInv(p)' /\ TempInv(p)' /\ CommitInv(p)'
    BY <1>1, <1>2, <1>3 DEF PositionInv, TempInv, CommitInv
  <1>5. ViewInv(p)'
    BY <1>1, <1>2, <1>3 DEF ProcessInv, ViewInv, Filling
  <1>6. CheckedInv(p)' /\ CommitMatches(p)' /\ ReportTruthful(p)' /\ LeftoverReported(p)'
    BY <1>1, <1>2, <1>3 DEF ProcessInv, CheckedInv, Filling, CommitMatches,
                            ReportTruthful, LeftoverReported
  <1>. QED
    BY <1>4, <1>5, <1>6, QuietStep DEF ProcessInv

LEMMA CreateTempStep ==
  ASSUME IInv, NEW p \in Procs, CreateTemp(p)
  PROVE  IInv'
  <1>1. TypeOK' /\ ProcessInv(p)
    BY CreateTempType DEF IInv
  <1>2. OthersKeep(p)
    BY DEF CreateTemp, Complete, Goto, OthersKeep, IInv, TypeOK
  <1>3. /\ UNCHANGED <<files, disk, at, view, result, said, commit, raced>>
        /\ pc[p] = "create-temp" /\ pc'[p] = "write" /\ created'[p]
    BY DEF CreateTemp, Goto, IInv, TypeOK
  <1>4. PICK f \in File : /\ temp' = [temp EXCEPT ![p] = f]
                          /\ own' = [own EXCEPT ![p] = f]
    BY ParentType, DataAssumption DEF CreateTemp, NewInode, File, IInv, TypeOK
  <1>5. own'[p] # None /\ temp'[p].ino = own'[p].ino
    BY <1>4, NoneAssumption DEF IInv, TypeOK
  <1>6. WholeInv(p)'
    BY <1>3, <1>5 DEF WholeInv, TempSteps, HandleOpen, FinalSteps
  <1>7. ctl'[p] = "TempCreated"
    <2>1. Complete(p, "CreateTemp") /\ ctl[p] = "ParentRechecked"
      BY <1>1, <1>3 DEF CreateTemp, ProcessInv, ControllerInv
    <2>. QED  BY <2>1, AfterValues DEF Complete, IInv, TypeOK
  <1>8. ControllerInv(p)'
    BY <1>3, <1>7 DEF ControllerInv, PassSteps, FinalSteps, PostCommitSteps
  <1>. QED
    BY <1>1, <1>2, <1>3, <1>5, <1>6, <1>8, FillStep DEF Filling

LEMMA WriteStep ==
  ASSUME IInv, NEW p \in Procs, WriteReplacement(p) \/ CopyMetadata(p) \/ SyncTemp(p)
  PROVE  IInv'
  <1>1. TypeOK' /\ ProcessInv(p)
    BY WriteType DEF IInv, ProcessInv
  <1>2. OthersKeep(p)
    BY DEF WriteReplacement, CopyMetadata, SyncTemp, ThroughHandle, Complete, Goto,
           OthersKeep, IInv, TypeOK
  <1>3. /\ UNCHANGED <<files, disk, at, view, created, result, said, commit, raced>>
        /\ \/ pc[p] = "write" /\ pc'[p] = "copy-metadata"
           \/ pc[p] = "copy-metadata" /\ pc'[p] = "sync-temp"
           \/ pc[p] = "sync-temp" /\ pc'[p] = "inputs2"
    BY DEF WriteReplacement, CopyMetadata, SyncTemp, Goto, IInv, TypeOK
  <1>4. /\ own[p] \in File /\ created[p]
        /\ view[p].seen["resolved"] \in File /\ view[p].seen["source"] \in File
        /\ DataOf(p) \in Accepts
    <2>1. pc[p] \in TempSteps \cap InstallSteps
      BY <1>3 DEF TempSteps, HandleOpen, InstallSteps, PreCommitSteps
    <2>. QED
      BY <1>1, <2>1, SeenType DEF ProcessInv, TempInv, ViewInv, IInv, TypeOK, Paths
  <1>5. view[p].seen["resolved"].data \notin {Empty, Torn}
    BY <1>4, AcceptsAssumption DEF DataOf, Paths
  <1>6. PICK f \in File :
          /\ ThroughHandle(p, f) /\ f.ino = own[p].ino
          /\ pc[p] = "write" => f.data \notin {Empty, Torn}
          /\ pc[p] # "write" => f.data = own[p].data
          /\ pc[p] = "sync-temp" => f.synced
    <2>1. CASE WriteReplacement(p)
      BY <2>1, <1>4, <1>5 DEF WriteReplacement, Goto, File
    <2>2. CASE CopyMetadata(p)
      BY <2>2, <1>4 DEF CopyMetadata, Goto, File
    <2>3. CASE SyncTemp(p)
      <3>. DEFINE g == [own[p] EXCEPT !.synced = TRUE]
      <3>1. g \in File /\ g.ino = own[p].ino /\ g.data = own[p].data
        BY <1>4 DEF File
      <3>2. g.synced = TRUE
        BY <1>4 DEF File
      <3>3. g.synced
        BY <3>2
      <3>4. ThroughHandle(p, g) /\ pc[p] = "sync-temp"
        BY <2>3 DEF SyncTemp, Goto
      <3>. HIDE DEF g
      <3>. QED  BY <3>1, <3>3, <3>4
    <2>. QED  BY <2>1, <2>2, <2>3
  <1>7. /\ own'[p] = f
        /\ temp'[p] = IF temp[p] # None /\ temp[p].ino = own[p].ino
                      THEN [f EXCEPT !.dir = temp[p].dir] ELSE temp[p]
    BY <1>6 DEF ThroughHandle, IInv, TypeOK
  <1>8. f.data \notin {Empty, Torn}
    BY <1>1, <1>3, <1>6 DEF ProcessInv, WholeInv
  <1>9. WholeInv(p)'
    <2>1. CASE temp[p] # None /\ temp[p].ino = own[p].ino
      <3>1. temp'[p] = [f EXCEPT !.dir = temp[p].dir]
        BY <1>7, <2>1
      <3>2. temp'[p].ino = own'[p].ino /\ temp'[p].data = f.data /\ temp'[p].synced = f.synced
        BY <1>7, <3>1 DEF File
      <3>. QED
        BY <1>3, <1>6, <1>7, <1>8, <3>2
        DEF WholeInv, Whole, TempSteps, HandleOpen, FinalSteps
    <2>2. CASE ~(temp[p] # None /\ temp[p].ino = own[p].ino)
      <3>1. temp'[p] = temp[p] /\ (temp[p] # None => Whole(temp[p]))
        BY <1>1, <1>3, <1>7, <2>2 DEF ProcessInv, WholeInv
      <3>. QED
        BY <1>3, <1>7, <1>8, <3>1 DEF WholeInv, Whole
    <2>. QED  BY <2>1, <2>2
  <1>10. ControllerInv(p)'
    <2>1. CASE WriteReplacement(p)
      <3>1. Complete(p, "WriteReplacement") /\ pc'[p] = "copy-metadata" /\ pc[p] = "write"
        BY <1>3, <2>1 DEF WriteReplacement, Goto
      <3>2. ctl'[p] = "ReplacementWritten"
        BY <3>1, <1>1, AfterValues DEF Complete, ProcessInv, ControllerInv, IInv, TypeOK
      <3>. QED  BY <3>1, <3>2 DEF ControllerInv, PassSteps, FinalSteps, PostCommitSteps
    <2>2. CASE CopyMetadata(p)
      <3>1. Complete(p, "CopyMetadata") /\ pc'[p] = "sync-temp" /\ pc[p] = "copy-metadata"
        BY <1>3, <2>2 DEF CopyMetadata, Goto
      <3>2. ctl'[p] = "MetadataCopied"
        BY <3>1, <1>1, AfterValues DEF Complete, ProcessInv, ControllerInv, IInv, TypeOK
      <3>. QED  BY <3>1, <3>2 DEF ControllerInv, PassSteps, FinalSteps, PostCommitSteps
    <2>3. CASE SyncTemp(p)
      <3>1. Complete(p, "SyncTemp") /\ pc'[p] = "inputs2" /\ pc[p] = "sync-temp"
        BY <1>3, <2>3 DEF SyncTemp, Goto
      <3>2. ctl'[p] = "TempSynced"
        BY <3>1, <1>1, AfterValues DEF Complete, ProcessInv, ControllerInv, IInv, TypeOK
      <3>. QED  BY <3>1, <3>2 DEF ControllerInv, PassSteps, FinalSteps, PostCommitSteps
    <2>. QED  BY <2>1, <2>2, <2>3
  <1>. QED
    BY <1>1, <1>2, <1>3, <1>4, <1>7, <1>9, <1>10, NoneAssumption, FillStep DEF Filling

\* The steps between the synced temporary file and the rename, and after it.
LEMMA CaptureStep ==
  ASSUME IInv, NEW p \in Procs, Capture(p)
  PROVE  IInv'
  <1>1. TypeOK' /\ ProcessInv(p)
    BY CaptureType DEF IInv, ProcessInv
  <1>2. OthersKeep(p)
    BY DEF Capture, Goto, OthersKeep, IInv, TypeOK
  <1>3. /\ UNCHANGED <<files, disk, temp, at, view, created, result, said, commit, raced>>
        /\ pc[p] = "capture" /\ pc'[p] = "sync-parent"
    BY DEF Capture, Goto, IInv, TypeOK
  <1>4. PositionInv(p)' /\ CheckedInv(p)'
    BY <1>3, AtOne DEF PositionInv, CheckedInv
  <1>5. own'[p] # None
    <2>1. own[p] \in File
      BY <1>1, <1>3 DEF ProcessInv, TempInv, TempSteps, HandleOpen, IInv, TypeOK
    <2>2. own'[p] = [own[p] EXCEPT !.dir = Parent]
      BY DEF Capture, IInv, TypeOK
    <2>3. own'[p] \in File
      BY <2>1, <2>2, ParentType DEF File, IInv
    <2>. QED  BY <2>3, NoneAssumption
  <1>6. ControllerInv(p)'
    <2>1. ctl[p] = "DestinationRechecked"
      BY <1>1, <1>3 DEF ProcessInv, ControllerInv
    <2>2. ctl'[p] = "ParentRechecked"
      BY <2>1, AfterValues DEF Capture, IInv, TypeOK
    <2>. QED  BY <1>3, <2>2 DEF ControllerInv, PassSteps, FinalSteps, PostCommitSteps
  <1>. QED
    BY <1>1, <1>2, <1>3, <1>4, <1>5, <1>6, MoveStep
    DEF InstallSteps, PreCommitSteps, RecheckSteps, FinalSteps, PostCommitSteps,
        TempSteps, HandleOpen, Filling

LEMMA SyncParentStep ==
  ASSUME IInv, NEW p \in Procs, SyncParentBeforeCommit(p) \/ SyncParentAfterCommit(p)
  PROVE  IInv'
  <1>1. TypeOK' /\ ProcessInv(p)
    BY SyncParentType DEF IInv
  <1>2. OthersKeep(p)
    BY DEF SyncParentBeforeCommit, SyncParentAfterCommit, Complete, Goto, OthersKeep,
           IInv, TypeOK
  <1>3. /\ UNCHANGED <<files, temp, at, view, own, created, result, said, commit, raced>>
        /\ disk' = {files["source"]}
        /\ \/ pc[p] = "sync-parent" /\ pc'[p] = "inputs3"
           \/ pc[p] = "sync-parent-after" /\ pc'[p] = "cleanup-temp"
    BY DEF SyncParentBeforeCommit, SyncParentAfterCommit, Goto, IInv, TypeOK
  <1>4. PositionInv(p)' /\ CheckedInv(p)'
    <2>1. at'[p] = 1
      BY <1>3, AtOne
    <2>2. \A k \in 1..4 : ~(k < 1)
      OBVIOUS
    <2>. QED  BY <1>3, <2>1, <2>2 DEF PositionInv, CheckedInv
  <1>5. ControllerInv(p)'
    <2>1. CASE SyncParentBeforeCommit(p)
      <3>1. /\ Complete(p, "SyncParentBeforeCommit")
            /\ pc[p] = "sync-parent" /\ pc'[p] = "inputs3"
        BY <1>3, <2>1 DEF SyncParentBeforeCommit, Goto
      <3>2. ctl'[p] = "ParentSyncedBeforeCommit"
        BY <3>1, <1>1, AfterValues DEF Complete, ProcessInv, ControllerInv, IInv, TypeOK
      <3>. QED  BY <3>1, <3>2 DEF ControllerInv, PassSteps, FinalSteps, PostCommitSteps
    <2>2. CASE SyncParentAfterCommit(p)
      <3>1. /\ Complete(p, "SyncParentAfterCommit")
            /\ pc[p] = "sync-parent-after" /\ pc'[p] = "cleanup-temp"
        BY <1>3, <2>2 DEF SyncParentAfterCommit, Goto
      <3>2. ctl'[p] = "Committed"
        BY <3>1, <1>1, AfterValues
        DEF Complete, ProcessInv, ControllerInv, PostCommitSteps, IInv, TypeOK
      <3>. QED  BY <3>1, <3>2 DEF ControllerInv, PassSteps, FinalSteps, PostCommitSteps
    <2>. QED  BY <2>1, <2>2
  <1>. QED
    BY <1>1, <1>2, <1>3, <1>4, <1>5, MoveStep
    DEF InstallSteps, PreCommitSteps, RecheckSteps, FinalSteps, PostCommitSteps,
        TempSteps, HandleOpen, Filling

LEMMA FinalRecheckStep ==
  ASSUME IInv, NEW p \in Procs, RecheckTemp(p) \/ RecheckParent(p)
  PROVE  IInv'
  <1>1. TypeOK' /\ ProcessInv(p)
    BY FinalRecheckType DEF IInv
  <1>2. OthersKeep(p)
    BY DEF RecheckTemp, RecheckParent, Goto, OthersKeep, IInv, TypeOK
  <1>3. /\ UNCHANGED <<files, disk, temp, at, view, own, created, result, said, commit, raced>>
        /\ \/ pc[p] = "temp3" /\ pc'[p] = "parent3"
           \/ pc[p] = "parent3" /\ pc'[p] = "rename"
    BY DEF RecheckTemp, RecheckParent, Goto, IInv, TypeOK
  <1>4. PositionInv(p)'
    BY <1>3, AtOne DEF PositionInv
  <1>5. CheckedInv(p)'
    <2>1. CASE RecheckTemp(p)
      <3>1. own[p] \in File
        BY <1>1, <2>1 DEF RecheckTemp, Goto, ProcessInv, TempInv, TempSteps, FinalSteps,
                          IInv, TypeOK
      <3>2. temp[p] # None /\ temp[p].data = view[p].seen["resolved"].data
        BY <2>1, <3>1 DEF RecheckTemp, Same, File
      <3>3. pc[p] = "temp3" /\ pc'[p] = "parent3"
        BY <1>3, <2>1 DEF RecheckTemp, Goto
      <3>. QED  BY <1>1, <1>3, <3>2, <3>3 DEF ProcessInv, CheckedInv, Same
    <2>2. CASE RecheckParent(p)
      <3>1. pc[p] = "parent3" /\ pc'[p] = "rename"
        BY <1>3, <2>2 DEF RecheckParent, Goto
      <3>. QED  BY <1>1, <1>3, <3>1 DEF ProcessInv, CheckedInv, Same
    <2>. QED  BY <2>1, <2>2
  <1>6. ControllerInv(p)'
    <2>1. CASE RecheckTemp(p)
      <3>1. pc[p] = "temp3" /\ pc'[p] = "parent3" /\ ctl' = ctl
        BY <1>3, <2>1 DEF RecheckTemp, Goto
      <3>. QED
        BY <3>1, <1>1 DEF ProcessInv, ControllerInv, PassSteps, FinalSteps, PostCommitSteps
    <2>2. CASE RecheckParent(p)
      <3>1. pc[p] = "parent3" /\ pc'[p] = "rename"
        BY <1>3, <2>2 DEF RecheckParent, Goto
      <3>2. ctl[p] = "ParentSyncedBeforeCommit"
        BY <3>1, <1>1 DEF ProcessInv, ControllerInv, FinalSteps
      <3>3. ctl'[p] = "TempRechecked"
        BY <2>2, <3>2 DEF RecheckParent, IInv, TypeOK
      <3>. QED  BY <3>1, <3>3 DEF ControllerInv, PassSteps, FinalSteps, PostCommitSteps
    <2>. QED  BY <2>1, <2>2
  <1>. QED
    BY <1>1, <1>2, <1>3, <1>4, <1>5, <1>6, MoveStep
    DEF InstallSteps, PreCommitSteps, RecheckSteps, FinalSteps, PostCommitSteps,
        TempSteps, HandleOpen, Filling

-------------------------------------------------------------------------------
(***************************************************************************)
(* Steps that change a file: the rename, and everything other programs and *)
(* the machine do.                                                         *)
(***************************************************************************)
LEMMA UnwatchedMembers ==
  ASSUME TypeOK, NEW q \in Procs, NEW x \in Paths
  PROVE  /\ x = "source" /\ pc[q] \in {"temp3", "parent3", "rename"} => q \in Unwatched(x)
         /\ x # "source" /\ pc[q] \in {"destination3", "temp3", "parent3", "rename"} =>
              q \in Unwatched(x)
         /\ \A k \in 1..4 :
              /\ x # "source" /\ pc[q] = "inputs3" /\ k < at[q] /\ SnapshotOrder[k] = x
              => q \in Unwatched(x)
  <1>1. x # "parent"
    BY DEF Paths
  <1>2. CASE x = "source"
    BY <1>2 DEF Unwatched
  <1>3. CASE x # "source"
    <2>1. Unwatched(x) =
            {p \in Procs : \/ pc[p] \in {"destination3", "temp3", "parent3", "rename"}
                           \/ /\ pc[p] = "inputs3"
                              /\ \E k \in 1..(at[p] - 1) : SnapshotOrder[k] = x}
      BY <1>1, <1>3 DEF Unwatched
    <2>2. ASSUME NEW k \in 1..4, k < at[q]
          PROVE  k \in 1..(at[q] - 1)
      <3>1. at[q] \in 1..4
        BY DEF TypeOK
      <3>. QED  BY <3>1, <2>2
    <2>. QED  BY <1>3, <2>1, <2>2
  <1>. QED  BY <1>2, <1>3

\* A process that does not move keeps its invariant when files change, provided
\* that a change after its last check is recorded as a race.
LEMMA Disturbed ==
  ASSUME TypeOK, NEW q \in Procs, ProcessInv(q),
         pc'[q] = pc[q], at'[q] = at[q], view'[q] = view[q], own'[q] = own[q],
         ctl'[q] = ctl[q], created'[q] = created[q], result'[q] = result[q],
         said'[q] = said[q], commit'[q] = commit[q],
         raced'[q] \in {raced[q], raced[q] \cup {"window"}},
         \A x \in Paths : \/ files'[x] = files[x]
                          \/ q \notin Unwatched(x)
                          \/ "window" \in raced'[q],
         \/ temp'[q] = temp[q]
         \/ /\ temp'[q] = None
            /\ pc[q] \in {"parent3", "rename"} => "window" \in raced'[q]
  PROVE  ProcessInv(q)'
  <1>1. DataOf(q)' = DataOf(q)
    BY DEF DataOf
  <1>2. PositionInv(q)' /\ TempInv(q)' /\ CommitInv(q)'
    BY DEF ProcessInv, PositionInv, TempInv, CommitInv
  <1>3. ViewInv(q)'
    BY <1>1 DEF ProcessInv, ViewInv
  <1>4. ControllerInv(q)'
    BY DEF ProcessInv, ControllerInv
  <1>5. WholeInv(q)'
    BY DEF ProcessInv, WholeInv, Whole
  <1>6. CheckedInv(q)'
    <2>. SUFFICES ASSUME "window" \notin raced'[q]
                  PROVE  CheckedInv(q)'
      BY DEF CheckedInv
    <2>1. "window" \notin raced[q] /\ CheckedInv(q)
      BY DEF ProcessInv
    <2>2. \A x \in Paths : q \in Unwatched(x) => files'[x] = files[x]
      OBVIOUS
    <2>3. pc[q] \in {"destination3", "temp3", "parent3", "rename"} =>
            \A x \in Paths \ {"source"} : Same(files'[x], view[q].seen[x])
      BY <2>1, <2>2, UnwatchedMembers DEF CheckedInv
    <2>4. ASSUME pc[q] = "inputs3", NEW k \in 1..4, k < at[q],
                 SnapshotOrder[k] # "source"
          PROVE  Same(files'[SnapshotOrder[k]], view[q].seen[SnapshotOrder[k]])
      BY <2>1, <2>2, <2>4, UnwatchedMembers, OrderType DEF CheckedInv
    <2>5. pc[q] \in {"temp3", "parent3", "rename"} =>
            Same(files'["source"], view[q].seen["source"])
      BY <2>1, <2>2, UnwatchedMembers DEF CheckedInv, Paths
    <2>6. pc[q] \in {"parent3", "rename"} =>
            temp'[q] # None /\ temp'[q].data = view[q].seen["resolved"].data
      BY <2>1 DEF CheckedInv
    <2>. QED  BY <2>3, <2>4, <2>5, <2>6 DEF CheckedInv, Same
  <1>7. CommitMatches(q)'
    BY <1>1 DEF ProcessInv, CommitMatches, Same
  <1>8. ReportTruthful(q)' /\ LeftoverReported(q)'
    BY DEF ProcessInv, ReportTruthful, LeftoverReported
  <1>. QED
    BY <1>2, <1>3, <1>4, <1>5, <1>6, <1>7, <1>8 DEF ProcessInv

\* The rename itself: what is installed is what was validated.
LEMMA ReplaceEffect ==
  ASSUME IInv, TypeOK', NEW p \in Procs, pc[p] = "rename", Replace(p),
         UNCHANGED <<at, view, own, created, said>>,
         \A q \in Procs \ {p} : /\ pc'[q] = pc[q] /\ ctl'[q] = ctl[q]
                                /\ result'[q] = result[q]
  PROVE  /\ SourceIsWhole'
         /\ \A q \in Procs \ {p} : ProcessInv(q)'
         /\ Committed(p)' /\ CommitMatches(p)' /\ temp'[p] = None /\ DataOf(p)' = DataOf(p)
  <1>1. /\ ProcessInv(p) /\ temp[p] \in File
        /\ "window" \notin raced[p] => CheckedInv(p)
    BY DEF IInv, ProcessInv, Replace, TypeOK
  <1>2. SourceIsWhole'
    <2>1. Whole(temp[p])
      BY <1>1 DEF Replace, ProcessInv, WholeInv, TempSteps
    <2>2. files'["source"] = temp[p] /\ disk' = disk \cup {temp[p]}
      BY DEF Replace, IInv, TypeOK, Paths
    <2>. QED  BY <2>1, <2>2 DEF IInv, SourceIsWhole, Whole
  <1>3. ASSUME NEW q \in Procs, q # p
        PROVE  ProcessInv(q)'
    <2>1. /\ temp'[q] = temp[q] /\ commit'[q] = commit[q]
          /\ \A x \in Paths \ {"source"} : files'[x] = files[x]
      BY <1>3 DEF Replace, IInv, TypeOK
    <2>2. /\ raced'[q] \in {raced[q], raced[q] \cup {"window"}}
          /\ q \in Unwatched("source") => "window" \in raced'[q]
      BY <1>3 DEF Replace, Race
    <2>. QED
      BY <1>3, <2>1, <2>2, Disturbed DEF IInv
  <1>4. /\ commit'[p] = [old |-> files["source"], new |-> temp[p],
                         inputs |-> [x \in Paths |-> files[x].data]]
        /\ raced'[p] = raced[p] /\ temp'[p] = None /\ DataOf(p)' = DataOf(p)
    BY DEF Replace, Race, DataOf, IInv, TypeOK
  <1>5. Committed(p)'
    <2>1. files["source"] \in File /\ [x \in Paths |-> files[x].data] \in [Paths -> Data]
      BY DEF IInv, TypeOK, Paths, File
    <2>2. commit'[p] \in CommitRecord
      BY <1>1, <1>4, <2>1 DEF CommitRecord
    <2>. QED  BY <2>2, NoneAssumption
  <1>6. CommitMatches(p)'
    <2>. SUFFICES ASSUME "window" \notin raced[p]
                  PROVE  CommitMatches(p)'
      BY <1>4 DEF CommitMatches
    <2>1. /\ \A x \in Paths : Same(files[x], view[p].seen[x])
          /\ temp[p].data = view[p].seen["resolved"].data
      BY <1>1 DEF CheckedInv
    <2>2. [x \in Paths |-> files[x].data] = DataOf(p)
      BY <2>1 DEF DataOf, Same
    <2>3. DataOf(p) \in Accepts
      BY <1>1 DEF ProcessInv, ViewInv, InstallSteps
    <2>4. Same(files["source"], view[p].seen["source"])
      BY <2>1 DEF Paths
    <2>5. temp[p].data = DataOf(p)["resolved"]
      BY <2>1 DEF DataOf, Paths
    <2>. QED
      BY <1>4, <2>2, <2>3, <2>4, <2>5 DEF CommitMatches, Same
  <1>. QED  BY <1>2, <1>3, <1>4, <1>5, <1>6

LEMMA RenameStep ==
  ASSUME IInv, NEW p \in Procs, Rename(p) \/ RenameUncertain(p)
  PROVE  IInv'
  <1>1. /\ TypeOK' /\ ProcessInv(p) /\ pc[p] = "rename"
        /\ UNCHANGED <<at, view, own, created, said>>
    BY RenameType DEF IInv, Rename, RenameUncertain, Goto
  <1>2. /\ ctl[p] = "TempRechecked" /\ created[p] /\ said[p] = {} /\ ~Committed(p)
        /\ DataOf(p) \in Accepts /\ \A x \in Paths : view[p].seen[x] # None
        /\ at[p] = 1
    BY <1>1, AtOne DEF ProcessInv, ControllerInv, TempInv, TempSteps, CommitInv,
                PostCommitSteps, ViewInv, InstallSteps
  <1>3. CASE Replace(p)
    <2>1. /\ SourceIsWhole' /\ \A q \in Procs \ {p} : ProcessInv(q)'
          /\ Committed(p)' /\ CommitMatches(p)' /\ temp'[p] = None
          /\ DataOf(p)' = DataOf(p)
      BY <1>1, <1>3, ReplaceEffect
      DEF IInv, TypeOK, Rename, RenameUncertain, Complete, Goto, Finish
    <2>2. \/ pc'[p] = "sync-parent-after" /\ ctl'[p] = "Committed" /\ result'[p] = result[p]
          \/ pc'[p] = "done" /\ ctl'[p] = "CommitUncertain" /\ result'[p] = "ambiguous"
      <3>1. CASE Rename(p)
        BY <1>2, <3>1, AfterValues DEF Rename, Complete, Goto, IInv, TypeOK
      <3>2. CASE RenameUncertain(p)
        BY <3>2 DEF RenameUncertain, Finish, IInv, TypeOK
      <3>. QED  BY <3>1, <3>2
    <2>3. pc'[p] \notin TempSteps
      BY <2>2 DEF TempSteps, HandleOpen, FinalSteps
    <2>4. PositionInv(p)' /\ TempInv(p)' /\ CommitInv(p)'
      BY <1>1, <1>2, <2>1, <2>2, <2>3 DEF PositionInv, TempInv, CommitInv, PostCommitSteps
    <2>5. ViewInv(p)'
      BY <1>1, <1>2, <2>1, <2>2 DEF ViewInv
    <2>6. ControllerInv(p)'
      BY <2>2 DEF ControllerInv, PassSteps, FinalSteps, PostCommitSteps
    <2>7. WholeInv(p)' /\ CheckedInv(p)'
      BY <2>2, <2>3 DEF WholeInv, CheckedInv
    <2>8. ReportTruthful(p)' /\ LeftoverReported(p)'
      BY <1>1, <1>2, <2>1, <2>2 DEF ReportTruthful, LeftoverReported
    <2>. QED
      BY <1>1, <2>1, <2>4, <2>5, <2>6, <2>7, <2>8 DEF IInv, ProcessInv
  <1>4. CASE ~Replace(p)
    <2>1. /\ UNCHANGED <<files, disk, commit, raced>> /\ OthersKeep(p)
          /\ pc'[p] = "done" /\ ctl'[p] = "CommitUncertain" /\ result'[p] = "ambiguous"
      BY <1>1, <1>4 DEF Rename, RenameUncertain, Finish, OthersKeep, IInv, TypeOK
    <2>2. ReportTruthful(p)' /\ LeftoverReported(p)'
      BY <1>1, <1>2, <2>1 DEF ReportTruthful, LeftoverReported
    <2>. QED
      BY <1>1, <1>2, <2>1, <2>2, EndStep
  <1>. QED  BY <1>3, <1>4

LEMMA EditStep ==
  ASSUME IInv, NEW x \in Paths, Edit(x)
  PROVE  IInv'
  <1>1. TypeOK'
    BY EditType DEF IInv
  <1>2. PICK f \in File : files' = [files EXCEPT ![x] = f] /\ Whole(f)
    <2>1. Contents[x] \in SUBSET (Data \ {Empty, Torn})
      BY ContentAssumption
    <2>2. files[x] \in File /\ NewInode \in SUBSET Inodes
      BY DEF NewInode, IInv, TypeOK
    <2>3. PICK d \in Contents[x], m \in Metas, i \in {files[x].ino} \cup NewInode :
            files' = [files EXCEPT ![x] = [files[x] EXCEPT
                        !.data = d, !.meta = m, !.ino = i, !.synced = TRUE]]
      BY DEF Edit
    <2>. DEFINE g == [files[x] EXCEPT !.data = d, !.meta = m, !.ino = i, !.synced = TRUE]
    <2>4. g \in File /\ g.data = d /\ g.synced = TRUE
      BY <2>1, <2>2 DEF File
    <2>. HIDE DEF g
    <2>5. Whole(g)
      BY <2>1, <2>4 DEF Whole
    <2>. QED  BY <2>3, <2>4, <2>5 DEF g
  <1>3. SourceIsWhole'
    <2>1. CASE x = "source"
      <3>1. files'["source"] = f /\ disk' = {f}
        BY <1>2, <2>1 DEF Edit, IInv, TypeOK
      <3>. QED  BY <1>2, <3>1 DEF SourceIsWhole, Whole
    <2>2. CASE x # "source"
      <3>1. files'["source"] = files["source"] /\ disk' = disk
        BY <1>2, <2>2 DEF Edit, IInv, TypeOK
      <3>. QED  BY <3>1 DEF IInv, SourceIsWhole, Whole
    <2>. QED  BY <2>1, <2>2
  <1>4. ASSUME NEW q \in Procs
        PROVE  ProcessInv(q)'
    <2>1. /\ UNCHANGED <<temp, pc, at, view, own, ctl, created, result, said, commit>>
          /\ \A y \in Paths \ {x} : files'[y] = files[y]
      BY <1>2 DEF Edit, process, IInv, TypeOK
    <2>2. /\ raced'[q] \in {raced[q], raced[q] \cup {"window"}}
          /\ q \in Unwatched(x) => "window" \in raced'[q]
      BY DEF Edit, Race
    <2>. QED  BY <2>1, <2>2, Disturbed DEF IInv
  <1>. QED  BY <1>1, <1>3, <1>4 DEF IInv

LEMMA ReplaceParentStep ==
  ASSUME IInv, ReplaceParent
  PROVE  IInv'
  <1>1. TypeOK' /\ "source" \in Paths
    BY ReplaceParentType DEF IInv, Paths
  <1>2. PICK f \in File : files' = [files EXCEPT !["source"] = f] /\ Whole(f)
    <2>1. Contents["source"] \in SUBSET (Data \ {Empty, Torn})
      BY ContentAssumption, <1>1
    <2>2. files["source"] \in File /\ NewInode \in SUBSET Inodes
      BY <1>1 DEF NewInode, IInv, TypeOK
    <2>3. PICK d \in Contents["source"], i \in NewInode, dir \in Dirs \ {Parent} :
            files' = [files EXCEPT !["source"] = [files["source"] EXCEPT
                        !.data = d, !.ino = i, !.dir = dir, !.synced = TRUE]]
      BY DEF ReplaceParent
    <2>. DEFINE g == [files["source"] EXCEPT
                        !.data = d, !.ino = i, !.dir = dir, !.synced = TRUE]
    <2>4. g \in File /\ g.data = d /\ g.synced = TRUE
      BY <2>1, <2>2 DEF File
    <2>. HIDE DEF g
    <2>5. Whole(g)
      BY <2>1, <2>4 DEF Whole
    <2>. QED  BY <2>3, <2>4, <2>5 DEF g
  <1>3. SourceIsWhole'
    <2>1. files'["source"] = f /\ disk' = {f}
      BY <1>1, <1>2 DEF ReplaceParent, IInv, TypeOK
    <2>. QED  BY <1>2, <2>1 DEF SourceIsWhole, Whole
  <1>4. ASSUME NEW q \in Procs
        PROVE  ProcessInv(q)'
    <2>1. /\ UNCHANGED <<pc, at, view, own, ctl, created, result, said, commit>>
          /\ temp'[q] = None
          /\ \A y \in Paths \ {"source"} : files'[y] = files[y]
      BY <1>2 DEF ReplaceParent, process, IInv, TypeOK
    <2>2. /\ raced'[q] \in {raced[q], raced[q] \cup {"window"}}
          /\ q \in Unwatched("source") => "window" \in raced'[q]
      BY DEF ReplaceParent, Race
    <2>3. pc[q] \in {"parent3", "rename"} => q \in Unwatched("source")
      BY <1>1, UnwatchedMembers DEF IInv
    <2>. QED  BY <2>1, <2>2, <2>3, Disturbed DEF IInv
  <1>. QED  BY <1>1, <1>3, <1>4 DEF IInv

LEMMA TouchTempStep ==
  ASSUME IInv, NEW p \in Procs, TouchTemp(p)
  PROVE  IInv'
  <1>1. TypeOK' /\ ProcessInv(p) /\ temp[p] # None
    BY TouchTempType DEF IInv, TouchTemp
  <1>2. /\ UNCHANGED <<files, disk, pc, at, view, ctl, created, result, said, commit>>
        /\ OthersKeep(p)
    BY DEF TouchTemp, OthersKeep, IInv, TypeOK
  <1>3. /\ raced[p] \subseteq raced'[p]
        /\ pc[p] \in {"parent3", "rename"} => "window" \in raced'[p]
    BY DEF TouchTemp, IInv, TypeOK
  <1>4. /\ temp'[p] = None \/ Whole(temp'[p])
        /\ own'[p] = own[p] \/ (own'[p] # None /\ own'[p].data \notin {Empty, Torn})
    <2>1. Contents["resolved"] \in SUBSET (Data \ {Empty, Torn}) /\ temp[p] \in File
      BY <1>1, ContentAssumption DEF Paths, IInv, TypeOK
    <2>2. NewInode \in SUBSET Inodes
      BY DEF NewInode
    <2>3. CASE temp' = [temp EXCEPT ![p] = None] /\ UNCHANGED own
      BY <2>3 DEF IInv, TypeOK
    <2>. DEFINE G(d, m, i) ==
           [temp[p] EXCEPT !.data = d, !.meta = m, !.ino = i, !.synced = TRUE]
    <2>4. ASSUME NEW d \in Contents["resolved"], NEW m \in Metas,
                 NEW i \in {temp[p].ino} \cup NewInode,
                 temp' = [temp EXCEPT ![p] = G(d, m, i)],
                 own' = own \/ own' = [own EXCEPT ![p] = G(d, m, i)]
          PROVE  <1>4!1 /\ <1>4!2
      <3>1. G(d, m, i) \in File /\ G(d, m, i).data = d /\ G(d, m, i).synced = TRUE
        BY <2>1, <2>2, <2>4 DEF File
      <3>. HIDE DEF G
      <3>2. Whole(G(d, m, i))
        BY <2>1, <3>1 DEF Whole
      <3>3. temp'[p] = G(d, m, i) /\ (own'[p] = own[p] \/ own'[p] = G(d, m, i))
        BY <2>4 DEF IInv, TypeOK
      <3>. QED  BY <2>1, <3>1, <3>2, <3>3, NoneAssumption DEF Whole
    <2>5. \/ temp' = [temp EXCEPT ![p] = None] /\ UNCHANGED own
          \/ \E d \in Contents["resolved"], m \in Metas, i \in {temp[p].ino} \cup NewInode :
               /\ temp' = [temp EXCEPT ![p] = G(d, m, i)]
               /\ own' = own \/ own' = [own EXCEPT ![p] = G(d, m, i)]
      <3>1. CASE ~(temp' = [temp EXCEPT ![p] = None] /\ UNCHANGED own)
        <4>1. PICK d \in Contents["resolved"], m \in Metas, i \in {temp[p].ino} \cup NewInode :
                 /\ temp' = [temp EXCEPT ![p] = G(d, m, i)]
                 /\ own' = IF i = own[p].ino /\ pc[p] \in HandleOpen
                           THEN [own EXCEPT ![p] = G(d, m, i)] ELSE own
          BY <3>1 DEF TouchTemp
        <4>. HIDE DEF G
        <4>. QED  BY <4>1
      <3>. QED  BY <3>1
    <2>. HIDE DEF G
    <2>. QED  BY <2>3, <2>4, <2>5
  <1>5. DataOf(p)' = DataOf(p)
    BY <1>2 DEF DataOf
  <1>6. PositionInv(p)' /\ ControllerInv(p)' /\ CommitInv(p)'
    BY <1>1, <1>2 DEF ProcessInv, PositionInv, ControllerInv, CommitInv
  <1>7. ViewInv(p)'
    BY <1>1, <1>2, <1>5 DEF ProcessInv, ViewInv
  <1>8. TempInv(p)' /\ LeftoverReported(p)'
    BY <1>1, <1>2, <1>4 DEF ProcessInv, TempInv, LeftoverReported
  <1>9. WholeInv(p)'
    BY <1>1, <1>2, <1>4 DEF ProcessInv, WholeInv, Whole
  <1>10. CheckedInv(p)'
    BY <1>1, <1>2, <1>3 DEF ProcessInv, CheckedInv, Same
  <1>11. CommitMatches(p)' /\ ReportTruthful(p)'
    BY <1>1, <1>2, <1>3, <1>5 DEF ProcessInv, CommitMatches, ReportTruthful, Same
  <1>. QED
    BY <1>1, <1>2, <1>6, <1>7, <1>8, <1>9, <1>10, <1>11, QuietStep DEF ProcessInv

LEMMA PowerLossStep ==
  ASSUME IInv, PowerLoss
  PROVE  IInv'
  <1>1. TypeOK'
    BY PowerLossType DEF IInv
  <1>2. SourceIsWhole'
    <2>1. PICK f \in disk, lost \in BOOLEAN :
            /\ lost => ~f.synced
            /\ files' = [files EXCEPT !["source"] =
                           [f EXCEPT !.data = IF lost THEN Torn ELSE @, !.synced = TRUE]]
      BY DEF PowerLoss
    <2>2. Whole(f) /\ f \in File
      BY DEF IInv, SourceIsWhole, TypeOK
    <2>3. ~lost
      BY <2>1, <2>2 DEF Whole
    <2>. DEFINE g == [f EXCEPT !.data = IF lost THEN Torn ELSE @, !.synced = TRUE]
    <2>4. g.data = f.data /\ g.synced = TRUE
      BY <2>2, <2>3 DEF File
    <2>5. files'["source"] = g
      BY <2>1 DEF IInv, TypeOK, Paths
    <2>. HIDE DEF g
    <2>6. Whole(g)
      BY <2>2, <2>4 DEF Whole
    <2>7. disk' = {g}
      BY <2>5 DEF PowerLoss
    <2>. QED  BY <2>5, <2>6, <2>7 DEF SourceIsWhole, Whole
  <1>3. ASSUME NEW q \in Procs
        PROVE  ProcessInv(q)'
    <2>1. /\ UNCHANGED <<at, view, own, ctl, created, said, commit, raced>>
          /\ temp'[q] \in {temp[q], None}
          /\ pc[q] = "start" => pc'[q] = "start" /\ result'[q] = result[q]
          /\ pc[q] # "start" => pc'[q] = "done"
          /\ pc[q] = "done" => result'[q] = result[q]
          /\ pc[q] \notin {"start", "done"} => result'[q] = "killed"
      BY DEF PowerLoss
    <2>2. ProcessInv(q) /\ DataOf(q)' = DataOf(q)
      BY <2>1 DEF IInv, DataOf
    <2>3. CommitMatches(q)'
      BY <2>1, <2>2 DEF ProcessInv, CommitMatches, Same
    <2>4. /\ pc'[q] \in {"start", "done"}
          /\ pc'[q] \notin TempSteps \cup PostCommitSteps \cup InstallSteps \cup PassSteps
      BY <2>1 DEF TempSteps, HandleOpen, FinalSteps, PostCommitSteps, InstallSteps,
                  PreCommitSteps, RecheckSteps, PassSteps
    <2>5. ControllerInv(q)'
      <3>1. pc'[q] = "start" => ctl'[q] = "Ready"
        BY <2>1, <2>2 DEF ProcessInv, ControllerInv
      <3>2. ctl'[q] # "Rejected"
        BY <2>1, <2>2 DEF ProcessInv, ControllerInv
      <3>. QED  BY <2>4, <3>1, <3>2 DEF ControllerInv, FinalSteps
    <2>6. WholeInv(q)' /\ CheckedInv(q)'
      BY <2>4 DEF WholeInv, CheckedInv, TempSteps
    <2>7. CASE pc[q] = "start"
      <3>1. PositionInv(q)' /\ TempInv(q)' /\ CommitInv(q)'
        BY <2>1, <2>2, <2>4, <2>7 DEF ProcessInv, PositionInv, TempInv, CommitInv
      <3>2. ViewInv(q)'
        BY <2>1, <2>2, <2>4, <2>7 DEF ProcessInv, ViewInv
      <3>3. ReportTruthful(q)' /\ LeftoverReported(q)'
        BY <2>1, <2>2, <2>7 DEF ProcessInv, ReportTruthful, LeftoverReported
      <3>. QED  BY <2>3, <2>5, <2>6, <3>1, <3>2, <3>3 DEF ProcessInv
    <2>8. CASE pc[q] # "start"
      <3>1. PositionInv(q)' /\ TempInv(q)' /\ CommitInv(q)'
        BY <2>1, <2>2, <2>4, <2>8 DEF ProcessInv, PositionInv, TempInv, CommitInv
      <3>2. ViewInv(q)'
        BY <2>1, <2>2, <2>4, <2>8 DEF ProcessInv, ViewInv
      <3>3. ReportTruthful(q)' /\ LeftoverReported(q)'
        BY <2>1, <2>2, <2>8 DEF ProcessInv, TempInv, ReportTruthful, LeftoverReported
      <3>. QED  BY <2>3, <2>5, <2>6, <3>1, <3>2, <3>3 DEF ProcessInv
    <2>. QED  BY <2>7, <2>8
  <1>. QED  BY <1>1, <1>2, <1>3 DEF IInv

-------------------------------------------------------------------------------
(***************************************************************************)
(* The theorems.                                                           *)
(***************************************************************************)
LEMMA InitInv == Init => IInv
  <1>. SUFFICES ASSUME Init PROVE IInv
    OBVIOUS
  <1>1. TypeOK
    BY InitType
  <1>2. SourceIsWhole
    <2>1. files["source"].data \notin {Empty, Torn} /\ files["source"].synced = TRUE
      BY AcceptsAssumption DEF Init, Paths
    <2>2. disk = {files["source"]}
      BY DEF Init
    <2>3. files["source"].synced
      BY <2>1
    <2>. QED  BY <2>1, <2>2, <2>3 DEF SourceIsWhole, Whole
  <1>3. ASSUME NEW p \in Procs PROVE ProcessInv(p)
    <2>1. /\ pc[p] = "start" /\ at[p] = 1 /\ ctl[p] = "Ready" /\ temp[p] = None
          /\ created[p] = FALSE /\ said[p] = {} /\ commit[p] = None /\ result[p] = "running"
      BY DEF Init
    <2>2. PositionInv(p) /\ TempInv(p) /\ CommitInv(p)
      BY <2>1 DEF PositionInv, TempInv, CommitInv, TempSteps, HandleOpen, FinalSteps,
                  PostCommitSteps
    <2>3. ViewInv(p)
      BY <2>1 DEF ViewInv, InstallSteps, PreCommitSteps, RecheckSteps, FinalSteps,
                  PostCommitSteps
    <2>4. ControllerInv(p)
      BY <2>1 DEF ControllerInv, FinalSteps, PostCommitSteps
    <2>5. WholeInv(p) /\ CheckedInv(p)
      BY <2>1 DEF WholeInv, CheckedInv
    <2>6. CommitMatches(p) /\ ReportTruthful(p) /\ LeftoverReported(p)
      BY <2>1 DEF CommitMatches, ReportTruthful, LeftoverReported
    <2>. QED  BY <2>2, <2>3, <2>4, <2>5, <2>6 DEF ProcessInv
  <1>. QED  BY <1>1, <1>2, <1>3 DEF IInv

LEMMA StutterInv ==
  ASSUME IInv, UNCHANGED vars
  PROVE  IInv'
  <1>1. /\ UNCHANGED <<files, disk, temp, pc, at, first, view, own, ctl, created>>
        /\ UNCHANGED <<result, said, commit, raced, edits, losses>>
    BY DEF vars, process
  <1>2. TypeOK'
    BY <1>1 DEF IInv, TypeOK
  <1>3. SourceIsWhole'
    BY <1>1 DEF IInv, SourceIsWhole, Whole
  <1>4. \A q \in Procs : ProcessInv(q)'
    BY <1>1, Unmoved DEF IInv
  <1>. QED  BY <1>2, <1>3, <1>4 DEF IInv

LEMMA NextInv ==
  ASSUME IInv, [Next]_vars
  PROVE  IInv'
  <1>1. ASSUME NEW p \in Procs, Process(p)
        PROVE  IInv'
    <2>1. CASE Start(p)
      BY <2>1, StartStep
    <2>2. CASE Read(p, "read1", "validate1") \/ Read(p, "read2", "validate2")
      BY <2>2, ReadStep
    <2>3. CASE RefusePass(p) \/ Validate1(p) \/ Validate2(p)
      BY <2>3, ValidateStep
    <2>4. CASE RefuseInstall(p)
      BY <2>4, RefuseInstallStep
    <2>5. CASE \/ CheckParent(p, "prepare-parent", "PrepareParent", "inputs1")
               \/ CheckParent(p, "parent1", "RecheckParent", "create-temp")
      BY <2>5, CheckParentStep
    <2>6. CASE \/ RecheckInput(p, "inputs1", "destination1")
               \/ RecheckInput(p, "inputs2", "destination2")
               \/ RecheckInput(p, "inputs3", "destination3")
      BY <2>6, RecheckInputStep
    <2>7. CASE \/ RecheckDestination(p, "destination1", "parent1")
               \/ RecheckDestination(p, "destination2", "capture")
               \/ RecheckDestination(p, "destination3", "temp3")
      BY <2>7, RecheckDestinationStep
    <2>8. CASE CreateTemp(p)
      BY <2>8, CreateTempStep
    <2>9. CASE WriteReplacement(p) \/ CopyMetadata(p) \/ SyncTemp(p)
      BY <2>9, WriteStep
    <2>10. CASE Capture(p)
      BY <2>10, CaptureStep
    <2>11. CASE SyncParentBeforeCommit(p) \/ SyncParentAfterCommit(p)
      BY <2>11, SyncParentStep
    <2>12. CASE RecheckTemp(p) \/ RecheckParent(p)
      BY <2>12, FinalRecheckStep
    <2>13. CASE Rename(p) \/ RenameUncertain(p)
      BY <2>13, RenameStep
    <2>14. CASE SyncParentFails(p) \/ CleanupTemp(p)
      BY <2>14, EndingStep
    <2>. QED
      BY <1>1, <2>1, <2>2, <2>3, <2>4, <2>5, <2>6, <2>7, <2>8, <2>9, <2>10, <2>11,
         <2>12, <2>13, <2>14 DEF Process, Validation, Install, InstallSucceeds
  <1>. QED
    BY <1>1, EditStep, ReplaceParentStep, TouchTempStep, EndingStep, PowerLossStep,
       StutterInv DEF Next

\* The inductive invariant holds in every reachable state.
THEOREM Invariance == Spec => []IInv
  <1>1. Init => IInv
    BY InitInv
  <1>2. IInv /\ [Next]_vars => IInv'
    BY NextInv
  <1>. QED  BY <1>1, <1>2, PTL DEF Spec

\* Every variable keeps its type.
THEOREM TypeCorrect == Spec => []TypeOK
  <1>1. IInv => TypeOK
    BY DEF IInv
  <1>. QED  BY <1>1, Invariance, PTL

\* No lost update (apply.rs:1260-1327): outside the window between the final
\* recheck and the rename, what a rename replaces, by what, and with which
\* manifest and artifacts, is what both validation passes accepted.
THEOREM NoLostUpdate == Spec => []CommitMatchesValidation
  <1>1. IInv => CommitMatchesValidation
    BY DEF IInv, ProcessInv, CommitMatchesValidation
  <1>. QED  BY <1>1, Invariance, PTL

\* Exit statuses tell the truth about the destination (apply.rs:2177-2208).
THEOREM TruthfulReports == Spec => []ReportIsTruthful
  <1>1. IInv => ReportIsTruthful
    BY DEF IInv, ProcessInv, ReportIsTruthful
  <1>. QED  BY <1>1, Invariance, PTL

\* No reader of the source and no power loss finds a partial file.
THEOREM AlwaysWhole == Spec => []SourceIsWhole
  <1>1. IInv => SourceIsWhole
    BY DEF IInv
  <1>. QED  BY <1>1, Invariance, PTL

\* Temporary files left behind are announced (apply.rs:1885-1978).
THEOREM LeftoversAnnounced == Spec => []LeftoverIsReported
  <1>1. IInv => LeftoverIsReported
    BY DEF IInv, ProcessInv, LeftoverIsReported
  <1>. QED  BY <1>1, Invariance, PTL

\* The installer never performs an operation that the transition table of its
\* controller (apply.rs:2125-2175) does not list.
THEOREM ControllerAgrees == Spec => []ControllerNeverRejects
  <1>1. IInv => ControllerNeverRejects
    BY DEF IInv, ProcessInv, ControllerInv, ControllerNeverRejects
  <1>. QED  BY <1>1, Invariance, PTL
-------------------------------------------------------------------------------
(***************************************************************************)
(* Part two: the outcomes.  What JInv adds to the inductive invariant      *)
(* above: what is in the temporary file, what has been read of one and the *)
(* same workspace, and what of a replacement stays; and that ApplyInstall  *)
(* implements GuardedReplace.                                              *)
(***************************************************************************)
USE DEF Committed

-------------------------------------------------------------------------------
(***************************************************************************)
(* What a step may do to the processes that do not take it.                *)
(***************************************************************************)
Bystander(q) ==
  /\ temp'[q] \in {temp[q], None}
  /\ view'[q] = view[q] /\ own'[q] = own[q] /\ commit'[q] = commit[q]
  /\ raced'[q] \in {raced[q], raced[q] \cup {"window"}}
  /\ \/ pc'[q] = pc[q] /\ result'[q] = result[q]
     \/ pc[q] # "done" /\ pc'[q] = "done" /\ result'[q] = "killed"

\* One that a step of another process leaves where it is.
Waits(q) == Bystander(q) /\ pc'[q] = pc[q] /\ result'[q] = result[q]

LEMMA OthersAreBystanders ==
  ASSUME NEW p \in Procs, NEW q \in Procs \ {p}, OthersKeep(p)
  PROVE  Waits(q)
BY DEF OthersKeep, Bystander, Waits

LEMMA ReplaceBystanders ==
  ASSUME TypeOK, NEW p \in Procs, Replace(p), UNCHANGED <<view, own>>,
         OthersKeep(p) \/ \A q \in Procs \ {p} : pc'[q] = pc[q] /\ result'[q] = result[q],
         NEW q \in Procs \ {p}
  PROVE  Waits(q)
  <1>1. /\ temp'[q] = temp[q] /\ commit'[q] = commit[q]
        /\ raced'[q] \in {raced[q], raced[q] \cup {"window"}}
    BY DEF Replace, Race, TypeOK
  <1>2. pc'[q] = pc[q] /\ result'[q] = result[q]
    BY DEF OthersKeep
  <1>. QED  BY <1>1, <1>2 DEF Bystander, Waits

LEMMA TouchTempOthers ==
  ASSUME TypeOK, NEW p \in Procs, TouchTemp(p)
  PROVE  OthersKeep(p)
BY DEF TouchTemp, OthersKeep, TypeOK

\* The environment only takes files away from a process, or ends it.
LEMMA EnvironmentBystanders ==
  ASSUME TypeOK, NEW q \in Procs,
         \/ \E x \in Paths : Edit(x)
         \/ ReplaceParent
         \/ PowerLoss
         \/ \E p \in Procs : Kill(p)
         \/ \E p \in Procs \ {q} : TouchTemp(p)
  PROVE  Bystander(q)
  <1>1. CASE \E x \in Paths : Edit(x)
    BY <1>1 DEF Edit, Race, process, Bystander
  <1>2. CASE ReplaceParent
    BY <1>2 DEF ReplaceParent, Race, process, Bystander
  <1>3. CASE PowerLoss
    BY <1>3 DEF PowerLoss, Bystander
  <1>4. CASE \E p \in Procs : Kill(p)
    BY <1>4 DEF Kill, Finish, Bystander, TypeOK
  <1>5. CASE \E p \in Procs \ {q} : TouchTemp(p)
    <2>1. PICK p \in Procs \ {q} : TouchTemp(p)
      BY <1>5
    <2>2. OthersKeep(p)
      BY <2>1, TouchTempOthers
    <2>. QED  BY <2>2, OthersAreBystanders DEF Waits
  <1>. QED  BY <1>1, <1>2, <1>3, <1>4, <1>5

LEMMA BystanderKeeps ==
  ASSUME NEW q \in Procs, Bystander(q), TempContentInv(q), OutcomeInv(q)
  PROVE  TempContentInv(q)' /\ OutcomeInv(q)'
  <1>1. DataOf(q)' = DataOf(q)
    BY DEF DataOf, Bystander
  <1>2. "temp" \in raced[q] => "temp" \in raced'[q]
    BY DEF Bystander
  <1>3. "done" \notin TempSteps \cup InstallSteps
    BY DEF TempSteps, HandleOpen, InstallSteps, PreCommitSteps, RecheckSteps, FinalSteps,
           PostCommitSteps
  <1>4. raced'[q] = {} => raced[q] = {}
    BY DEF Bystander
  <1>5. pc'[q] = pc[q] \/ pc'[q] = "done"
    BY DEF Bystander
  <1>6. TempContentInv(q)'
    BY <1>2, <1>3, <1>5 DEF TempContentInv, Bystander
  <1>7. commit'[q] = commit[q] /\ (result'[q] = "running" <=> pc'[q] # "done")
    BY DEF Bystander, OutcomeInv
  <1>8. pc'[q] \in InstallSteps => pc[q] \in InstallSteps
    BY <1>3, <1>5
  <1>9. OutcomeInv(q)'
    BY <1>1, <1>4, <1>7, <1>8 DEF OutcomeInv
  <1>. QED  BY <1>6, <1>9

-------------------------------------------------------------------------------
(***************************************************************************)
(* What a step of a process does to the files, and what it leaves alone.   *)
(***************************************************************************)
Quiet == UNCHANGED <<files, disk, commit, raced>>
SyncedParent == disk' = {files["source"]} /\ UNCHANGED <<files, commit, raced>>

SeesFiles(p) ==
  \A x \in Paths : view'[p].seen[x] \in {view[p].seen[x], None, files[x]}

\* A step that goes on is neither the synchronisation after the rename nor the end.
GoesOn(p) == pc'[p] \notin {"cleanup-temp", "done"} /\ result'[p] = result[p]

Effect(p) ==
  /\ UNCHANGED <<edits, losses>> /\ pc[p] # "done" /\ SeesFiles(p)
  /\ \A q \in Procs \ {p} : Waits(q)
  /\ \/ Quiet /\ GoesOn(p)
     \/ Quiet /\ pc'[p] = "done" /\ result'[p] \notin {"running", "wrote"}
     \/ SyncedParent /\ GoesOn(p)
     \/ SyncedParent /\ pc[p] = "sync-parent-after" /\ result'[p] = result[p]
     \/ Quiet /\ pc[p] = "cleanup-temp" /\ pc'[p] = "done" /\ result'[p] = "wrote"
     \/ Replace(p) /\ pc[p] = "rename" /\ view'[p] = view[p] /\ GoesOn(p)
     \/ /\ Replace(p) /\ pc[p] = "rename" /\ view'[p] = view[p]
        /\ pc'[p] = "done" /\ result'[p] = "ambiguous"

LEMMA SameViewSees ==
  ASSUME NEW p, view'[p] = view[p]
  PROVE  SeesFiles(p)
BY DEF SeesFiles

LEMMA PassEffect ==
  ASSUME IInv, NEW p \in Procs,
         \/ Start(p) \/ Validate1(p) \/ Validate2(p) \/ RefusePass(p)
         \/ Read(p, "read1", "validate1") \/ Read(p, "read2", "validate2")
  PROVE  Effect(p)
  <1>1. TypeOK /\ OthersKeep(p) /\ UNCHANGED <<edits, losses>> /\ Quiet /\ pc[p] # "done"
    <2>1. OthersKeep(p)
      BY DEF Start, RefusePass, Validate1, Validate2, Read, Goto, Finish, OthersKeep,
             IInv, TypeOK
    <2>. QED
      BY <2>1 DEF Start, RefusePass, Validate1, Validate2, Read, Goto, Quiet, IInv
  <1>2. \/ GoesOn(p)
        \/ pc'[p] = "done" /\ result'[p] \notin {"running", "wrote"}
    BY <1>1 DEF Start, RefusePass, Validate1, Validate2, Read, Goto, Finish, GoesOn, TypeOK
  <1>3. SeesFiles(p)
    <2>1. CASE view'[p] = view[p]
      BY <2>1, SameViewSees
    <2>2. CASE view'[p] = NoView
      BY <2>2 DEF NoView, SeesFiles
    <2>3. CASE view'[p].seen = view[p].seen
      BY <2>3 DEF SeesFiles
    <2>4. ASSUME NEW x \in Paths, view' = [view EXCEPT ![p].seen[x] = files[x]]
          PROVE  SeesFiles(p)
      BY <1>1, <2>4 DEF SeesFiles, TypeOK, View
    <2>5. CASE Start(p) \/ RefusePass(p) \/ Validate1(p) \/ Validate2(p)
      BY <1>1, <2>1, <2>2, <2>3, <2>5
      DEF Start, RefusePass, Validate1, Validate2, TypeOK, View
    <2>6. CASE Read(p, "read1", "validate1") \/ Read(p, "read2", "validate2")
      <3>1. PassOrder[at[p]] \in Paths
        BY <1>1, OrderType DEF TypeOK
      <3>. QED  BY <2>1, <2>4, <2>6, <3>1 DEF Read
    <2>. QED  BY <2>5, <2>6
  <1>. QED  BY <1>1, <1>2, <1>3, OthersAreBystanders DEF Effect

LEMMA RecheckEffect ==
  ASSUME IInv, NEW p \in Procs,
         \/ CheckParent(p, "prepare-parent", "PrepareParent", "inputs1")
         \/ CheckParent(p, "parent1", "RecheckParent", "create-temp")
         \/ RecheckInput(p, "inputs1", "destination1")
         \/ RecheckInput(p, "inputs2", "destination2")
         \/ RecheckInput(p, "inputs3", "destination3")
         \/ RecheckDestination(p, "destination1", "parent1")
         \/ RecheckDestination(p, "destination2", "capture")
         \/ RecheckDestination(p, "destination3", "temp3")
         \/ RecheckTemp(p) \/ RecheckParent(p)
  PROVE  /\ Effect(p) /\ Quiet /\ GoesOn(p) /\ UNCHANGED <<temp, own, view, result>>
         /\ pc[p] \in InstallSteps /\ pc'[p] \in InstallSteps
         /\ pc[p] \in TempSteps \ Filling \/ pc'[p] \notin TempSteps
         /\ pc'[p] \in TempSteps \ Filling \/ pc'[p] \notin TempSteps
  <1>1. TypeOK /\ OthersKeep(p)
    <2>1. CASE \/ CheckParent(p, "prepare-parent", "PrepareParent", "inputs1")
               \/ CheckParent(p, "parent1", "RecheckParent", "create-temp")
      BY <2>1 DEF CheckParent, Complete, Goto, OthersKeep, IInv, TypeOK
    <2>2. CASE \/ RecheckInput(p, "inputs1", "destination1")
               \/ RecheckInput(p, "inputs2", "destination2")
               \/ RecheckInput(p, "inputs3", "destination3")
      BY <2>2 DEF RecheckInput, Complete, OthersKeep, IInv, TypeOK
    <2>3. CASE \/ RecheckDestination(p, "destination1", "parent1")
               \/ RecheckDestination(p, "destination2", "capture")
               \/ RecheckDestination(p, "destination3", "temp3")
      BY <2>3 DEF RecheckDestination, Complete, Goto, OthersKeep, IInv, TypeOK
    <2>4. CASE RecheckTemp(p) \/ RecheckParent(p)
      BY <2>4 DEF RecheckTemp, RecheckParent, Goto, OthersKeep, IInv, TypeOK
    <2>. QED  BY <2>1, <2>2, <2>3, <2>4 DEF IInv
  <1>2. /\ UNCHANGED <<files, disk, commit, raced, temp, own, view, result, edits, losses>>
    BY DEF CheckParent, RecheckInput, RecheckDestination, RecheckTemp, RecheckParent
  <1>3. \/ pc'[p] = pc[p] /\ pc[p] \in {"inputs1", "inputs2", "inputs3"}
        \/ <<pc[p], pc'[p]>> \in
             {<<"prepare-parent", "inputs1">>, <<"parent1", "create-temp">>,
              <<"inputs1", "destination1">>, <<"inputs2", "destination2">>,
              <<"inputs3", "destination3">>, <<"destination1", "parent1">>,
              <<"destination2", "capture">>, <<"destination3", "temp3">>,
              <<"temp3", "parent3">>, <<"parent3", "rename">>}
    BY <1>1 DEF CheckParent, RecheckInput, RecheckDestination, RecheckTemp, RecheckParent,
                Goto, TypeOK
  <1>4. Quiet /\ GoesOn(p) /\ pc[p] # "done" /\ SeesFiles(p)
    BY <1>2, <1>3, SameViewSees DEF Quiet, GoesOn
  <1>5. /\ pc[p] \in InstallSteps /\ pc'[p] \in InstallSteps
        /\ pc[p] \in TempSteps \ Filling \/ pc'[p] \notin TempSteps
        /\ pc'[p] \in TempSteps \ Filling \/ pc'[p] \notin TempSteps
    BY <1>3 DEF InstallSteps, PreCommitSteps, RecheckSteps, FinalSteps, TempSteps, HandleOpen,
                Filling
  <1>6. Effect(p)
    BY <1>1, <1>2, <1>4, OthersAreBystanders DEF Effect
  <1>. QED  BY <1>2, <1>4, <1>5, <1>6

LEMMA FillEffect ==
  ASSUME IInv, NEW p \in Procs,
         CreateTemp(p) \/ WriteReplacement(p) \/ CopyMetadata(p) \/ SyncTemp(p) \/ Capture(p)
  PROVE  /\ Effect(p) /\ Quiet /\ GoesOn(p) /\ UNCHANGED <<view, result>>
         /\ pc[p] \in InstallSteps /\ pc'[p] \in InstallSteps
  <1>1. TypeOK /\ OthersKeep(p)
    BY DEF CreateTemp, WriteReplacement, CopyMetadata, SyncTemp, Capture, ThroughHandle,
           Complete, Goto, OthersKeep, IInv, TypeOK
  <1>2. UNCHANGED <<files, disk, commit, raced, view, result, edits, losses>>
    BY DEF CreateTemp, WriteReplacement, CopyMetadata, SyncTemp, Capture
  <1>3. <<pc[p], pc'[p]>> \in
          {<<"create-temp", "write">>, <<"write", "copy-metadata">>,
           <<"copy-metadata", "sync-temp">>, <<"sync-temp", "inputs2">>,
           <<"capture", "sync-parent">>}
    BY <1>1 DEF CreateTemp, WriteReplacement, CopyMetadata, SyncTemp, Capture, Goto, TypeOK
  <1>4. Quiet /\ GoesOn(p) /\ pc[p] # "done" /\ SeesFiles(p)
    BY <1>2, <1>3, SameViewSees DEF Quiet, GoesOn
  <1>5. pc[p] \in InstallSteps /\ pc'[p] \in InstallSteps
    BY <1>3 DEF InstallSteps, PreCommitSteps, RecheckSteps
  <1>6. Effect(p)
    BY <1>1, <1>2, <1>4, OthersAreBystanders DEF Effect
  <1>. QED  BY <1>2, <1>4, <1>5, <1>6

LEMMA SyncParentEffect ==
  ASSUME IInv, NEW p \in Procs, SyncParentBeforeCommit(p) \/ SyncParentAfterCommit(p)
  PROVE  /\ Effect(p) /\ SyncedParent /\ UNCHANGED <<view, result, temp, own>>
         /\ \/ pc[p] = "sync-parent" /\ pc'[p] = "inputs3"
            \/ pc[p] = "sync-parent-after" /\ pc'[p] = "cleanup-temp"
  <1>1. TypeOK /\ OthersKeep(p)
    BY DEF SyncParentBeforeCommit, SyncParentAfterCommit, Complete, Goto, OthersKeep, IInv,
           TypeOK
  <1>2. SyncedParent /\ UNCHANGED <<temp, own, view, result, edits, losses>>
    BY DEF SyncParentBeforeCommit, SyncParentAfterCommit, SyncedParent
  <1>3. \/ pc[p] = "sync-parent" /\ pc'[p] = "inputs3"
        \/ pc[p] = "sync-parent-after" /\ pc'[p] = "cleanup-temp"
    BY <1>1 DEF SyncParentBeforeCommit, SyncParentAfterCommit, Goto, TypeOK
  <1>4. Effect(p)
    BY <1>1, <1>2, <1>3, SameViewSees, OthersAreBystanders DEF Effect, GoesOn
  <1>. QED  BY <1>2, <1>3, <1>4

LEMMA EndEffect ==
  ASSUME IInv, NEW p \in Procs,
         RefuseInstall(p) \/ SyncParentFails(p) \/ CleanupTemp(p)
  PROVE  Effect(p) /\ Quiet /\ UNCHANGED view /\ pc'[p] = "done" /\ result'[p] # "running"
  <1>1. TypeOK /\ OthersKeep(p)
    BY DEF RefuseInstall, Cleanup, SyncParentFails, CleanupTemp, Complete, Finish, OthersKeep,
           IInv, TypeOK
  <1>2. UNCHANGED <<files, disk, commit, raced, view, edits, losses>>
    BY DEF RefuseInstall, Cleanup, SyncParentFails, CleanupTemp
  <1>3. /\ pc[p] # "done" /\ pc'[p] = "done" /\ result'[p] # "running"
        /\ result'[p] = "wrote" => pc[p] = "cleanup-temp"
    BY <1>1 DEF RefuseInstall, SyncParentFails, CleanupTemp, Finish, TypeOK, PreCommitSteps,
                RecheckSteps, FinalSteps
  <1>4. Effect(p)
    BY <1>1, <1>2, <1>3, SameViewSees, OthersAreBystanders DEF Effect, Quiet
  <1>. QED  BY <1>2, <1>3, <1>4 DEF Quiet

LEMMA RenameEffect ==
  ASSUME IInv, NEW p \in Procs, Rename(p) \/ RenameUncertain(p)
  PROVE  /\ Effect(p) /\ pc[p] = "rename" /\ UNCHANGED <<view, own>>
         /\ \/ Replace(p)
            \/ Quiet /\ pc'[p] = "done"
         /\ \/ pc'[p] = "done" /\ result'[p] = "ambiguous"
            \/ pc'[p] = "sync-parent-after" /\ result'[p] = result[p]
  <1>1. /\ pc[p] = "rename" /\ UNCHANGED <<view, own, edits, losses>> /\ TypeOK
        /\ \A q \in Procs \ {p} : pc'[q] = pc[q] /\ result'[q] = result[q]
    BY DEF Rename, RenameUncertain, Goto, Finish, IInv, TypeOK
  <1>2. CASE Replace(p)
    <2>1. \/ pc'[p] = "done" /\ result'[p] = "ambiguous"
          \/ pc'[p] = "sync-parent-after" /\ result'[p] = result[p]
      BY <1>1 DEF Rename, RenameUncertain, Goto, Finish, TypeOK
    <2>2. \A q \in Procs \ {p} : Waits(q)
      BY <1>1, <1>2, ReplaceBystanders
    <2>3. Effect(p)
      BY <1>1, <1>2, <2>1, <2>2, SameViewSees DEF Effect, GoesOn
    <2>. QED  BY <1>1, <1>2, <2>1, <2>3
  <1>3. CASE ~Replace(p)
    <2>1. RenameUncertain(p) /\ Quiet /\ OthersKeep(p)
      BY <1>3 DEF Rename, RenameUncertain, Finish, Quiet, OthersKeep, IInv, TypeOK
    <2>2. pc'[p] = "done" /\ result'[p] = "ambiguous"
      BY <1>1, <2>1 DEF RenameUncertain, Finish, TypeOK
    <2>3. Effect(p)
      BY <1>1, <2>1, <2>2, SameViewSees, OthersAreBystanders DEF Effect
    <2>. QED  BY <1>1, <2>1, <2>2, <2>3
  <1>. QED  BY <1>2, <1>3

LEMMA ProcessEffect ==
  ASSUME IInv, NEW p \in Procs, Process(p)
  PROVE  Effect(p)
BY PassEffect, RecheckEffect, FillEffect, SyncParentEffect, EndEffect, RenameEffect
DEF Process, Validation, Install, InstallSucceeds

-------------------------------------------------------------------------------
(***************************************************************************)
(* The temporary file and the outcome of the process that takes the step.  *)
(***************************************************************************)
LEMMA NotInstalling ==
  /\ \A s \in PassSteps \cup PostCommitSteps \cup {"start", "prepare-parent", "done"} :
       s \notin TempSteps
  /\ \A s \in PassSteps \cup {"start", "done"} : s \notin InstallSteps
  /\ TempSteps \subseteq InstallSteps
BY DEF TempSteps, HandleOpen, InstallSteps, PreCommitSteps, RecheckSteps, FinalSteps,
       PostCommitSteps, PassSteps

LEMMA OutcomeGoesOn ==
  ASSUME NEW p \in Procs, OutcomeInv(p), UNCHANGED <<commit, raced>>,
         result'[p] = result[p], pc[p] # "done", pc'[p] # "done",
         pc[p] \in InstallSteps, view'[p] = view[p]
  PROVE  OutcomeInv(p)'
  <1>1. DataOf(p)' = DataOf(p)
    BY DEF DataOf
  <1>. QED  BY <1>1 DEF OutcomeInv

LEMMA PassKeeps ==
  ASSUME IInv, IInv', NEW p \in Procs, TempContentInv(p), OutcomeInv(p),
         \/ Start(p) \/ Validate1(p) \/ Validate2(p) \/ RefusePass(p)
         \/ Read(p, "read1", "validate1") \/ Read(p, "read2", "validate2")
  PROVE  TempContentInv(p)' /\ OutcomeInv(p)'
  <1>1. /\ TypeOK /\ Quiet /\ pc[p] \in PassSteps \cup {"start"} /\ ~Committed(p)
        /\ \/ pc'[p] \in PassSteps \cup {"prepare-parent"} /\ result'[p] = result[p]
           \/ pc'[p] = "done" /\ result'[p] # "running"
    <2>1. pc[p] \in PassSteps \cup {"start"}
      BY DEF Start, RefusePass, Validate1, Validate2, Read, Goto, PassSteps
    <2>2. ~Committed(p)
      BY <2>1 DEF IInv, ProcessInv, CommitInv, PassSteps, PostCommitSteps
    <2>3. Quiet
      BY DEF Start, RefusePass, Validate1, Validate2, Read, Quiet
    <2>4. CASE Start(p) \/ RefusePass(p) \/ Validate1(p) \/ Validate2(p)
      BY <2>1, <2>2, <2>3, <2>4
      DEF Start, RefusePass, Validate1, Validate2, Goto, Finish, IInv, TypeOK, PassSteps
    <2>5. CASE Read(p, "read1", "validate1") \/ Read(p, "read2", "validate2")
      BY <2>1, <2>2, <2>3, <2>5 DEF Read, Finish, IInv, TypeOK, PassSteps
    <2>. QED  BY <2>4, <2>5
  <1>2. pc'[p] \in {"write", "copy-metadata"} \cup TempSteps => FALSE
    BY <1>1, NotInstalling DEF PassSteps
  <1>3. TempContentInv(p)'
    BY <1>2 DEF TempContentInv
  <1>4. pc[p] # "done" /\ result[p] = "running" /\ ~Committed(p)'
    BY <1>1 DEF OutcomeInv, PassSteps, Quiet
  <1>5. pc'[p] \in InstallSteps => DataOf(p)'["resolved"] # DataOf(p)'["source"]
    <2>1. SUFFICES ASSUME pc'[p] \in InstallSteps
                   PROVE  DataOf(p)'["resolved"] # DataOf(p)'["source"]
      OBVIOUS
    <2>2. pc'[p] = "prepare-parent"
      BY <2>1, <1>1, NotInstalling
    <2>3. /\ DataOf(p)["resolved"] # DataOf(p)["source"]
          /\ view' = [view EXCEPT ![p].parent = Parent]
      BY <1>1, <2>2
      DEF Start, RefusePass, Validate1, Validate2, Read, Goto, Finish, TypeOK, PassSteps
    <2>4. view'[p].seen = view[p].seen
      BY <1>1, <2>3 DEF TypeOK, View
    <2>5. DataOf(p)' = DataOf(p)
      BY <2>4 DEF DataOf
    <2>. QED  BY <2>3, <2>5
  <1>6. result'[p] = "running" <=> pc'[p] # "done"
    BY <1>1, <1>4 DEF PassSteps
  <1>. QED  BY <1>3, <1>4, <1>5, <1>6 DEF OutcomeInv

LEMMA RecheckKeeps ==
  ASSUME IInv, NEW p \in Procs, TempContentInv(p), OutcomeInv(p),
         pc'[p] # "done", UNCHANGED <<temp, own, view, result, commit, raced>>,
         pc[p] \in InstallSteps,
         pc[p] \in TempSteps \ Filling \/ pc'[p] \notin TempSteps,
         pc'[p] \in TempSteps \ Filling \/ pc'[p] \notin TempSteps
  PROVE  TempContentInv(p)' /\ OutcomeInv(p)'
  <1>1. pc[p] # "done" /\ pc'[p] # "done"
    BY NotInstalling
  <1>2. OutcomeInv(p)'
    BY <1>1, OutcomeGoesOn
  <1>3. {"write", "copy-metadata"} \subseteq Filling /\ Filling \subseteq TempSteps
    BY DEF Filling, TempSteps, HandleOpen
  <1>4. TempContentInv(p)'
    BY <1>3 DEF TempContentInv
  <1>. QED  BY <1>2, <1>4

\* The end of an invocation that does not rename.
LEMMA EndKeeps ==
  ASSUME NEW p \in Procs, OutcomeInv(p), Quiet, UNCHANGED view,
         pc'[p] = "done", result'[p] # "running"
  PROVE  TempContentInv(p)' /\ OutcomeInv(p)'
  <1>1. DataOf(p)' = DataOf(p)
    BY DEF DataOf
  <1>2. OutcomeInv(p)'
    BY <1>1, NotInstalling DEF OutcomeInv, Quiet
  <1>3. TempContentInv(p)'
    BY NotInstalling DEF TempContentInv
  <1>. QED  BY <1>2, <1>3

LEMMA ThroughHandleEffect ==
  ASSUME TypeOK, NEW p \in Procs, NEW f \in File, own[p] \in File,
         f.ino = own[p].ino, ThroughHandle(p, f)
  PROVE  /\ own'[p] = f
         /\ temp'[p] = None <=> temp[p] = None
         /\ temp[p] # None /\ temp[p].ino = own[p].ino =>
              /\ temp'[p].ino = f.ino /\ temp'[p].data = f.data
              /\ temp'[p].meta = f.meta
         /\ temp[p] # None /\ temp[p].ino # own[p].ino => temp'[p] = temp[p]
  <1>1. own'[p] = f
    BY DEF ThroughHandle, TypeOK
  <1>2. CASE temp[p] # None /\ temp[p].ino = own[p].ino
    <2>1. temp'[p] = [f EXCEPT !.dir = temp[p].dir]
      BY <1>2 DEF ThroughHandle, TypeOK
    <2>2. /\ temp'[p].ino = f.ino /\ temp'[p].data = f.data /\ temp'[p].meta = f.meta
          /\ temp'[p] \in File
      BY <2>1, <1>2 DEF File, TypeOK
    <2>. QED  BY <1>1, <1>2, <2>2, NoneAssumption
  <1>3. CASE ~(temp[p] # None /\ temp[p].ino = own[p].ino)
    <2>1. temp'[p] = temp[p]
      BY <1>3 DEF ThroughHandle, TypeOK
    <2>. QED  BY <1>1, <1>3, <2>1
  <1>. QED  BY <1>2, <1>3

LEMMA FillKeeps ==
  ASSUME IInv, NEW p \in Procs, TempContentInv(p), OutcomeInv(p),
         CreateTemp(p) \/ WriteReplacement(p) \/ CopyMetadata(p) \/ SyncTemp(p) \/ Capture(p)
  PROVE  TempContentInv(p)' /\ OutcomeInv(p)'
  <1>1. TypeOK /\ TempInv(p) /\ ViewInv(p)
    BY DEF IInv, ProcessInv
  <1>2. Quiet /\ GoesOn(p) /\ UNCHANGED <<view, result>> /\ pc[p] \in InstallSteps
    BY FillEffect
  <1>3. OutcomeInv(p)'
    BY <1>2, NotInstalling, OutcomeGoesOn DEF Quiet, GoesOn
  <1>4. /\ view[p].seen["resolved"] \in File /\ view[p].seen["source"] \in File
    BY <1>1, <1>2, SeenType DEF ViewInv, Paths
  <1>5. CASE CreateTemp(p)
    <2>1. pc'[p] = "write" /\ temp'[p] = own'[p]
      BY <1>1, <1>5 DEF CreateTemp, Goto, TypeOK
    <2>. QED  BY <1>3, <2>1 DEF TempContentInv
  <1>6. CASE WriteReplacement(p)
    <2>1. pc[p] = "write" /\ pc'[p] = "copy-metadata" /\ own[p] \in File
      BY <1>1, <1>6 DEF WriteReplacement, Goto, TypeOK, TempInv, TempSteps, HandleOpen
    <2>. DEFINE f == [own[p] EXCEPT !.data = view[p].seen["resolved"].data]
    <2>2. f \in File /\ f.ino = own[p].ino /\ f.data = view[p].seen["resolved"].data
      BY <1>4, <2>1 DEF File
    <2>3. ThroughHandle(p, f)
      BY <1>6 DEF WriteReplacement
    <2>. HIDE DEF f
    <2>4. "temp" \notin raced[p] /\ temp'[p] # None =>
            temp'[p].ino = own'[p].ino /\ temp'[p].data = f.data
      BY <1>1, <2>1, <2>2, <2>3, ThroughHandleEffect DEF TempContentInv
    <2>5. own'[p] = f
      BY <1>1, <2>1, <2>2, <2>3, ThroughHandleEffect
    <2>. QED
      BY <1>2, <1>3, <2>1, <2>2, <2>4, <2>5 DEF TempContentInv, Quiet
  <1>7. CASE CopyMetadata(p)
    <2>1. /\ pc[p] = "copy-metadata" /\ pc'[p] = "sync-temp" /\ own[p] \in File
          /\ pc[p] \in TempSteps
      BY <1>1, <1>7 DEF CopyMetadata, Goto, TypeOK, TempInv, TempSteps, HandleOpen
    <2>. DEFINE f == [own[p] EXCEPT !.meta = view[p].seen["source"].meta]
    <2>2. /\ f \in File /\ f.ino = own[p].ino /\ f.data = own[p].data
          /\ f.meta = view[p].seen["source"].meta
      BY <1>4, <2>1 DEF File
    <2>3. ThroughHandle(p, f)
      BY <1>7 DEF CopyMetadata
    <2>. HIDE DEF f
    <2>4. "temp" \notin raced[p] /\ temp'[p] # None =>
            temp'[p].data = f.data /\ temp'[p].meta = f.meta
      BY <1>1, <2>1, <2>2, <2>3, ThroughHandleEffect DEF TempContentInv
    <2>5. own'[p] = f
      BY <1>1, <2>1, <2>2, <2>3, ThroughHandleEffect
    <2>6. "temp" \notin raced[p] => own[p].data = view[p].seen["resolved"].data
      BY <2>1, NoneAssumption DEF TempContentInv
    <2>. QED
      BY <1>2, <1>3, <2>1, <2>2, <2>4, <2>5, <2>6 DEF TempContentInv, Quiet
  <1>8. CASE SyncTemp(p)
    <2>1. /\ pc[p] = "sync-temp" /\ pc'[p] = "inputs2" /\ own[p] \in File
          /\ pc[p] \in TempSteps
      BY <1>1, <1>8 DEF SyncTemp, Goto, TypeOK, TempInv, TempSteps, HandleOpen
    <2>. DEFINE f == [own[p] EXCEPT !.synced = TRUE]
    <2>2. /\ f \in File /\ f.ino = own[p].ino /\ f.data = own[p].data
          /\ f.meta = own[p].meta
      BY <2>1 DEF File
    <2>3. ThroughHandle(p, f)
      BY <1>8 DEF SyncTemp
    <2>. HIDE DEF f
    <2>4. \/ temp'[p] = temp[p]
          \/ temp'[p] = None
          \/ temp'[p].data = own[p].data /\ temp'[p].meta = own[p].meta
      BY <1>1, <2>1, <2>2, <2>3, ThroughHandleEffect
    <2>5. own'[p] = f
      BY <1>1, <2>1, <2>2, <2>3, ThroughHandleEffect
    <2>6. "temp" \notin raced[p] =>
            \A g \in {own[p], temp[p]} \ {None} :
              /\ g.data = view[p].seen["resolved"].data
              /\ g.meta = view[p].seen["source"].meta
      BY <2>1 DEF TempContentInv
    <2>7. own[p] # None /\ (temp[p] = None => temp'[p] = None)
      BY <1>1, <2>1, <2>2, <2>3, NoneAssumption, ThroughHandleEffect
    <2>8. "temp" \notin raced[p] =>
            \A g \in {own'[p], temp'[p]} \ {None} :
              /\ g.data = view[p].seen["resolved"].data
              /\ g.meta = view[p].seen["source"].meta
      BY <2>2, <2>4, <2>5, <2>6, <2>7
    <2>. QED
      BY <1>2, <1>3, <2>1, <2>8 DEF TempContentInv, Quiet
  <1>9. CASE Capture(p)
    <2>1. /\ pc[p] = "capture" /\ pc'[p] = "sync-parent" /\ own[p] \in File
          /\ pc[p] \in TempSteps /\ temp' = temp
      BY <1>1, <1>9 DEF Capture, Goto, TypeOK, TempInv, TempSteps, HandleOpen
    <2>2. own'[p].data = own[p].data /\ own'[p].meta = own[p].meta
      BY <1>1, <1>9, <2>1 DEF Capture, TypeOK, File
    <2>3. "temp" \notin raced[p] =>
            \A g \in {own[p], temp[p]} \ {None} :
              /\ g.data = view[p].seen["resolved"].data
              /\ g.meta = view[p].seen["source"].meta
      BY <2>1 DEF TempContentInv
    <2>4. own[p] # None
      BY <2>1, NoneAssumption
    <2>5. "temp" \notin raced[p] =>
            \A g \in {own'[p], temp'[p]} \ {None} :
              /\ g.data = view[p].seen["resolved"].data
              /\ g.meta = view[p].seen["source"].meta
      BY <2>1, <2>2, <2>3, <2>4
    <2>. QED
      BY <1>2, <1>3, <2>1, <2>5 DEF TempContentInv, Quiet
  <1>. QED  BY <1>5, <1>6, <1>7, <1>8, <1>9

LEMMA RenameKeeps ==
  ASSUME IInv, NEW p \in Procs, TempContentInv(p), OutcomeInv(p),
         Rename(p) \/ RenameUncertain(p)
  PROVE  TempContentInv(p)' /\ OutcomeInv(p)'
  <1>1. /\ TypeOK /\ pc[p] = "rename" /\ UNCHANGED <<view, own>>
        /\ \/ pc'[p] = "done" /\ result'[p] = "ambiguous"
           \/ pc'[p] = "sync-parent-after" /\ result'[p] = result[p]
    BY RenameEffect DEF IInv
  <1>2. CASE ~Replace(p)
    <2>1. Quiet /\ pc'[p] = "done"
      BY <1>2, RenameEffect
    <2>. QED  BY <1>1, <2>1, EndKeeps
  <1>3. CASE Replace(p)
    <2>1. pc'[p] \notin TempSteps \cup {"write", "copy-metadata"}
      BY <1>1, NotInstalling DEF PostCommitSteps
    <2>2. TempContentInv(p)'
      BY <2>1 DEF TempContentInv
    <2>3. DataOf(p)' = DataOf(p) /\ DataOf(p)["resolved"] # DataOf(p)["source"]
      BY <1>1 DEF DataOf, OutcomeInv, InstallSteps
    <2>4. result'[p] = "running" <=> pc'[p] # "done"
      BY <1>1 DEF OutcomeInv
    <2>5. /\ commit'[p] = [old |-> files["source"], new |-> temp[p],
                           inputs |-> [x \in Paths |-> files[x].data]]
          /\ raced'[p] = raced[p] /\ temp[p] # None
      BY <1>1, <1>3 DEF Replace, Race, TypeOK
    <2>6. ASSUME raced[p] = {}
          PROVE  temp[p].meta = files["source"].meta
      <3>1. Same(files["source"], view[p].seen["source"])
        BY <1>1, <2>6 DEF IInv, ProcessInv, CheckedInv
      <3>2. temp[p].meta = view[p].seen["source"].meta
        BY <1>1, <2>5, <2>6 DEF TempContentInv, TempSteps
      <3>. QED  BY <3>1, <3>2 DEF Same
    <2>. QED  BY <2>2, <2>3, <2>4, <2>5, <2>6 DEF OutcomeInv
  <1>. QED  BY <1>2, <1>3

LEMMA ProcessKeeps ==
  ASSUME IInv, IInv', NEW p \in Procs, TempContentInv(p), OutcomeInv(p), Process(p)
  PROVE  TempContentInv(p)' /\ OutcomeInv(p)'
  <1>1. CASE Validation(p) \/ RefusePass(p)
    BY <1>1, PassKeeps DEF Validation
  <1>2. CASE \/ CheckParent(p, "prepare-parent", "PrepareParent", "inputs1")
             \/ CheckParent(p, "parent1", "RecheckParent", "create-temp")
             \/ RecheckInput(p, "inputs1", "destination1")
             \/ RecheckInput(p, "inputs2", "destination2")
             \/ RecheckInput(p, "inputs3", "destination3")
             \/ RecheckDestination(p, "destination1", "parent1")
             \/ RecheckDestination(p, "destination2", "capture")
             \/ RecheckDestination(p, "destination3", "temp3")
             \/ RecheckTemp(p) \/ RecheckParent(p)
    <2>1. /\ Quiet /\ GoesOn(p) /\ UNCHANGED <<temp, own, view, result>>
          /\ pc[p] \in InstallSteps
          /\ pc[p] \in TempSteps \ Filling \/ pc'[p] \notin TempSteps
          /\ pc'[p] \in TempSteps \ Filling \/ pc'[p] \notin TempSteps
      BY <1>2, RecheckEffect
    <2>. QED  BY <2>1, RecheckKeeps DEF Quiet, GoesOn
  <1>3. CASE SyncParentBeforeCommit(p) \/ SyncParentAfterCommit(p)
    <2>1. /\ SyncedParent /\ UNCHANGED <<view, result, temp, own>>
          /\ \/ pc[p] = "sync-parent" /\ pc'[p] = "inputs3"
             \/ pc[p] = "sync-parent-after" /\ pc'[p] = "cleanup-temp"
      BY <1>3, SyncParentEffect
    <2>2. /\ pc[p] \in InstallSteps
          /\ pc[p] \in TempSteps \ Filling \/ pc'[p] \notin TempSteps
          /\ pc'[p] \in TempSteps \ Filling \/ pc'[p] \notin TempSteps
      BY <2>1 DEF InstallSteps, PreCommitSteps, PostCommitSteps, TempSteps, HandleOpen,
                  FinalSteps, Filling
    <2>. QED  BY <2>1, <2>2, RecheckKeeps DEF SyncedParent
  <1>4. CASE RefuseInstall(p) \/ SyncParentFails(p) \/ CleanupTemp(p)
    BY <1>4, EndEffect, EndKeeps
  <1>5. CASE CreateTemp(p) \/ WriteReplacement(p) \/ CopyMetadata(p) \/ SyncTemp(p) \/ Capture(p)
    BY <1>5, FillKeeps
  <1>6. CASE Rename(p) \/ RenameUncertain(p)
    BY <1>6, RenameKeeps
  <1>. QED
    BY <1>1, <1>2, <1>3, <1>4, <1>5, <1>6 DEF Process, Install, InstallSucceeds

LEMMA TouchTempKeeps ==
  ASSUME TypeOK, NEW p \in Procs, OutcomeInv(p), TouchTemp(p)
  PROVE  TempContentInv(p)' /\ OutcomeInv(p)'
  <1>1. UNCHANGED <<pc, view, result, commit>> /\ "temp" \in raced'[p]
    BY DEF TouchTemp, TypeOK
  <1>2. DataOf(p)' = DataOf(p) /\ raced'[p] # {}
    BY <1>1 DEF DataOf
  <1>. QED  BY <1>1, <1>2 DEF TempContentInv, OutcomeInv

LEMMA NextKeeps ==
  ASSUME IInv, IInv', Next, NEW q \in Procs, TempContentInv(q), OutcomeInv(q)
  PROVE  TempContentInv(q)' /\ OutcomeInv(q)'
  <1>1. TypeOK
    BY DEF IInv
  <1>2. CASE Process(q)
    BY <1>2, ProcessKeeps
  <1>3. CASE TouchTemp(q)
    BY <1>1, <1>3, TouchTempKeeps
  <1>4. CASE Bystander(q)
    BY <1>4, BystanderKeeps
  <1>5. ASSUME NEW p \in Procs \ {q}, Process(p) PROVE Bystander(q)
    BY <1>5, ProcessEffect DEF Effect, Waits
  <1>. QED
    BY <1>1, <1>2, <1>3, <1>4, <1>5, EnvironmentBystanders DEF Next

-------------------------------------------------------------------------------
(***************************************************************************)
(* Without changes by other programs there is one workspace, and what has  *)
(* been installed stays.                                                   *)
(***************************************************************************)
\* A replacement that no loss of power may have taken back ...
Stands(p) == Committed(p) /\ (losses = 0 \/ pc[p] # "done" \/ result[p] = "wrote")

\* ... and one that none can take back.
Durable(p) == pc[p] = "cleanup-temp" \/ result[p] = "wrote"

LEMMA DurableStands ==
  ASSUME IInv, NEW p \in Procs, Durable(p)
  PROVE  Stands(p)
BY DEF IInv, ProcessInv, CommitInv, PostCommitSteps, ReportTruthful, Durable, Stands

LEMMA SameAfterProcess ==
  ASSUME IInv, NEW p \in Procs, Process(p), edits = 0,
         \A q \in Procs : TempContentInv(q) /\ OutcomeInv(q) /\ SameWorkspaceInv(q)
  PROVE  \A q \in Procs : SameWorkspaceInv(q)'
  <1>1. Effect(p) /\ TypeOK
    BY ProcessEffect DEF IInv
  <1>2. /\ \A x \in Paths \ {"source"} : files'[x] = files[x]
        /\ files'["resolved"] = files["resolved"]
    BY <1>1 DEF Effect, Quiet, SyncedParent, Replace, TypeOK, Paths
  <1>3. Quiet \/ SyncedParent => raced' = raced /\ commit' = commit /\ files' = files
    BY DEF Quiet, SyncedParent
  <1>4. Quiet \/ SyncedParent \/ (Replace(p) /\ pc[p] = "rename")
    BY <1>1 DEF Effect
  <1>5. ASSUME NEW q \in Procs
        PROVE  "temp" \notin raced'[q]
    <2>1. "temp" \notin raced[q]
      BY DEF SameWorkspaceInv
    <2>2. Replace(p) => raced'[q] \in {raced[q], raced[q] \cup {"window"}}
      BY <1>1 DEF Replace, Race, TypeOK
    <2>. QED  BY <2>1, <2>2, <1>3, <1>4
  <1>6. ASSUME NEW q \in Procs, NEW x \in Paths \ {"source"}, view'[q].seen[x] # None
        PROVE  view'[q].seen[x].data = files'[x].data
    <2>1. view'[q].seen[x] \in {view[q].seen[x], files[x]}
      BY <1>1, <1>6 DEF Effect, Waits, SeesFiles, Bystander
    <2>2. view[q].seen[x] # None => view[q].seen[x].data = files[x].data
      BY DEF SameWorkspaceInv
    <2>. QED  BY <1>2, <1>6, <2>1, <2>2
  <1>7. ASSUME Replace(p), pc[p] = "rename"
        PROVE  /\ files'["source"].data = files["resolved"].data
               /\ \A f \in disk' : f \in disk \/ f.data = files["resolved"].data
    <2>1. view[p].seen["resolved"] # None
      BY <1>7 DEF IInv, ProcessInv, ViewInv, InstallSteps, Paths
    <2>2. view[p].seen["resolved"].data = files["resolved"].data /\ "temp" \notin raced[p]
      BY <2>1 DEF SameWorkspaceInv, Paths
    <2>3. temp[p] # None
      BY <1>7 DEF Replace
    <2>4. temp[p].data = view[p].seen["resolved"].data
      BY <1>7, <2>2, <2>3 DEF TempContentInv, TempSteps
    <2>5. files'["source"] = temp[p] /\ disk' = disk \cup {temp[p]}
      BY <1>1, <1>7 DEF Replace, TypeOK, Paths
    <2>. QED  BY <2>2, <2>4, <2>5
  <1>8. ASSUME NEW q \in Procs, Stands(q)'
        PROVE  files'["source"].data = files["resolved"].data
    <2>1. CASE Replace(p) /\ pc[p] = "rename"
      BY <1>7, <2>1
    <2>2. CASE Quiet \/ SyncedParent
      <3>1. pc[p] # "done" /\ losses' = losses /\ commit' = commit /\ files' = files
        BY <1>1, <1>3, <2>2 DEF Effect
      <3>2. q # p => Bystander(q)
        BY <1>1 DEF Effect, Waits
      <3>3. Stands(q)
        BY <1>8, <3>1, <3>2 DEF Stands, Bystander
      <3>. QED  BY <3>1, <3>3 DEF SameWorkspaceInv, Stands
    <2>. QED  BY <1>4, <2>1, <2>2
  <1>9. ASSUME NEW q \in Procs, Durable(q)', NEW f \in disk'
        PROVE  f.data = files["resolved"].data
    <2>1. q # p => Durable(q)
      BY <1>1, <1>9 DEF Effect, Waits, Bystander, Durable
    <2>2. q = p => Durable(q) \/ (SyncedParent /\ pc[p] = "sync-parent-after")
      BY <1>1, <1>9 DEF Effect, GoesOn, Durable
    <2>3. Durable(q) => \A g \in disk : g.data = files["resolved"].data
      BY DEF SameWorkspaceInv, Durable
    <2>4. ASSUME SyncedParent PROVE f.data = files["resolved"].data
      <3>1. q = p /\ pc[p] = "sync-parent-after" => Stands(q)
        BY DEF IInv, ProcessInv, CommitInv, PostCommitSteps, Stands
      <3>2. Stands(q)
        BY <2>1, <2>2, <3>1, DurableStands
      <3>3. f = files["source"]
        BY <1>9, <2>4 DEF SyncedParent
      <3>. QED  BY <3>2, <3>3 DEF SameWorkspaceInv, Stands
    <2>5. ASSUME Quiet PROVE f.data = files["resolved"].data
      <3>1. ~SyncedParent => Durable(q)
        BY <2>1, <2>2
      <3>2. disk' = disk
        BY <2>5 DEF Quiet
      <3>. QED  BY <1>9, <2>3, <2>4, <3>1, <3>2
    <2>6. ASSUME Replace(p), pc[p] = "rename" PROVE f.data = files["resolved"].data
      <3>1. Durable(q)
        BY <2>1, <2>2, <2>6
      <3>. QED  BY <1>7, <1>9, <2>3, <2>6, <3>1
    <2>. QED  BY <1>4, <2>4, <2>5, <2>6
  <1>. QED
    BY <1>2, <1>5, <1>6, <1>8, <1>9 DEF SameWorkspaceInv, Stands, Durable

LEMMA SameAfterKill ==
  ASSUME IInv, NEW p \in Procs, Kill(p), edits = 0, NEW q \in Procs, SameWorkspaceInv(q)
  PROVE  SameWorkspaceInv(q)'
  <1>1. UNCHANGED <<files, disk, view, commit, raced>> /\ losses' # 0
    <2>1. losses \in Nat /\ losses' = losses + 1
      BY BoundsAssumption DEF Kill, IInv, TypeOK
    <2>. QED  BY <2>1 DEF Kill
  <1>2. Bystander(q)
    BY EnvironmentBystanders DEF IInv
  <1>3. Stands(q)' => Stands(q)
    BY <1>1, <1>2 DEF Bystander, Stands
  <1>4. Durable(q)' => Durable(q)
    BY <1>2 DEF Bystander, Durable
  <1>. QED
    BY <1>1, <1>3, <1>4 DEF SameWorkspaceInv, Stands, Durable

LEMMA SameAfterPowerLoss ==
  ASSUME IInv, PowerLoss, edits = 0, NEW q \in Procs, SameWorkspaceInv(q)
  PROVE  SameWorkspaceInv(q)'
  <1>1. /\ UNCHANGED <<view, commit, raced>>
        /\ losses' # 0
        /\ \A x \in Paths \ {"source"} : files'[x] = files[x]
        /\ files'["resolved"] = files["resolved"]
    <2>1. losses \in Nat /\ losses' = losses + 1
      BY BoundsAssumption DEF PowerLoss, IInv, TypeOK
    <2>. QED  BY <2>1 DEF PowerLoss, IInv, TypeOK, Paths
  <1>2. /\ pc'[q] = "start" \/ pc'[q] = "done"
        /\ pc'[q] = "start" => pc[q] = "start"
        /\ result'[q] = "wrote" => result[q] = "wrote"
    BY DEF PowerLoss
  <1>3. disk' = {files'["source"]}
    BY DEF PowerLoss
  <1>4. \E f \in disk : files'["source"].data = f.data
    <2>1. PICK f \in disk, lost \in BOOLEAN :
            /\ lost => ~f.synced
            /\ files' = [files EXCEPT !["source"] =
                           [f EXCEPT !.data = IF lost THEN Torn ELSE @, !.synced = TRUE]]
      BY DEF PowerLoss
    <2>2. f \in File /\ ~lost
      BY <2>1 DEF IInv, TypeOK, SourceIsWhole, Whole
    <2>3. files'["source"] = [f EXCEPT !.data = IF lost THEN Torn ELSE @, !.synced = TRUE]
      BY <2>1 DEF IInv, TypeOK, Paths
    <2>. QED  BY <2>2, <2>3 DEF File
  <1>5. Durable(q) => files'["source"].data = files["resolved"].data
    BY <1>4 DEF SameWorkspaceInv, Durable
  <1>6. Durable(q)' => Durable(q)
    BY <1>2 DEF Durable
  <1>7. Stands(q)' => Durable(q)
    <2>1. ~(Committed(q) /\ pc[q] = "start")
      BY DEF IInv, ProcessInv, CommitInv, PostCommitSteps
    <2>. QED  BY <1>1, <1>2, <2>1 DEF Stands, Durable
  <1>. QED
    BY <1>1, <1>3, <1>5, <1>6, <1>7 DEF SameWorkspaceInv, Stands, Durable

LEMMA NextSameWorkspace ==
  ASSUME IInv, IInv', Next,
         \A q \in Procs : TempContentInv(q) /\ OutcomeInv(q) /\ SameWorkspaceInv(q)
  PROVE  \A q \in Procs : SameWorkspaceInv(q)'
  <1>. SUFFICES ASSUME edits' = 0
                PROVE  \A q \in Procs : SameWorkspaceInv(q)'
    BY DEF SameWorkspaceInv
  <1>1. edits' # edits + 1
    BY BoundsAssumption DEF IInv, TypeOK
  <1>2. CASE \E p \in Procs : Process(p)
    <2>1. PICK p \in Procs : Process(p)
      BY <1>2
    <2>2. edits = 0
      BY <2>1, ProcessEffect DEF Effect
    <2>. QED  BY <2>1, <2>2, SameAfterProcess
  <1>3. CASE \E p \in Procs : Kill(p)
    BY <1>3, SameAfterKill DEF Kill
  <1>4. CASE PowerLoss
    BY <1>4, SameAfterPowerLoss DEF PowerLoss
  <1>. QED
    BY <1>1, <1>2, <1>3, <1>4 DEF Next, Edit, ReplaceParent, TouchTemp

-------------------------------------------------------------------------------
(***************************************************************************)
(* Files stay whole, and a workspace is applied once.                      *)
(***************************************************************************)
LEMMA NextWhole ==
  ASSUME IInv, IInv', Next, FilesWhole
  PROVE  FilesWhole'
  <1>. SUFFICES ASSUME NEW x \in Paths
                PROVE  files'[x].data \notin {Empty, Torn}
    BY DEF FilesWhole
  <1>1. CASE x = "source"
    BY <1>1 DEF IInv, SourceIsWhole, Whole
  <1>2. CASE x # "source" /\ files'[x] = files[x]
    BY <1>2 DEF FilesWhole
  <1>3. CASE \E y \in Paths : Edit(y)
    <2>1. PICK y \in Paths : Edit(y)
      BY <1>3
    <2>2. PICK d \in Contents[y], m \in Metas, i \in {files[y].ino} \cup NewInode :
            files' = [files EXCEPT ![y] = [files[y] EXCEPT
                        !.data = d, !.meta = m, !.ino = i, !.synced = TRUE]]
      BY <2>1 DEF Edit
    <2>3. d \notin {Empty, Torn} /\ files[y] \in File
      BY ContentAssumption DEF IInv, TypeOK
    <2>4. y = x => files'[x].data = d
      BY <2>2, <2>3 DEF IInv, TypeOK, File
    <2>5. y # x => files'[x] = files[x]
      BY <2>2 DEF IInv, TypeOK
    <2>. QED  BY <2>3, <2>4, <2>5 DEF FilesWhole
  <1>4. ASSUME x # "source", ~\E y \in Paths : Edit(y)
        PROVE  files'[x] = files[x]
    <2>1. TypeOK
      BY DEF IInv
    <2>2. ASSUME NEW p \in Procs, Process(p) PROVE files'[x] = files[x]
      BY <1>4, <2>1, <2>2, ProcessEffect DEF Effect, Quiet, SyncedParent, Replace, TypeOK
    <2>. QED
      BY <1>4, <2>1, <2>2 DEF Next, ReplaceParent, TouchTemp, Kill, PowerLoss, TypeOK
  <1>. QED  BY <1>1, <1>2, <1>3, <1>4

\* What a step leaves of an invocation that has renamed: that it has, and how it
\* ended.
LEMMA HistoryKept ==
  ASSUME IInv, Next, NEW q \in Procs, OutcomeInv(q), edits' = 0
  PROVE  /\ edits = 0
         /\ losses > 0 => losses' > 0
         /\ pc[q] = "done" => pc'[q] = "done" /\ result'[q] = result[q]
         /\ "window" \notin raced'[q] => "window" \notin raced[q]
         /\ Committed(q) => Committed(q)'
         /\ Committed(q)' /\ ~Committed(q) =>
              /\ Process(q) /\ Replace(q) /\ pc[q] = "rename" /\ losses' = losses
              /\ raced'[q] = raced[q]
  <1>1. TypeOK /\ edits \in Nat /\ losses \in Nat
    BY BoundsAssumption DEF IInv, TypeOK
  <1>2. edits' # edits + 1
    BY <1>1
  <1>3. CASE Process(q)
    <2>1. Effect(q)
      BY <1>3, ProcessEffect
    <2>2. Replace(q) => raced'[q] = raced[q]
      BY <1>1 DEF Replace, Race, TypeOK
    <2>3. Committed(q) => pc[q] # "rename"
      BY DEF IInv, ProcessInv, CommitInv, PostCommitSteps
    <2>4. CASE Replace(q) /\ pc[q] = "rename"
      BY <1>3, <2>1, <2>2, <2>3, <2>4 DEF Effect
    <2>5. CASE Quiet \/ SyncedParent
      BY <2>1, <2>5 DEF Effect, Quiet, SyncedParent
    <2>. QED  BY <2>1, <2>4, <2>5 DEF Effect
  <1>4. ASSUME Bystander(q)
        PROVE  /\ pc[q] = "done" => pc'[q] = "done" /\ result'[q] = result[q]
               /\ "window" \notin raced'[q] => "window" \notin raced[q]
               /\ Committed(q)' <=> Committed(q)
    BY <1>4 DEF Bystander
  <1>5. ASSUME NEW p \in Procs \ {q}, Process(p)
        PROVE  Bystander(q) /\ edits' = edits /\ losses' = losses
    BY <1>5, ProcessEffect DEF Effect, Waits
  <1>6. CASE (\E p \in Procs : Kill(p)) \/ PowerLoss
    <2>1. losses' = losses + 1 /\ edits' = edits
      BY <1>6 DEF Kill, PowerLoss
    <2>2. losses' > 0
      BY <1>1, <2>1
    <2>3. Bystander(q)
      BY <1>1, <1>6, EnvironmentBystanders
    <2>. QED  BY <1>4, <2>1, <2>2, <2>3
  <1>. QED
    BY <1>2, <1>3, <1>4, <1>5, <1>6 DEF Next, Edit, ReplaceParent, TouchTemp

LEMMA NextAppliedOnce ==
  ASSUME IInv, IInv', JInv, Next
  PROVE  AppliedOnce'
  <1>. SUFFICES ASSUME NEW p \in Procs, NEW q \in Procs, AppliedTwice(p, q)', edits' = 0
                PROVE  /\ losses' > 0
                       /\ \E r \in {p, q} : pc'[r] = "done" /\ result'[r] # "wrote"
    BY DEF AppliedOnce
  <1>1. /\ p # q /\ Committed(p)' /\ Committed(q)'
        /\ "window" \notin raced'[p] /\ "window" \notin raced'[q]
    BY DEF AppliedTwice
  <1>2. OutcomeInv(p) /\ OutcomeInv(q) /\ edits = 0
    BY HistoryKept DEF JInv
  <1>3. "window" \notin raced[p] /\ "window" \notin raced[q]
    BY <1>1, <1>2, HistoryKept
  <1>4. CASE Committed(p) /\ Committed(q)
    <2>1. AppliedTwice(p, q)
      BY <1>1, <1>3, <1>4 DEF AppliedTwice
    <2>2. losses > 0 /\ \E r \in {p, q} : pc[r] = "done" /\ result[r] # "wrote"
      BY <1>2, <2>1 DEF JInv, AppliedOnce
    <2>. QED  BY <1>2, <2>2, HistoryKept
  <1>5. ASSUME NEW a \in Procs, NEW b \in Procs, {a, b} = {p, q}, a # b,
               ~Committed(a), Committed(b)
        PROVE  /\ losses' > 0
               /\ \E r \in {p, q} : pc'[r] = "done" /\ result'[r] # "wrote"
    <2>1. /\ OutcomeInv(a) /\ OutcomeInv(b) /\ SameWorkspaceInv(a) /\ SameWorkspaceInv(b)
          /\ Committed(a)' /\ "window" \notin raced[a]
      BY <1>1, <1>3, <1>5 DEF JInv
    <2>2. Replace(a) /\ pc[a] = "rename" /\ losses' = losses
      BY <1>5, <2>1, HistoryKept
    <2>3. /\ view[a].seen["resolved"] # None
          /\ DataOf(a)["resolved"] # DataOf(a)["source"]
      BY <2>1, <2>2 DEF IInv, ProcessInv, ViewInv, OutcomeInv, InstallSteps, Paths
    <2>4. view[a].seen["resolved"].data = files["resolved"].data
      BY <1>2, <2>1, <2>3 DEF SameWorkspaceInv, Paths
    <2>5. files["source"].data = view[a].seen["source"].data
      BY <2>1, <2>2 DEF IInv, ProcessInv, CheckedInv, Same
    <2>6. files["source"].data # files["resolved"].data
      BY <2>3, <2>4, <2>5 DEF DataOf, Paths
    <2>7. losses # 0 /\ pc[b] = "done" /\ result[b] # "wrote"
      BY <1>2, <1>5, <2>1, <2>6 DEF SameWorkspaceInv
    <2>8. losses > 0
      BY <2>7, BoundsAssumption DEF IInv, TypeOK
    <2>9. pc'[b] = "done" /\ result'[b] # "wrote"
      BY <2>1, <2>7, HistoryKept
    <2>. QED  BY <1>5, <2>2, <2>8, <2>9
  <1>6. Committed(p) \/ Committed(q)
    <2>1. SUFFICES ASSUME ~Committed(p), ~Committed(q) PROVE FALSE
      OBVIOUS
    <2>2. Replace(p)
      BY <1>1, <1>2, <2>1, HistoryKept
    <2>3. commit'[q] = commit[q]
      BY <1>1, <2>2 DEF Replace, IInv, TypeOK
    <2>. QED  BY <1>1, <2>1, <2>3
  <1>. QED  BY <1>1, <1>4, <1>5, <1>6

LEMMA NextJInv ==
  ASSUME IInv, JInv, [Next]_vars
  PROVE  JInv'
  <1>1. IInv'
    BY NextInv
  <1>2. CASE Next
    <2>1. \A q \in Procs : TempContentInv(q)' /\ OutcomeInv(q)'
      BY <1>1, <1>2, NextKeeps DEF JInv
    <2>2. \A q \in Procs : SameWorkspaceInv(q)'
      BY <1>1, <1>2, NextSameWorkspace DEF JInv
    <2>3. FilesWhole' /\ AppliedOnce'
      BY <1>1, <1>2, NextWhole, NextAppliedOnce DEF JInv
    <2>. QED  BY <2>1, <2>2, <2>3 DEF JInv
  <1>3. CASE UNCHANGED vars
    <2>1. UNCHANGED <<files, disk, temp, pc, view, own, result, commit, raced, edits, losses>>
      BY <1>3 DEF vars, process
    <2>2. ASSUME NEW q \in Procs
          PROVE  TempContentInv(q)' /\ OutcomeInv(q)' /\ SameWorkspaceInv(q)'
      <3>1. TempContentInv(q) /\ OutcomeInv(q) /\ SameWorkspaceInv(q)
        BY DEF JInv
      <3>2. DataOf(q)' = DataOf(q)
        BY <2>1 DEF DataOf
      <3>3. TempContentInv(q)'
        BY <2>1, <3>1 DEF TempContentInv
      <3>4. OutcomeInv(q)'
        BY <2>1, <3>1, <3>2 DEF OutcomeInv
      <3>5. SameWorkspaceInv(q)'
        BY <2>1, <3>1 DEF SameWorkspaceInv
      <3>. QED  BY <3>3, <3>4, <3>5
    <2>3. FilesWhole'
      BY <2>1 DEF JInv, FilesWhole
    <2>4. AppliedOnce'
      BY <2>1 DEF JInv, AppliedOnce, AppliedTwice
    <2>. QED  BY <2>2, <2>3, <2>4 DEF JInv
  <1>. QED  BY <1>2, <1>3

LEMMA InitJInv == Init => JInv
  <1>. SUFFICES ASSUME Init PROVE JInv
    OBVIOUS
  <1>1. FilesWhole
    BY AcceptsAssumption DEF Init, FilesWhole
  <1>2. ASSUME NEW p \in Procs
        PROVE  TempContentInv(p) /\ OutcomeInv(p) /\ SameWorkspaceInv(p)
    <2>1. /\ pc[p] = "start" /\ temp[p] = None /\ commit[p] = None /\ raced[p] = {}
          /\ result[p] = "running" /\ view[p] = NoView
      BY DEF Init
    <2>2. "start" \notin TempSteps \cup InstallSteps
      BY NotInstalling
    <2>3. TempContentInv(p)
      BY <2>1, <2>2 DEF TempContentInv
    <2>4. OutcomeInv(p)
      BY <2>1, <2>2 DEF OutcomeInv
    <2>5. SameWorkspaceInv(p)
      BY <2>1 DEF SameWorkspaceInv, NoView
    <2>. QED  BY <2>3, <2>4, <2>5
  <1>3. AppliedOnce
    BY DEF Init, AppliedOnce, AppliedTwice
  <1>. QED  BY <1>1, <1>2, <1>3 DEF JInv

-------------------------------------------------------------------------------
(***************************************************************************)
(* The theorems.                                                           *)
(***************************************************************************)
\* The invariants of the installer and what they imply for its outcome hold in
\* every reachable state.
THEOREM OutcomeInvariance == Spec => [](IInv /\ JInv)
  <1>1. Init => IInv /\ JInv
    BY InitInv, InitJInv
  <1>2. IInv /\ JInv /\ [Next]_vars => (IInv /\ JInv)'
    BY NextInv, NextJInv
  <1>. QED  BY <1>1, <1>2, PTL DEF Spec

\* The installed file has the permissions and times of the file it replaces
\* (apply.rs:828-849), unless another program touched the temporary file.
THEOREM MetadataKept == Spec => []ReplacementKeepsMetadata
  <1>1. JInv => ReplacementKeepsMetadata
    BY DEF JInv, OutcomeInv, ReplacementKeepsMetadata
  <1>. QED  BY <1>1, OutcomeInvariance, PTL

\* A prepared workspace is applied once, by however many invocations: the second
\* finds its source changed (apply.rs:380-398), unless a loss of power took the
\* first replacement back.
THEOREM AppliedAtMostOnce == Spec => []AppliedOnce
  <1>1. JInv => AppliedOnce
    BY DEF JInv
  <1>. QED  BY <1>1, OutcomeInvariance, PTL

-------------------------------------------------------------------------------
(***************************************************************************)
(* ApplyInstall implements GuardedReplace: each of its steps is a step of   *)
(* GuardedReplace, or a stutter.  First its phases and answers.             *)
(***************************************************************************)
LEMMA PhaseValues ==
  ASSUME NEW p
  PROVE  /\ PhaseOf(p) = "idle" <=> pc[p] = "start"
         /\ PhaseOf(p) = "final" <=> pc[p] \in FinalSteps \cup {"rename"}
         /\ PhaseOf(p) = "replaced" <=> pc[p] = "sync-parent-after"
         /\ PhaseOf(p) = "durable" <=> pc[p] = "cleanup-temp"
         /\ PhaseOf(p) = "done" <=> pc[p] = "done"
         /\ PhaseOf(p) = "working" <=>
              pc[p] \notin FinalSteps \cup {"start", "rename", "done"} \cup PostCommitSteps
BY DEF PhaseOf, FinalSteps, PostCommitSteps

LEMMA SamePhase ==
  ASSUME NEW p, pc'[p] = pc[p]
  PROVE  PhaseOf(p)' = PhaseOf(p)
BY DEF PhaseOf

LEMMA SameAnswer ==
  ASSUME NEW p, result'[p] = result[p]
  PROVE  AnswerOf(p)' = AnswerOf(p)
BY DEF AnswerOf

LEMMA Enters ==
  ASSUME NEW p \in Procs, NEW s, NEW t, PhaseOf(p) = s, PhaseOf(p)' = t,
         \A q \in Procs \ {p} : pc'[q] = pc[q]
  PROVE  Guarded!Enter(p, s, t)
BY SamePhase DEF Guarded!Enter

LEMMA Answers ==
  ASSUME NEW p \in Procs, NEW w, AnswerOf(p)' = w,
         \A q \in Procs \ {p} : result'[q] = result[q]
  PROVE  Guarded!Answer(p, w)
BY SameAnswer DEF Guarded!Answer

LEMMA Silent ==
  ASSUME \A q \in Procs : result'[q] = result[q]
  PROVE  [q \in Procs |-> AnswerOf(q)]' = [q \in Procs |-> AnswerOf(q)]
BY SameAnswer

-------------------------------------------------------------------------------
(***************************************************************************)
(* The steps of an invocation.                                             *)
(***************************************************************************)
LEMMA Stutters ==
  ASSUME NEW p \in Procs, Effect(p), Quiet, PhaseOf(p)' = PhaseOf(p),
         result'[p] = result[p]
  PROVE  UNCHANGED Guarded!vars
  <1>1. /\ \A q \in Procs : PhaseOf(q)' = PhaseOf(q) /\ AnswerOf(q)' = AnswerOf(q)
        /\ UNCHANGED <<files, disk, raced>>
    BY SamePhase, SameAnswer DEF Effect, Waits, Quiet
  <1>. QED  BY <1>1 DEF Guarded!vars

LEMMA Refuses ==
  ASSUME NEW p \in Procs, Effect(p), Quiet, PhaseOf(p) \in {"working", "final"},
         pc'[p] = "done", result'[p] \notin {"running", "ambiguous", "wrote", "killed"}
  PROVE  Guarded!Refuse(p)
  <1>1. \A q \in Procs \ {p} : pc'[q] = pc[q] /\ result'[q] = result[q]
    BY DEF Effect, Waits
  <1>2. Guarded!Enter(p, PhaseOf(p), "done")
    BY <1>1, Enters DEF PhaseOf
  <1>3. Guarded!Answer(p, "unchanged")
    BY <1>1, Answers DEF AnswerOf
  <1>. QED  BY <1>2, <1>3 DEF Guarded!Refuse, Quiet

LEMMA StartRefines ==
  ASSUME IInv, NEW p \in Procs, Start(p)
  PROVE  Guarded!Begin(p)
  <1>1. pc[p] = "start" /\ pc'[p] = "read1" /\ result' = result /\ Effect(p)
    BY PassEffect DEF Start, Goto, IInv, TypeOK
  <1>2. \A q \in Procs \ {p} : pc'[q] = pc[q]
    BY <1>1 DEF Effect, Waits
  <1>3. Guarded!Enter(p, "idle", "working")
    BY <1>1, <1>2, Enters DEF PhaseOf, FinalSteps
  <1>4. UNCHANGED <<files, disk, raced>>
    BY DEF Start
  <1>. QED  BY <1>1, <1>3, <1>4, Silent DEF Guarded!Begin

LEMMA PassRefines ==
  ASSUME IInv, NEW p \in Procs,
         \/ Validate1(p) \/ Validate2(p) \/ RefusePass(p)
         \/ Read(p, "read1", "validate1") \/ Read(p, "read2", "validate2")
  PROVE  Guarded!Refuse(p) \/ UNCHANGED Guarded!vars
  <1>1. Effect(p) /\ Quiet /\ pc[p] \in PassSteps
    BY PassEffect DEF RefusePass, Validate1, Validate2, Read, Quiet, PassSteps
  <1>2. PhaseOf(p) = "working"
    BY <1>1, PhaseValues DEF PassSteps, FinalSteps, PostCommitSteps
  <1>3. \/ pc'[p] \in PassSteps \cup {"prepare-parent"} /\ result'[p] = result[p]
        \/ /\ pc'[p] = "done"
           /\ result'[p] \in {"refused", "stale-source", "dry-run", "nothing-to-write",
                              "unsafe-write"}
    <2>1. CASE RefusePass(p) \/ Validate1(p) \/ Validate2(p)
      BY <2>1 DEF RefusePass, Validate1, Validate2, Finish, IInv, TypeOK, PassSteps
    <2>2. CASE Read(p, "read1", "validate1") \/ Read(p, "read2", "validate2")
      BY <1>1, <2>2 DEF Read, Finish, IInv, TypeOK, PassSteps
    <2>. QED  BY <2>1, <2>2
  <1>4. CASE pc'[p] \in PassSteps \cup {"prepare-parent"} /\ result'[p] = result[p]
    <2>1. PhaseOf(p)' = "working"
      BY <1>4 DEF PhaseOf, PassSteps, FinalSteps
    <2>. QED  BY <1>1, <1>2, <1>4, <2>1, Stutters
  <1>5. CASE /\ pc'[p] = "done"
             /\ result'[p] \in {"refused", "stale-source", "dry-run", "nothing-to-write",
                                "unsafe-write"}
    BY <1>1, <1>2, <1>5, Refuses
  <1>. QED  BY <1>3, <1>4, <1>5

LEMMA RecheckRefines ==
  ASSUME IInv, NEW p \in Procs,
         \/ CheckParent(p, "prepare-parent", "PrepareParent", "inputs1")
         \/ CheckParent(p, "parent1", "RecheckParent", "create-temp")
         \/ RecheckInput(p, "inputs1", "destination1")
         \/ RecheckInput(p, "inputs2", "destination2")
         \/ RecheckInput(p, "inputs3", "destination3")
         \/ RecheckDestination(p, "destination1", "parent1")
         \/ RecheckDestination(p, "destination2", "capture")
         \/ RecheckDestination(p, "destination3", "temp3")
         \/ RecheckTemp(p) \/ RecheckParent(p)
  PROVE  UNCHANGED Guarded!vars
  <1>1. Effect(p) /\ Quiet /\ UNCHANGED result /\ TypeOK
    BY RecheckEffect DEF IInv
  <1>2. \/ pc'[p] = pc[p]
        \/ <<pc[p], pc'[p]>> \in
             {<<"prepare-parent", "inputs1">>, <<"parent1", "create-temp">>,
              <<"inputs1", "destination1">>, <<"inputs2", "destination2">>,
              <<"inputs3", "destination3">>, <<"destination1", "parent1">>,
              <<"destination2", "capture">>, <<"destination3", "temp3">>,
              <<"temp3", "parent3">>, <<"parent3", "rename">>}
    BY <1>1 DEF CheckParent, RecheckInput, RecheckDestination, RecheckTemp, RecheckParent,
                Goto, TypeOK
  <1>3. PhaseOf(p)' = PhaseOf(p)
    BY <1>2 DEF PhaseOf, FinalSteps
  <1>. QED  BY <1>1, <1>3, Stutters

LEMMA FillRefines ==
  ASSUME IInv, NEW p \in Procs,
         CreateTemp(p) \/ WriteReplacement(p) \/ CopyMetadata(p) \/ SyncTemp(p) \/ Capture(p)
  PROVE  UNCHANGED Guarded!vars
  <1>1. Effect(p) /\ Quiet /\ UNCHANGED result /\ TypeOK
    BY FillEffect DEF IInv
  <1>2. <<pc[p], pc'[p]>> \in
          {<<"create-temp", "write">>, <<"write", "copy-metadata">>,
           <<"copy-metadata", "sync-temp">>, <<"sync-temp", "inputs2">>,
           <<"capture", "sync-parent">>}
    BY <1>1 DEF CreateTemp, WriteReplacement, CopyMetadata, SyncTemp, Capture, Goto, TypeOK
  <1>3. PhaseOf(p)' = PhaseOf(p)
    BY <1>2 DEF PhaseOf, FinalSteps
  <1>. QED  BY <1>1, <1>3, Stutters

LEMMA SyncParentRefines ==
  ASSUME IInv, NEW p \in Procs, SyncParentBeforeCommit(p) \/ SyncParentAfterCommit(p)
  PROVE  Guarded!BeginFinal(p) \/ Guarded!Sync(p)
  <1>1. /\ Effect(p) /\ SyncedParent /\ UNCHANGED result
        /\ \/ pc[p] = "sync-parent" /\ pc'[p] = "inputs3"
           \/ pc[p] = "sync-parent-after" /\ pc'[p] = "cleanup-temp"
    BY SyncParentEffect
  <1>2. \A q \in Procs \ {p} : pc'[q] = pc[q]
    BY <1>1 DEF Effect, Waits
  <1>3. /\ {f.data : f \in disk}' = {files["source"].data}
        /\ UNCHANGED <<files, raced>>
    BY <1>1 DEF SyncedParent
  <1>4. CASE pc[p] = "sync-parent" /\ pc'[p] = "inputs3"
    <2>1. Guarded!Enter(p, "working", "final")
      BY <1>2, <1>4, Enters DEF PhaseOf, FinalSteps
    <2>. QED  BY <1>1, <1>3, <2>1, Silent DEF Guarded!BeginFinal
  <1>5. CASE pc[p] = "sync-parent-after" /\ pc'[p] = "cleanup-temp"
    <2>1. Guarded!Enter(p, "replaced", "durable")
      BY <1>2, <1>5, Enters DEF PhaseOf, FinalSteps
    <2>. QED  BY <1>1, <1>3, <2>1, Silent DEF Guarded!Sync
  <1>. QED  BY <1>1, <1>4, <1>5

LEMMA EndRefines ==
  ASSUME IInv, NEW p \in Procs,
         RefuseInstall(p) \/ SyncParentFails(p) \/ CleanupTemp(p)
  PROVE  Guarded!Refuse(p) \/ Guarded!SyncFails(p) \/ Guarded!Confirm(p)
  <1>1. Effect(p) /\ Quiet /\ pc'[p] = "done" /\ TypeOK
    BY EndEffect DEF IInv
  <1>2. \A q \in Procs \ {p} : pc'[q] = pc[q] /\ result'[q] = result[q]
    BY <1>1 DEF Effect, Waits
  <1>3. UNCHANGED <<files, disk, raced>>
    BY <1>1 DEF Quiet
  <1>4. CASE RefuseInstall(p)
    <2>1. pc[p] \in PreCommitSteps \cup {"rename"}
      BY <1>4 DEF RefuseInstall
    <2>2. PhaseOf(p) \in {"working", "final"}
      BY <2>1, PhaseValues DEF PreCommitSteps, RecheckSteps, FinalSteps, PostCommitSteps
    <2>3. ctl[p] \notin CommittedOrUncertain
      BY <2>1 DEF IInv, ProcessInv, ControllerInv, PreCommitSteps, RecheckSteps, FinalSteps,
                  CommittedOrUncertain
    <2>4. result'[p] = "unsafe-write"
      BY <1>1, <1>4, <2>3 DEF RefuseInstall, Finish, TypeOK
    <2>. QED  BY <1>1, <2>2, <2>4, Refuses
  <1>5. CASE SyncParentFails(p)
    <2>1. pc[p] = "sync-parent-after" /\ result'[p] = "ambiguous"
      BY <1>1, <1>5 DEF SyncParentFails, Finish, TypeOK
    <2>2. Guarded!Enter(p, "replaced", "done") /\ Guarded!Answer(p, "ambiguous")
      BY <1>1, <1>2, <2>1, Enters, Answers DEF PhaseOf, AnswerOf, FinalSteps
    <2>. QED  BY <1>3, <2>2 DEF Guarded!SyncFails
  <1>6. CASE CleanupTemp(p)
    <2>1. pc[p] = "cleanup-temp" /\ result'[p] = "wrote"
      BY <1>1, <1>6 DEF CleanupTemp, Finish, TypeOK
    <2>2. Guarded!Enter(p, "durable", "done") /\ Guarded!Answer(p, "wrote")
      BY <1>1, <1>2, <2>1, Enters, Answers DEF PhaseOf, AnswerOf, FinalSteps
    <2>. QED  BY <1>3, <2>2 DEF Guarded!Confirm
  <1>. QED  BY <1>4, <1>5, <1>6

\* What may replace the source: what was validated, of what is there now, unless
\* another program has used the window.
LEMMA MayReplace ==
  ASSUME IInv, JInv, NEW p \in Procs, pc[p] = "rename", temp[p] # None
  PROVE  Guarded!MayReplaceBy(p, temp[p].data)
  <1>1. /\ ViewInv(p) /\ CheckedInv(p) /\ TempContentInv(p) /\ OutcomeInv(p)
        /\ raced[p] \in SUBSET {"window", "temp"}
    BY DEF IInv, ProcessInv, JInv, TypeOK
  <1>2. DataOf(p) \in Accepts /\ DataOf(p)["resolved"] # DataOf(p)["source"]
    BY <1>1 DEF ViewInv, OutcomeInv, InstallSteps
  <1>3. CASE "window" \notin raced[p]
    <2>1. /\ \A x \in Paths : files[x].data = view[p].seen[x].data
          /\ temp[p].data = view[p].seen["resolved"].data
      BY <1>1, <1>3 DEF CheckedInv, Same
    <2>2. Guarded!View = DataOf(p)
      <3>1. Guarded!View = [x \in Paths |-> files[x].data]
        BY DEF Guarded!View, Paths
      <3>. QED  BY <2>1, <3>1 DEF DataOf
    <2>3. /\ temp[p].data = files["resolved"].data
          /\ temp[p].data # files["source"].data
      BY <1>2, <2>1 DEF DataOf, Paths
    <2>. QED
      BY <1>2, <2>2, <2>3 DEF Guarded!MayReplaceBy, Paths
  <1>4. CASE "window" \in raced[p] /\ "temp" \notin raced[p]
    <2>1. temp[p].data = DataOf(p)["resolved"]
      BY <1>1, <1>4 DEF TempContentInv, TempSteps, DataOf, Paths
    <2>2. temp[p].data \in Guarded!AcceptedResolutions
      BY <1>2, <2>1 DEF Guarded!AcceptedResolutions
    <2>. QED  BY <1>4, <2>2 DEF Guarded!MayReplaceBy
  <1>5. CASE "window" \in raced[p] /\ "temp" \in raced[p]
    BY <1>5 DEF Guarded!MayReplaceBy
  <1>. QED  BY <1>3, <1>4, <1>5

\* The processes that a change disturbs are in their final phase.
LEMMA RaceDisturbs ==
  ASSUME NEW others \in SUBSET Procs, NEW ps \in SUBSET others, Race(ps),
         \A q \in ps : pc[q] \in FinalSteps \cup {"rename"}
  PROVE  Guarded!Disturb(others)
  <1>1. ps \in SUBSET {q \in others : [r \in Procs |-> PhaseOf(r)][q] = "final"}
    BY PhaseValues
  <1>. QED  BY <1>1 DEF Race, Guarded!Disturb

LEMMA UnwatchedAreFinal ==
  ASSUME NEW x, NEW q \in Unwatched(x)
  PROVE  q \in Procs /\ pc[q] \in FinalSteps \cup {"rename"}
BY DEF Unwatched, FinalSteps

LEMMA ReplaceRefines ==
  ASSUME IInv, JInv, IInv', JInv', NEW p \in Procs, pc[p] = "rename", Replace(p)
  PROVE  Guarded!Replaced(p)
  <1>1. /\ temp[p] # None /\ files'["source"] = temp[p]
        /\ disk' = disk \cup {temp[p]}
        /\ \A x \in Paths \ {"source"} : files'[x] = files[x]
    BY DEF Replace, IInv, TypeOK, Paths
  <1>2. files'["source"].data \in Data \ {Empty, Torn}
    <2>1. files'["source"] \in File
      BY DEF IInv, TypeOK, Paths
    <2>. QED  BY <2>1 DEF JInv, FilesWhole, File, Paths
  <1>3. Guarded!MayReplaceBy(p, files'["source"].data)
    BY <1>1, MayReplace
  <1>4. {f.data : f \in disk}' = {f.data : f \in disk} \cup {files'["source"].data}
    BY <1>1
  <1>5. Guarded!Disturb(Procs \ {p})
    <2>1. Race(Unwatched("source") \ {p})
      BY DEF Replace
    <2>. QED  BY <2>1, UnwatchedAreFinal, RaceDisturbs
  <1>6. [x \in Paths \ {"source"} |-> files[x].data]'
          = [x \in Paths \ {"source"} |-> files[x].data]
    BY <1>1
  <1>. QED  BY <1>2, <1>3, <1>4, <1>5, <1>6 DEF Guarded!Replaced

LEMMA RenameRefines ==
  ASSUME IInv, JInv, IInv', JInv', NEW p \in Procs, Rename(p) \/ RenameUncertain(p)
  PROVE  Guarded!Replace(p) \/ Guarded!Doubt(p)
  <1>1. /\ Effect(p) /\ pc[p] = "rename"
        /\ \/ Replace(p)
           \/ Quiet /\ pc'[p] = "done"
        /\ \/ pc'[p] = "done" /\ result'[p] = "ambiguous"
           \/ pc'[p] = "sync-parent-after" /\ result'[p] = result[p]
    BY RenameEffect
  <1>2. \A q \in Procs \ {p} : pc'[q] = pc[q] /\ result'[q] = result[q]
    BY <1>1 DEF Effect, Waits
  <1>3. PhaseOf(p) = "final"
    BY <1>1, PhaseValues
  <1>4. CASE pc'[p] = "done" /\ result'[p] = "ambiguous"
    <2>1. Guarded!Enter(p, "final", "done") /\ Guarded!Answer(p, "ambiguous")
      BY <1>2, <1>3, <1>4, Enters, Answers DEF PhaseOf, AnswerOf
    <2>. QED  BY <1>1, <2>1, ReplaceRefines DEF Guarded!Doubt, Quiet
  <1>5. CASE pc'[p] = "sync-parent-after" /\ result'[p] = result[p]
    <2>1. Guarded!Enter(p, "final", "replaced")
      BY <1>2, <1>3, <1>5, Enters DEF PhaseOf, FinalSteps
    <2>. QED  BY <1>1, <1>2, <1>5, <2>1, ReplaceRefines, Silent DEF Guarded!Replace
  <1>. QED  BY <1>1, <1>4, <1>5

LEMMA ProcessRefines ==
  ASSUME IInv, JInv, IInv', JInv', NEW p \in Procs, Process(p)
  PROVE  Guarded!Invocation(p) \/ UNCHANGED Guarded!vars
BY StartRefines, PassRefines, RecheckRefines, FillRefines, SyncParentRefines, EndRefines,
   RenameRefines
DEF Process, Validation, Install, InstallSucceeds, Guarded!Invocation

-------------------------------------------------------------------------------
(***************************************************************************)
(* The steps of the environment.                                           *)
(***************************************************************************)
LEMMA KillRefines ==
  ASSUME IInv, NEW p \in Procs, Kill(p)
  PROVE  Guarded!Kill(p)
  <1>1. /\ pc[p] \notin {"start", "done"} /\ pc'[p] = "done" /\ result'[p] = "killed"
        /\ \A q \in Procs \ {p} : pc'[q] = pc[q] /\ result'[q] = result[q]
        /\ UNCHANGED <<files, disk, raced>>
    BY DEF Kill, Finish, IInv, TypeOK
  <1>2. PhaseOf(p) \notin {"idle", "done"}
    BY <1>1, PhaseValues
  <1>3. Guarded!Enter(p, PhaseOf(p), "done") /\ Guarded!Answer(p, "killed")
    BY <1>1, Enters, Answers DEF PhaseOf, AnswerOf
  <1>. QED  BY <1>1, <1>2, <1>3 DEF Guarded!Kill

LEMMA TouchTempRefines ==
  ASSUME IInv, NEW p \in Procs, TouchTemp(p)
  PROVE  Guarded!TouchTemp(p)
  <1>. DEFINE late == IF pc[p] \in {"parent3", "rename"} THEN {"window"} ELSE {}
  <1>1. /\ late \in SUBSET {"window"}
        /\ late # {} => PhaseOf(p) = "final"
    BY PhaseValues DEF FinalSteps
  <1>2. raced' = [raced EXCEPT ![p] = raced[p] \cup {"temp"} \cup late]
    BY DEF TouchTemp
  <1>3. UNCHANGED <<files, disk, pc, result>>
    BY DEF TouchTemp
  <1>4. \A q \in Procs : PhaseOf(q)' = PhaseOf(q) /\ AnswerOf(q)' = AnswerOf(q)
    BY <1>3, SamePhase, SameAnswer
  <1>. HIDE DEF late
  <1>. QED  BY <1>1, <1>2, <1>3, <1>4 DEF Guarded!TouchTemp

LEMMA ChangeRefines ==
  ASSUME IInv, JInv, IInv', JInv', (\E x \in Paths : Edit(x)) \/ ReplaceParent
  PROVE  Guarded!Change
  <1>1. /\ [x \in Paths \ {"source"} |-> files[x].data]'
             \in [Paths \ {"source"} -> Data \ {Empty, Torn}]
        /\ files'["source"].data \in Data \ {Empty, Torn}
    <2>1. \A x \in Paths : files'[x].data \in Data \ {Empty, Torn}
      BY DEF IInv, JInv, FilesWhole, TypeOK, File
    <2>. QED  BY <2>1 DEF Paths
  <1>2. \A q \in Procs : PhaseOf(q)' = PhaseOf(q) /\ AnswerOf(q)' = AnswerOf(q)
    <2>1. UNCHANGED <<pc, result>>
      BY DEF Edit, ReplaceParent, process
    <2>. QED  BY <2>1, SamePhase, SameAnswer
  <1>3. \/ {f.data : f \in disk}' = {files'["source"].data}
        \/ /\ files'["source"] = files["source"]
           /\ {f.data : f \in disk}' = {f.data : f \in disk}
    <2>1. CASE ReplaceParent
      BY <2>1 DEF ReplaceParent
    <2>2. ASSUME NEW x \in Paths, Edit(x) PROVE <1>3
      <3>1. disk' = IF x = "source" THEN {files'[x]} ELSE disk
        BY <2>2 DEF Edit
      <3>2. x # "source" => files'["source"] = files["source"]
        BY <2>2 DEF Edit, IInv, TypeOK, Paths
      <3>. QED  BY <3>1, <3>2
    <2>. QED  BY <2>1, <2>2
  <1>4. Guarded!Disturb(Procs)
    <2>1. PICK ps : Race(ps) /\ \A q \in ps : \E x \in Paths \cup {"parent"} : q \in Unwatched(x)
      <3>1. CASE ReplaceParent
        <4>. DEFINE ps == Unwatched("source") \cup Unwatched("parent")
        <4>1. Race(ps)
          BY <3>1 DEF ReplaceParent
        <4>2. \A q \in ps : \E x \in Paths \cup {"parent"} : q \in Unwatched(x)
          BY DEF Paths
        <4>. QED  BY <4>1, <4>2
      <3>2. CASE \E x \in Paths : Edit(x)
        BY <3>2 DEF Edit
      <3>. QED  BY <3>1, <3>2
    <2>2. \A q \in ps : q \in Procs /\ pc[q] \in FinalSteps \cup {"rename"}
      BY <2>1, UnwatchedAreFinal
    <2>. QED  BY <2>1, <2>2, RaceDisturbs
  <1>. QED  BY <1>1, <1>2, <1>3, <1>4 DEF Guarded!Change

LEMMA PowerLossRefines ==
  ASSUME IInv, PowerLoss
  PROVE  Guarded!PowerLoss
  <1>1. TypeOK
    BY DEF IInv
  <1>2. PICK f \in disk, lost \in BOOLEAN :
          /\ lost => ~f.synced
          /\ files' = [files EXCEPT !["source"] =
                         [f EXCEPT !.data = IF lost THEN Torn ELSE @, !.synced = TRUE]]
    BY DEF PowerLoss
  <1>3. f \in File /\ ~lost
    BY <1>2 DEF IInv, TypeOK, SourceIsWhole, Whole
  <1>4. files'["source"].data = f.data
    BY <1>1, <1>2, <1>3 DEF TypeOK, Paths, File
  <1>5. files'["source"].data \in {g.data : g \in disk}
    BY <1>4
  <1>6. {g.data : g \in disk}' = {files'["source"].data}
    BY DEF PowerLoss
  <1>7. ASSUME NEW q \in Procs
        PROVE  /\ PhaseOf(q)' = IF PhaseOf(q) = "idle" THEN "idle" ELSE "done"
               /\ AnswerOf(q)' = IF PhaseOf(q) \in {"idle", "done"} THEN AnswerOf(q)
                                 ELSE "killed"
    <2>1. /\ pc'[q] = IF pc[q] = "start" THEN "start" ELSE "done"
          /\ result'[q] = IF pc[q] \in {"start", "done"} THEN result[q] ELSE "killed"
      BY DEF PowerLoss
    <2>2. /\ PhaseOf(q)' = "idle" <=> pc'[q] = "start"
          /\ PhaseOf(q)' = "done" <=> pc'[q] = "done"
      BY DEF PhaseOf, FinalSteps
    <2>3. PhaseOf(q)' = IF PhaseOf(q) = "idle" THEN "idle" ELSE "done"
      BY <2>1, <2>2, PhaseValues
    <2>4. CASE pc[q] \in {"start", "done"}
      <3>1. AnswerOf(q)' = AnswerOf(q) /\ PhaseOf(q) \in {"idle", "done"}
        BY <2>1, <2>4, SameAnswer, PhaseValues
      <3>. QED  BY <2>3, <3>1
    <2>5. CASE pc[q] \notin {"start", "done"}
      <3>1. AnswerOf(q)' = "killed"
        BY <2>1, <2>5 DEF AnswerOf
      <3>2. PhaseOf(q) \notin {"idle", "done"}
        BY <2>5, PhaseValues
      <3>. QED  BY <2>3, <3>1, <3>2
    <2>. QED  BY <2>4, <2>5
  <1>8. [x \in Paths \ {"source"} |-> files[x].data]'
          = [x \in Paths \ {"source"} |-> files[x].data]
    BY <1>1, <1>2 DEF TypeOK
  <1>9. UNCHANGED raced
    BY DEF PowerLoss
  <1>. QED
    BY <1>5, <1>6, <1>7, <1>8, <1>9 DEF Guarded!PowerLoss, Guarded!Crash

-------------------------------------------------------------------------------
(***************************************************************************)
(* The theorem.                                                            *)
(***************************************************************************)
LEMMA InitRefines == Init => Guarded!Init
  <1>. SUFFICES ASSUME Init PROVE Guarded!Init
    OBVIOUS
  <1>1. \A x \in Paths : files[x].data \in Data \ {Empty, Torn}
    BY AcceptsAssumption DEF Init
  <1>2. "source" \in Paths
    BY DEF Paths
  <1>3. {f.data : f \in disk} = {files["source"].data}
    BY DEF Init
  <1>4. ASSUME NEW p \in Procs
        PROVE  PhaseOf(p) = "idle" /\ AnswerOf(p) = "none"
    <2>1. pc[p] = "start" /\ result[p] = "running"
      BY DEF Init
    <2>. QED  BY <2>1 DEF PhaseOf, AnswerOf, FinalSteps
  <1>5. raced = [p \in Procs |-> {}]
    BY DEF Init
  <1>. QED  BY <1>1, <1>2, <1>3, <1>4, <1>5 DEF Guarded!Init

LEMMA NextRefines ==
  ASSUME IInv, JInv, IInv', JInv', [Next]_vars
  PROVE  [Guarded!Next]_(Guarded!vars)
  <1>1. CASE UNCHANGED vars
    <2>1. UNCHANGED <<files, disk, pc, result, raced>>
      BY <1>1 DEF vars, process
    <2>2. \A q \in Procs : PhaseOf(q)' = PhaseOf(q) /\ AnswerOf(q)' = AnswerOf(q)
      BY <2>1, SamePhase, SameAnswer
    <2>. QED  BY <2>1, <2>2 DEF Guarded!vars
  <1>2. CASE Next
    BY <1>2, ProcessRefines, ChangeRefines, TouchTempRefines, KillRefines, PowerLossRefines
    DEF Next, Guarded!Next
  <1>. QED  BY <1>1, <1>2

\* The two validation passes, the rechecks, the temporary file and the rename
\* (apply.rs:271-352, apply.rs:877-1378) are one guarded replacement with a true
\* answer, as GuardedReplace states it, whatever other invocations, other
\* programs and losses of power do meanwhile.
THEOREM Implementation == Spec => ImplementsGuardedReplace
  <1>1. Init => Guarded!Init
    BY InitRefines
  <1>2. IInv /\ JInv /\ (IInv /\ JInv)' /\ [Next]_vars => [Guarded!Next]_(Guarded!vars)
    BY NextRefines
  <1>. QED
    BY <1>1, <1>2, OutcomeInvariance, PTL
    DEF Spec, ImplementsGuardedReplace, Guarded!Spec

===============================================================================
