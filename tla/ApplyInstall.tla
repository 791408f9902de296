----------------------------- MODULE ApplyInstall -----------------------------
(***************************************************************************)
(* `jcw apply`: two validation passes over the workspace and the source,   *)
(* then the guarded, atomic replacement of the source file (apply.rs).     *)
(*                                                                         *)
(* Several invocations run against the same workspace while other programs *)
(* (editors, sync tools, jj) rewrite any of the files, and the machine may *)
(* lose power.  The filesystem is modelled at the grain the code sees: one *)
(* action per system call that reads, checks or changes a file.            *)
(***************************************************************************)
EXTENDS Integers, FiniteSets, Sequences

CONSTANTS
  Procs,     \* the invocations of `jcw apply`
  Data,      \* byte contents, each value standing for a whole file
  Contents,  \* what other programs may write to each path
  Accepts,   \* the views (contents of the four files) that validation accepts
  Metas,     \* permissions and times of a file
  Inodes,    \* inode numbers
  FirstIno,  \* the inodes of the four files at the start
  Dirs,      \* identities of the directory that holds the source
  None,      \* no file, no directory, no commit
  MaxEdits,  \* bound: changes made by other programs
  MaxLosses  \* bound: kills and power losses

(***************************************************************************)
(* The manifest, the conflicted source, the hand-edited resolution, and    *)
(* one term artifact, which stands for all of them.                        *)
(***************************************************************************)
Paths == {"manifest", "source", "resolved", "artifact"}

\* The order in which a validation pass reads the files.
PassOrder == <<"manifest", "source", "resolved", "artifact">>

\* The order of the snapshot vector, hence of every recheck of the inputs.
SnapshotOrder == <<"manifest", "resolved", "source", "artifact">>

Empty == "empty"  \* a file just created
Torn  == "torn"   \* contents lost with the page cache

ASSUME DataAssumption    == {Empty, Torn} \subseteq Data
ASSUME ContentAssumption == Contents \in [Paths -> SUBSET (Data \ {Empty, Torn})]
ASSUME AcceptsAssumption == Accepts \subseteq [Paths -> Data \ {Empty, Torn}]
ASSUME ManifestNamesItsSource ==  \* digests and lengths in the manifest
  \A v, w \in Accepts : v["manifest"] = w["manifest"] =>
     v["source"] = w["source"] /\ v["artifact"] = w["artifact"]
ASSUME InodesAssumption  ==
  /\ Inodes \subseteq Nat
  /\ FirstIno \in [Paths -> Inodes]
  /\ \A x, y \in Paths : x # y => FirstIno[x] # FirstIno[y]
ASSUME BoundsAssumption  == MaxEdits \in Nat /\ MaxLosses \in Nat

File == [data : Data, meta : Metas, ino : Inodes, dir : Dirs, synced : BOOLEAN]
CommitRecord == [old : File, new : File, inputs : [Paths -> Data]]

ASSUME NoneAssumption == None \notin File \cup Dirs \cup CommitRecord

VARIABLES
  files,      \* what each path names now
  disk,       \* what the source path may name after a power loss
  temp,       \* what the temporary path of each process names
  pc,         \* the next step of each process
  at,         \* position in the list of files being read or rechecked
  first,      \* files and destination parent as the first pass read them
  view,       \* ... as the pass under way, or the last one, read them
  own,        \* the file behind the open handle of the temporary file;
              \* from "capture" on, the identity expected of it
  ctl,        \* AtomicInstaller.state
  created,    \* AtomicInstaller.temp_created
  result,     \* how the process ended
  said,       \* the cleanup statuses its error message names
  commit,     \* history: what the rename of each process replaced by what
  raced,      \* history: "window" - a file changed after its last check;
              \* "temp" - another program changed the temporary file
  edits,
  losses

process == <<pc, at, first, view, own, ctl, created, result, said>>
vars == <<files, disk, temp, process, commit, raced, edits, losses>>

-------------------------------------------------------------------------------
(* The controller shared by production and tests: atomic_installer_model.  *)

ControllerStates ==
  {"Ready", "TempCreated", "ReplacementWritten", "MetadataCopied", "TempSynced",
   "ParentPrepared", "InputsRechecked", "DestinationRechecked",
   "ParentRechecked", "TempRechecked", "ParentSyncedBeforeCommit",
   "Committed", "CommitUncertain", "Finished", "Rejected"}

CommittedOrUncertain == {"Committed", "CommitUncertain", "Finished"}

(***************************************************************************)
(* AtomicInstaller::complete.  An operation the table does not list is an  *)
(* error in the code that ends the invocation; here it leads to a state    *)
(* of its own, which ControllerNeverRejects shows to be out of reach.      *)
(***************************************************************************)
After(s, op) ==
  CASE <<s, op>> = <<"Ready", "PrepareParent">> -> "ParentPrepared"
    [] <<s, op>> = <<"ParentPrepared", "RecheckInput">> -> "InputsRechecked"
    [] <<s, op>> = <<"InputsRechecked", "RecheckDestination">> -> "DestinationRechecked"
    [] <<s, op>> = <<"DestinationRechecked", "RecheckParent">> -> "ParentRechecked"
    [] <<s, op>> = <<"ParentRechecked", "CreateTemp">> -> "TempCreated"
    [] <<s, op>> = <<"TempCreated", "WriteReplacement">> -> "ReplacementWritten"
    [] <<s, op>> = <<"ReplacementWritten", "CopyMetadata">> -> "MetadataCopied"
    [] <<s, op>> = <<"MetadataCopied", "SyncTemp">> -> "TempSynced"
    [] <<s, op>> = <<"TempSynced", "RecheckInput">> -> "InputsRechecked"
    [] <<s, op>> = <<"DestinationRechecked", "RecheckTemp">> -> "TempRechecked"
    [] <<s, op>> = <<"TempRechecked", "RecheckParent">> -> "ParentRechecked"
    [] <<s, op>> = <<"ParentRechecked", "SyncParentBeforeCommit">> -> "ParentSyncedBeforeCommit"
    [] <<s, op>> = <<"ParentSyncedBeforeCommit", "RecheckInput">> -> "InputsRechecked"
    [] <<s, op>> = <<"ParentRechecked", "RecheckTemp">> -> "TempRechecked"
    [] <<s, op>> = <<"TempRechecked", "Rename">> -> "Committed"
    [] <<s, op>> = <<"Committed", "SyncParentAfterCommit">> -> "Committed"
    [] <<s, op>> = <<"Committed", "CleanupTemp">> -> "Finished"
    [] OTHER -> "Rejected"

\* Mistakes: the row that the second recheck of the inputs needs is missing; the
\* operation is recorded where the state belongs.
CompleteWithoutSecondRecheck(p, op) ==
  ctl' = [ctl EXCEPT ![p] = IF @ = "TempSynced" THEN "Rejected" ELSE After(@, op)]
CompleteRecordsOperation(p, op) == ctl' = [ctl EXCEPT ![p] = op]

Complete(p, op) == ctl' = [ctl EXCEPT ![p] = After(@, op)]

-------------------------------------------------------------------------------
(* Program steps.  The three rounds of rechecks carry their number.        *)

PassSteps == {"read1", "validate1", "read2", "validate2"}
FinalSteps == {"inputs3", "destination3", "temp3", "parent3"}
RecheckSteps ==
  {"inputs1", "destination1", "parent1", "inputs2", "destination2"} \cup FinalSteps
PreCommitSteps ==
  {"prepare-parent", "create-temp", "write", "copy-metadata", "sync-temp",
   "capture", "sync-parent"} \cup RecheckSteps
PostCommitSteps == {"sync-parent-after", "cleanup-temp"}
Steps ==
  {"start", "rename", "done"} \cup PassSteps \cup PreCommitSteps \cup PostCommitSteps

\* Steps at which the process writes through the handle of its temporary file.
HandleOpen == {"write", "copy-metadata", "sync-temp", "inputs2", "destination2",
               "capture"}

Goto(p, from, to) == pc[p] = from /\ pc' = [pc EXCEPT ![p] = to]

Finish(p, how) ==
  /\ pc' = [pc EXCEPT ![p] = "done"]
  /\ result' = [result EXCEPT ![p] = how]

\* FileIdentity, DirectoryIdentity of the parent, and bytes all equal.
Same(f, g) ==
  f.data = g.data /\ f.meta = g.meta /\ f.ino = g.ino /\ f.dir = g.dir

Parent == files["source"].dir

NoView == [seen |-> [x \in Paths |-> None], parent |-> None]

DataOf(p) == [x \in Paths |-> view[p].seen[x].data]

UsedInodes ==
  {files[x].ino : x \in Paths}
    \cup {temp[p].ino : p \in {q \in Procs : temp[q] # None}}
    \cup {own[p].ino : p \in {q \in Procs : own[q] # None /\ pc[q] \in HandleOpen}}

\* A new file gets the lowest number nothing refers to, so that numbers are
\* reused as early as a filesystem can reuse them.
NewInode ==
  LET free == Inodes \ UsedInodes IN {i \in free : \A j \in free : i <= j}

(***************************************************************************)
(* The processes for which a change of x comes after their last check of   *)
(* it and before their rename: no later step of theirs can notice it.      *)
(***************************************************************************)
Unwatched(x) ==
  CASE x = "parent" -> {p \in Procs : pc[p] = "rename"}
    [] x = "source" -> {p \in Procs : pc[p] \in {"temp3", "parent3", "rename"}}
    [] OTHER ->
         {p \in Procs : \/ pc[p] \in {"destination3", "temp3", "parent3", "rename"}
                        \/ /\ pc[p] = "inputs3"
                           /\ \E k \in 1..(at[p] - 1) : SnapshotOrder[k] = x}

Race(ps) ==
  raced' = [p \in Procs |-> IF p \in ps THEN raced[p] \cup {"window"} ELSE raced[p]]

-------------------------------------------------------------------------------
(* Validation: discover, read_and_validate, compare_snapshots, run.        *)

Start(p) ==
  /\ Goto(p, "start", "read1")
  /\ UNCHANGED <<files, disk, temp, at, first, view, own, ctl, created, result,
                 said, commit, raced, edits, losses>>

\* The manifest's digest and length of the source, checked as soon as read.
Stale(p) ==
  ~\E v \in Accepts : /\ v["manifest"] = view[p].seen["manifest"].data
                      /\ v["source"] = files["source"].data

Read(p, step, next) ==
  /\ pc[p] = step
  /\ LET x == PassOrder[at[p]] IN
     IF x = "source" /\ Stale(p)
     THEN Finish(p, "stale-source") /\ UNCHANGED <<at, view>>
     ELSE /\ view' = [view EXCEPT ![p].seen[x] = files[x]]
          /\ IF at[p] < Len(PassOrder)
             THEN at' = [at EXCEPT ![p] = @ + 1] /\ UNCHANGED pc
             ELSE at' = [at EXCEPT ![p] = 1] /\ pc' = [pc EXCEPT ![p] = next]
          /\ UNCHANGED result
  /\ UNCHANGED <<files, disk, temp, first, own, ctl, created, said, commit,
                 raced, edits, losses>>

\* A read that fails, or validation that refuses what was read.
RefusePass(p) ==
  /\ \/ pc[p] \in {"read1", "read2"}
     \/ pc[p] \in {"validate1", "validate2"} /\ DataOf(p) \notin Accepts
  /\ Finish(p, "refused")
  /\ UNCHANGED <<files, disk, temp, at, first, view, own, ctl, created, said,
                 commit, raced, edits, losses>>

\* The first pass: without --write, unobservable until now, the invocation
\* ends here with its diff.
Validate1(p) ==
  /\ pc[p] = "validate1"
  /\ DataOf(p) \in Accepts
  /\ \/ /\ first' = [first EXCEPT ![p] = [view[p] EXCEPT !.parent = Parent]]
        /\ view' = [view EXCEPT ![p] = NoView]
        /\ pc' = [pc EXCEPT ![p] = "read2"]
        /\ UNCHANGED result
     \/ Finish(p, "dry-run") /\ UNCHANGED <<first, view>>
  /\ UNCHANGED <<files, disk, temp, at, own, ctl, created, said, commit, raced,
                 edits, losses>>

SamePass(p) ==
  /\ \A x \in Paths : Same(first[p].seen[x], view[p].seen[x])
  /\ first[p].parent = Parent

\* The second pass, compare_snapshots, and the write without any hunk.
Validate2(p) ==
  /\ pc[p] = "validate2"
  /\ DataOf(p) \in Accepts
  /\ view' = [view EXCEPT ![p].parent = Parent]
  /\ IF ~SamePass(p)
     THEN Finish(p, "unsafe-write") /\ said' = [said EXCEPT ![p] = {"not-needed"}]
     ELSE /\ IF DataOf(p)["resolved"] = DataOf(p)["source"]
             THEN Finish(p, "nothing-to-write")
             ELSE pc' = [pc EXCEPT ![p] = "prepare-parent"] /\ UNCHANGED result
          /\ UNCHANGED said
  /\ UNCHANGED <<files, disk, temp, at, first, own, ctl, created, commit, raced,
                 edits, losses>>

-------------------------------------------------------------------------------
(* install_validated_with_backend, one action per backend operation.       *)

\* Mistake: the removal is announced whatever came of it.
CleanupUnchecked(p, nested) ==
  /\ said' = [said EXCEPT ![p] = nested \cup {"completed"}]
  /\ UNCHANGED temp

\* cleanup_temp_path: the temporary path is removed, or found to remain.
Cleanup(p, nested) ==
  \/ /\ said' = [said EXCEPT ![p] = nested \cup {"completed"}]
     /\ temp' = [temp EXCEPT ![p] = None]
  \/ /\ temp[p] # None
     /\ said' = [said EXCEPT ![p] = nested \cup {"partial-artifact-remains"}]
     /\ UNCHANGED temp

(***************************************************************************)
(* Any failure before the rename takes effect: the operating system fails  *)
(* the operation, or a check does not find what was validated.  A failed   *)
(* recheck names a cleanup status of its own; the caller adds another.     *)
(***************************************************************************)
RefuseInstall(p) ==
  /\ pc[p] \in PreCommitSteps \cup {"rename"}
  /\ LET nested == IF pc[p] \in RecheckSteps THEN {"not-needed"} ELSE {}
     IN IF created[p]
        THEN Cleanup(p, nested)
        ELSE said' = [said EXCEPT ![p] = nested \cup {"not-needed"}] /\ UNCHANGED temp
  /\ Finish(p, IF ctl[p] \in CommittedOrUncertain THEN "ambiguous" ELSE "unsafe-write")
  /\ UNCHANGED <<files, disk, at, first, view, own, ctl, created, commit, raced,
                 edits, losses>>

CheckParent(p, step, op, next) ==
  /\ Goto(p, step, next)
  /\ Parent = view[p].parent
  /\ Complete(p, op)
  /\ UNCHANGED <<files, disk, temp, at, first, view, own, created, result, said,
                 commit, raced, edits, losses>>

\* recheck_inputs: every snapshot in order, then the destination's parent.
RecheckInput(p, step, next) ==
  /\ pc[p] = step
  /\ LET x == SnapshotOrder[at[p]] IN
     /\ Same(files[x], view[p].seen[x])
     /\ IF at[p] < Len(SnapshotOrder)
        THEN at' = [at EXCEPT ![p] = @ + 1] /\ UNCHANGED <<pc, ctl>>
        ELSE /\ Parent = view[p].parent
             /\ at' = [at EXCEPT ![p] = 1]
             /\ pc' = [pc EXCEPT ![p] = next]
             /\ IF step = "inputs3" THEN UNCHANGED ctl ELSE Complete(p, "RecheckInput")
  /\ UNCHANGED <<files, disk, temp, first, view, own, created, result, said,
                 commit, raced, edits, losses>>

\* Mistake: the destination is reopened but not compared.
RecheckDestinationBlind(p, step, next) ==
  /\ Goto(p, step, next)
  /\ IF step = "destination3" THEN UNCHANGED ctl ELSE Complete(p, "RecheckDestination")
  /\ UNCHANGED <<files, disk, temp, at, first, view, own, created, result, said,
                 commit, raced, edits, losses>>

RecheckDestination(p, step, next) ==
  /\ Goto(p, step, next)
  /\ Same(files["source"], view[p].seen["source"])
  /\ IF step = "destination3" THEN UNCHANGED ctl ELSE Complete(p, "RecheckDestination")
  /\ UNCHANGED <<files, disk, temp, at, first, view, own, created, result, said,
                 commit, raced, edits, losses>>

CreateTemp(p) ==
  /\ Goto(p, "create-temp", "write")
  /\ \E m \in Metas, i \in NewInode :
       LET f == [data |-> Empty, meta |-> m, ino |-> i, dir |-> Parent, synced |-> FALSE]
       IN temp' = [temp EXCEPT ![p] = f] /\ own' = [own EXCEPT ![p] = f]
  /\ Complete(p, "CreateTemp")
  /\ created' = [created EXCEPT ![p] = TRUE]
  /\ UNCHANGED <<files, disk, at, first, view, result, said, commit, raced,
                 edits, losses>>

\* A change through the handle shows at the path while it names that inode.
ThroughHandle(p, f) ==
  /\ own' = [own EXCEPT ![p] = f]
  /\ temp' = [temp EXCEPT ![p] = IF @ # None /\ @.ino = own[p].ino
                                 THEN [f EXCEPT !.dir = temp[p].dir] ELSE @]

WriteReplacement(p) ==
  /\ Goto(p, "write", "copy-metadata")
  /\ ThroughHandle(p, [own[p] EXCEPT !.data = view[p].seen["resolved"].data])
  /\ Complete(p, "WriteReplacement")
  /\ UNCHANGED <<files, disk, at, first, view, created, result, said, commit,
                 raced, edits, losses>>

\* Mistake: permissions and times are not copied.
CopyMetadataForgotten(p) ==
  /\ Goto(p, "copy-metadata", "sync-temp")
  /\ ThroughHandle(p, own[p])
  /\ Complete(p, "CopyMetadata")
  /\ UNCHANGED <<files, disk, at, first, view, created, result, said, commit,
                 raced, edits, losses>>

CopyMetadata(p) ==
  /\ Goto(p, "copy-metadata", "sync-temp")
  /\ ThroughHandle(p, [own[p] EXCEPT !.meta = view[p].seen["source"].meta])
  /\ Complete(p, "CopyMetadata")
  /\ UNCHANGED <<files, disk, at, first, view, created, result, said, commit,
                 raced, edits, losses>>

\* Mistake: the replacement is not synced.
SyncTempForgotten(p) ==
  /\ Goto(p, "sync-temp", "inputs2")
  /\ Complete(p, "SyncTemp")
  /\ UNCHANGED <<files, disk, temp, at, first, view, own, created, result, said,
                 commit, raced, edits, losses>>

SyncTemp(p) ==
  /\ Goto(p, "sync-temp", "inputs2")
  /\ ThroughHandle(p, [own[p] EXCEPT !.synced = TRUE])
  /\ Complete(p, "SyncTemp")
  /\ UNCHANGED <<files, disk, at, first, view, created, result, said, commit,
                 raced, edits, losses>>

\* The expected identity and parent; completes RecheckTemp and RecheckParent.
Capture(p) ==
  /\ Goto(p, "capture", "sync-parent")
  /\ Parent = view[p].parent
  /\ own' = [own EXCEPT ![p].dir = Parent]
  /\ ctl' = [ctl EXCEPT ![p] = After(After(@, "RecheckTemp"), "RecheckParent")]
  /\ UNCHANGED <<files, disk, temp, at, first, view, created, result, said,
                 commit, raced, edits, losses>>

SyncParentBeforeCommit(p) ==
  /\ Goto(p, "sync-parent", "inputs3")
  /\ disk' = {files["source"]}
  /\ Complete(p, "SyncParentBeforeCommit")
  /\ UNCHANGED <<files, temp, at, first, view, own, created, result, said,
                 commit, raced, edits, losses>>

\* Mistake: the temporary file is expected to be the file it replaces.
RecheckTempAsDestination(p) ==
  /\ Goto(p, "temp3", "parent3")
  /\ temp[p] # None
  /\ Same(temp[p], [view[p].seen["source"] EXCEPT !.data = view[p].seen["resolved"].data])
  /\ UNCHANGED <<files, disk, temp, at, first, view, own, ctl, created, result,
                 said, commit, raced, edits, losses>>

\* The temporary path, opened afresh.
RecheckTemp(p) ==
  /\ Goto(p, "temp3", "parent3")
  /\ temp[p] # None
  /\ Same(temp[p], [own[p] EXCEPT !.data = view[p].seen["resolved"].data])
  /\ UNCHANGED <<files, disk, temp, at, first, view, own, ctl, created, result,
                 said, commit, raced, edits, losses>>

\* The last recheck, then mark_final_rechecked.
RecheckParent(p) ==
  /\ Goto(p, "parent3", "rename")
  /\ Parent = view[p].parent
  /\ ctl' = [ctl EXCEPT ![p] = IF @ = "ParentSyncedBeforeCommit"
                               THEN "TempRechecked" ELSE "Rejected"]
  /\ UNCHANGED <<files, disk, temp, at, first, view, own, created, result, said,
                 commit, raced, edits, losses>>

\* The effect of rename(2): the source path names the replacement.
Replace(p) ==
  /\ temp[p] # None
  /\ commit' = [commit EXCEPT ![p] =
       [old |-> files["source"], new |-> temp[p],
        inputs |-> [x \in Paths |-> files[x].data]]]
  /\ files' = [files EXCEPT !["source"] = temp[p]]
  /\ disk' = disk \cup {temp[p]}
  /\ temp' = [temp EXCEPT ![p] = None]
  /\ Race(Unwatched("source") \ {p})

Rename(p) ==
  /\ Goto(p, "rename", "sync-parent-after")
  /\ Replace(p)
  /\ Complete(p, "Rename")
  /\ UNCHANGED <<at, first, view, own, created, result, said, edits, losses>>

(***************************************************************************)
(* An error that does not say whether the rename took effect.  Dropping    *)
(* the temporary path then tries to remove whatever it still names.        *)
(***************************************************************************)
RenameUncertain(p) ==
  /\ pc[p] = "rename"
  /\ \/ Replace(p)
     \/ /\ \/ temp' = [temp EXCEPT ![p] = None]
           \/ UNCHANGED temp
        /\ UNCHANGED <<files, disk, commit, raced>>
  /\ ctl' = [ctl EXCEPT ![p] = "CommitUncertain"]
  /\ Finish(p, "ambiguous")
  /\ UNCHANGED <<at, first, view, own, created, said, edits, losses>>

\* Mistake: the directory is not synced after the rename.
SyncParentAfterCommitForgotten(p) ==
  /\ Goto(p, "sync-parent-after", "cleanup-temp")
  /\ Complete(p, "SyncParentAfterCommit")
  /\ UNCHANGED <<files, disk, temp, at, first, view, own, created, result, said,
                 commit, raced, edits, losses>>

SyncParentAfterCommit(p) ==
  /\ Goto(p, "sync-parent-after", "cleanup-temp")
  /\ disk' = {files["source"]}
  /\ Complete(p, "SyncParentAfterCommit")
  /\ UNCHANGED <<files, temp, at, first, view, own, created, result, said,
                 commit, raced, edits, losses>>

\* Mistake: a failure after the rename is reported like one before it.
SyncParentFailsQuietly(p) ==
  /\ pc[p] = "sync-parent-after"
  /\ Finish(p, "unsafe-write")
  /\ UNCHANGED <<files, disk, temp, at, first, view, own, ctl, created, said,
                 commit, raced, edits, losses>>

SyncParentFails(p) ==
  /\ pc[p] = "sync-parent-after"
  /\ Finish(p, "ambiguous")
  /\ UNCHANGED <<files, disk, temp, at, first, view, own, ctl, created, said,
                 commit, raced, edits, losses>>

CleanupTemp(p) ==
  /\ pc[p] = "cleanup-temp"
  /\ Complete(p, "CleanupTemp")
  /\ Finish(p, "wrote")
  /\ UNCHANGED <<files, disk, temp, at, first, view, own, created, said, commit,
                 raced, edits, losses>>

\* The operations of the installer in their order, none of which fails.
InstallSucceeds(p) ==
  \/ CheckParent(p, "prepare-parent", "PrepareParent", "inputs1")
  \/ RecheckInput(p, "inputs1", "destination1")
  \/ RecheckDestination(p, "destination1", "parent1")
  \/ CheckParent(p, "parent1", "RecheckParent", "create-temp")
  \/ CreateTemp(p)
  \/ WriteReplacement(p)
  \/ CopyMetadata(p)
  \/ SyncTemp(p)
  \/ RecheckInput(p, "inputs2", "destination2")
  \/ RecheckDestination(p, "destination2", "capture")
  \/ Capture(p)
  \/ SyncParentBeforeCommit(p)
  \/ RecheckInput(p, "inputs3", "destination3")
  \/ RecheckDestination(p, "destination3", "temp3")
  \/ RecheckTemp(p)
  \/ RecheckParent(p)
  \/ Rename(p)
  \/ SyncParentAfterCommit(p)
  \/ CleanupTemp(p)

Install(p) ==
  \/ InstallSucceeds(p)
  \/ RefuseInstall(p)
  \/ RenameUncertain(p)
  \/ SyncParentFails(p)

Validation(p) ==
  \/ Start(p)
  \/ Read(p, "read1", "validate1")
  \/ Read(p, "read2", "validate2")
  \/ Validate1(p)
  \/ Validate2(p)

Process(p) == Validation(p) \/ RefusePass(p) \/ Install(p)

-------------------------------------------------------------------------------
(* Everything else that happens to the files.                              *)

\* Another program rewrites x in place or replaces it, durably; an in-place
\* edit may leave length, permissions and coarse timestamps as they were.
Edit(x) ==
  /\ edits < MaxEdits /\ edits' = edits + 1
  /\ \E d \in Contents[x], m \in Metas,
        i \in {files[x].ino} \cup NewInode :
       /\ files' = [files EXCEPT ![x] = [@ EXCEPT !.data = d, !.meta = m, !.ino = i,
                                                  !.synced = TRUE]]
       /\ files'[x] # files[x]
       /\ disk' = IF x = "source" THEN {files'[x]} ELSE disk
  /\ Race(Unwatched(x))
  /\ UNCHANGED <<temp, process, commit, losses>>

\* The directory of the source is replaced: its path leads to another
\* directory, with another file there and no temporary files.
ReplaceParent ==
  /\ edits < MaxEdits /\ edits' = edits + 1
  /\ \E d \in Contents["source"], i \in NewInode, dir \in Dirs \ {Parent} :
       files' = [files EXCEPT !["source"] =
                   [@ EXCEPT !.data = d, !.ino = i, !.dir = dir, !.synced = TRUE]]
  /\ disk' = {files'["source"]}
  /\ temp' = [p \in Procs |-> None]
  /\ Race(Unwatched("source") \cup Unwatched("parent"))
  /\ UNCHANGED <<process, commit, losses>>

\* Another program removes, replaces or rewrites a temporary file.
TouchTemp(p) ==
  /\ edits < MaxEdits /\ edits' = edits + 1
  /\ temp[p] # None
  /\ \/ temp' = [temp EXCEPT ![p] = None] /\ UNCHANGED own
     \/ \E d \in Contents["resolved"], m \in Metas,
           i \in {temp[p].ino} \cup NewInode :
          LET f == [temp[p] EXCEPT !.data = d, !.meta = m, !.ino = i, !.synced = TRUE] IN
          /\ temp' = [temp EXCEPT ![p] = f]
          /\ own' = IF i = own[p].ino /\ pc[p] \in HandleOpen
                    THEN [own EXCEPT ![p] = f] ELSE own
  /\ raced' = [raced EXCEPT ![p] = @ \cup {"temp"} \cup
                 IF pc[p] \in {"parent3", "rename"} THEN {"window"} ELSE {}]
  /\ UNCHANGED <<files, disk, pc, at, first, view, ctl, created, result, said,
                 commit, losses>>

\* The process is killed: no destructor runs.
Kill(p) ==
  /\ losses < MaxLosses /\ losses' = losses + 1
  /\ pc[p] \notin {"start", "done"}
  /\ Finish(p, "killed")
  /\ UNCHANGED <<files, disk, temp, at, first, view, own, ctl, created, said,
                 commit, raced, edits>>

\* Power loss: unsynced contents and unsynced renames may be lost.
PowerLoss ==
  /\ losses < MaxLosses /\ losses' = losses + 1
  /\ \E f \in disk, lost \in BOOLEAN :
       /\ lost => ~f.synced
       /\ files' = [files EXCEPT !["source"] =
                      [f EXCEPT !.data = IF lost THEN Torn ELSE @, !.synced = TRUE]]
  /\ disk' = {files'["source"]}
  /\ \E kept \in SUBSET Procs :
       temp' = [p \in Procs |-> IF p \in kept THEN temp[p] ELSE None]
  /\ pc' = [p \in Procs |-> IF pc[p] = "start" THEN "start" ELSE "done"]
  /\ result' = [p \in Procs |-> IF pc[p] \in {"start", "done"} THEN result[p]
                                ELSE "killed"]
  /\ UNCHANGED <<at, first, view, own, ctl, created, said, commit, raced, edits>>

-------------------------------------------------------------------------------
Init ==
  /\ \E m \in Metas, dir \in Dirs, v \in Accepts :
       files = [x \in Paths |-> [data |-> v[x], meta |-> m, ino |-> FirstIno[x],
                                  dir |-> dir, synced |-> TRUE]]
  /\ disk = {files["source"]}
  /\ temp = [p \in Procs |-> None]
  /\ pc = [p \in Procs |-> "start"]
  /\ at = [p \in Procs |-> 1]
  /\ first = [p \in Procs |-> NoView]
  /\ view = [p \in Procs |-> NoView]
  /\ own = [p \in Procs |-> None]
  /\ ctl = [p \in Procs |-> "Ready"]
  /\ created = [p \in Procs |-> FALSE]
  /\ result = [p \in Procs |-> "running"]
  /\ said = [p \in Procs |-> {}]
  /\ commit = [p \in Procs |-> None]
  /\ raced = [p \in Procs |-> {}]
  /\ edits = 0
  /\ losses = 0

Next ==
  \/ \E p \in Procs : Process(p)
  \/ \E x \in Paths : Edit(x)
  \/ ReplaceParent
  \/ \E p \in Procs : TouchTemp(p)
  \/ \E p \in Procs : Kill(p)
  \/ PowerLoss

Spec == Init /\ [][Next]_vars

-------------------------------------------------------------------------------
(* Properties.                                                             *)

View == [seen : [Paths -> File \cup {None}], parent : Dirs \cup {None}]

Results == {"running", "refused", "stale-source", "dry-run", "nothing-to-write",
            "unsafe-write", "ambiguous", "wrote", "killed"}
CleanupStatus == {"not-needed", "completed", "partial-artifact-remains"}

\* Every variable has its type.
TypeOK ==
  /\ files \in [Paths -> File]
  /\ disk \in SUBSET File
  /\ temp \in [Procs -> File \cup {None}]
  /\ pc \in [Procs -> Steps]
  /\ at \in [Procs -> 1..4]
  /\ first \in [Procs -> View]
  /\ view \in [Procs -> View]
  /\ own \in [Procs -> File \cup {None}]
  /\ ctl \in [Procs -> ControllerStates]
  /\ created \in [Procs -> BOOLEAN]
  /\ result \in [Procs -> Results]
  /\ said \in [Procs -> SUBSET CleanupStatus]
  /\ commit \in [Procs -> CommitRecord \cup {None}]
  /\ raced \in [Procs -> SUBSET {"window", "temp"}]
  /\ edits \in 0..MaxEdits
  /\ losses \in 0..MaxLosses

Committed(p) == commit[p] # None

Whole(f) == f.data \notin {Empty, Torn} /\ f.synced

(***************************************************************************)
(* No lost update: a rename replaces exactly the source that was validated *)
(* by exactly the resolution that was validated, while the manifest and    *)
(* the artifacts still hold what they were validated with - unless another *)
(* program changed a file after the last check of it (README: the window   *)
(* between the final recheck and the rename).                              *)
(***************************************************************************)
CommitMatches(p) ==
  Committed(p) /\ "window" \notin raced[p] =>
    /\ DataOf(p) \in Accepts
    /\ commit[p].inputs = DataOf(p)
    /\ Same(commit[p].old, view[p].seen["source"])
    /\ commit[p].new.data = DataOf(p)["resolved"]

CommitMatchesValidation == \A p \in Procs : CommitMatches(p)

\* A prepared workspace is applied once: two invocations both replace the
\* source only if one of them used the window, or another program interfered, or
\* a loss of power took back a replacement that was not yet reported as written.
AppliedTwice(p, q) ==
  /\ p # q /\ Committed(p) /\ Committed(q)
  /\ "window" \notin raced[p] \cup raced[q]

AppliedOnce ==
  \A p, q \in Procs :
    AppliedTwice(p, q) /\ edits = 0 =>
      losses > 0 /\ \E r \in {p, q} : pc[r] = "done" /\ result[r] # "wrote"

\* The file installed has the permissions and times of the one it replaces,
\* unless another program touched the temporary file or used the window.
ReplacementKeepsMetadata ==
  \A p \in Procs : Committed(p) /\ raced[p] = {} =>
    commit[p].new.meta = commit[p].old.meta

\* Exit status and message tell the truth about the source: only "wrote",
\* "ambiguous" and a process that never reported may stand for a rename that
\* took effect ("destination is guaranteed unchanged"), and "wrote" always does.
ReportTruthful(p) ==
  /\ Committed(p) /\ pc[p] = "done" => result[p] \in {"wrote", "ambiguous", "killed"}
  /\ result[p] = "wrote" => Committed(p)

ReportIsTruthful == \A p \in Procs : ReportTruthful(p)

\* No reader of the source, and no power loss, ever finds it empty or torn.
SourceIsWhole == \A f \in disk \cup {files["source"]} : Whole(f)

\* A temporary file left behind by a process that reported an error other than
\* ambiguity is announced, and one whose removal is announced is gone.
LeftoverReported(p) ==
  /\ pc[p] = "done" /\ result[p] \notin {"ambiguous", "killed"} /\ temp[p] # None
       => "partial-artifact-remains" \in said[p]
  /\ "completed" \in said[p] => temp[p] = None

LeftoverIsReported == \A p \in Procs : LeftoverReported(p)

\* The sequence of operations in the installer and the transition table agree:
\* no run of the installer is refused by its own controller.
ControllerNeverRejects == \A p \in Procs : ctl[p] # "Rejected"

\* No false refusal: while no other program and no other invocation changes a
\* file, each check finds what it expects, the identity of the temporary file
\* after its metadata were copied included; what was validated is installed, or
\* found to be in place already, unless the operating system fails a call.
UndisturbedProceeds ==
  edits = 0 /\ losses = 0 =>
    \A p \in Procs :
      /\ pc[p] # "done"
      /\ \A q \in Procs \ {p} : pc[q] = "start"
      => ENABLED (Validation(p) \/ InstallSucceeds(p))

-------------------------------------------------------------------------------
(* The refinement of GuardedReplace.                                       *)

PhaseOf(p) ==
  CASE pc[p] = "start"                        -> "idle"
    [] pc[p] \in FinalSteps \cup {"rename"}   -> "final"
    [] pc[p] = "sync-parent-after"            -> "replaced"
    [] pc[p] = "cleanup-temp"                 -> "durable"
    [] pc[p] = "done"                         -> "done"
    [] OTHER                                  -> "working"

AnswerOf(p) ==
  CASE result[p] = "running"                            -> "none"
    [] result[p] \in {"ambiguous", "wrote", "killed"}    -> result[p]
    [] OTHER                                            -> "unchanged"

Guarded == INSTANCE GuardedReplace WITH
  Data      <- Data \ {Empty, Torn},
  Inputs    <- Paths \ {"source"},
  inputs    <- [x \in Paths \ {"source"} |-> files[x].data],
  source    <- files["source"].data,
  kept      <- {f.data : f \in disk},
  phase     <- [p \in Procs |-> PhaseOf(p)],
  disturbed <- raced,
  answer    <- [p \in Procs |-> AnswerOf(p)]

\* The two passes, the rechecks, the temporary file and the rename are, seen
\* from outside, one guarded replacement with a true answer: each step of the
\* installer, of the other invocations, of other programs and of a loss of power
\* is a step of GuardedReplace or leaves what it speaks of as it is.
ImplementsGuardedReplace == Guarded!Spec

-------------------------------------------------------------------------------
(***************************************************************************)
(* The inductive invariant: what each step of a process relies on, which   *)
(* the rechecks before it have established and other actors cannot undo    *)
(* unnoticed.                                                              *)
(***************************************************************************)
InstallSteps == PreCommitSteps \cup {"rename"} \cup PostCommitSteps
TempSteps == HandleOpen \cup {"sync-parent", "rename"} \cup FinalSteps

\* The list positions are reset between loops.
PositionInv(p) ==
  at[p] # 1 => pc[p] \in {"read1", "read2", "inputs1", "inputs2", "inputs3", "done"}

\* What the installer installs has been read completely and validated.
ViewInv(p) ==
  /\ pc[p] \in {"read1", "read2"} =>
       \A k \in 1..4 : k < at[p] => view[p].seen[PassOrder[k]] # None
  /\ pc[p] \in {"validate1", "validate2"} => \A x \in Paths : view[p].seen[x] # None
  /\ pc[p] \in InstallSteps \/ Committed(p) =>
       DataOf(p) \in Accepts /\ \A x \in Paths : view[p].seen[x] # None

\* The installer and its controller are in step.
ControllerInv(p) ==
  LET s == pc[p] IN
  /\ ctl[p] # "Rejected"
  /\ s \in {"start", "prepare-parent"} \cup PassSteps => ctl[p] = "Ready"
  /\ s = "inputs1" => ctl[p] = "ParentPrepared"
  /\ s \in {"destination1", "destination2"} => ctl[p] = "InputsRechecked"
  /\ s \in {"parent1", "capture"} => ctl[p] = "DestinationRechecked"
  /\ s \in {"create-temp", "sync-parent"} => ctl[p] = "ParentRechecked"
  /\ s = "write" => ctl[p] = "TempCreated"
  /\ s = "copy-metadata" => ctl[p] = "ReplacementWritten"
  /\ s = "sync-temp" => ctl[p] = "MetadataCopied"
  /\ s = "inputs2" => ctl[p] = "TempSynced"
  /\ s \in FinalSteps => ctl[p] = "ParentSyncedBeforeCommit"
  /\ s = "rename" => ctl[p] = "TempRechecked"
  /\ s \in PostCommitSteps => ctl[p] = "Committed"

\* The temporary file exists only between its creation and the rename, and a
\* status is reported at the end.
TempInv(p) ==
  /\ pc[p] \in TempSteps => created[p] /\ own[p] # None
  /\ created[p] => pc[p] \in TempSteps \cup PostCommitSteps \cup {"done"}
  /\ ~created[p] \/ pc[p] \in PostCommitSteps => temp[p] = None
  /\ said[p] # {} => pc[p] = "done"

\* A rename has taken effect only where the steps after it are under way.
CommitInv(p) ==
  /\ pc[p] \in PostCommitSteps => Committed(p)
  /\ Committed(p) => pc[p] \in PostCommitSteps \cup {"done"}

\* Until it is synced only its own writes can leave the temporary file torn.
WholeInv(p) ==
  /\ pc[p] \in {"copy-metadata", "sync-temp"} => own[p].data \notin {Empty, Torn}
  /\ temp[p] # None =>
       /\ pc[p] \in {"write", "copy-metadata", "sync-temp"} =>
            temp[p].ino = own[p].ino \/ Whole(temp[p])
       /\ pc[p] \in TempSteps \ {"write", "copy-metadata", "sync-temp"} =>
            Whole(temp[p])

\* What the final recheck has found equal is equal still, or a race is recorded.
CheckedInv(p) ==
  "window" \notin raced[p] =>
    /\ pc[p] \in {"destination3", "temp3", "parent3", "rename"} =>
         \A x \in Paths \ {"source"} : Same(files[x], view[p].seen[x])
    /\ pc[p] = "inputs3" =>
         \A k \in 1..4 : k < at[p] /\ SnapshotOrder[k] # "source" =>
           Same(files[SnapshotOrder[k]], view[p].seen[SnapshotOrder[k]])
    /\ pc[p] \in {"temp3", "parent3", "rename"} =>
         Same(files["source"], view[p].seen["source"])
    /\ pc[p] \in {"parent3", "rename"} =>
         temp[p] # None /\ temp[p].data = view[p].seen["resolved"].data

ProcessInv(p) ==
  /\ PositionInv(p) /\ ViewInv(p) /\ ControllerInv(p) /\ TempInv(p)
  /\ CommitInv(p) /\ WholeInv(p) /\ CheckedInv(p)
  /\ CommitMatches(p) /\ ReportTruthful(p) /\ LeftoverReported(p)

IInv == TypeOK /\ SourceIsWhole /\ \A p \in Procs : ProcessInv(p)

(***************************************************************************)
(* What is needed beyond it of metadata, of a second application, and of    *)
(* the refinement.                                                         *)
(***************************************************************************)
\* As long as no other program touches it, the temporary file is, at its path and
\* through the handle, what the process has made of it.
TempContentInv(p) ==
  "temp" \notin raced[p] =>
    /\ pc[p] \in {"write", "copy-metadata"} /\ temp[p] # None => temp[p].ino = own[p].ino
    /\ pc[p] \in TempSteps \ {"write"} =>
         \A f \in {own[p], temp[p]} \ {None} : f.data = view[p].seen["resolved"].data
    /\ pc[p] \in TempSteps \ {"write", "copy-metadata"} =>
         \A f \in {own[p], temp[p]} \ {None} : f.meta = view[p].seen["source"].meta

\* There is something to write, an answer comes at the end, and a rename that no
\* other program interfered with keeps the metadata.
OutcomeInv(p) ==
  /\ pc[p] \in InstallSteps \/ Committed(p) => DataOf(p)["resolved"] # DataOf(p)["source"]
  /\ result[p] = "running" <=> pc[p] # "done"
  /\ Committed(p) /\ raced[p] = {} => commit[p].new.meta = commit[p].old.meta

\* Without changes by other programs all invocations have read the same workspace,
\* and what has replaced the source stays, but for a loss of power.
SameWorkspaceInv(p) ==
  edits = 0 =>
    /\ "temp" \notin raced[p]
    /\ \A x \in Paths \ {"source"} :
         view[p].seen[x] # None => view[p].seen[x].data = files[x].data
    /\ Committed(p) /\ (losses = 0 \/ pc[p] # "done" \/ result[p] = "wrote") =>
         files["source"].data = files["resolved"].data
    /\ pc[p] = "cleanup-temp" \/ result[p] = "wrote" =>
         \A f \in disk : f.data = files["resolved"].data

\* Only the source is ever found torn by the model, and never is (SourceIsWhole).
FilesWhole == \A x \in Paths : files[x].data \notin {Empty, Torn}

JInv ==
  /\ FilesWhole
  /\ \A p \in Procs : TempContentInv(p) /\ OutcomeInv(p) /\ SameWorkspaceInv(p)
  /\ AppliedOnce

===============================================================================
