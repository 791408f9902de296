--------------------------- MODULE PrepareWorkspace ----------------------------
(***************************************************************************)
(* `jcw prepare` (prepare.rs): the source is read, jj renders its conflict, *)
(* the source is compared with what was read, and the workspace is written  *)
(* artifact by artifact, the manifest last.  Several invocations share one  *)
(* output directory, other programs edit the source, every write can fail,  *)
(* and a process or the machine can stop between any two steps.             *)
(***************************************************************************)
EXTENDS Integers, Sequences, SequencesExt, FiniteSets

CONSTANTS
  Procs,        \* the invocations
  Names,        \* what a random suffix can be
  Conflicts,    \* contents of the source with a conflict, between like markers
  MaxAttempts,  \* the names an invocation tries, 32 in the code
  MaxEdits,     \* bound: edits of the source
  MaxFaults,    \* bound: failures of a system call
  MaxStops      \* bound: processes killed, and losses of power

Clean == "no-conflict"
Unparsable == "unparsable"

\* Who made a directory that no invocation made.
Other == "other"
Nobody == "nobody"

ASSUME PrepareAssumption ==
  /\ MaxAttempts \in Nat \ {0}
  /\ {MaxEdits, MaxFaults, MaxStops} \subseteq Nat
  /\ Conflicts \cap {Clean, Unparsable} = {}
  /\ Procs \cap {Other, Nobody} = {}
  /\ "none" \notin Names

VARIABLES
  source,    \* [bytes, identity]
  pc,        \* what each invocation does next
  taken,     \* SourceContext: the source as it was read
  rendered,  \* what jj showed
  attempts,  \* names tried
  name,      \* the workspace of each invocation, or "none"
  next,      \* the artifact that is written next
  report,    \* what each invocation told its user
  disk,      \* for each name: [by, files], the files that exist in it
  edits, faults, stops

vars == <<source, pc, taken, rendered, attempts, name, next, report, disk,
          edits, faults, stops>>

counters == <<edits, faults, stops>>

\* Mistake: the manifest is written before the canvas.
ManifestFirst ==
  <<"source", "regions", "region-000", "term-000", "term-001", "manifest.json", "resolved">>

\* What write_workspace writes, in order, for one conflict with two terms.
Artifacts ==
  <<"source", "regions", "region-000", "term-000", "term-001", "resolved", "manifest.json">>

Directories == {"regions", "region-000"}
Terms == {"term-000", "term-001"}

Nothing == [bytes |-> <<>>, synced |-> FALSE]
Partial == [bytes |-> <<"partial">>, synced |-> FALSE]

\* The bytes of an artifact, for a source that was read and a render.
Contents(artifact, read, render) ==
  CASE artifact = "source"        -> <<"source", read>>
    [] artifact \in Directories   -> <<>>
    [] artifact \in Terms         -> <<artifact, render>>
    [] artifact = "resolved"      -> <<"canvas", read>>
    [] artifact = "manifest.json" -> <<"manifest", read, render>>

Absent == [by |-> Nobody, files |-> <<>>]

Init ==
  /\ source \in [bytes : Conflicts \cup {Clean}, identity : {0}]
  /\ pc = [p \in Procs |-> "read"]
  /\ taken = [p \in Procs |-> source]
  /\ rendered = [p \in Procs |-> Clean]
  /\ attempts = [p \in Procs |-> 0]
  /\ name = [p \in Procs |-> "none"]
  /\ next = [p \in Procs |-> 1]
  /\ report = [p \in Procs |-> "none"]
  /\ disk \in [Names -> {Absent, [Absent EXCEPT !.by = Other]}]
  /\ edits = 0 /\ faults = 0 /\ stops = 0

Goto(p, where) == pc[p] # "done" /\ pc' = [pc EXCEPT ![p] = where]

Finish(p, what) ==
  /\ Goto(p, "done")
  /\ report' = [report EXCEPT ![p] = what]

\* A system call fails.
Fault == faults < MaxFaults /\ faults' = faults + 1 /\ UNCHANGED <<edits, stops>>

-------------------------------------------------------------------------------
(* run_with_writer_impl                                                    *)

\* validate_source
ReadSource(p) ==
  /\ pc[p] = "read"
  /\ taken' = [taken EXCEPT ![p] = source]
  /\ Goto(p, "render")
  /\ UNCHANGED <<source, rendered, attempts, name, next, report, disk, counters>>

\* invoke_jj: jj takes the working copy into @ and shows the file there.
Render(p) ==
  /\ pc[p] = "render"
  /\ \E shown \in {source.bytes, Unparsable} : rendered' = [rendered EXCEPT ![p] = shown]
  /\ Goto(p, "recheck")
  /\ UNCHANGED <<source, taken, attempts, name, next, report, disk, counters>>

\* The source cannot be read, or jj fails.
ReadFails(p) ==
  /\ pc[p] \in {"read", "render", "recheck"}
  /\ Finish(p, "failed")
  /\ Fault
  /\ UNCHANGED <<source, taken, rendered, attempts, name, next, disk>>

\* Mistake: the bytes are compared and the identity of the file is not.
SameSourceBytes(p) == source.bytes = taken[p].bytes

SameSource(p) == source = taken[p]

\* The source must be what it was before jj ran; the render must parse, and the
\* source have the same number of conflicts with the same outer markers.
Recheck(p) ==
  /\ pc[p] = "recheck"
  /\ IF SameSource(p) /\ {rendered[p], taken[p].bytes} \subseteq Conflicts
     THEN Goto(p, "create") /\ UNCHANGED report
     ELSE Finish(p, "failed")
  /\ UNCHANGED <<source, taken, rendered, attempts, name, next, disk, counters>>

-------------------------------------------------------------------------------
(* create_workspace                                                        *)

\* Mistake: a directory that exists already is used.
FreeOrNot(n) == TRUE

Free(n) == disk[n].by = Nobody

\* Mistake: one name too many is tried.
ExhaustedLate(tried) == tried > MaxAttempts

Exhausted(tried) == tried = MaxAttempts

CreateWorkspace(p) ==
  /\ pc[p] = "create"
  /\ \E n \in Names :
       /\ Free(n)
       /\ disk' = [disk EXCEPT ![n].by = p]
       /\ name' = [name EXCEPT ![p] = n]
  /\ Goto(p, "restrict")
  /\ UNCHANGED <<source, taken, rendered, attempts, next, report, counters>>

NameTaken(p) ==
  /\ pc[p] = "create"
  /\ \E n \in Names : ~Free(n)
  /\ attempts' = [attempts EXCEPT ![p] = @ + 1]
  /\ IF Exhausted(attempts'[p])
     THEN Finish(p, "failed")
     ELSE UNCHANGED <<pc, report>>
  /\ UNCHANGED <<source, taken, rendered, name, next, disk, counters>>

CreateFails(p) ==
  /\ pc[p] = "create"
  /\ Finish(p, "failed")
  /\ Fault
  /\ UNCHANGED <<source, taken, rendered, attempts, name, next, disk>>

RestrictWorkspace(p) ==
  /\ pc[p] = "restrict"
  /\ Goto(p, "open")
  /\ UNCHANGED <<source, taken, rendered, attempts, name, next, report, disk, counters>>

\* Mistake: the error does not name the directory, so that nobody removes it.
RestrictFailsSilently(p) ==
  /\ pc[p] = "restrict"
  /\ Finish(p, "failed")
  /\ Fault
  /\ UNCHANGED <<source, taken, rendered, attempts, name, next, disk>>

\* workspace_write_error_after_creation: the caller removes the directory.
RestrictFails(p) ==
  /\ pc[p] = "restrict"
  /\ Goto(p, "cleanup")
  /\ Fault
  /\ UNCHANGED <<source, taken, rendered, attempts, name, next, report, disk>>

-------------------------------------------------------------------------------
(* write_workspace: create_private_directory and write_exclusive           *)

Artifact(p) == Artifacts[next[p]]
Files(p) == disk[name[p]].files

\* The workspace of p with file as its next artifact.
Put(p, file) ==
  disk' = [disk EXCEPT ![name[p]].files =
             [a \in DOMAIN @ \cup {Artifact(p)} |->
                IF a = Artifact(p) THEN file ELSE @[a]]]

Advance(p) ==
  IF next[p] = Len(Artifacts)
  THEN Finish(p, "prepared") /\ UNCHANGED next
  ELSE Goto(p, "open") /\ next' = [next EXCEPT ![p] = @ + 1] /\ UNCHANGED report

\* The file or directory is created, if there is none.
OpenArtifact(p) ==
  /\ pc[p] = "open"
  /\ name[p] \in Names /\ Artifact(p) \notin DOMAIN Files(p)
  /\ Put(p, Nothing)
  /\ Goto(p, "restrict-artifact")
  /\ UNCHANGED <<source, taken, rendered, attempts, name, next, report, counters>>

RestrictArtifact(p) ==
  /\ pc[p] = "restrict-artifact"
  /\ IF Artifact(p) \in Directories
     THEN Advance(p)
     ELSE Goto(p, "content") /\ UNCHANGED <<next, report>>
  /\ UNCHANGED <<source, taken, rendered, attempts, name, disk, counters>>

WriteArtifact(p) ==
  /\ pc[p] = "content"
  /\ Put(p, [bytes |-> Contents(Artifact(p), taken[p].bytes, rendered[p]), synced |-> FALSE])
  /\ Goto(p, "sync")
  /\ UNCHANGED <<source, taken, rendered, attempts, name, next, report, counters>>

\* Mistake: the file is not synchronised.
SyncArtifactForgotten(p) ==
  /\ pc[p] = "sync"
  /\ Advance(p)
  /\ UNCHANGED <<source, taken, rendered, attempts, name, disk, counters>>

SyncArtifact(p) ==
  /\ pc[p] = "sync"
  /\ Put(p, [Files(p)[Artifact(p)] EXCEPT !.synced = TRUE])
  /\ Advance(p)
  /\ UNCHANGED <<source, taken, rendered, attempts, name, counters>>

\* Any of these calls fails; a write that fails may have written a part.
WriteFails(p) ==
  /\ pc[p] \in {"open", "restrict-artifact", "content", "sync"}
  /\ IF pc[p] = "content" THEN Put(p, Partial) ELSE UNCHANGED disk
  /\ Goto(p, "cleanup")
  /\ Fault
  /\ UNCHANGED <<source, taken, rendered, attempts, name, next, report>>

-------------------------------------------------------------------------------
(* cleanup_failed_workspace: remove_dir_all                                *)

\* One file, or a directory that is empty by now.
RemoveArtifact(p) ==
  /\ pc[p] = "cleanup"
  /\ \E a \in DOMAIN Files(p) :
       /\ a = "region-000" => Terms \cap DOMAIN Files(p) = {}
       /\ a = "regions" => "region-000" \notin DOMAIN Files(p)
       /\ disk' = [disk EXCEPT ![name[p]].files = [b \in DOMAIN @ \ {a} |-> @[b]]]
  /\ UNCHANGED <<source, pc, taken, rendered, attempts, name, next, report, counters>>

RemoveWorkspace(p) ==
  /\ pc[p] = "cleanup"
  /\ DOMAIN Files(p) = {}
  /\ disk' = [disk EXCEPT ![name[p]] = Absent]
  /\ Finish(p, "cleanup-completed")
  /\ UNCHANGED <<source, taken, rendered, attempts, name, next, counters>>

CleanupFails(p) ==
  /\ pc[p] = "cleanup"
  /\ Finish(p, "retained-partial-workspace")
  /\ Fault
  /\ UNCHANGED <<source, taken, rendered, attempts, name, next, disk>>

-------------------------------------------------------------------------------
(* Other programs, and the end of a process or of the machine.             *)

\* Every change gives the source a new identity (length, mode, modification
\* time and inode).
EditSource ==
  /\ edits < MaxEdits
  /\ edits' = edits + 1
  /\ source' \in [bytes : Conflicts \cup {Clean}, identity : {edits + 1}]
  /\ UNCHANGED <<pc, taken, rendered, attempts, name, next, report, disk, faults, stops>>

Kill(p) ==
  /\ stops < MaxStops
  /\ stops' = stops + 1
  /\ Finish(p, "killed")
  /\ UNCHANGED <<source, taken, rendered, attempts, name, next, disk, edits, faults>>

\* What survives of a workspace: any of its entries, since no directory is
\* synchronised, and of a file that was not synchronised any part.
Survivors(n) ==
  LET files == disk[n].files
      reachable(kept) ==
        /\ kept \cap Terms # {} => "region-000" \in kept
        /\ "region-000" \in kept => "regions" \in kept
      after(a) == IF files[a].synced THEN {files[a]} ELSE {files[a], Nothing, Partial}
      versions(kept) ==
        {f \in [kept -> UNION {after(a) : a \in kept}] : \A a \in kept : f[a] \in after(a)}
  IN {[by |-> disk[n].by, files |-> f] :
        f \in UNION {versions(kept) : kept \in {k \in SUBSET DOMAIN files : reachable(k)}}}

PowerLoss ==
  /\ stops < MaxStops
  /\ stops' = stops + 1
  /\ \E n \in Names :
       /\ disk[n].by \in Procs
       /\ \E d \in Survivors(n) : disk' = [disk EXCEPT ![n] = d]
  /\ pc' = [p \in Procs |-> "done"]
  /\ report' = [p \in Procs |-> "killed"]
  /\ UNCHANGED <<source, taken, rendered, attempts, name, next, edits, faults>>

Step(p) ==
  \/ ReadSource(p) \/ Render(p) \/ ReadFails(p) \/ Recheck(p)
  \/ CreateWorkspace(p) \/ NameTaken(p) \/ CreateFails(p)
  \/ RestrictWorkspace(p) \/ RestrictFails(p)
  \/ OpenArtifact(p) \/ RestrictArtifact(p) \/ WriteArtifact(p) \/ SyncArtifact(p)
  \/ WriteFails(p)
  \/ RemoveArtifact(p) \/ RemoveWorkspace(p) \/ CleanupFails(p)

Next ==
  \/ \E p \in Procs : Step(p) \/ Kill(p)
  \/ EditSource
  \/ PowerLoss

Spec == Init /\ [][Next]_vars

-------------------------------------------------------------------------------
(* Properties.                                                             *)

Reports == {"none", "failed", "cleanup-completed", "retained-partial-workspace",
            "prepared", "killed"}

Steps == {"read", "render", "recheck", "create", "restrict", "open",
          "restrict-artifact", "content", "sync", "cleanup", "done"}

Versions == Conflicts \cup {Clean}
Renders == Versions \cup {Unparsable}

Bytes == {Nothing.bytes, Partial.bytes} \cup
         {Contents(a, read, render) : a \in Range(Artifacts), read \in Versions, render \in Renders}

IsPart(files) ==
  /\ DOMAIN files \subseteq Range(Artifacts)
  /\ files \in [DOMAIN files -> [bytes : Bytes, synced : BOOLEAN]]

\* Every variable has its type.
TypeOK ==
  /\ source \in [bytes : Versions, identity : 0..MaxEdits]
  /\ pc \in [Procs -> Steps]
  /\ taken \in [Procs -> [bytes : Versions, identity : 0..MaxEdits]]
  /\ rendered \in [Procs -> Renders]
  /\ attempts \in [Procs -> 0..MaxAttempts]
  /\ name \in [Procs -> Names \cup {"none"}]
  /\ next \in [Procs -> 1..Len(Artifacts)]
  /\ report \in [Procs -> Reports]
  /\ disk = [n \in Names |-> [by |-> disk[n].by, files |-> disk[n].files]]
  /\ \A n \in Names : disk[n].by \in Procs \cup {Nobody, Other} /\ IsPart(disk[n].files)
  /\ edits \in 0..MaxEdits /\ faults \in 0..MaxFaults /\ stops \in 0..MaxStops

(***************************************************************************)
(* `apply` gets past the artifacts of a workspace (read_and_validate): the *)
(* manifest can be read, every term matches its digest, and there is a     *)
(* file to take the resolution from.  No digest covers that one.           *)
(***************************************************************************)
Usable(n) ==
  LET files == disk[n].files IN
  /\ {"manifest.json", "resolved"} \cup Terms \subseteq DOMAIN files
  /\ \E read, render \in Conflicts :
       \A a \in {"manifest.json"} \cup Terms :
         files[a].bytes = Contents(a, read, render)

\* A workspace that `apply` would take holds the whole canvas of the source its
\* manifest names: an invocation that was interrupted or failed at any point, or
\* a loss of power, leaves none with a part of it.
UsableHasTheCanvas ==
  \A n \in Names :
    Usable(n) =>
      \E read, render \in Conflicts :
        /\ disk[n].files["manifest.json"].bytes = Contents("manifest.json", read, render)
        /\ disk[n].files["resolved"].bytes = Contents("resolved", read, render)

\* Success is reported of a workspace that is there, whole and on the disk, and
\* that no other invocation has removed or shares.
PreparedIsUsable ==
  \A p \in Procs :
    report[p] = "prepared" =>
      /\ Usable(name[p])
      /\ \A a \in Range(Artifacts) \ Directories : disk[name[p]].files[a].synced
      /\ \A q \in Procs \ {p} : name[q] # name[p] \/ report[q] = "cleanup-completed"

\* README, Recovery: a failure says whether a partial workspace remains; only
\* "retained" leaves a directory behind.
FailureLeavesNothing ==
  \A p \in Procs :
    report[p] \in {"failed", "cleanup-completed"} => \A n \in Names : disk[n].by # p

-------------------------------------------------------------------------------
(* The refinement of AtomicPrepare.                                        *)

PhaseOf(p) ==
  CASE pc[p] = "read"                                     -> "idle"
    [] pc[p] \in {"render", "recheck", "create"}           -> "working"
    [] pc[p] = "sync" /\ Artifact(p) = "manifest.json"    -> "published"
    [] pc[p] = "cleanup"                                  -> "discarding"
    [] pc[p] = "done"                                     -> "done"
    [] OTHER                                              -> "writing"

\* What `apply` takes a workspace for: the version that its manifest, its terms
\* and its canvas are all of; "mixed" if they are of different ones.
HoldsOf(n) ==
  IF ~Usable(n) THEN "none"
  ELSE LET whole(b) == \A a \in {"manifest.json", "resolved"} \cup Terms :
                         disk[n].files[a].bytes = Contents(a, b, b)
       IN IF \E b \in Conflicts : whole(b)
          THEN CHOOSE b \in Conflicts : whole(b) ELSE "mixed"

Atomic == INSTANCE AtomicPrepare WITH
  Versions   <- Conflicts,
  source     <- source.bytes,
  workspaces <- [n \in Names |-> [by |-> disk[n].by, holds |-> HoldsOf(n)]],
  phase      <- [p \in Procs |-> PhaseOf(p)],
  base       <- [p \in Procs |-> taken[p].bytes],
  place      <- name

\* The dozen files of a workspace, written one by one and lost one by one, appear
\* to `apply` in one step and together, all of one version of the source; what
\* a failure, a kill or a loss of power leaves is never a usable part of them.
ImplementsAtomicPrepare == Atomic!Spec

-------------------------------------------------------------------------------
(* The inductive invariant of the proofs.                                  *)

Early   == {"read", "render", "recheck", "create"}
Writing == {"restrict", "open", "restrict-artifact", "content", "sync"}
Holding == Writing \cup {"cleanup"}

Crashed == \A p \in Procs : report[p] = "killed"

\* A directory belongs to the invocation that has its name, from its creation
\* until that invocation has removed it.
PlaceInv(p) ==
  /\ report[p] = "none" <=> pc[p] # "done"
  /\ pc[p] \in Early => name[p] = "none" /\ next[p] = 1 /\ attempts[p] < MaxAttempts
  /\ pc[p] \in Holding \/ report[p] = "prepared" => name[p] # "none" /\ disk[name[p]].by = p
  /\ \A n \in Names : disk[n].by = p => name[p] = n
  /\ report[p] \in {"failed", "cleanup-completed"} => \A n \in Names : disk[n].by # p
  /\ name[p] # "none" =>
       disk[name[p]].by = p \/ report[p] = "cleanup-completed" \/ Crashed

\* The identity that was read tells an edited source from the one that jj rendered.
SourceInv(p) ==
  /\ source.identity = edits
  /\ taken[p].identity <= edits
  /\ taken[p].identity = edits => taken[p] = source
  /\ pc[p] = "recheck" /\ taken[p] = source => rendered[p] \in {source.bytes, Unparsable}
  /\ pc[p] = "create" \/ name[p] # "none" =>
       taken[p].bytes \in Conflicts /\ rendered[p] = taken[p].bytes

Before(p) == {Artifacts[i] : i \in 1..(next[p] - 1)}

Finished(p, a) == [bytes  |-> Contents(a, taken[p].bytes, rendered[p]),
                   synced |-> a \notin Directories]

\* What has been written is complete and on the disk, artifact by artifact.
WrittenInv(p) ==
  /\ pc[p] \in {"restrict", "open"} => DOMAIN Files(p) = Before(p)
  /\ pc[p] = "restrict" => next[p] = 1
  /\ pc[p] \in {"restrict-artifact", "content", "sync"} =>
       DOMAIN Files(p) = Before(p) \cup {Artifact(p)}
  /\ pc[p] \in Writing => \A a \in Before(p) : Files(p)[a] = Finished(p, a)
  /\ pc[p] \in {"restrict-artifact", "content"} => Files(p)[Artifact(p)] = Nothing
  /\ pc[p] \in {"content", "sync"} => Artifact(p) \notin Directories
  /\ pc[p] = "sync" => Files(p)[Artifact(p)] = [Finished(p, Artifact(p)) EXCEPT !.synced = FALSE]
  /\ report[p] = "prepared" =>
       /\ DOMAIN Files(p) = Range(Artifacts)
       /\ \A a \in Range(Artifacts) : Files(p)[a] = Finished(p, a)

\* What is left of a workspace at any time: of each file the whole or a part that
\* no digest matches, and beside a manifest only files that are on the disk.
LeftInv(n) ==
  LET p == disk[n].by
      files == disk[n].files IN
  /\ p \notin Procs => DOMAIN files = {}
  /\ p \in Procs =>
       \A a \in DOMAIN files :
         /\ files[a].bytes \in {Nothing.bytes, Partial.bytes, Finished(p, a).bytes}
         /\ files[a].synced => files[a].bytes = Finished(p, a).bytes
         /\ "manifest.json" \in DOMAIN files =>
              a \in Directories \cup {"manifest.json"} \/ files[a].synced

IInv ==
  /\ TypeOK
  /\ \A p \in Procs : PlaceInv(p) /\ SourceInv(p) /\ WrittenInv(p)
  /\ \A n \in Names : LeftInv(n)

===============================================================================
