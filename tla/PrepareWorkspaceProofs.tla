------------------------ MODULE PrepareWorkspaceProofs ------------------------
(* Theorems about PrepareWorkspace, for any number of invocations, names and  *)
(* versions of the source, and any number of edits, failures and stops: its   *)
(* safety, and that each of its steps is a step of AtomicPrepare or a stutter. *)
EXTENDS PrepareWorkspace, TLAPS

(***************************************************************************)
(* The constants.                                                          *)
(***************************************************************************)
LEMMA Numbers ==
  /\ MaxAttempts \in Nat /\ MaxAttempts > 0
  /\ MaxEdits \in Nat /\ MaxFaults \in Nat /\ MaxStops \in Nat
BY PrepareAssumption

LEMMA Strangers ==
  /\ Nobody \notin Procs /\ Other \notin Procs /\ "none" \notin Names
  /\ Clean \notin Conflicts /\ Unparsable \notin Conflicts
BY PrepareAssumption

\* The artifacts by their places in the order of write_workspace.
LEMMA InOrder ==
  /\ Len(Artifacts) = 7
  /\ Artifacts[1] = "source" /\ Artifacts[2] = "regions" /\ Artifacts[3] = "region-000"
  /\ Artifacts[4] = "term-000" /\ Artifacts[5] = "term-001" /\ Artifacts[6] = "resolved"
  /\ Artifacts[7] = "manifest.json"
BY DEF Artifacts

LEMMA AllArtifacts ==
  Range(Artifacts) = {"source", "regions", "region-000", "term-000", "term-001",
                      "resolved", "manifest.json"}
  <1>1. DOMAIN Artifacts = 1..7
    BY DEF Artifacts
  <1>2. 1..7 = {1, 2, 3, 4, 5, 6, 7}
    OBVIOUS
  <1>. QED  BY <1>1, <1>2, InOrder DEF Range

LEMMA EachOnce ==
  /\ \A i \in 1..7 : Artifacts[i] \in Range(Artifacts)
  /\ \A i, j \in 1..7 : Artifacts[i] = Artifacts[j] => i = j
  /\ \A i \in 1..7 : Artifacts[i] = "manifest.json" <=> i = 7
  <1>1. \A i \in 1..7 : i = 1 \/ i = 2 \/ i = 3 \/ i = 4 \/ i = 5 \/ i = 6 \/ i = 7
    OBVIOUS
  <1>2. \A i \in 1..7 : Artifacts[i] \in Range(Artifacts)
    BY <1>1, InOrder, AllArtifacts
  <1>3. \A i \in 1..7 : Artifacts[i] = "manifest.json" <=> i = 7
    BY <1>1, InOrder
  <1>4. \A i, j \in 1..7 : Artifacts[i] = Artifacts[j] => i = j
    <2>. SUFFICES ASSUME NEW i \in 1..7, NEW j \in 1..7, Artifacts[i] = Artifacts[j]
                  PROVE  i = j
      OBVIOUS
    <2>. QED  BY <1>1, InOrder
  <1>. QED  BY <1>2, <1>3, <1>4

\* What a manifest is made of can be read in it, and a part of a file is never
\* taken for the whole of one that is not empty.
LEMMA Legible ==
  ASSUME NEW b, NEW r, NEW c, NEW s
  PROVE  /\ Contents("manifest.json", b, r) = <<"manifest", b, r>>
         /\ Contents("resolved", b, r) = <<"canvas", b>>
         /\ Contents("term-000", b, r) = <<"term-000", r>>
         /\ Contents("term-001", b, r) = <<"term-001", r>>
         /\ <<"manifest", b, r>> = <<"manifest", c, s>> => b = c /\ r = s
         /\ <<"canvas", b>> = <<"canvas", c>> => b = c
         /\ <<"term-000", r>> = <<"term-000", s>> => r = s
         /\ \A a \in {"manifest.json", "resolved"} \cup Terms :
              Contents(a, b, r) \notin {Nothing.bytes, Partial.bytes}
  <1>1. \A x, y : <<"manifest", x, y>> # <<>> /\ <<"manifest", x, y>> # <<"partial">>
    OBVIOUS
  <1>2. \A k, x : <<k, x>> # <<>> /\ <<k, x>> # <<"partial">>
    OBVIOUS
  <1>3. Nothing.bytes = <<>> /\ Partial.bytes = <<"partial">>
    BY DEF Nothing, Partial
  <1>. QED  BY <1>1, <1>2, <1>3 DEF Contents, Directories, Terms

\* A directory is created as it will be.
LEMMA EmptyDirectories ==
  ASSUME NEW a \in Directories, NEW b, NEW r
  PROVE  Contents(a, b, r) = <<>>
  <1>1. a = "regions" \/ a = "region-000"
    BY DEF Directories
  <1>. QED  BY <1>1 DEF Contents, Directories, Terms

-------------------------------------------------------------------------------
(***************************************************************************)
(* What the steps do to the disk.                                          *)
(***************************************************************************)
\* A workspace is a record of its two fields.
LEMMA DiskType ==
  ASSUME TypeOK
  PROVE  /\ DOMAIN disk = Names /\ disk = [n \in Names |-> disk[n]]
         /\ \A n \in Names : disk[n] = [by |-> disk[n].by, files |-> disk[n].files]
  <1>1. disk = [n \in Names |-> [by |-> disk[n].by, files |-> disk[n].files]]
    BY DEF TypeOK
  <1>. HIDE DEF TypeOK
  <1>2. DOMAIN disk = DOMAIN [n \in Names |-> [by |-> disk[n].by, files |-> disk[n].files]]
    BY <1>1
  <1>3. ASSUME NEW n \in Names
        PROVE  disk[n] = [by |-> disk[n].by, files |-> disk[n].files]
    <2>. DEFINE D == [m \in Names |-> [by |-> disk[m].by, files |-> disk[m].files]]
    <2>1. D[n] = [by |-> disk[n].by, files |-> disk[n].files]
      OBVIOUS
    <2>2. disk[n] = D[n]
      BY <1>1
    <2>. QED  BY <2>1, <2>2
  <1>4. disk = [n \in Names |-> disk[n]]
    BY <1>1, <1>3
  <1>. QED  BY <1>2, <1>3, <1>4

LEMMA PutEffect ==
  ASSUME TypeOK, NEW p \in Procs, name[p] \in Names, NEW file, Put(p, file)
  PROVE  /\ disk' = [n \in Names |-> [by |-> disk[n].by, files |-> disk'[n].files]]
         /\ \A n \in Names : disk'[n].by = disk[n].by
         /\ \A n \in Names \ {name[p]} : disk'[n] = disk[n]
         /\ disk'[name[p]].files = [a \in DOMAIN disk'[name[p]].files |->
                                      disk'[name[p]].files[a]]
         /\ DOMAIN disk'[name[p]].files = DOMAIN Files(p) \cup {Artifact(p)}
         /\ disk'[name[p]].files[Artifact(p)] = file
         /\ \A a \in DOMAIN Files(p) \ {Artifact(p)} :
              disk'[name[p]].files[a] = Files(p)[a]
  <1>. DEFINE after == [a \in DOMAIN Files(p) \cup {Artifact(p)} |->
                          IF a = Artifact(p) THEN file ELSE Files(p)[a]]
  <1>1. disk' = [disk EXCEPT ![name[p]].files = after]
    BY DEF Put, Files
  <1>2. disk'[name[p]] = [by |-> disk[name[p]].by, files |-> after]
    <2>1. disk'[name[p]] = [disk[name[p]] EXCEPT !.files = after]
      BY <1>1, DiskType
    <2>2. disk[name[p]] = [by |-> disk[name[p]].by, files |-> disk[name[p]].files]
      BY DiskType
    <2>. QED  BY <2>1, <2>2
  <1>3. \A n \in Names \ {name[p]} : disk'[n] = disk[n]
    BY <1>1, DiskType
  <1>4. DOMAIN disk' = Names
    BY <1>1, DiskType
  <1>5. disk' = [n \in Names |-> disk'[n]]
    BY <1>1, <1>4
  <1>6. \A n \in Names : disk'[n] = [by |-> disk[n].by, files |-> disk'[n].files]
    BY <1>2, <1>3, DiskType
  <1>. QED  BY <1>2, <1>3, <1>5, <1>6

LEMMA RemoveEffect ==
  ASSUME TypeOK, NEW p \in Procs, name[p] \in Names, RemoveArtifact(p)
  PROVE  /\ disk' = [n \in Names |-> disk'[n]]
         /\ \A n \in Names \ {name[p]} : disk'[n] = disk[n]
         /\ disk'[name[p]] = [by |-> disk[name[p]].by, files |-> disk'[name[p]].files]
         /\ \E a \in DOMAIN Files(p) :
              disk'[name[p]].files = [b \in DOMAIN Files(p) \ {a} |-> Files(p)[b]]
  <1>1. PICK a \in DOMAIN Files(p) :
          disk' = [disk EXCEPT ![name[p]].files = [b \in DOMAIN @ \ {a} |-> @[b]]]
    BY DEF RemoveArtifact
  <1>. DEFINE after == [b \in DOMAIN Files(p) \ {a} |-> Files(p)[b]]
  <1>2. disk' = [disk EXCEPT ![name[p]].files = after]
    BY <1>1 DEF Files
  <1>3. disk'[name[p]] = [disk[name[p]] EXCEPT !.files = after]
    BY <1>2, DiskType
  <1>4. disk'[name[p]] = [by |-> disk[name[p]].by, files |-> after]
    BY <1>3, DiskType
  <1>5. disk' = [n \in Names |-> disk'[n]] /\ \A n \in Names \ {name[p]} : disk'[n] = disk[n]
    BY <1>2, DiskType
  <1>. QED  BY <1>4, <1>5

\* What a loss of power can leave of a workspace.
LEMMA SurvivorsEffect ==
  ASSUME TypeOK, NEW n \in Names, NEW d \in Survivors(n)
  PROVE  /\ d = [by |-> disk[n].by, files |-> d.files]
         /\ DOMAIN d.files \subseteq DOMAIN disk[n].files
         /\ d.files = [a \in DOMAIN d.files |-> d.files[a]]
         /\ \A a \in DOMAIN d.files :
              \/ d.files[a] = disk[n].files[a]
              \/ ~disk[n].files[a].synced /\ d.files[a] \in {Nothing, Partial}
  <1>. DEFINE files == disk[n].files
              after(a) == IF files[a].synced THEN {files[a]} ELSE {files[a], Nothing, Partial}
              versions(kept) == {f \in [kept -> UNION {after(a) : a \in kept}] :
                                   \A a \in kept : f[a] \in after(a)}
  <1>0. PICK kept \in SUBSET DOMAIN files :
          \E f \in versions(kept) : d = [by |-> disk[n].by, files |-> f]
    BY DEF Survivors
  <1>1. PICK f \in versions(kept) : d = [by |-> disk[n].by, files |-> f]
    BY <1>0
  <1>2. d.files = f /\ DOMAIN f = kept /\ \A a \in kept : f[a] \in after(a)
    BY <1>1
  <1>3. f = [a \in DOMAIN f |-> f[a]]
    BY <1>1
  <1>. QED  BY <1>1, <1>2, <1>3

\* A loss of power changes one workspace of an invocation, and ends them all.
LEMMA PowerLossEffect ==
  ASSUME TypeOK, PowerLoss
  PROVE  /\ \A p \in Procs : pc'[p] = "done" /\ report'[p] = "killed"
         /\ disk' = [n \in Names |-> disk'[n]]
         /\ \A n \in Names :
              \/ disk'[n] = disk[n]
              \/ disk[n].by \in Procs /\ disk'[n] \in Survivors(n)
  <1>1. PICK n \in Names :
          disk[n].by \in Procs /\ \E d \in Survivors(n) : disk' = [disk EXCEPT ![n] = d]
    BY DEF PowerLoss
  <1>2. PICK d \in Survivors(n) : disk' = [disk EXCEPT ![n] = d]
    BY <1>1
  <1>3. disk'[n] = d /\ \A m \in Names \ {n} : disk'[m] = disk[m]
    BY <1>2, DiskType
  <1>4. disk' = [m \in Names |-> disk'[m]]
    BY <1>2, DiskType
  <1>5. \A p \in Procs : pc'[p] = "done" /\ report'[p] = "killed"
    BY DEF PowerLoss
  <1>. QED  BY <1>1, <1>2, <1>3, <1>4, <1>5

-------------------------------------------------------------------------------
(***************************************************************************)
(* Types.                                                                  *)
(***************************************************************************)
IsFile(f) == f \in [bytes : Bytes, synced : BOOLEAN]

IsWorkspace(w) ==
  /\ w = [by |-> w.by, files |-> w.files]
  /\ w.by \in Procs \cup {Nobody, Other}
  /\ IsPart(w.files)

LEMMA WorkspaceType ==
  ASSUME TypeOK, NEW n \in Names
  PROVE  IsWorkspace(disk[n])
BY DiskType DEF IsWorkspace, TypeOK

LEMMA PartType ==
  ASSUME NEW files, IsPart(files)
  PROVE  /\ DOMAIN files \subseteq Range(Artifacts)
         /\ \A a \in DOMAIN files : IsFile(files[a])
BY DEF IsPart, IsFile

LEMMA PartOf ==
  ASSUME NEW files, files = [a \in DOMAIN files |-> files[a]],
         DOMAIN files \subseteq Range(Artifacts),
         \A a \in DOMAIN files : IsFile(files[a])
  PROVE  IsPart(files)
BY DEF IsPart, IsFile

\* What an invocation writes.
LEMMA WrittenTypes ==
  ASSUME TypeOK, NEW p \in Procs
  PROVE  /\ Artifact(p) \in Range(Artifacts)
         /\ next[p] \in 1..7
         /\ IsFile(Nothing) /\ IsFile(Partial)
         /\ \A a \in Range(Artifacts) : Contents(a, taken[p].bytes, rendered[p]) \in Bytes
  <1>1. next[p] \in 1..7
    BY InOrder DEF TypeOK
  <1>2. Artifact(p) \in Range(Artifacts)
    BY <1>1, EachOnce DEF Artifact
  <1>3. IsFile(Nothing) /\ IsFile(Partial)
    BY DEF IsFile, Bytes, Nothing, Partial
  <1>4. taken[p].bytes \in Versions /\ rendered[p] \in Renders
    BY DEF TypeOK
  <1>5. \A a \in Range(Artifacts) : Contents(a, taken[p].bytes, rendered[p]) \in Bytes
    BY <1>4 DEF Bytes
  <1>. QED  BY <1>1, <1>2, <1>3, <1>5

\* The disk has its type after a step if every workspace that changed has.
LEMMA DiskTypeNext ==
  ASSUME TypeOK, disk' = [n \in Names |-> disk'[n]],
         \A n \in Names : disk'[n] = disk[n] \/ IsWorkspace(disk'[n])
  PROVE  /\ disk' = [n \in Names |-> [by |-> disk'[n].by, files |-> disk'[n].files]]
         /\ \A n \in Names : disk'[n].by \in Procs \cup {Nobody, Other} /\ IsPart(disk'[n].files)
  <1>1. \A n \in Names : IsWorkspace(disk'[n])
    BY WorkspaceType
  <1>2. \A n \in Names : disk'[n] = [by |-> disk'[n].by, files |-> disk'[n].files]
    BY <1>1 DEF IsWorkspace
  <1>3. \A n \in Names : disk'[n].by \in Procs \cup {Nobody, Other} /\ IsPart(disk'[n].files)
    BY <1>1 DEF IsWorkspace
  <1>. QED  BY <1>2, <1>3

LEMMA PutType ==
  ASSUME TypeOK, NEW p \in Procs, name[p] \in Names, NEW file, IsFile(file), Put(p, file)
  PROVE  /\ disk' = [n \in Names |-> disk'[n]]
         /\ \A n \in Names : disk'[n] = disk[n] \/ IsWorkspace(disk'[n])
  <1>. DEFINE after == disk'[name[p]].files
  <1>1. DOMAIN after \subseteq Range(Artifacts) /\ \A a \in DOMAIN after : IsFile(after[a])
    <2>1. IsPart(Files(p))
      BY WorkspaceType DEF IsWorkspace, Files
    <2>2. DOMAIN Files(p) \subseteq Range(Artifacts) /\ \A a \in DOMAIN Files(p) : IsFile(Files(p)[a])
      BY <2>1, PartType
    <2>3. DOMAIN after = DOMAIN Files(p) \cup {Artifact(p)} /\ after[Artifact(p)] = file
      BY PutEffect
    <2>4. \A a \in DOMAIN Files(p) \ {Artifact(p)} : after[a] = Files(p)[a]
      BY PutEffect
    <2>. QED  BY <2>2, <2>3, <2>4, WrittenTypes
  <1>2. IsPart(after)
    <2>1. after = [a \in DOMAIN after |-> after[a]]
      BY PutEffect
    <2>. QED  BY <1>1, <2>1, PartOf
  <1>3. disk' = [n \in Names |-> [by |-> disk[n].by, files |-> disk'[n].files]]
    BY PutEffect
  <1>4. disk'[name[p]] = [by |-> disk[name[p]].by, files |-> after]
    BY <1>3
  <1>5. IsWorkspace(disk'[name[p]])
    <2>1. disk[name[p]].by \in Procs \cup {Nobody, Other}
      BY WorkspaceType DEF IsWorkspace
    <2>2. disk'[name[p]].by = disk[name[p]].by
      BY PutEffect
    <2>. QED  BY <1>2, <1>4, <2>1, <2>2 DEF IsWorkspace
  <1>. QED  BY <1>3, <1>5, PutEffect

\* The steps after CreateWorkspace have a workspace of their own.
LEMMA HoldsItsName ==
  ASSUME IInv, NEW p \in Procs, pc[p] \in Holding
  PROVE  name[p] \in Names /\ disk[name[p]].by = p
  <1>1. name[p] \in Names \cup {"none"}
    BY DEF IInv, TypeOK
  <1>2. name[p] # "none" /\ disk[name[p]].by = p
    BY DEF IInv, PlaceInv
  <1>. QED  BY <1>1, <1>2

LEMMA Resynced ==
  ASSUME NEW b, NEW s, NEW t
  PROVE  [[bytes |-> b, synced |-> s] EXCEPT !.synced = t] = [bytes |-> b, synced |-> t]
OBVIOUS

\* The file that is about to be synchronised.
LEMMA AtSync ==
  ASSUME IInv, NEW p \in Procs, pc[p] = "sync"
  PROVE  /\ Files(p)[Artifact(p)]
              = [bytes |-> Contents(Artifact(p), taken[p].bytes, rendered[p]), synced |-> FALSE]
         /\ [Files(p)[Artifact(p)] EXCEPT !.synced = TRUE]
              = [bytes |-> Contents(Artifact(p), taken[p].bytes, rendered[p]), synced |-> TRUE]
  <1>1. Files(p)[Artifact(p)] = [Finished(p, Artifact(p)) EXCEPT !.synced = FALSE]
    BY DEF IInv, WrittenInv
  <1>2. Files(p)[Artifact(p)]
          = [bytes |-> Contents(Artifact(p), taken[p].bytes, rendered[p]), synced |-> FALSE]
    BY <1>1, Resynced DEF Finished
  <1>3. [Files(p)[Artifact(p)] EXCEPT !.synced = TRUE]
          = [[bytes |-> Contents(Artifact(p), taken[p].bytes, rendered[p]), synced |-> FALSE]
               EXCEPT !.synced = TRUE]
    BY <1>2
  <1>. QED  BY <1>2, <1>3, Resynced

LEMMA DiskTypeStep ==
  ASSUME IInv, [Next]_vars
  PROVE  /\ disk' = [n \in Names |-> [by |-> disk'[n].by, files |-> disk'[n].files]]
         /\ \A n \in Names : disk'[n].by \in Procs \cup {Nobody, Other} /\ IsPart(disk'[n].files)
  <1>. TypeOK
    BY DEF IInv
  <1>. SUFFICES /\ disk' = [n \in Names |-> disk'[n]]
                /\ \A n \in Names : disk'[n] = disk[n] \/ IsWorkspace(disk'[n])
    BY DiskTypeNext
  <1>. DEFINE Good == /\ disk' = [n \in Names |-> disk'[n]]
                      /\ \A n \in Names : disk'[n] = disk[n] \/ IsWorkspace(disk'[n])
  <1>1. ASSUME UNCHANGED disk PROVE Good
    BY <1>1, DiskType
  <1>2. ASSUME NEW p \in Procs, CreateWorkspace(p) PROVE Good
    <2>1. PICK n \in Names : disk' = [disk EXCEPT ![n].by = p]
      BY <1>2 DEF CreateWorkspace
    <2>2. disk'[n] = [disk[n] EXCEPT !.by = p]
      BY <2>1, DiskType
    <2>3. disk'[n] = [by |-> p, files |-> disk[n].files]
      BY <2>2, DiskType
    <2>4. IsPart(disk[n].files)
      BY WorkspaceType DEF IsWorkspace
    <2>5. disk'[n].by = p /\ disk'[n].files = disk[n].files
      BY <2>3
    <2>6. IsWorkspace(disk'[n])
      BY <2>3, <2>4, <2>5 DEF IsWorkspace
    <2>. QED  BY <2>1, <2>6, DiskType
  <1>3. ASSUME NEW p \in Procs, OpenArtifact(p) PROVE Good
    BY <1>3, PutType, WrittenTypes DEF OpenArtifact
  <1>4. ASSUME NEW p \in Procs, WriteArtifact(p) PROVE Good
    <2>1. pc[p] \in Holding
      BY <1>4 DEF WriteArtifact, Holding, Writing
    <2>2. IsFile([bytes |-> Contents(Artifact(p), taken[p].bytes, rendered[p]), synced |-> FALSE])
      BY WrittenTypes DEF IsFile
    <2>. QED  BY <1>4, <2>1, <2>2, PutType, HoldsItsName DEF WriteArtifact
  <1>5. ASSUME NEW p \in Procs, SyncArtifact(p) PROVE Good
    <2>1. pc[p] \in Holding /\ pc[p] = "sync"
      BY <1>5 DEF SyncArtifact, Holding, Writing
    <2>4. IsFile([Files(p)[Artifact(p)] EXCEPT !.synced = TRUE])
      <3>1. [Files(p)[Artifact(p)] EXCEPT !.synced = TRUE]
              = [bytes |-> Contents(Artifact(p), taken[p].bytes, rendered[p]), synced |-> TRUE]
        BY <2>1, AtSync
      <3>2. Contents(Artifact(p), taken[p].bytes, rendered[p]) \in Bytes
        BY <2>1, WrittenTypes
      <3>. QED  BY <3>1, <3>2 DEF IsFile
    <2>. QED  BY <1>5, <2>1, <2>4, PutType, HoldsItsName DEF SyncArtifact
  <1>6. ASSUME NEW p \in Procs, WriteFails(p) PROVE Good
    <2>1. pc[p] \in Holding
      BY <1>6 DEF WriteFails, Holding, Writing
    <2>2. Put(p, Partial) \/ UNCHANGED disk
      BY <1>6 DEF WriteFails
    <2>. QED  BY <1>1, <2>1, <2>2, PutType, HoldsItsName, WrittenTypes
  <1>7. ASSUME NEW p \in Procs, RemoveArtifact(p) PROVE Good
    <2>1. pc[p] \in Holding
      BY <1>7 DEF RemoveArtifact, Holding
    <2>2. name[p] \in Names
      BY <2>1, HoldsItsName
    <2>3. PICK a \in DOMAIN Files(p) :
            disk'[name[p]].files = [b \in DOMAIN Files(p) \ {a} |-> Files(p)[b]]
      BY <1>7, <2>2, RemoveEffect
    <2>4. IsPart(disk'[name[p]].files)
      BY <2>2, <2>3, WorkspaceType, PartType, PartOf DEF IsWorkspace, Files
    <2>5. disk[name[p]].by \in Procs \cup {Nobody, Other}
      BY <2>2, WorkspaceType DEF IsWorkspace
    <2>6. disk'[name[p]] = [by |-> disk[name[p]].by, files |-> disk'[name[p]].files]
      BY <1>7, <2>2, RemoveEffect
    <2>7. IsWorkspace(disk'[name[p]])
      BY <2>4, <2>5, <2>6 DEF IsWorkspace
    <2>. QED  BY <1>7, <2>2, <2>7, RemoveEffect
  <1>8. ASSUME NEW p \in Procs, RemoveWorkspace(p) PROVE Good
    <2>1. IsPart(<<>>)
      <3>1. DOMAIN <<>> = {}
        OBVIOUS
      <3>2. <<>> = [a \in {} |-> <<>>[a]]
        OBVIOUS
      <3>. QED  BY <3>1, <3>2, PartOf
    <2>2. IsWorkspace(Absent)
      BY <2>1 DEF IsWorkspace, Absent
    <2>. QED  BY <1>8, <2>2, DiskType DEF RemoveWorkspace
  <1>9. CASE PowerLoss
    <2>1. ASSUME NEW n \in Names, disk[n].by \in Procs, disk'[n] \in Survivors(n)
          PROVE  IsWorkspace(disk'[n])
      <3>. DEFINE d == disk'[n]
      <3>1. IsPart(disk[n].files)
        BY WorkspaceType DEF IsWorkspace
      <3>2. DOMAIN d.files \subseteq Range(Artifacts) /\ \A a \in DOMAIN d.files : IsFile(d.files[a])
        <4>1. IsFile(Nothing) /\ IsFile(Partial)
          BY <2>1, WrittenTypes
        <4>2. /\ DOMAIN disk[n].files \subseteq Range(Artifacts)
              /\ \A a \in DOMAIN disk[n].files : IsFile(disk[n].files[a])
          BY <3>1, PartType
        <4>3. /\ DOMAIN d.files \subseteq DOMAIN disk[n].files
              /\ \A a \in DOMAIN d.files : d.files[a] \in {disk[n].files[a], Nothing, Partial}
          BY <2>1, SurvivorsEffect
        <4>. QED  BY <4>1, <4>2, <4>3
      <3>3. IsPart(d.files)
        BY <2>1, <3>2, SurvivorsEffect, PartOf
      <3>4. d = [by |-> disk[n].by, files |-> d.files]
        BY <2>1, SurvivorsEffect
      <3>5. d.by = disk[n].by
        BY <3>4
      <3>. QED  BY <2>1, <3>3, <3>4, <3>5 DEF IsWorkspace
    <2>. QED  BY <1>9, <2>1, PowerLossEffect
  <1>10. ASSUME NEW p \in Procs, Step(p) \/ Kill(p) PROVE Good
    BY <1>1, <1>2, <1>3, <1>4, <1>5, <1>6, <1>7, <1>8, <1>10
    DEF Step, Kill, ReadSource, Render, ReadFails, Recheck, NameTaken, CreateFails,
        RestrictWorkspace, RestrictFails, RestrictArtifact, CleanupFails
  <1>. QED  BY <1>1, <1>9, <1>10 DEF Next, EditSource, vars

LEMMA TypeStep ==
  ASSUME IInv, [Next]_vars
  PROVE  TypeOK'
  <1>. DEFINE Scalars ==
         /\ source \in [bytes : Versions, identity : 0..MaxEdits]
         /\ pc \in [Procs -> Steps]
         /\ taken \in [Procs -> [bytes : Versions, identity : 0..MaxEdits]]
         /\ rendered \in [Procs -> Renders]
         /\ attempts \in [Procs -> 0..MaxAttempts]
         /\ name \in [Procs -> Names \cup {"none"}]
         /\ next \in [Procs -> 1..7]
         /\ report \in [Procs -> Reports]
         /\ edits \in 0..MaxEdits /\ faults \in 0..MaxFaults /\ stops \in 0..MaxStops
  <1>1. Scalars
    BY InOrder DEF IInv, TypeOK
  <1>. USE Numbers
  <1>2. Scalars'
    <2>1. CASE UNCHANGED vars
      BY <1>1, <2>1 DEF vars
    <2>2. CASE EditSource
      <3>1. edits' \in 0..MaxEdits /\ edits' = edits + 1
        BY <1>1, <2>2 DEF EditSource
      <3>2. source' \in [bytes : Versions, identity : 0..MaxEdits]
        BY <2>2, <3>1 DEF EditSource, Versions
      <3>. QED  BY <1>1, <2>2, <3>1, <3>2 DEF EditSource
    <2>3. CASE PowerLoss
      BY <1>1, <2>3 DEF PowerLoss, Steps, Reports
    <2>4. ASSUME NEW p \in Procs, ReadSource(p) PROVE Scalars'
      BY <1>1, <2>4 DEF ReadSource, Goto, Steps, counters
    <2>5. ASSUME NEW p \in Procs, Render(p) PROVE Scalars'
      <3>1. {source.bytes, Unparsable} \subseteq Renders
        BY <1>1 DEF Renders
      <3>2. rendered' \in [Procs -> Renders]
        BY <1>1, <2>5, <3>1 DEF Render
      <3>. QED  BY <1>1, <2>5, <3>2 DEF Render, Goto, Steps, counters
    <2>6. ASSUME NEW p \in Procs, ReadFails(p) \/ Recheck(p) \/ CreateFails(p) PROVE Scalars'
      BY <1>1, <2>6 DEF ReadFails, Recheck, CreateFails, Fault, Finish, Goto, Steps, Reports, counters
    <2>7. ASSUME NEW p \in Procs, CreateWorkspace(p) PROVE Scalars'
      BY <1>1, <2>7 DEF CreateWorkspace, Goto, Steps, counters
    <2>8. ASSUME NEW p \in Procs, NameTaken(p) PROVE Scalars'
      <3>1. attempts[p] < MaxAttempts
        BY <2>8 DEF IInv, PlaceInv, NameTaken, Early
      <3>. QED  BY <1>1, <2>8, <3>1 DEF NameTaken, Exhausted, Finish, Goto, Steps, Reports, counters
    <2>9. ASSUME NEW p \in Procs, RestrictWorkspace(p) \/ RestrictFails(p) \/ OpenArtifact(p)
                                   \/ WriteArtifact(p) \/ WriteFails(p)
          PROVE  Scalars'
      BY <1>1, <2>9 DEF RestrictWorkspace, RestrictFails, OpenArtifact, WriteArtifact, WriteFails,
                        Fault, Goto, Steps, counters
    <2>10. ASSUME NEW p \in Procs, RestrictArtifact(p) \/ SyncArtifact(p) PROVE Scalars'
      <3>1. ASSUME Advance(p)
            PROVE  pc' \in [Procs -> Steps] /\ next' \in [Procs -> 1..7] /\ report' \in [Procs -> Reports]
        <4>1. CASE next[p] = 7
          BY <1>1, <3>1, <4>1, InOrder DEF Advance, Finish, Goto, Steps, Reports
        <4>2. CASE next[p] # 7
          <5>1. next[p] + 1 \in 1..7
            BY <1>1, <4>2
          <5>2. /\ pc' = [pc EXCEPT ![p] = "open"] /\ next' = [next EXCEPT ![p] = next[p] + 1]
                /\ report' = report
            BY <3>1, <4>2, InOrder DEF Advance, Goto
          <5>. QED  BY <1>1, <5>1, <5>2 DEF Steps
        <4>. QED  BY <4>1, <4>2
      <3>2. CASE RestrictArtifact(p)
        <4>1. \/ Advance(p)
              \/ pc' \in [Procs -> Steps] /\ UNCHANGED <<next, report>>
          BY <1>1, <3>2 DEF RestrictArtifact, Goto, Steps
        <4>. QED  BY <1>1, <3>1, <3>2, <4>1 DEF RestrictArtifact, counters
      <3>3. CASE SyncArtifact(p)
        BY <1>1, <3>1, <3>3 DEF SyncArtifact, counters
      <3>. QED  BY <2>10, <3>2, <3>3
    <2>11. ASSUME NEW p \in Procs, RemoveArtifact(p) PROVE Scalars'
      BY <1>1, <2>11 DEF RemoveArtifact, counters
    <2>12. ASSUME NEW p \in Procs, Kill(p) PROVE Scalars'
      BY <1>1, <2>12 DEF Kill, Finish, Goto, Steps, Reports
    <2>13. ASSUME NEW p \in Procs, RemoveWorkspace(p) PROVE Scalars'
      BY <1>1, <2>13 DEF RemoveWorkspace, Finish, Goto, Steps, Reports, counters
    <2>14. ASSUME NEW p \in Procs, CleanupFails(p) PROVE Scalars'
      BY <1>1, <2>14 DEF CleanupFails, Fault, Finish, Goto, Steps, Reports
    <2>. QED  BY <2>1, <2>2, <2>3, <2>4, <2>5, <2>6, <2>7, <2>8, <2>9, <2>10, <2>11, <2>12, <2>13, <2>14
      DEF Next, Step
  <1>. QED  BY <1>2, DiskTypeStep, InOrder DEF TypeOK

-------------------------------------------------------------------------------
(***************************************************************************)
(* A step of one invocation changes only its own variables, and only        *)
(* directories that are its own or nobody's.                                *)
(***************************************************************************)
Effect(p) ==
  /\ pc[p] # "done"
  /\ source' = source /\ edits' = edits
  /\ \A q \in Procs \ {p} :
       /\ pc'[q] = pc[q] /\ taken'[q] = taken[q] /\ rendered'[q] = rendered[q]
       /\ attempts'[q] = attempts[q] /\ name'[q] = name[q] /\ next'[q] = next[q]
       /\ report'[q] = report[q]
  /\ \A n \in Names : disk'[n] = disk[n] \/ {disk[n].by, disk'[n].by} \subseteq {p, Nobody}
  /\ (taken'[p] = taken[p] /\ rendered'[p] = rendered[p]) \/ pc[p] \in Early

\* The disk after Put, for those who look on.
LEMMA PutIsOwn ==
  ASSUME IInv, NEW p \in Procs, pc[p] \in Holding, NEW file, Put(p, file)
  PROVE  \A n \in Names : disk'[n] = disk[n] \/ {disk[n].by, disk'[n].by} \subseteq {p, Nobody}
  <1>1. name[p] \in Names /\ disk[name[p]].by = p
    BY HoldsItsName
  <1>2. /\ \A n \in Names \ {name[p]} : disk'[n] = disk[n]
        /\ disk'[name[p]].by = disk[name[p]].by
    BY <1>1, PutEffect DEF IInv
  <1>. QED  BY <1>1, <1>2

LEMMA StepEffect ==
  ASSUME IInv, NEW p \in Procs, Step(p) \/ Kill(p)
  PROVE  Effect(p)
  <1>. DEFINE Own == /\ pc[p] # "done"
                     /\ source' = source /\ edits' = edits
                     /\ \A q \in Procs \ {p} :
                          /\ pc'[q] = pc[q] /\ taken'[q] = taken[q] /\ rendered'[q] = rendered[q]
                          /\ attempts'[q] = attempts[q] /\ name'[q] = name[q] /\ next'[q] = next[q]
                          /\ report'[q] = report[q]
              Dirs == \A n \in Names :
                        disk'[n] = disk[n] \/ {disk[n].by, disk'[n].by} \subseteq {p, Nobody}
              Kept == (taken'[p] = taken[p] /\ rendered'[p] = rendered[p]) \/ pc[p] \in Early
  <1>0. /\ pc \in [Procs -> Steps] /\ rendered \in [Procs -> Renders]
        /\ taken \in [Procs -> [bytes : Versions, identity : 0..MaxEdits]]
        /\ attempts \in [Procs -> 0..MaxAttempts] /\ name \in [Procs -> Names \cup {"none"}]
        /\ next \in [Procs -> 1..Len(Artifacts)] /\ report \in [Procs -> Reports]
    BY DEF IInv, TypeOK
  <1>1. ASSUME ReadSource(p) PROVE Own /\ Dirs /\ Kept
    BY <1>0, <1>1 DEF ReadSource, Goto, counters, Early
  <1>2. ASSUME Render(p) PROVE Own /\ Dirs /\ Kept
    BY <1>0, <1>2 DEF Render, Goto, counters, Early
  <1>3. ASSUME ReadFails(p) PROVE Own /\ Dirs /\ Kept
    BY <1>0, <1>3 DEF ReadFails, Finish, Goto, Fault
  <1>4. ASSUME Recheck(p) PROVE Own /\ Dirs /\ Kept
    BY <1>0, <1>4 DEF Recheck, Finish, Goto, counters
  <1>5. ASSUME CreateWorkspace(p) PROVE Own /\ Dirs /\ Kept
    <2>1. PICK n \in Names : /\ disk[n].by = Nobody
                             /\ disk' = [disk EXCEPT ![n].by = p]
                             /\ name' = [name EXCEPT ![p] = n]
      BY <1>5 DEF CreateWorkspace, Free
    <2>2. disk'[n].by = p
      <3>1. disk'[n] = [disk[n] EXCEPT !.by = p]
        BY <2>1, DiskType DEF IInv
      <3>2. disk[n] = [by |-> disk[n].by, files |-> disk[n].files]
        BY DiskType DEF IInv
      <3>. QED  BY <3>1, <3>2
    <2>3. \A m \in Names \ {n} : disk'[m] = disk[m]
      BY <2>1, DiskType DEF IInv
    <2>4. Dirs
      BY <2>1, <2>2, <2>3
    <2>5. Own /\ Kept
      BY <1>0, <1>5, <2>1 DEF CreateWorkspace, Goto, counters
    <2>. QED  BY <2>4, <2>5
  <1>6. ASSUME NameTaken(p) PROVE Own /\ Dirs /\ Kept
    BY <1>0, <1>6 DEF NameTaken, Finish, Goto, counters
  <1>7. ASSUME CreateFails(p) \/ RestrictFails(p) PROVE Own /\ Dirs /\ Kept
    BY <1>0, <1>7 DEF CreateFails, RestrictFails, Finish, Goto, Fault
  <1>8. ASSUME RestrictWorkspace(p) PROVE Own /\ Dirs /\ Kept
    BY <1>0, <1>8 DEF RestrictWorkspace, Goto, counters
  <1>9. ASSUME OpenArtifact(p) PROVE Own /\ Dirs /\ Kept
    <2>1. Dirs
      BY <1>9, PutIsOwn DEF OpenArtifact, Holding, Writing
    <2>. QED  BY <1>0, <1>9, <2>1 DEF OpenArtifact, Goto, counters
  <1>10. ASSUME RestrictArtifact(p) PROVE Own /\ Dirs /\ Kept
    BY <1>0, <1>10 DEF RestrictArtifact, Advance, Finish, Goto, counters
  <1>11. ASSUME WriteArtifact(p) PROVE Own /\ Dirs /\ Kept
    <2>1. Dirs
      BY <1>11, PutIsOwn DEF WriteArtifact, Holding, Writing
    <2>. QED  BY <1>0, <1>11, <2>1 DEF WriteArtifact, Goto, counters
  <1>12. ASSUME SyncArtifact(p) PROVE Own /\ Dirs /\ Kept
    <2>1. Dirs
      BY <1>12, PutIsOwn DEF SyncArtifact, Holding, Writing
    <2>. QED  BY <1>0, <1>12, <2>1 DEF SyncArtifact, Advance, Finish, Goto, counters
  <1>13. ASSUME WriteFails(p) PROVE Own /\ Dirs /\ Kept
    <2>1. Put(p, Partial) \/ UNCHANGED disk
      BY <1>13 DEF WriteFails
    <2>2. Dirs
      BY <1>13, <2>1, PutIsOwn DEF WriteFails, Holding, Writing
    <2>. QED  BY <1>0, <1>13, <2>2 DEF WriteFails, Goto, Fault
  <1>14. ASSUME RemoveArtifact(p) PROVE Own /\ Dirs /\ Kept
    <2>1. name[p] \in Names /\ disk[name[p]].by = p
      BY <1>14, HoldsItsName DEF RemoveArtifact, Holding
    <2>2. /\ \A n \in Names \ {name[p]} : disk'[n] = disk[n]
          /\ disk'[name[p]] = [by |-> disk[name[p]].by, files |-> disk'[name[p]].files]
      BY <1>14, <2>1, RemoveEffect DEF IInv
    <2>3. disk'[name[p]].by = p
      BY <2>1, <2>2
    <2>4. Dirs
      BY <2>1, <2>2, <2>3
    <2>. QED  BY <1>0, <1>14, <2>4 DEF RemoveArtifact, counters
  <1>15. ASSUME RemoveWorkspace(p) PROVE Own /\ Dirs /\ Kept
    <2>1. name[p] \in Names /\ disk[name[p]].by = p
      BY <1>15, HoldsItsName DEF RemoveWorkspace, Holding
    <2>2. disk'[name[p]] = Absent /\ \A n \in Names \ {name[p]} : disk'[n] = disk[n]
      BY <1>15, <2>1, DiskType DEF RemoveWorkspace, IInv
    <2>3. Dirs
      BY <2>1, <2>2 DEF Absent
    <2>. QED  BY <1>0, <1>15, <2>3 DEF RemoveWorkspace, Finish, Goto, counters
  <1>16. ASSUME CleanupFails(p) PROVE Own /\ Dirs /\ Kept
    BY <1>0, <1>16 DEF CleanupFails, Finish, Goto, Fault
  <1>17. ASSUME Kill(p) PROVE Own /\ Dirs /\ Kept
    BY <1>0, <1>17 DEF Kill, Finish, Goto
  <1>18. Own /\ Dirs /\ Kept
    BY <1>1, <1>2, <1>3, <1>4, <1>5, <1>6, <1>7, <1>8, <1>9, <1>10, <1>11, <1>12, <1>13, <1>14,
       <1>15, <1>16, <1>17 DEF Step
  <1>. QED  BY <1>18 DEF Effect

\* Until the last invocation is stopped by a loss of power, not all are.
LEMMA NotCrashed ==
  ASSUME IInv, NEW p \in Procs, pc[p] # "done"
  PROVE  ~Crashed
BY DEF IInv, PlaceInv, Crashed

LEMMA BystanderPlace ==
  ASSUME IInv, NEW p \in Procs, Effect(p), NEW q \in Procs \ {p}
  PROVE  PlaceInv(q)'
  <1>1. /\ pc'[q] = pc[q] /\ attempts'[q] = attempts[q] /\ name'[q] = name[q]
        /\ next'[q] = next[q] /\ report'[q] = report[q]
    BY DEF Effect
  <1>2. \A n \in Names : disk'[n].by = q <=> disk[n].by = q
    BY Strangers DEF Effect
  <1>3. name[q] \in Names \cup {"none"} /\ PlaceInv(q)
    BY DEF IInv, TypeOK
  <1>4. ~Crashed
    BY NotCrashed DEF Effect
  <1>5. pc[q] \in Holding \/ report[q] = "prepared" => name[q] # "none" /\ disk'[name[q]].by = q
    BY <1>2, <1>3 DEF PlaceInv
  <1>6. name[q] # "none" => disk'[name[q]].by = q \/ report[q] = "cleanup-completed"
    BY <1>2, <1>3, <1>4 DEF PlaceInv
  <1>. QED  BY <1>1, <1>2, <1>3, <1>5, <1>6 DEF PlaceInv

LEMMA BystanderSource ==
  ASSUME IInv, NEW p \in Procs, Effect(p), NEW q \in Procs \ {p}
  PROVE  SourceInv(q)'
BY DEF IInv, Effect, SourceInv

LEMMA BystanderWritten ==
  ASSUME IInv, NEW p \in Procs, Effect(p), NEW q \in Procs \ {p}
  PROVE  WrittenInv(q)'
  <1>1. /\ pc'[q] = pc[q] /\ name'[q] = name[q] /\ next'[q] = next[q]
        /\ report'[q] = report[q] /\ taken'[q] = taken[q] /\ rendered'[q] = rendered[q]
    BY DEF Effect
  <1>2. pc[q] \in Writing \/ report[q] = "prepared" => Files(q)' = Files(q)
    <2>. SUFFICES ASSUME pc[q] \in Writing \/ report[q] = "prepared" PROVE Files(q)' = Files(q)
      OBVIOUS
    <2>1. name[q] \in Names \cup {"none"} /\ PlaceInv(q)
      BY DEF IInv, TypeOK
    <2>2. name[q] \in Names /\ disk[name[q]].by = q
      BY <2>1 DEF PlaceInv, Holding
    <2>3. disk'[name[q]] = disk[name[q]]
      BY <2>2, Strangers DEF Effect
    <2>. QED  BY <1>1, <2>3 DEF Files
  <1>3. Artifact(q)' = Artifact(q) /\ Before(q)' = Before(q)
    BY <1>1 DEF Artifact, Before
  <1>4. \A a : Finished(q, a)' = Finished(q, a)
    BY <1>1 DEF Finished
  <1>5. Finished(q, Artifact(q))' = Finished(q, Artifact(q))
    BY <1>1, <1>3 DEF Finished
  <1>6. WrittenInv(q)
    BY DEF IInv
  <1>7. CASE pc[q] \in Writing \/ report[q] = "prepared"
    BY <1>1, <1>2, <1>3, <1>4, <1>5, <1>6, <1>7 DEF WrittenInv, Writing
  <1>8. CASE ~(pc[q] \in Writing \/ report[q] = "prepared")
    BY <1>1, <1>8 DEF WrittenInv, Writing
  <1>. QED  BY <1>7, <1>8

LEMMA LeftFrame ==
  ASSUME IInv, NEW p \in Procs, Effect(p), NEW n \in Names, disk'[n] = disk[n]
  PROVE  LeftInv(n)'
  <1>1. LeftInv(n)
    BY DEF IInv
  <1>2. ASSUME disk[n].by \in Procs
        PROVE  \A a : Finished(disk[n].by, a)' = Finished(disk[n].by, a)
    <2>1. pc[p] \in Early => disk[n].by # p
      <3>1. pc[p] \in Early => name[p] = "none"
        BY DEF IInv, PlaceInv
      <3>2. disk[n].by = p => name[p] = n
        BY DEF IInv, PlaceInv
      <3>. QED  BY <3>1, <3>2, Strangers
    <2>2. taken'[disk[n].by] = taken[disk[n].by] /\ rendered'[disk[n].by] = rendered[disk[n].by]
      BY <1>2, <2>1 DEF Effect
    <2>. QED  BY <2>2 DEF Finished
  <1>. QED  BY <1>1, <1>2 DEF LeftInv

-------------------------------------------------------------------------------
(***************************************************************************)
(* The artifacts in their order.                                           *)
(***************************************************************************)
\* The manifest is behind all others.
LEMMA Order ==
  ASSUME TypeOK, NEW p \in Procs
  PROVE  /\ Artifact(p) \notin Before(p) /\ "manifest.json" \notin Before(p)
         /\ Before(p) \cup {Artifact(p)} \subseteq Range(Artifacts)
         /\ next[p] = 1 => Before(p) = {}
         /\ next[p] = 7 <=> Artifact(p) = "manifest.json"
         /\ next[p] = 7 => Before(p) \cup {Artifact(p)} = Range(Artifacts)
  <1>1. next[p] \in 1..7 /\ Artifact(p) = Artifacts[next[p]]
    BY WrittenTypes DEF Artifact
  <1>2. \A i \in 1..(next[p] - 1) : i \in 1..7 /\ i # next[p] /\ i # 7
    BY <1>1
  <1>3. Artifact(p) \notin Before(p) /\ "manifest.json" \notin Before(p)
    BY <1>1, <1>2, EachOnce DEF Before
  <1>4. Before(p) \cup {Artifact(p)} \subseteq Range(Artifacts)
    BY <1>1, <1>2, EachOnce DEF Before
  <1>5. next[p] = 1 => Before(p) = {}
    BY DEF Before
  <1>6. next[p] = 7 <=> Artifact(p) = "manifest.json"
    BY <1>1, EachOnce
  <1>7. ASSUME next[p] = 7 PROVE Before(p) \cup {Artifact(p)} = Range(Artifacts)
    <2>1. DOMAIN Artifacts = 1..7
      BY DEF Artifacts
    <2>2. \A i \in 1..7 : i \in 1..(next[p] - 1) \/ i = next[p]
      BY <1>7
    <2>. QED  BY <1>1, <1>4, <2>1, <2>2 DEF Before, Range
  <1>. QED  BY <1>3, <1>4, <1>5, <1>6, <1>7

LEMMA AdvanceEffect ==
  ASSUME TypeOK, NEW p \in Procs, Advance(p)
  PROVE  \/ /\ Artifact(p) = "manifest.json" /\ next'[p] = next[p]
            /\ pc'[p] = "done" /\ report'[p] = "prepared"
         \/ /\ Artifact(p) # "manifest.json" /\ next'[p] = next[p] + 1
            /\ pc'[p] = "open" /\ report'[p] = report[p]
            /\ Before(p)' = Before(p) \cup {Artifact(p)}
  <1>1. next[p] \in 1..7 /\ next \in [Procs -> 1..7] /\ pc \in [Procs -> Steps]
        /\ report \in [Procs -> Reports]
    BY InOrder DEF TypeOK
  <1>2. CASE next[p] = 7
    <2>1. next' = next /\ pc'[p] = "done" /\ report'[p] = "prepared"
      BY <1>1, <1>2, InOrder DEF Advance, Finish, Goto
    <2>. QED  BY <1>2, <2>1, Order
  <1>3. CASE next[p] # 7
    <2>1. next'[p] = next[p] + 1 /\ pc'[p] = "open" /\ report'[p] = report[p]
      BY <1>1, <1>3, InOrder DEF Advance, Goto
    <2>2. 1..(next[p] + 1 - 1) = 1..(next[p] - 1) \cup {next[p]}
      BY <1>1
    <2>3. Before(p)' = {Artifacts[i] : i \in 1..(next'[p] - 1)}
      BY DEF Before
    <2>4. Before(p)' = Before(p) \cup {Artifact(p)}
      BY <2>1, <2>2, <2>3 DEF Before, Artifact
    <2>. QED  BY <1>3, <2>1, <2>4, Order
  <1>. QED  BY <1>2, <1>3

\* The bytes a step of writing may leave in a file of p.
Fits(p, a, file) ==
  /\ file.bytes \in {Nothing.bytes, Partial.bytes, Finished(p, a).bytes}
  /\ file.synced => file.bytes = Finished(p, a).bytes

\* Wherever an invocation is, its files fit, and it has no manifest before the
\* others are on the disk.
LEMMA WritingFiles ==
  ASSUME IInv, NEW p \in Procs, pc[p] \in Writing
  PROVE  /\ \A a \in DOMAIN Files(p) : Fits(p, a, Files(p)[a])
         /\ Before(p) \subseteq DOMAIN Files(p)
         /\ DOMAIN Files(p) \subseteq Before(p) \cup {Artifact(p)}
         /\ \A a \in Before(p) : Files(p)[a] = Finished(p, a)
  <1>1. name[p] \in Names /\ disk[name[p]].by = p
    BY HoldsItsName DEF Holding
  <1>2. LeftInv(name[p])
    BY <1>1 DEF IInv
  <1>3. \A a \in DOMAIN Files(p) : Fits(p, a, Files(p)[a])
    BY <1>1, <1>2 DEF LeftInv, Files, Fits
  <1>4. WrittenInv(p)
    BY DEF IInv
  <1>5. /\ Before(p) \subseteq DOMAIN Files(p)
        /\ DOMAIN Files(p) \subseteq Before(p) \cup {Artifact(p)}
        /\ \A a \in Before(p) : Files(p)[a] = Finished(p, a)
    BY <1>4 DEF WrittenInv, Writing
  <1>. QED  BY <1>3, <1>5

LEMMA PutLeft ==
  ASSUME IInv, NEW p \in Procs, pc[p] \in Writing, NEW file, Fits(p, Artifact(p), file),
         Put(p, file), taken'[p] = taken[p], rendered'[p] = rendered[p],
         NEW n \in Names, n = name[p]
  PROVE  LeftInv(n)'
  <1>. DEFINE after == disk'[n].files
  <1>0. name[p] \in Names /\ disk[name[p]].by = p /\ TypeOK
    BY HoldsItsName DEF Holding, IInv
  <1>1. /\ disk'[n].by = p
        /\ DOMAIN after = DOMAIN Files(p) \cup {Artifact(p)}
        /\ after[Artifact(p)] = file
        /\ \A a \in DOMAIN Files(p) \ {Artifact(p)} : after[a] = Files(p)[a]
    BY <1>0, PutEffect
  <1>2. \A a : Finished(p, a)' = Finished(p, a)
    BY DEF Finished
  <1>3. \A a \in DOMAIN after : Fits(p, a, after[a])
    BY <1>1, WritingFiles
  <1>4. ASSUME "manifest.json" \in DOMAIN after, NEW a \in DOMAIN after
        PROVE  a \in Directories \cup {"manifest.json"} \/ after[a].synced
    <2>1. Artifact(p) = "manifest.json"
      BY <1>0, <1>1, <1>4, WritingFiles, Order
    <2>2. CASE a = "manifest.json"
      BY <2>2
    <2>3. CASE a # "manifest.json"
      <3>1. a \in Before(p) /\ after[a] = Finished(p, a)
        BY <1>1, <1>4, <2>1, <2>3, WritingFiles
      <3>2. after[a].synced = (a \notin Directories)
        BY <3>1 DEF Finished
      <3>. QED  BY <3>2
    <2>. QED  BY <2>2, <2>3
  <1>5. \A a \in DOMAIN after :
          /\ after[a].bytes \in {Nothing.bytes, Partial.bytes, Finished(p, a)'.bytes}
          /\ after[a].synced => after[a].bytes = Finished(p, a)'.bytes
    BY <1>2, <1>3 DEF Fits
  <1>. HIDE DEF after
  <1>6. LeftInv(n)' <=>
          \A a \in DOMAIN after :
             /\ after[a].bytes \in {Nothing.bytes, Partial.bytes, Finished(p, a)'.bytes}
             /\ after[a].synced => after[a].bytes = Finished(p, a)'.bytes
             /\ "manifest.json" \in DOMAIN after =>
                  a \in Directories \cup {"manifest.json"} \/ after[a].synced
    BY <1>1 DEF LeftInv, after
  <1>. QED  BY <1>4, <1>5, <1>6

-------------------------------------------------------------------------------
(***************************************************************************)
(* What a step of p leaves of p's own invariants.                          *)
(***************************************************************************)
\* The variables of one invocation, for the steps below.
LEMMA Scalars ==
  ASSUME TypeOK
  PROVE  /\ pc \in [Procs -> Steps] /\ name \in [Procs -> Names \cup {"none"}]
         /\ next \in [Procs -> 1..7] /\ report \in [Procs -> Reports]
         /\ taken \in [Procs -> [bytes : Versions, identity : 0..MaxEdits]]
         /\ rendered \in [Procs -> Renders] /\ attempts \in [Procs -> 0..MaxAttempts]
         /\ edits \in 0..MaxEdits
         /\ source \in [bytes : Versions, identity : 0..MaxEdits]
BY InOrder DEF TypeOK

LEMMA OwnSource ==
  ASSUME IInv, NEW p \in Procs, Step(p) \/ Kill(p)
  PROVE  SourceInv(p)'
  <1>1. source' = source /\ edits' = edits
    BY StepEffect DEF Effect
  <1>2. SourceInv(p) /\ TypeOK
    BY DEF IInv
  <1>3. /\ pc \in [Procs -> Steps] /\ name \in [Procs -> Names \cup {"none"}]
        /\ taken \in [Procs -> [bytes : Versions, identity : 0..MaxEdits]]
        /\ rendered \in [Procs -> Renders]
    BY <1>2, Scalars
  <1>4. PlaceInv(p)
    BY DEF IInv
  <1>5. CASE ReadSource(p)
    <2>1. taken'[p] = source /\ pc'[p] = "render" /\ name' = name /\ name[p] = "none"
      BY <1>3, <1>4, <1>5 DEF ReadSource, Goto, PlaceInv, Early
    <2>2. source.identity = edits /\ edits \in Nat
      BY <1>2, Scalars, Numbers DEF SourceInv
    <2>. QED  BY <1>1, <2>1, <2>2 DEF SourceInv
  <1>6. CASE Render(p)
    <2>1. /\ rendered'[p] \in {source.bytes, Unparsable} /\ pc'[p] = "recheck"
          /\ name' = name /\ name[p] = "none" /\ taken' = taken
      BY <1>3, <1>4, <1>6 DEF Render, Goto, PlaceInv, Early
    <2>. QED  BY <1>1, <1>2, <2>1 DEF SourceInv
  <1>7. CASE Recheck(p)
    <2>1. /\ pc[p] = "recheck" /\ rendered' = rendered /\ taken' = taken /\ name' = name
          /\ name[p] = "none"
      BY <1>4, <1>7 DEF Recheck, PlaceInv, Early
    <2>2. CASE SameSource(p) /\ {rendered[p], taken[p].bytes} \subseteq Conflicts
      <3>1. taken[p] = source /\ rendered[p] \in {source.bytes, Unparsable}
        BY <1>2, <2>1, <2>2 DEF SameSource, SourceInv
      <3>2. rendered[p] = taken[p].bytes /\ taken[p].bytes \in Conflicts
        BY <2>2, <3>1, Strangers
      <3>3. pc'[p] # "recheck"
        BY <1>3, <1>7, <2>2 DEF Recheck, Goto
      <3>. QED  BY <1>1, <1>2, <2>1, <3>2, <3>3 DEF SourceInv
    <2>3. CASE ~(SameSource(p) /\ {rendered[p], taken[p].bytes} \subseteq Conflicts)
      <3>1. pc'[p] = "done"
        BY <1>3, <1>7, <2>3 DEF Recheck, Finish, Goto
      <3>. QED  BY <1>1, <1>2, <2>1, <3>1 DEF SourceInv
    <2>. QED  BY <2>2, <2>3
  <1>8. CASE CreateWorkspace(p)
    <2>1. pc[p] = "create" /\ pc'[p] = "restrict" /\ taken' = taken /\ rendered' = rendered
      BY <1>3, <1>8 DEF CreateWorkspace, Goto
    <2>. QED  BY <1>1, <1>2, <2>1 DEF SourceInv
  <1>9. ASSUME pc'[p] \in {"create", "recheck"} => pc'[p] = pc[p],
               name' = name, taken' = taken, rendered' = rendered
        PROVE  SourceInv(p)'
    BY <1>1, <1>2, <1>9 DEF SourceInv
  <1>10. CASE ReadFails(p) \/ CreateFails(p) \/ CleanupFails(p) \/ Kill(p)
    BY <1>3, <1>9, <1>10 DEF ReadFails, CreateFails, CleanupFails, Kill, Finish, Goto
  <1>11. CASE NameTaken(p)
    BY <1>3, <1>9, <1>11 DEF NameTaken, Finish, Goto
  <1>12. CASE RestrictWorkspace(p) \/ RestrictFails(p) \/ OpenArtifact(p) \/ WriteArtifact(p)
               \/ WriteFails(p)
    BY <1>3, <1>9, <1>12
    DEF RestrictWorkspace, RestrictFails, OpenArtifact, WriteArtifact, WriteFails, Goto
  <1>13. CASE RestrictArtifact(p)
    <2>1. pc'[p] \notin {"create", "recheck"}
      BY <1>2, <1>3, <1>13, AdvanceEffect DEF RestrictArtifact, Goto
    <2>. QED  BY <1>9, <1>13, <2>1 DEF RestrictArtifact
  <1>14. CASE SyncArtifact(p)
    <2>1. pc'[p] \notin {"create", "recheck"}
      BY <1>2, <1>14, AdvanceEffect DEF SyncArtifact
    <2>. QED  BY <1>9, <1>14, <2>1 DEF SyncArtifact
  <1>15. CASE RemoveArtifact(p)
    BY <1>9, <1>15 DEF RemoveArtifact
  <1>16. CASE RemoveWorkspace(p)
    BY <1>3, <1>9, <1>16 DEF RemoveWorkspace, Finish, Goto
  <1>. QED
    BY <1>5, <1>6, <1>7, <1>8, <1>10, <1>11, <1>12, <1>13, <1>14, <1>15, <1>16 DEF Step

LEMMA PlaceKept ==
  ASSUME IInv, NEW p \in Procs, pc[p] # "done", name'[p] = name[p],
         \A n \in Names : disk'[n].by = p <=> disk[n].by = p,
         report'[p] = "none" <=> pc'[p] # "done",
         pc'[p] \in Early =>
           pc[p] \in Early /\ next'[p] = next[p] /\ attempts'[p] < MaxAttempts,
         pc'[p] \in Holding \/ report'[p] = "prepared" => pc[p] \in Holding,
         report'[p] \in {"failed", "cleanup-completed"} => pc[p] \in Early
  PROVE  PlaceInv(p)'
  <1>1. PlaceInv(p) /\ name[p] \in Names \cup {"none"}
    BY DEF IInv, TypeOK
  <1>2. ~Crashed /\ report[p] = "none"
    BY <1>1, NotCrashed DEF PlaceInv
  <1>3. name[p] # "none" => disk'[name[p]].by = p
    BY <1>1, <1>2 DEF PlaceInv
  <1>4. pc[p] \in Early => name[p] = "none" /\ next[p] = 1
    BY <1>1 DEF PlaceInv
  <1>5. \A n \in Names : disk'[n].by = p => name[p] = n
    BY <1>1 DEF PlaceInv
  <1>6. pc[p] \in Early => \A n \in Names : disk'[n].by # p
    BY <1>4, <1>5, Strangers
  <1>7. pc'[p] \in Holding \/ report'[p] = "prepared" =>
          name[p] # "none" /\ disk'[name[p]].by = p
    BY <1>1, <1>3 DEF PlaceInv
  <1>. QED  BY <1>3, <1>4, <1>5, <1>6, <1>7 DEF PlaceInv

\* Put leaves the owners as they are.
LEMMA PutBy ==
  ASSUME IInv, NEW p \in Procs, pc[p] \in Holding, NEW file, Put(p, file)
  PROVE  \A n \in Names : disk'[n].by = disk[n].by
BY HoldsItsName, PutEffect DEF IInv

LEMMA OwnPlace ==
  ASSUME IInv, NEW p \in Procs, Step(p) \/ Kill(p)
  PROVE  PlaceInv(p)'
  <1>0. PlaceInv(p) /\ TypeOK
    BY DEF IInv
  <1>1. /\ pc \in [Procs -> Steps] /\ name \in [Procs -> Names \cup {"none"}]
        /\ next \in [Procs -> 1..7] /\ report \in [Procs -> Reports]
        /\ attempts \in [Procs -> 0..MaxAttempts]
    BY <1>0, Scalars
  <1>2. /\ report[p] = "none" <=> pc[p] # "done"
        /\ pc[p] \in Early => attempts[p] < MaxAttempts
    BY <1>0 DEF PlaceInv
  <1>3. CASE ReadSource(p)
    BY <1>1, <1>2, <1>3, PlaceKept DEF ReadSource, Goto, Early, Holding, Writing, counters
  <1>4. CASE Render(p)
    BY <1>1, <1>2, <1>4, PlaceKept DEF Render, Goto, Early, Holding, Writing, counters
  <1>5. CASE ReadFails(p)
    BY <1>1, <1>2, <1>5, PlaceKept DEF ReadFails, Fault, Finish, Goto, Early, Holding, Writing
  <1>6. CASE Recheck(p)
    <2>1. pc[p] = "recheck" /\ name' = name /\ disk' = disk /\ next' = next /\ attempts' = attempts
      BY <1>6 DEF Recheck
    <2>2. \/ pc'[p] = "create" /\ report'[p] = "none"
          \/ pc'[p] = "done" /\ report'[p] = "failed"
      BY <1>1, <1>2, <1>6 DEF Recheck, Finish, Goto
    <2>. QED  BY <1>2, <2>1, <2>2, PlaceKept DEF Early, Holding, Writing
  <1>7. CASE CreateWorkspace(p)
    <2>1. PICK n \in Names : /\ disk' = [disk EXCEPT ![n].by = p]
                             /\ name' = [name EXCEPT ![p] = n]
      BY <1>7 DEF CreateWorkspace
    <2>2. pc[p] = "create" /\ pc'[p] = "restrict" /\ report'[p] = "none" /\ name'[p] = n
      BY <1>1, <1>2, <1>7, <2>1 DEF CreateWorkspace, Goto
    <2>3. disk'[n].by = p
      <3>1. disk'[n] = [disk[n] EXCEPT !.by = p]
        BY <1>0, <2>1, DiskType
      <3>2. disk[n] = [by |-> disk[n].by, files |-> disk[n].files]
        BY <1>0, DiskType
      <3>. QED  BY <3>1, <3>2
    <2>4. \A m \in Names : disk[m].by # p
      BY <1>0, <2>2, Strangers DEF PlaceInv, Early
    <2>5. \A m \in Names : disk'[m].by = p => m = n
      BY <1>0, <2>1, <2>4, DiskType
    <2>. QED  BY <2>2, <2>3, <2>5, Strangers DEF PlaceInv, Early, Holding, Writing
  <1>8. CASE NameTaken(p)
    <2>1. /\ pc[p] = "create" /\ name' = name /\ disk' = disk /\ next' = next
          /\ attempts'[p] = attempts[p] + 1
      BY <1>1, <1>8 DEF NameTaken
    <2>2. \/ pc'[p] = "create" /\ report'[p] = "none" /\ attempts'[p] # MaxAttempts
          \/ pc'[p] = "done" /\ report'[p] = "failed"
      BY <1>1, <1>2, <1>8 DEF NameTaken, Exhausted, Finish, Goto
    <2>3. attempts'[p] <= MaxAttempts
      BY <1>1, <1>2, <2>1, Numbers DEF Early
    <2>. QED  BY <1>1, <1>2, <2>1, <2>2, <2>3, Numbers, PlaceKept DEF Early, Holding, Writing
  <1>9. CASE CreateFails(p)
    BY <1>1, <1>2, <1>9, PlaceKept DEF CreateFails, Fault, Finish, Goto, Early, Holding, Writing
  <1>10. CASE RestrictWorkspace(p)
    BY <1>1, <1>2, <1>10, PlaceKept DEF RestrictWorkspace, Goto, Early, Holding, Writing
  <1>11. CASE RestrictFails(p)
    BY <1>1, <1>2, <1>11, PlaceKept DEF RestrictFails, Goto, Early, Holding, Writing
  <1>12. CASE OpenArtifact(p)
    <2>1. \A n \in Names : disk'[n].by = disk[n].by
      BY <1>12, PutBy DEF OpenArtifact, Holding, Writing
    <2>. QED
      BY <1>1, <1>2, <1>12, <2>1, PlaceKept DEF OpenArtifact, Goto, Early, Holding, Writing
  <1>13. CASE RestrictArtifact(p)
    <2>1. pc[p] = "restrict-artifact" /\ name' = name /\ disk' = disk
      BY <1>13 DEF RestrictArtifact
    <2>2. \/ pc'[p] = "content" /\ report'[p] = "none"
          \/ pc'[p] = "done" /\ report'[p] = "prepared"
          \/ pc'[p] = "open" /\ report'[p] = "none"
      BY <1>0, <1>1, <1>2, <1>13, AdvanceEffect DEF RestrictArtifact, Goto
    <2>. QED  BY <2>1, <2>2, PlaceKept DEF Early, Holding, Writing
  <1>14. CASE WriteArtifact(p)
    <2>1. \A n \in Names : disk'[n].by = disk[n].by
      BY <1>14, PutBy DEF WriteArtifact, Holding, Writing
    <2>. QED
      BY <1>1, <1>2, <1>14, <2>1, PlaceKept DEF WriteArtifact, Goto, Early, Holding, Writing
  <1>15. CASE SyncArtifact(p)
    <2>1. \A n \in Names : disk'[n].by = disk[n].by
      BY <1>15, PutBy DEF SyncArtifact, Holding, Writing
    <2>2. \/ pc'[p] = "done" /\ report'[p] = "prepared"
          \/ pc'[p] = "open" /\ report'[p] = "none"
      BY <1>0, <1>2, <1>15, AdvanceEffect DEF SyncArtifact
    <2>3. pc[p] = "sync" /\ name' = name
      BY <1>15 DEF SyncArtifact
    <2>. QED  BY <2>1, <2>2, <2>3, PlaceKept DEF Early, Holding, Writing
  <1>16. CASE WriteFails(p)
    <2>1. Put(p, Partial) \/ UNCHANGED disk
      BY <1>16 DEF WriteFails
    <2>2. \A n \in Names : disk'[n].by = disk[n].by
      BY <1>16, <2>1, PutBy DEF WriteFails, Holding, Writing
    <2>. QED  BY <1>1, <1>2, <1>16, <2>2, PlaceKept DEF WriteFails, Goto, Early, Holding, Writing
  <1>17. CASE RemoveArtifact(p)
    <2>1. name[p] \in Names
      BY <1>17, HoldsItsName DEF RemoveArtifact, Holding
    <2>2. disk'[name[p]].by = disk[name[p]].by
      <3>1. disk'[name[p]] = [by |-> disk[name[p]].by, files |-> disk'[name[p]].files]
        BY <1>0, <1>17, <2>1, RemoveEffect
      <3>. QED  BY <3>1
    <2>3. \A n \in Names : disk'[n].by = disk[n].by
      BY <1>0, <1>17, <2>1, <2>2, RemoveEffect
    <2>. QED  BY <1>1, <1>2, <1>17, <2>3, PlaceKept DEF RemoveArtifact, Early, Holding, Writing
  <1>18. CASE RemoveWorkspace(p)
    <2>1. name[p] \in Names /\ pc[p] = "cleanup"
      BY <1>18, HoldsItsName DEF RemoveWorkspace, Holding
    <2>2. disk'[name[p]] = Absent /\ \A n \in Names \ {name[p]} : disk'[n] = disk[n]
      BY <1>0, <1>18, <2>1, DiskType DEF RemoveWorkspace
    <2>3. \A n \in Names : disk'[n].by # p
      BY <1>0, <2>2, Strangers DEF PlaceInv, Absent
    <2>4. pc'[p] = "done" /\ report'[p] = "cleanup-completed"
      BY <1>1, <1>18 DEF RemoveWorkspace, Finish, Goto
    <2>. QED  BY <2>3, <2>4 DEF PlaceInv, Early, Holding, Writing
  <1>19. CASE CleanupFails(p)
    BY <1>1, <1>2, <1>19, PlaceKept DEF CleanupFails, Fault, Finish, Goto, Early, Holding, Writing
  <1>20. CASE Kill(p)
    BY <1>1, <1>2, <1>20, PlaceKept DEF Kill, Finish, Goto, Early, Holding, Writing
  <1>. QED
    BY <1>3, <1>4, <1>5, <1>6, <1>7, <1>8, <1>9, <1>10, <1>11, <1>12, <1>13, <1>14, <1>15, <1>16,
       <1>17, <1>18, <1>19, <1>20 DEF Step

\* The files of p after Put, as p sees them.
LEMMA PutFiles ==
  ASSUME IInv, NEW p \in Procs, pc[p] \in Writing, NEW file, Put(p, file), name' = name
  PROVE  /\ DOMAIN Files(p)' = DOMAIN Files(p) \cup {Artifact(p)}
         /\ Files(p)'[Artifact(p)] = file
         /\ \A a \in DOMAIN Files(p) \ {Artifact(p)} : Files(p)'[a] = Files(p)[a]
  <1>1. name[p] \in Names /\ TypeOK
    BY HoldsItsName DEF Holding, IInv
  <1>2. Files(p)' = disk'[name[p]].files
    BY DEF Files
  <1>3. /\ DOMAIN disk'[name[p]].files = DOMAIN Files(p) \cup {Artifact(p)}
        /\ disk'[name[p]].files[Artifact(p)] = file
        /\ \A a \in DOMAIN Files(p) \ {Artifact(p)} : disk'[name[p]].files[a] = Files(p)[a]
    BY <1>1, PutEffect
  <1>. QED  BY <1>2, <1>3

\* Nothing is said of an invocation that is not writing and has not succeeded.
LEMMA NotWriting ==
  ASSUME NEW p \in Procs, pc'[p] \notin Writing, report'[p] # "prepared"
  PROVE  WrittenInv(p)'
BY DEF WrittenInv, Writing

\* After an artifact that is finished comes the next one, or success.
LEMMA FinishedOne ==
  ASSUME IInv, NEW p \in Procs, pc[p] \in Writing \ {"restrict"}, Advance(p),
         taken'[p] = taken[p], rendered'[p] = rendered[p],
         DOMAIN Files(p)' = Before(p) \cup {Artifact(p)},
         \A a \in Before(p) \cup {Artifact(p)} : Files(p)'[a] = Finished(p, a)
  PROVE  WrittenInv(p)'
  <1>1. TypeOK /\ report[p] = "none"
    BY DEF IInv, PlaceInv, Writing
  <1>2. \A a : Finished(p, a)' = Finished(p, a)
    BY DEF Finished
  <1>3. CASE /\ Artifact(p) = "manifest.json" /\ next'[p] = next[p]
             /\ pc'[p] = "done" /\ report'[p] = "prepared"
    <2>1. Before(p) \cup {Artifact(p)} = Range(Artifacts)
      BY <1>1, <1>3, Order
    <2>. QED  BY <1>2, <1>3, <2>1 DEF WrittenInv, Writing
  <1>4. CASE /\ Artifact(p) # "manifest.json" /\ next'[p] = next[p] + 1
             /\ pc'[p] = "open" /\ report'[p] = report[p]
             /\ Before(p)' = Before(p) \cup {Artifact(p)}
    BY <1>1, <1>2, <1>4 DEF WrittenInv, Writing
  <1>. QED  BY <1>1, <1>3, <1>4, AdvanceEffect

LEMMA OwnWritten ==
  ASSUME IInv, NEW p \in Procs, Step(p) \/ Kill(p)
  PROVE  WrittenInv(p)'
  <1>0. PlaceInv(p) /\ TypeOK /\ WrittenInv(p)
    BY DEF IInv
  <1>1. /\ pc \in [Procs -> Steps] /\ name \in [Procs -> Names \cup {"none"}]
        /\ next \in [Procs -> 1..7] /\ report \in [Procs -> Reports]
    BY <1>0, Scalars
  <1>2. pc[p] # "done" => report[p] = "none"
    BY <1>0 DEF PlaceInv
  <1>3. CASE ReadSource(p) \/ Render(p) \/ ReadFails(p)
    BY <1>1, <1>2, <1>3, NotWriting DEF ReadSource, Render, ReadFails, Finish, Goto, Writing
  <1>4. CASE Recheck(p) \/ NameTaken(p) \/ CreateFails(p)
    BY <1>1, <1>2, <1>4, NotWriting DEF Recheck, NameTaken, CreateFails, Finish, Goto, Writing
  <1>5. CASE RestrictFails(p) \/ WriteFails(p)
    BY <1>1, <1>2, <1>5, NotWriting DEF RestrictFails, WriteFails, Goto, Writing
  <1>6. CASE RemoveArtifact(p) \/ RemoveWorkspace(p) \/ CleanupFails(p) \/ Kill(p)
    BY <1>1, <1>2, <1>6, NotWriting
    DEF RemoveArtifact, RemoveWorkspace, CleanupFails, Kill, Finish, Goto, Writing
  <1>7. CASE CreateWorkspace(p)
    <2>1. PICK n \in Names : /\ disk[n].by = Nobody
                             /\ disk' = [disk EXCEPT ![n].by = p]
                             /\ name' = [name EXCEPT ![p] = n]
      BY <1>7 DEF CreateWorkspace, Free
    <2>2. /\ pc'[p] = "restrict" /\ report'[p] = "none" /\ next' = next /\ next[p] = 1
          /\ name'[p] = n
      BY <1>0, <1>1, <1>2, <1>7, <2>1 DEF CreateWorkspace, Goto, PlaceInv, Early
    <2>3. Files(p)' = disk[n].files
      <3>1. disk'[n] = [disk[n] EXCEPT !.by = p]
        BY <1>0, <2>1, DiskType
      <3>2. disk[n] = [by |-> disk[n].by, files |-> disk[n].files]
        BY <1>0, DiskType
      <3>. QED  BY <2>2, <3>1, <3>2 DEF Files
    <2>4. DOMAIN disk[n].files = {}
      BY <2>1, Strangers DEF IInv, LeftInv
    <2>5. Before(p)' = {}
      BY <2>2 DEF Before
    <2>. QED  BY <2>2, <2>3, <2>4, <2>5 DEF WrittenInv, Writing
  <1>8. CASE RestrictWorkspace(p)
    <2>1. /\ pc[p] = "restrict" /\ pc'[p] = "open" /\ report'[p] = "none"
          /\ UNCHANGED <<name, next, disk, taken, rendered>>
      BY <1>1, <1>2, <1>8 DEF RestrictWorkspace, Goto
    <2>2. Files(p)' = Files(p) /\ Before(p)' = Before(p)
      BY <2>1 DEF Files, Before
    <2>3. \A a : Finished(p, a)' = Finished(p, a)
      BY <2>1 DEF Finished
    <2>. QED  BY <1>0, <2>1, <2>2, <2>3 DEF WrittenInv, Writing
  <1>9. CASE OpenArtifact(p)
    <2>1. /\ pc[p] = "open" /\ pc'[p] = "restrict-artifact" /\ report'[p] = "none"
          /\ UNCHANGED <<name, next, taken, rendered>>
      BY <1>1, <1>2, <1>9 DEF OpenArtifact, Goto
    <2>2. /\ DOMAIN Files(p)' = DOMAIN Files(p) \cup {Artifact(p)}
          /\ Files(p)'[Artifact(p)] = Nothing
          /\ \A a \in DOMAIN Files(p) \ {Artifact(p)} : Files(p)'[a] = Files(p)[a]
      BY <1>9, <2>1, PutFiles DEF OpenArtifact, Writing
    <2>3. Before(p)' = Before(p) /\ Artifact(p)' = Artifact(p)
      BY <2>1 DEF Before, Artifact
    <2>4. \A a : Finished(p, a)' = Finished(p, a)
      BY <2>1 DEF Finished
    <2>5. DOMAIN Files(p) = Before(p) /\ \A a \in Before(p) : Files(p)[a] = Finished(p, a)
      BY <1>0, <2>1 DEF WrittenInv, Writing
    <2>6. Artifact(p) \notin Before(p)
      BY <1>0, Order
    <2>. QED  BY <2>1, <2>2, <2>3, <2>4, <2>5, <2>6 DEF WrittenInv, Writing
  <1>10. CASE RestrictArtifact(p)
    <2>1. pc[p] = "restrict-artifact" /\ UNCHANGED <<name, disk, taken, rendered>>
      BY <1>10 DEF RestrictArtifact
    <2>2. Files(p)' = Files(p)
      BY <2>1 DEF Files
    <2>3. /\ DOMAIN Files(p) = Before(p) \cup {Artifact(p)}
          /\ \A a \in Before(p) : Files(p)[a] = Finished(p, a)
          /\ Files(p)[Artifact(p)] = Nothing
      BY <1>0, <2>1 DEF WrittenInv, Writing
    <2>4. CASE Artifact(p) \in Directories
      <3>1. Finished(p, Artifact(p)) = [bytes |-> <<>>, synced |-> FALSE]
        <4>1. Contents(Artifact(p), taken[p].bytes, rendered[p]) = <<>>
          BY <2>4, EmptyDirectories
        <4>2. (Artifact(p) \notin Directories) = FALSE
          BY <2>4
        <4>. QED  BY <4>1, <4>2 DEF Finished
      <3>2. Files(p)[Artifact(p)] = Finished(p, Artifact(p))
        BY <2>3, <3>1 DEF Nothing
      <3>3. Advance(p)
        BY <1>10, <2>4 DEF RestrictArtifact
      <3>. QED  BY <2>1, <2>2, <2>3, <3>2, <3>3, FinishedOne DEF Writing
    <2>5. CASE Artifact(p) \notin Directories
      <3>1. pc'[p] = "content" /\ next' = next /\ report'[p] = "none"
        BY <1>1, <1>2, <1>10, <2>1, <2>5 DEF RestrictArtifact, Goto
      <3>2. Before(p)' = Before(p) /\ Artifact(p)' = Artifact(p)
        BY <3>1 DEF Before, Artifact
      <3>3. \A a : Finished(p, a)' = Finished(p, a)
        BY <2>1 DEF Finished
      <3>. QED  BY <2>2, <2>3, <2>5, <3>1, <3>2, <3>3 DEF WrittenInv, Writing
    <2>. QED  BY <2>4, <2>5
  <1>11. CASE WriteArtifact(p)
    <2>. DEFINE file == [bytes  |-> Contents(Artifact(p), taken[p].bytes, rendered[p]),
                         synced |-> FALSE]
    <2>1. /\ pc[p] = "content" /\ pc'[p] = "sync" /\ report'[p] = "none" /\ Put(p, file)
          /\ UNCHANGED <<name, next, taken, rendered>>
      BY <1>1, <1>2, <1>11 DEF WriteArtifact, Goto
    <2>2. /\ DOMAIN Files(p)' = DOMAIN Files(p) \cup {Artifact(p)}
          /\ Files(p)'[Artifact(p)] = file
          /\ \A a \in DOMAIN Files(p) \ {Artifact(p)} : Files(p)'[a] = Files(p)[a]
      BY <2>1, PutFiles DEF Writing
    <2>3. /\ DOMAIN Files(p) = Before(p) \cup {Artifact(p)} /\ Artifact(p) \notin Directories
          /\ \A a \in Before(p) : Files(p)[a] = Finished(p, a)
      BY <1>0, <2>1 DEF WrittenInv, Writing
    <2>4. Before(p)' = Before(p) /\ Artifact(p)' = Artifact(p)
      BY <2>1 DEF Before, Artifact
    <2>5. \A a : Finished(p, a)' = Finished(p, a)
      BY <2>1 DEF Finished
    <2>6. Artifact(p) \notin Before(p)
      BY <1>0, Order
    <2>7. [Finished(p, Artifact(p)) EXCEPT !.synced = FALSE]' = file
      <3>1. Finished(p, Artifact(p))' = Finished(p, Artifact(p))
        BY <2>1, <2>4 DEF Finished
      <3>2. [Finished(p, Artifact(p)) EXCEPT !.synced = FALSE] = file
        BY Resynced DEF Finished
      <3>. QED  BY <3>1, <3>2
    <2>8. /\ DOMAIN Files(p)' = Before(p)' \cup {Artifact(p)'}
          /\ \A a \in Before(p)' : Files(p)'[a] = Finished(p, a)'
          /\ Files(p)'[Artifact(p)'] = file
      BY <2>2, <2>3, <2>4, <2>5, <2>6
    <2>. QED  BY <2>1, <2>3, <2>4, <2>7, <2>8 DEF WrittenInv, Writing
  <1>12. CASE SyncArtifact(p)
    <2>. DEFINE file == [Files(p)[Artifact(p)] EXCEPT !.synced = TRUE]
    <2>1. pc[p] = "sync" /\ Put(p, file) /\ Advance(p) /\ UNCHANGED <<name, taken, rendered>>
      BY <1>12 DEF SyncArtifact
    <2>2. /\ DOMAIN Files(p)' = DOMAIN Files(p) \cup {Artifact(p)}
          /\ Files(p)'[Artifact(p)] = file
          /\ \A a \in DOMAIN Files(p) \ {Artifact(p)} : Files(p)'[a] = Files(p)[a]
      BY <2>1, PutFiles DEF Writing
    <2>3. /\ DOMAIN Files(p) = Before(p) \cup {Artifact(p)} /\ Artifact(p) \notin Directories
          /\ \A a \in Before(p) : Files(p)[a] = Finished(p, a)
      BY <1>0, <2>1 DEF WrittenInv, Writing
    <2>4. file = Finished(p, Artifact(p))
      <3>1. (Artifact(p) \notin Directories) = TRUE
        BY <2>3
      <3>2. Finished(p, Artifact(p))
              = [bytes |-> Contents(Artifact(p), taken[p].bytes, rendered[p]), synced |-> TRUE]
        BY <3>1 DEF Finished
      <3>. QED  BY <2>1, <3>2, AtSync
    <2>5. Artifact(p) \notin Before(p)
      BY <1>0, Order
    <2>. QED  BY <2>1, <2>2, <2>3, <2>4, <2>5, FinishedOne DEF Writing
  <1>. QED
    BY <1>3, <1>4, <1>5, <1>6, <1>7, <1>8, <1>9, <1>10, <1>11, <1>12 DEF Step

\* A workspace that loses files is what it was otherwise.
LEMMA FewerLeft ==
  ASSUME NEW n \in Names, LeftInv(n), disk'[n].by = disk[n].by,
         DOMAIN disk'[n].files \subseteq DOMAIN disk[n].files,
         \A a \in DOMAIN disk'[n].files :
           \/ disk'[n].files[a] = disk[n].files[a]
           \/ ~disk[n].files[a].synced /\ disk'[n].files[a] \in {Nothing, Partial},
         disk[n].by \in Procs => /\ taken'[disk[n].by] = taken[disk[n].by]
                                 /\ rendered'[disk[n].by] = rendered[disk[n].by]
  PROVE  LeftInv(n)'
  <1>. DEFINE files == disk[n].files
              after == disk'[n].files
              p     == disk[n].by
  <1>1. CASE p \notin Procs
    BY <1>1 DEF LeftInv
  <1>2. CASE p \in Procs
    <2>1. \A a : Finished(p, a)' = Finished(p, a)
      BY <1>2 DEF Finished
    <2>2. ~Nothing.synced /\ ~Partial.synced
      BY DEF Nothing, Partial
    <2>3. \A a \in DOMAIN files :
            /\ files[a].bytes \in {Nothing.bytes, Partial.bytes, Finished(p, a).bytes}
            /\ files[a].synced => files[a].bytes = Finished(p, a).bytes
            /\ "manifest.json" \in DOMAIN files =>
                 a \in Directories \cup {"manifest.json"} \/ files[a].synced
      BY <1>2 DEF LeftInv
    <2>4. ASSUME NEW a \in DOMAIN after
          PROVE  /\ after[a].bytes \in {Nothing.bytes, Partial.bytes, Finished(p, a).bytes}
                 /\ after[a].synced => after[a].bytes = Finished(p, a).bytes
                 /\ "manifest.json" \in DOMAIN after =>
                      a \in Directories \cup {"manifest.json"} \/ after[a].synced
      <3>1. CASE after[a] = files[a]
        BY <2>3, <3>1
      <3>2. CASE ~files[a].synced /\ after[a] \in {Nothing, Partial}
        BY <2>2, <2>3, <3>2
      <3>. QED  BY <3>1, <3>2
    <2>5. LeftInv(n)' <=>
            \A a \in DOMAIN after :
              /\ after[a].bytes \in {Nothing.bytes, Partial.bytes, Finished(p, a)'.bytes}
              /\ after[a].synced => after[a].bytes = Finished(p, a)'.bytes
              /\ "manifest.json" \in DOMAIN after =>
                   a \in Directories \cup {"manifest.json"} \/ after[a].synced
      BY <1>2 DEF LeftInv
    <2>. QED  BY <2>1, <2>4, <2>5
  <1>. QED  BY <1>1, <1>2

LEMMA OwnLeft ==
  ASSUME IInv, NEW p \in Procs, Step(p) \/ Kill(p), NEW n \in Names
  PROVE  LeftInv(n)'
  <1>0. TypeOK /\ LeftInv(n) /\ Effect(p)
    BY StepEffect DEF IInv
  <1>1. CASE disk'[n] = disk[n]
    BY <1>0, <1>1, LeftFrame
  <1>2. ASSUME CreateWorkspace(p), disk'[n] # disk[n] PROVE LeftInv(n)'
    <2>1. disk[n].by = Nobody /\ disk' = [disk EXCEPT ![n].by = p]
      <3>1. PICK m \in Names : disk[m].by = Nobody /\ disk' = [disk EXCEPT ![m].by = p]
        BY <1>2 DEF CreateWorkspace, Free
      <3>2. m = n
        BY <1>0, <1>2, <3>1, DiskType
      <3>. QED  BY <3>1, <3>2
    <2>2. disk'[n].by = p /\ disk'[n].files = disk[n].files
      <3>1. disk'[n] = [disk[n] EXCEPT !.by = p]
        BY <1>0, <2>1, DiskType
      <3>2. disk[n] = [by |-> disk[n].by, files |-> disk[n].files]
        BY <1>0, DiskType
      <3>. QED  BY <3>1, <3>2
    <2>3. DOMAIN disk'[n].files = {}
      BY <1>0, <2>1, <2>2, Strangers DEF LeftInv
    <2>. QED  BY <2>2, <2>3 DEF LeftInv
  <1>3. ASSUME NEW file, Put(p, file), pc[p] \in Writing, Fits(p, Artifact(p), file),
               taken' = taken, rendered' = rendered
        PROVE  LeftInv(n)'
    <2>1. name[p] \in Names
      BY <1>3, HoldsItsName DEF Holding
    <2>2. CASE n = name[p]
      BY <1>3, <2>2, PutLeft
    <2>3. CASE n # name[p]
      BY <1>0, <1>1, <1>3, <2>1, <2>3, PutEffect
    <2>. QED  BY <2>2, <2>3
  <1>4. CASE OpenArtifact(p)
    <2>1. Fits(p, Artifact(p), Nothing)
      BY DEF Fits, Nothing
    <2>. QED  BY <1>3, <1>4, <2>1 DEF OpenArtifact, Writing
  <1>5. CASE WriteArtifact(p)
    <2>. DEFINE file == [bytes  |-> Contents(Artifact(p), taken[p].bytes, rendered[p]),
                         synced |-> FALSE]
    <2>1. Fits(p, Artifact(p), file)
      BY DEF Fits, Finished
    <2>. QED  BY <1>3, <1>5, <2>1 DEF WriteArtifact, Writing
  <1>6. CASE SyncArtifact(p)
    <2>. DEFINE file == [Files(p)[Artifact(p)] EXCEPT !.synced = TRUE]
    <2>1. file = [bytes |-> Contents(Artifact(p), taken[p].bytes, rendered[p]), synced |-> TRUE]
      BY <1>6, AtSync DEF SyncArtifact
    <2>2. Fits(p, Artifact(p), file)
      BY <2>1 DEF Fits, Finished
    <2>. QED  BY <1>3, <1>6, <2>2 DEF SyncArtifact, Writing
  <1>7. ASSUME WriteFails(p), disk'[n] # disk[n] PROVE LeftInv(n)'
    <2>1. pc[p] \in Writing /\ taken' = taken /\ rendered' = rendered
      BY <1>7 DEF WriteFails, Writing
    <2>2. Put(p, Partial)
      BY <1>7 DEF WriteFails
    <2>3. Fits(p, Artifact(p), Partial)
      BY DEF Fits, Partial
    <2>. QED  BY <1>3, <2>1, <2>2, <2>3
  <1>8. ASSUME RemoveArtifact(p), disk'[n] # disk[n] PROVE LeftInv(n)'
    <2>1. name[p] \in Names /\ taken' = taken /\ rendered' = rendered
      BY <1>8, HoldsItsName DEF RemoveArtifact, Holding
    <2>2. n = name[p] /\ disk'[n] = [by |-> disk[n].by, files |-> disk'[n].files]
      BY <1>0, <1>8, <2>1, RemoveEffect
    <2>3. PICK a \in DOMAIN Files(p) :
            disk'[name[p]].files = [b \in DOMAIN Files(p) \ {a} |-> Files(p)[b]]
      BY <1>0, <1>8, <2>1, RemoveEffect
    <2>4. disk'[n].by = disk[n].by
      BY <2>2
    <2>. QED  BY <1>0, <2>1, <2>2, <2>3, <2>4, FewerLeft DEF Files
  <1>9. ASSUME RemoveWorkspace(p), disk'[n] # disk[n] PROVE LeftInv(n)'
    <2>1. disk'[n] = Absent
      BY <1>0, <1>9, DiskType DEF RemoveWorkspace
    <2>. QED  BY <2>1, Strangers DEF LeftInv, Absent
  <1>. QED
    BY <1>1, <1>2, <1>4, <1>5, <1>6, <1>7, <1>8, <1>9
    DEF Step, Kill, ReadSource, Render, ReadFails, Recheck, NameTaken, CreateFails,
        RestrictWorkspace, RestrictFails, RestrictArtifact, CleanupFails

-------------------------------------------------------------------------------
(***************************************************************************)
(* The invariant.                                                          *)
(***************************************************************************)
LEMMA InitInv == Init => IInv
  <1>. SUFFICES ASSUME Init PROVE IInv
    OBVIOUS
  <1>1. \A n \in Names : disk[n] = Absent \/ disk[n] = [Absent EXCEPT !.by = Other]
    BY DEF Init
  <1>2. \A n \in Names : /\ disk[n] = [by |-> disk[n].by, files |-> <<>>]
                         /\ disk[n].by \in {Nobody, Other} /\ disk[n].files = <<>>
    BY <1>1 DEF Absent
  <1>3. DOMAIN <<>> = {} /\ IsPart(<<>>)
    <2>1. DOMAIN <<>> = {} /\ <<>> = [a \in {} |-> <<>>[a]]
      OBVIOUS
    <2>. QED  BY <2>1, PartOf
  <1>4. TypeOK
    <2>1. source \in [bytes : Versions, identity : 0..MaxEdits]
      BY Numbers DEF Init, Versions
    <2>2. /\ pc \in [Procs -> Steps] /\ taken \in [Procs -> [bytes : Versions, identity : 0..MaxEdits]]
          /\ rendered \in [Procs -> Renders] /\ attempts \in [Procs -> 0..MaxAttempts]
      BY <2>1, Numbers DEF Init, Steps, Renders, Versions
    <2>3. /\ name \in [Procs -> Names \cup {"none"}] /\ next \in [Procs -> 1..Len(Artifacts)]
          /\ report \in [Procs -> Reports]
      BY InOrder DEF Init, Reports
    <2>4. edits \in 0..MaxEdits /\ faults \in 0..MaxFaults /\ stops \in 0..MaxStops
      BY Numbers DEF Init
    <2>5. disk = [n \in Names |-> disk[n]]
      BY DEF Init
    <2>6. disk = [n \in Names |-> [by |-> disk[n].by, files |-> disk[n].files]]
      BY <1>2, <2>5
    <2>7. ASSUME NEW n \in Names
          PROVE  disk[n].by \in Procs \cup {Nobody, Other} /\ IsPart(disk[n].files)
      <3>1. disk[n].files = <<>> /\ disk[n].by \in {Nobody, Other}
        BY <1>2
      <3>. QED  BY <1>3, <3>1
    <2>. QED  BY <2>1, <2>2, <2>3, <2>4, <2>6, <2>7 DEF TypeOK
  <1>5. ASSUME NEW p \in Procs PROVE PlaceInv(p) /\ SourceInv(p) /\ WrittenInv(p)
    <2>1. /\ pc[p] = "read" /\ name[p] = "none" /\ next[p] = 1 /\ attempts[p] = 0
          /\ report[p] = "none" /\ taken[p] = source /\ edits = 0 /\ source.identity = 0
      BY DEF Init
    <2>2. \A n \in Names : disk[n].by # p
      BY <1>2, Strangers
    <2>3. PlaceInv(p)
      BY <2>1, <2>2, Numbers DEF PlaceInv, Early, Holding, Writing
    <2>4. SourceInv(p)
      BY <2>1 DEF SourceInv
    <2>5. WrittenInv(p)
      BY <2>1 DEF WrittenInv, Writing
    <2>. QED  BY <2>3, <2>4, <2>5
  <1>6. ASSUME NEW n \in Names PROVE LeftInv(n)
    <2>1. disk[n].files = <<>> /\ disk[n].by \notin Procs
      BY <1>2, Strangers
    <2>2. DOMAIN disk[n].files = {}
      BY <1>3, <2>1
    <2>. QED  BY <2>1, <2>2 DEF LeftInv
  <1>. QED  BY <1>4, <1>5, <1>6 DEF IInv

LEMMA EditInv ==
  ASSUME IInv, EditSource
  PROVE  /\ \A p \in Procs : PlaceInv(p)' /\ SourceInv(p)' /\ WrittenInv(p)'
         /\ \A n \in Names : LeftInv(n)'
  <1>1. /\ edits' = edits + 1 /\ source'.identity = edits + 1
        /\ UNCHANGED <<pc, taken, rendered, attempts, name, next, report, disk>>
    BY DEF EditSource
  <1>2. ASSUME NEW p \in Procs PROVE SourceInv(p)'
    <2>1. edits \in Nat /\ taken[p].identity \in Nat
      BY Scalars, Numbers DEF IInv
    <2>2. SourceInv(p)
      BY DEF IInv
    <2>3. taken[p].identity # edits + 1 /\ taken[p].identity <= edits + 1
      BY <2>1, <2>2 DEF SourceInv
    <2>. QED  BY <1>1, <2>2, <2>3 DEF SourceInv
  <1>3. ASSUME NEW p \in Procs PROVE PlaceInv(p)'
    BY <1>1 DEF IInv, PlaceInv, Crashed
  <1>4. ASSUME NEW p \in Procs PROVE WrittenInv(p)'
    <2>1. Files(p)' = Files(p) /\ Before(p)' = Before(p) /\ Artifact(p)' = Artifact(p)
      BY <1>1 DEF Files, Before, Artifact
    <2>2. \A a : Finished(p, a)' = Finished(p, a)
      BY <1>1 DEF Finished
    <2>3. Finished(p, Artifact(p))' = Finished(p, Artifact(p))
      BY <1>1, <2>1 DEF Finished
    <2>. QED  BY <1>1, <2>1, <2>2, <2>3 DEF IInv, WrittenInv
  <1>5. ASSUME NEW n \in Names PROVE LeftInv(n)'
    BY <1>1, FewerLeft DEF IInv
  <1>. QED  BY <1>2, <1>3, <1>4, <1>5

LEMMA PowerLossInv ==
  ASSUME IInv, PowerLoss
  PROVE  /\ \A p \in Procs : PlaceInv(p)' /\ SourceInv(p)' /\ WrittenInv(p)'
         /\ \A n \in Names : LeftInv(n)'
  <1>0. TypeOK
    BY DEF IInv
  <1>1. /\ UNCHANGED <<source, taken, rendered, attempts, name, next, edits>>
        /\ \A p \in Procs : pc'[p] = "done" /\ report'[p] = "killed"
    BY <1>0, PowerLossEffect DEF PowerLoss
  <1>2. ASSUME NEW n \in Names
        PROVE  disk'[n].by = disk[n].by /\ LeftInv(n)'
    <2>1. CASE disk'[n] = disk[n]
      BY <1>1, <2>1, FewerLeft DEF IInv
    <2>2. CASE disk'[n] \in Survivors(n)
      <3>1. disk'[n] = [by |-> disk[n].by, files |-> disk'[n].files]
        BY <1>0, <2>2, SurvivorsEffect
      <3>2. disk'[n].by = disk[n].by
        BY <3>1
      <3>3. /\ DOMAIN disk'[n].files \subseteq DOMAIN disk[n].files
            /\ \A a \in DOMAIN disk'[n].files :
                 \/ disk'[n].files[a] = disk[n].files[a]
                 \/ ~disk[n].files[a].synced /\ disk'[n].files[a] \in {Nothing, Partial}
        BY <1>0, <2>2, SurvivorsEffect
      <3>. QED  BY <1>1, <3>2, <3>3, FewerLeft DEF IInv
    <2>. QED  BY <1>0, <2>1, <2>2, PowerLossEffect
  <1>3. ASSUME NEW p \in Procs PROVE PlaceInv(p)' /\ SourceInv(p)' /\ WrittenInv(p)'
    <2>1. Crashed'
      BY <1>1 DEF Crashed
    <2>2. PlaceInv(p)'
      BY <1>1, <1>2, <2>1 DEF IInv, PlaceInv, Early, Holding, Writing
    <2>3. SourceInv(p)'
      BY <1>1 DEF IInv, SourceInv
    <2>4. WrittenInv(p)'
      BY <1>1, NotWriting DEF Writing
    <2>. QED  BY <2>2, <2>3, <2>4
  <1>. QED  BY <1>2, <1>3

LEMMA NextInv == IInv /\ [Next]_vars => IInv'
  <1>. SUFFICES ASSUME IInv, [Next]_vars PROVE IInv'
    OBVIOUS
  <1>1. TypeOK'
    BY TypeStep
  <1>. DEFINE Rest == /\ \A p \in Procs : PlaceInv(p)' /\ SourceInv(p)' /\ WrittenInv(p)'
                      /\ \A n \in Names : LeftInv(n)'
  <1>2. ASSUME NEW p \in Procs, Step(p) \/ Kill(p) PROVE Rest
    <2>1. Effect(p)
      BY <1>2, StepEffect
    <2>2. ASSUME NEW q \in Procs \ {p} PROVE PlaceInv(q)' /\ SourceInv(q)' /\ WrittenInv(q)'
      BY <2>1, BystanderPlace, BystanderSource, BystanderWritten
    <2>3. PlaceInv(p)' /\ SourceInv(p)' /\ WrittenInv(p)'
      BY <1>2, OwnPlace, OwnSource, OwnWritten
    <2>4. \A n \in Names : LeftInv(n)'
      BY <1>2, OwnLeft
    <2>. QED  BY <2>2, <2>3, <2>4
  <1>3. ASSUME UNCHANGED vars PROVE Rest
    <2>1. UNCHANGED <<source, pc, taken, rendered, attempts, name, next, report, disk, edits>>
      BY <1>3 DEF vars
    <2>2. ASSUME NEW p \in Procs PROVE PlaceInv(p)' /\ SourceInv(p)'
      BY <2>1 DEF IInv, PlaceInv, SourceInv, Crashed
    <2>3. ASSUME NEW p \in Procs PROVE WrittenInv(p)'
      <3>1. Files(p)' = Files(p) /\ Before(p)' = Before(p) /\ Artifact(p)' = Artifact(p)
        BY <2>1 DEF Files, Before, Artifact
      <3>2. \A a : Finished(p, a)' = Finished(p, a)
        BY <2>1 DEF Finished
      <3>3. Finished(p, Artifact(p))' = Finished(p, Artifact(p))
        BY <2>1, <3>1 DEF Finished
      <3>4. WrittenInv(p)
        BY DEF IInv
      <3>. QED  BY <2>1, <3>1, <3>2, <3>3, <3>4 DEF WrittenInv
    <2>4. ASSUME NEW n \in Names PROVE LeftInv(n)'
      BY <2>1, FewerLeft DEF IInv
    <2>. QED  BY <2>2, <2>3, <2>4
  <1>4. ASSUME EditSource PROVE Rest
    BY <1>4, EditInv
  <1>5. ASSUME PowerLoss PROVE Rest
    BY <1>5, PowerLossInv
  <1>6. Rest
    BY <1>2, <1>3, <1>4, <1>5 DEF Next
  <1>. QED  BY <1>1, <1>6 DEF IInv

-------------------------------------------------------------------------------
\* The invariant holds in every reachable state, whatever the interleaving of the
\* invocations of `prepare`, the edits of the source, the failing calls, the kills
\* and the losses of power.
THEOREM Invariance == Spec => []IInv
  <1>. QED  BY InitInv, NextInv, PTL DEF Spec

\* Every variable of `prepare` keeps its type, a name never tried more than
\* MaxAttempts times (create_workspace) included.
THEOREM TypeCorrect == Spec => []TypeOK
  <1>1. IInv => TypeOK
    BY DEF IInv
  <1>. QED  BY <1>1, Invariance, PTL

\* A failure that does not say "retained" leaves no directory of its own behind
\* (cleanup_failed_workspace, workspace_write_error_after_creation).
THEOREM NothingLeftBehind == Spec => []FailureLeavesNothing
  <1>1. IInv => FailureLeavesNothing
    BY DEF IInv, PlaceInv, FailureLeavesNothing
  <1>. QED  BY <1>1, Invariance, PTL

\* The version a usable workspace is of, and that all of it is.
LEMMA UsableVersion ==
  ASSUME IInv, NEW n \in Names, Usable(n)
  PROVE  /\ disk[n].by \in Procs
         /\ taken[disk[n].by].bytes \in Conflicts
         /\ rendered[disk[n].by] = taken[disk[n].by].bytes
         /\ \A a \in {"manifest.json", "resolved"} \cup Terms :
              disk[n].files[a].bytes
                = Contents(a, taken[disk[n].by].bytes, taken[disk[n].by].bytes)
  <1>. DEFINE files == disk[n].files
              p     == disk[n].by
  <1>1. {"manifest.json", "resolved"} \cup Terms \subseteq DOMAIN files
    BY DEF Usable
  <1>2. p \in Procs
    BY <1>1 DEF IInv, LeftInv
  <1>3. taken[p].bytes \in Conflicts /\ rendered[p] = taken[p].bytes
    <2>1. name[p] = n
      BY <1>2 DEF IInv, PlaceInv
    <2>. QED  BY <1>2, <2>1, Strangers DEF IInv, SourceInv
  <1>4. PICK read \in Conflicts : \E render \in Conflicts :
          \A a \in {"manifest.json"} \cup Terms : files[a].bytes = Contents(a, read, render)
    BY DEF Usable
  <1>5. PICK render \in Conflicts :
          \A a \in {"manifest.json"} \cup Terms : files[a].bytes = Contents(a, read, render)
    BY <1>4
  <1>6. \A a \in DOMAIN files :
          /\ files[a].bytes \in {Nothing.bytes, Partial.bytes, Finished(p, a).bytes}
          /\ files[a].synced => files[a].bytes = Finished(p, a).bytes
          /\ a \in Directories \cup {"manifest.json"} \/ files[a].synced
    BY <1>1, <1>2 DEF IInv, LeftInv
  <1>7. ASSUME NEW a \in {"manifest.json", "resolved"} \cup Terms
        PROVE  files[a].bytes = Contents(a, taken[p].bytes, rendered[p])
    <2>1. Finished(p, a).bytes = Contents(a, taken[p].bytes, rendered[p])
      BY DEF Finished
    <2>2. CASE a = "manifest.json"
      <3>1. files[a].bytes \notin {Nothing.bytes, Partial.bytes}
        BY <1>5, <2>2, Legible
      <3>. QED  BY <1>1, <1>6, <2>1, <3>1
    <2>3. CASE a # "manifest.json"
      <3>1. a \notin Directories
        BY <2>3 DEF Directories, Terms
      <3>. QED  BY <1>1, <1>6, <2>1, <2>3, <3>1
    <2>. QED  BY <2>2, <2>3
  <1>. QED  BY <1>2, <1>3, <1>7

\* A workspace that `apply` would take holds the canvas of the source its manifest
\* names, at every moment: the manifest is written last, after every other file
\* is on the disk (write_workspace).
THEOREM NoPartOfACanvas == Spec => []UsableHasTheCanvas
  <1>1. IInv => UsableHasTheCanvas
    BY UsableVersion DEF UsableHasTheCanvas
  <1>. QED  BY <1>1, Invariance, PTL

LEMMA PreparedByInvariant == IInv => PreparedIsUsable
  <1>. SUFFICES ASSUME IInv, NEW p \in Procs, report[p] = "prepared"
                PROVE  /\ Usable(name[p])
                       /\ \A a \in Range(Artifacts) \ Directories : Files(p)[a].synced
                       /\ \A q \in Procs \ {p} :
                            name[q] # name[p] \/ report[q] = "cleanup-completed"
    BY DEF PreparedIsUsable, Files
  <1>1. /\ DOMAIN Files(p) = Range(Artifacts)
        /\ \A a \in Range(Artifacts) : Files(p)[a] = Finished(p, a)
    BY DEF IInv, WrittenInv
  <1>2. name[p] # "none" /\ name[p] \in Names /\ disk[name[p]].by = p
    BY DEF IInv, PlaceInv, TypeOK
  <1>3. taken[p].bytes \in Conflicts /\ rendered[p] = taken[p].bytes
    BY <1>2 DEF IInv, SourceInv
  <1>4. \A a \in Range(Artifacts) :
          Files(p)[a].bytes = Contents(a, taken[p].bytes, rendered[p])
    BY <1>1 DEF Finished
  <1>5. {"manifest.json", "resolved"} \cup Terms \subseteq Range(Artifacts)
    BY AllArtifacts DEF Terms
  <1>6. Usable(name[p])
    BY <1>1, <1>3, <1>4, <1>5 DEF Usable, Files
  <1>7. ASSUME NEW a \in Range(Artifacts) \ Directories PROVE Files(p)[a].synced
    <2>1. Files(p)[a].synced = (a \notin Directories)
      BY <1>1 DEF Finished
    <2>. QED  BY <2>1
  <1>8. ASSUME NEW q \in Procs \ {p}, name[q] = name[p] PROVE report[q] = "cleanup-completed"
    <2>1. ~Crashed
      BY DEF Crashed
    <2>. QED  BY <1>2, <1>8, <2>1 DEF IInv, PlaceInv
  <1>. QED  BY <1>6, <1>7, <1>8

\* `prepare` reports success only of a workspace that `apply` takes, all of which
\* is on the disk, and that no other invocation shares or has removed, whatever
\* names the invocations happened to choose (create_workspace).
THEOREM PreparedStays == Spec => []PreparedIsUsable
  <1>. QED  BY PreparedByInvariant, Invariance, PTL

-------------------------------------------------------------------------------
(***************************************************************************)
(* What `apply` takes a workspace for.                                     *)
(***************************************************************************)
\* The version a workspace is of is the source as its maker read it.
HoldsAs(n) == IF Usable(n) THEN taken[disk[n].by].bytes ELSE "none"

LEMMA HoldsItsSource == IInv => \A n \in Names : HoldsOf(n) = HoldsAs(n)
  <1>. SUFFICES ASSUME IInv, NEW n \in Names PROVE HoldsOf(n) = HoldsAs(n)
    OBVIOUS
  <1>1. CASE ~Usable(n)
    BY <1>1 DEF HoldsOf, HoldsAs
  <1>2. CASE Usable(n)
    <2>. DEFINE t == taken[disk[n].by].bytes
                whole(b) == \A a \in {"manifest.json", "resolved"} \cup Terms :
                              disk[n].files[a].bytes = Contents(a, b, b)
    <2>1. t \in Conflicts /\ whole(t)
      BY <1>2, UsableVersion
    <2>2. ASSUME NEW b \in Conflicts, whole(b) PROVE b = t
      <3>1. Contents("resolved", b, b) = Contents("resolved", t, t)
        BY <2>1, <2>2
      <3>. QED  BY <3>1, Legible
    <2>3. (CHOOSE b \in Conflicts : whole(b)) = t
      BY <2>1, <2>2
    <2>4. HoldsOf(n) = IF \E b \in Conflicts : whole(b)
                       THEN CHOOSE b \in Conflicts : whole(b) ELSE "mixed"
      BY <1>2 DEF HoldsOf
    <2>. QED  BY <1>2, <2>1, <2>3, <2>4 DEF HoldsAs
  <1>. QED  BY <1>1, <1>2

LEMMA HoldsItsSourceNext == IInv' => (\A n \in Names : HoldsOf(n) = HoldsAs(n))'
  <1>1. IInv => \A n \in Names : HoldsOf(n) = HoldsAs(n)
    BY HoldsItsSource
  <1>. QED  BY <1>1, PTL

\* A workspace is usable from the moment the manifest is written.
LEMMA UsableOnceWritten ==
  IInv => \A p \in Procs :
            /\ pc[p] \in Writing =>
                 (Usable(name[p]) <=> pc[p] = "sync" /\ Artifact(p) = "manifest.json")
            /\ report[p] = "prepared" => Usable(name[p])
  <1>. SUFFICES ASSUME IInv, NEW p \in Procs
                PROVE  /\ pc[p] \in Writing =>
                            (Usable(name[p]) <=> pc[p] = "sync" /\ Artifact(p) = "manifest.json")
                       /\ report[p] = "prepared" => Usable(name[p])
    OBVIOUS
  <1>0. TypeOK /\ WrittenInv(p)
    BY DEF IInv
  <1>1. ASSUME NEW a, a \in Terms \cup {"resolved"} PROVE a # "manifest.json" /\ a \in Range(Artifacts)
    BY <1>1, AllArtifacts DEF Terms
  <1>2. ASSUME pc[p] \in Writing, Usable(name[p])
        PROVE  pc[p] = "sync" /\ Artifact(p) = "manifest.json"
    <2>1. "manifest.json" \in DOMAIN Files(p)
      BY <1>2 DEF Usable, Files
    <2>2. Artifact(p) = "manifest.json"
      BY <1>0, <1>2, <2>1, WritingFiles, Order
    <2>3. Files(p)["manifest.json"] # Nothing
      <3>1. PICK read \in Conflicts : \E render \in Conflicts :
              \A a \in {"manifest.json"} \cup Terms :
                Files(p)[a].bytes = Contents(a, read, render)
        BY <1>2 DEF Usable, Files
      <3>2. PICK render \in Conflicts :
              Files(p)["manifest.json"].bytes = Contents("manifest.json", read, render)
        BY <3>1
      <3>. QED  BY <3>2, Legible
    <2>4. pc[p] \notin {"restrict-artifact", "content"}
      BY <1>0, <2>2, <2>3 DEF WrittenInv
    <2>5. pc[p] \notin {"restrict", "open"}
      BY <1>0, <2>1, <2>2, Order DEF WrittenInv
    <2>. QED  BY <1>2, <2>2, <2>4, <2>5 DEF Writing
  <1>3. ASSUME pc[p] = "sync", Artifact(p) = "manifest.json" PROVE Usable(name[p])
    <2>1. DOMAIN Files(p) = Range(Artifacts)
      BY <1>0, <1>3, Order DEF WrittenInv
    <2>2. \A a \in Range(Artifacts) \ {"manifest.json"} : Files(p)[a] = Finished(p, a)
      BY <1>0, <1>3, Order DEF WrittenInv, Writing
    <2>3. Files(p)["manifest.json"].bytes
            = Contents("manifest.json", taken[p].bytes, rendered[p])
      BY <1>3, AtSync
    <2>4. ASSUME NEW a \in {"manifest.json"} \cup Terms
          PROVE  Files(p)[a].bytes = Contents(a, taken[p].bytes, rendered[p])
      <3>1. CASE a = "manifest.json"
        BY <2>3, <3>1
      <3>2. CASE a \in Terms
        <4>1. Files(p)[a] = Finished(p, a)
          BY <1>1, <2>2, <3>2
        <4>. QED  BY <4>1 DEF Finished
      <3>. QED  BY <3>1, <3>2
    <2>5. taken[p].bytes \in Conflicts /\ rendered[p] = taken[p].bytes
      <3>1. name[p] # "none"
        BY <1>3 DEF IInv, PlaceInv, Holding, Writing
      <3>. QED  BY <3>1 DEF IInv, SourceInv
    <2>6. {"manifest.json", "resolved"} \cup Terms \subseteq DOMAIN Files(p)
      BY <2>1, AllArtifacts DEF Terms
    <2>. QED  BY <2>4, <2>5, <2>6 DEF Usable, Files
  <1>4. ASSUME report[p] = "prepared" PROVE Usable(name[p])
    <2>1. PreparedIsUsable
      BY PreparedByInvariant
    <2>. QED  BY <1>4, <2>1 DEF PreparedIsUsable
  <1>. QED  BY <1>2, <1>3, <1>4

LEMMA UsableOnceWrittenNext ==
  IInv' => (\A p \in Procs :
              /\ pc[p] \in Writing =>
                   (Usable(name[p]) <=> pc[p] = "sync" /\ Artifact(p) = "manifest.json")
              /\ report[p] = "prepared" => Usable(name[p]))'
  <1>1. IInv => \A p \in Procs :
            /\ pc[p] \in Writing =>
                 (Usable(name[p]) <=> pc[p] = "sync" /\ Artifact(p) = "manifest.json")
            /\ report[p] = "prepared" => Usable(name[p])
    BY UsableOnceWritten
  <1>. QED  BY <1>1, PTL

LEMMA SameUsable ==
  ASSUME NEW n \in Names, disk'[n] = disk[n]
  PROVE  Usable(n)' = Usable(n)
BY DEF Usable

\* What a step of p leaves alone keeps the version it is of.
LEMMA SameHolds ==
  ASSUME IInv, IInv', NEW p \in Procs, Effect(p), NEW n \in Names, disk'[n] = disk[n]
  PROVE  HoldsOf(n)' = HoldsOf(n)
  <1>1. HoldsOf(n) = HoldsAs(n)
    BY HoldsItsSource
  <1>3. HoldsOf(n)' = HoldsAs(n)'
    BY HoldsItsSourceNext
  <1>4. Usable(n)' = Usable(n)
    BY SameUsable
  <1>5. ASSUME Usable(n) PROVE taken'[disk[n].by] = taken[disk[n].by]
    <2>1. disk[n].by \in Procs /\ name[disk[n].by] = n
      BY <1>5, UsableVersion DEF IInv, PlaceInv
    <2>2. pc[p] \in Early => name[p] = "none"
      BY DEF IInv, PlaceInv
    <2>. QED  BY <2>1, <2>2, Strangers DEF Effect
  <1>6. HoldsAs(n)' = HoldsAs(n)
    BY <1>4, <1>5 DEF HoldsAs
  <1>. QED  BY <1>1, <1>3, <1>6

\* Before its manifest is written, a workspace is of no version; from then on until
\* the report it is of the source that was read.
LEMMA HoldsWhileWriting ==
  ASSUME IInv, NEW p \in Procs, pc[p] \in Writing
  PROVE  HoldsOf(name[p]) = IF pc[p] = "sync" /\ Artifact(p) = "manifest.json"
                            THEN taken[p].bytes ELSE "none"
  <1>1. name[p] \in Names /\ disk[name[p]].by = p
    BY HoldsItsName DEF Holding
  <1>. QED  BY <1>1, HoldsItsSource, UsableOnceWritten DEF HoldsAs

LEMMA HoldsWhileWritingNext ==
  ASSUME IInv', NEW p \in Procs, pc'[p] \in Writing \/ report'[p] = "prepared",
         NEW n \in Names, name'[p] = n, disk'[n].by = p
  PROVE  HoldsOf(n)' = IF \/ pc'[p] = "sync" /\ Artifact(p)' = "manifest.json"
                          \/ report'[p] = "prepared"
                       THEN taken'[p].bytes ELSE "none"
  <1>1. HoldsOf(n)' = HoldsAs(n)'
    BY HoldsItsSourceNext
  <1>2. /\ pc'[p] \in Writing =>
             (Usable(name[p])' <=> pc'[p] = "sync" /\ Artifact(p)' = "manifest.json")
        /\ report'[p] = "prepared" => Usable(name[p])'
    BY UsableOnceWrittenNext
  <1>3. Usable(name[p])' <=> Usable(n)'
    BY DEF Usable
  <1>4. report'[p] = "prepared" => pc'[p] \notin Writing
    BY DEF IInv, PlaceInv, Writing
  <1>. QED  BY <1>1, <1>2, <1>3, <1>4 DEF HoldsAs

-------------------------------------------------------------------------------
(***************************************************************************)
(* Phases, reports and workspaces.                                         *)
(***************************************************************************)
LEMMA PhaseValues ==
  ASSUME NEW p
  PROVE  /\ PhaseOf(p) = "idle" <=> pc[p] = "read"
         /\ PhaseOf(p) = "working" <=> pc[p] \in {"render", "recheck", "create"}
         /\ PhaseOf(p) = "published" <=> pc[p] = "sync" /\ Artifact(p) = "manifest.json"
         /\ PhaseOf(p) = "discarding" <=> pc[p] = "cleanup"
         /\ PhaseOf(p) = "done" <=> pc[p] = "done"
         /\ PhaseOf(p) = "writing" <=>
              /\ pc[p] \notin {"read", "render", "recheck", "create", "cleanup", "done"}
              /\ ~(pc[p] = "sync" /\ Artifact(p) = "manifest.json")
BY DEF PhaseOf

LEMMA PhaseValuesNext ==
  ASSUME NEW p
  PROVE  /\ PhaseOf(p)' = "working" <=> pc'[p] \in {"render", "recheck", "create"}
         /\ PhaseOf(p)' = "published" <=> pc'[p] = "sync" /\ Artifact(p)' = "manifest.json"
         /\ PhaseOf(p)' = "discarding" <=> pc'[p] = "cleanup"
         /\ PhaseOf(p)' = "done" <=> pc'[p] = "done"
         /\ PhaseOf(p)' = "writing" <=>
              /\ pc'[p] \notin {"read", "render", "recheck", "create", "cleanup", "done"}
              /\ ~(pc'[p] = "sync" /\ Artifact(p)' = "manifest.json")
BY DEF PhaseOf

LEMMA SamePhase ==
  ASSUME NEW p, pc'[p] = pc[p], next'[p] = next[p]
  PROVE  PhaseOf(p)' = PhaseOf(p)
BY DEF PhaseOf, Artifact

LEMMA Enters ==
  ASSUME NEW p \in Procs, Effect(p), NEW s, NEW t, PhaseOf(p) = s, PhaseOf(p)' = t
  PROVE  Atomic!Enter(p, s, t)
  <1>1. \A q \in Procs \ {p} : PhaseOf(q)' = PhaseOf(q)
    BY SamePhase DEF Effect
  <1>. QED  BY <1>1 DEF Atomic!Enter

LEMMA Finishes ==
  ASSUME IInv, NEW p \in Procs, Effect(p), NEW s, NEW what, PhaseOf(p) = s, Finish(p, what)
  PROVE  Atomic!Finish(p, s, what)
  <1>1. pc'[p] = "done" /\ report' = [report EXCEPT ![p] = what]
    BY DEF Finish, Goto, IInv, TypeOK
  <1>2. PhaseOf(p)' = "done"
    BY <1>1, PhaseValuesNext
  <1>. QED  BY <1>1, <1>2, Enters DEF Atomic!Finish

LEMMA SameBases ==
  ASSUME \A q \in Procs : taken'[q].bytes = taken[q].bytes
  PROVE  [q \in Procs |-> taken[q].bytes]' = [q \in Procs |-> taken[q].bytes]
OBVIOUS

LEMMA SameWorkspaces ==
  ASSUME \A n \in Names : disk'[n].by = disk[n].by /\ HoldsOf(n)' = HoldsOf(n)
  PROVE  [n \in Names |-> [by |-> disk[n].by, holds |-> HoldsOf(n)]]'
           = [n \in Names |-> [by |-> disk[n].by, holds |-> HoldsOf(n)]]
OBVIOUS

\* A step that only advances within a phase.
LEMMA Stutters ==
  ASSUME NEW p \in Procs, Effect(p), PhaseOf(p)' = PhaseOf(p),
         report' = report, name' = name, taken' = taken,
         \A n \in Names : disk'[n].by = disk[n].by /\ HoldsOf(n)' = HoldsOf(n)
  PROVE  UNCHANGED Atomic!vars
  <1>1. \A q \in Procs : PhaseOf(q)' = PhaseOf(q)
    BY SamePhase DEF Effect
  <1>2. source' = source
    BY DEF Effect
  <1>. QED  BY <1>1, <1>2, SameBases, SameWorkspaces DEF Atomic!vars

LEMMA SameDisk ==
  ASSUME IInv, IInv', NEW p \in Procs, Effect(p), disk' = disk
  PROVE  \A n \in Names : disk'[n].by = disk[n].by /\ HoldsOf(n)' = HoldsOf(n)
BY SameHolds

-------------------------------------------------------------------------------
(***************************************************************************)
(* The steps of an invocation.                                             *)
(***************************************************************************)
LEMMA ReadSourceRefines ==
  ASSUME IInv, IInv', NEW p \in Procs, ReadSource(p)
  PROVE  Atomic!Read(p)
  <1>1. Effect(p) /\ TypeOK
    BY StepEffect DEF Step, IInv
  <1>2. /\ pc[p] = "read" /\ pc'[p] = "render" /\ taken' = [taken EXCEPT ![p] = source]
        /\ UNCHANGED <<source, disk, name, report>>
    BY <1>1, Scalars DEF ReadSource, Goto
  <1>3. Atomic!Enter(p, "idle", "working")
    BY <1>1, <1>2, PhaseValues, PhaseValuesNext, Enters
  <1>4. [q \in Procs |-> taken[q].bytes]'
          = [[q \in Procs |-> taken[q].bytes] EXCEPT ![p] = source.bytes]
    BY <1>1, <1>2, Scalars
  <1>5. \A n \in Names : disk'[n].by = disk[n].by /\ HoldsOf(n)' = HoldsOf(n)
    BY <1>1, <1>2, SameDisk
  <1>. QED  BY <1>2, <1>3, <1>4, <1>5, SameWorkspaces DEF Atomic!Read

LEMMA FailRefines ==
  ASSUME IInv, IInv', NEW p \in Procs, Effect(p), pc[p] \in Early, Finish(p, "failed"),
         UNCHANGED <<source, taken, name, disk>>
  PROVE  Atomic!Fail(p)
  <1>1. PhaseOf(p) \in {"idle", "working"}
    BY PhaseValues DEF Early
  <1>2. \A n \in Names : disk'[n].by = disk[n].by /\ HoldsOf(n)' = HoldsOf(n)
    BY SameDisk
  <1>3. Atomic!Finish(p, PhaseOf(p), "failed")
    BY Finishes
  <1>. QED  BY <1>1, <1>2, <1>3, SameWorkspaces DEF Atomic!Fail

LEMMA EarlyRefines ==
  ASSUME IInv, IInv', NEW p \in Procs,
         Render(p) \/ ReadFails(p) \/ Recheck(p) \/ NameTaken(p) \/ CreateFails(p)
  PROVE  Atomic!Fail(p) \/ UNCHANGED Atomic!vars
  <1>1. Effect(p) /\ TypeOK
    BY StepEffect DEF Step, IInv
  <1>2. /\ pc[p] \in Early /\ UNCHANGED <<source, taken, name, disk>>
        /\ \/ Finish(p, "failed")
           \/ /\ pc[p] \in {"render", "recheck", "create"} /\ report' = report
              /\ pc'[p] \in {"render", "recheck", "create"}
    <2>1. CASE Render(p) \/ ReadFails(p)
      BY <1>1, <2>1, Scalars DEF Render, ReadFails, Goto, Early
    <2>2. CASE Recheck(p) \/ CreateFails(p)
      BY <1>1, <2>2, Scalars DEF Recheck, CreateFails, Goto, Early
    <2>3. CASE NameTaken(p)
      BY <1>1, <2>3, Scalars DEF NameTaken, Early
    <2>. QED  BY <2>1, <2>2, <2>3
  <1>3. CASE Finish(p, "failed")
    BY <1>1, <1>2, <1>3, FailRefines
  <1>4. CASE /\ pc[p] \in {"render", "recheck", "create"} /\ report' = report
             /\ pc'[p] \in {"render", "recheck", "create"}
    <2>1. PhaseOf(p)' = PhaseOf(p)
      BY <1>4, PhaseValues, PhaseValuesNext
    <2>. QED  BY <1>1, <1>2, <1>4, <2>1, SameDisk, Stutters
  <1>. QED  BY <1>2, <1>3, <1>4

LEMMA CreateRefines ==
  ASSUME IInv, IInv', NEW p \in Procs, CreateWorkspace(p)
  PROVE  \E n \in Names : Atomic!Create(p, n)
  <1>1. Effect(p) /\ TypeOK
    BY StepEffect DEF Step, IInv
  <1>2. PICK n \in Names : /\ disk[n].by = Nobody
                           /\ disk' = [disk EXCEPT ![n].by = p]
                           /\ name' = [name EXCEPT ![p] = n]
    BY DEF CreateWorkspace, Free
  <1>3. /\ pc[p] = "create" /\ pc'[p] = "restrict"
        /\ UNCHANGED <<source, taken, report>>
    BY <1>1, Scalars DEF CreateWorkspace, Goto
  <1>4. Atomic!Enter(p, "working", "writing")
    BY <1>1, <1>3, PhaseValues, PhaseValuesNext, Enters
  <1>5. taken[p].bytes \in Conflicts
    BY <1>3 DEF IInv, SourceInv
  <1>6. disk'[n].by = p
    <2>1. disk'[n] = [disk[n] EXCEPT !.by = p]
      BY <1>1, <1>2, DiskType
    <2>2. disk[n] = [by |-> disk[n].by, files |-> disk[n].files]
      BY <1>1, DiskType
    <2>. QED  BY <2>1, <2>2
  <1>7. HoldsOf(n) = "none"
    <2>1. ~Usable(n)
      BY <1>2, UsableVersion, Strangers
    <2>. QED  BY <2>1 DEF HoldsOf
  <1>8. HoldsOf(n)' = "none"
    <2>1. name'[p] = n
      BY <1>1, <1>2, Scalars
    <2>2. report'[p] # "prepared"
      BY <1>3 DEF IInv, PlaceInv
    <2>. QED  BY <1>3, <1>6, <2>1, <2>2, HoldsWhileWritingNext DEF Writing
  <1>9. \A m \in Names \ {n} : disk'[m] = disk[m] /\ HoldsOf(m)' = HoldsOf(m)
    BY <1>1, <1>2, DiskType, SameHolds
  <1>. DEFINE W == [m \in Names |-> [by |-> disk[m].by, holds |-> HoldsOf(m)]]
  <1>10. W[n] = Atomic!Free
    BY <1>2, <1>7 DEF Atomic!Free, Atomic!None, Atomic!Nobody, Nobody
  <1>11. W' = [W EXCEPT ![n].by = p]
    <2>1. W' = [W EXCEPT ![n] = [by |-> p, holds |-> "none"]]
      BY <1>6, <1>8, <1>9
    <2>2. [W[n] EXCEPT !.by = p] = [by |-> p, holds |-> "none"]
      BY <1>7
    <2>. QED  BY <2>1, <2>2
  <1>. HIDE DEF W
  <1>12. Atomic!Create(p, n)
    BY <1>2, <1>3, <1>4, <1>5, <1>10, <1>11, SameBases DEF Atomic!Create, W
  <1>. QED  BY <1>12

\* The steps between creation and success touch one workspace.
OwnOnly(p) ==
  /\ UNCHANGED <<source, taken, name>>
  /\ \A n \in Names \ {name[p]} : disk'[n] = disk[n]
  /\ disk'[name[p]].by = p

LEMMA OthersHold ==
  ASSUME IInv, IInv', NEW p \in Procs, Effect(p), OwnOnly(p), pc[p] \in Holding
  PROVE  /\ name[p] \in Names /\ disk[name[p]].by = p
         /\ \A n \in Names : disk'[n].by = disk[n].by
         /\ \A n \in Names \ {name[p]} : HoldsOf(n)' = HoldsOf(n)
  <1>1. name[p] \in Names /\ disk[name[p]].by = p
    BY HoldsItsName
  <1>. QED  BY <1>1, SameHolds DEF OwnOnly

LEMMA WritingRefines ==
  ASSUME IInv, IInv', NEW p \in Procs, Effect(p), OwnOnly(p), report' = report,
         pc[p] \in Writing, pc'[p] \in Writing,
         ~(pc[p] = "sync" /\ Artifact(p) = "manifest.json")
  PROVE  Atomic!Publish(p) \/ UNCHANGED Atomic!vars
  <1>0. PICK n \in Names : n = name[p]
    BY HoldsItsName DEF Holding
  <1>1. /\ disk[n].by = p
        /\ \A m \in Names : disk'[m].by = disk[m].by
        /\ \A m \in Names \ {n} : HoldsOf(m)' = HoldsOf(m)
    BY <1>0, OthersHold DEF Holding
  <1>2. HoldsOf(n) = "none" /\ PhaseOf(p) = "writing"
    BY <1>0, HoldsWhileWriting, PhaseValues DEF Writing
  <1>3. report'[p] # "prepared"
    BY DEF IInv, PlaceInv, Writing
  <1>4. name'[p] = n /\ disk'[n].by = p
    BY <1>0 DEF OwnOnly
  <1>5. CASE pc'[p] = "sync" /\ Artifact(p)' = "manifest.json"
    <2>1. HoldsOf(n)' = taken[p].bytes
      BY <1>1, <1>4, <1>5, HoldsWhileWritingNext DEF OwnOnly
    <2>2. PhaseOf(p)' = "published"
      BY <1>5, PhaseValuesNext
    <2>3. Atomic!Enter(p, "writing", "published")
      BY <1>2, <2>2, Enters
    <2>. DEFINE W == [m \in Names |-> [by |-> disk[m].by, holds |-> HoldsOf(m)]]
    <2>4. W' = [W EXCEPT ![n].holds = taken[p].bytes]
      <3>1. W' = [W EXCEPT ![n] = [by |-> p, holds |-> taken[p].bytes]]
        BY <1>1, <1>4, <2>1
      <3>2. [W[n] EXCEPT !.holds = taken[p].bytes] = [by |-> p, holds |-> taken[p].bytes]
        BY <1>1
      <3>. QED  BY <3>1, <3>2
    <2>. HIDE DEF W
    <2>5. [q \in Procs |-> taken[q].bytes][p] = taken[p].bytes
      OBVIOUS
    <2>. QED  BY <1>0, <2>3, <2>4, <2>5, SameBases DEF Atomic!Publish, OwnOnly, W
  <1>6. CASE ~(pc'[p] = "sync" /\ Artifact(p)' = "manifest.json")
    <2>1. HoldsOf(n)' = "none"
      BY <1>1, <1>3, <1>4, <1>6, HoldsWhileWritingNext
    <2>2. PhaseOf(p)' = PhaseOf(p)
      BY <1>2, <1>6, PhaseValuesNext DEF Writing
    <2>3. \A m \in Names : disk'[m].by = disk[m].by /\ HoldsOf(m)' = HoldsOf(m)
      BY <1>1, <1>2, <2>1
    <2>. QED  BY <2>2, <2>3, Stutters DEF OwnOnly
  <1>. QED  BY <1>5, <1>6

LEMMA PutIsOwnOnly ==
  ASSUME IInv, NEW p \in Procs, pc[p] \in Holding, NEW file,
         Put(p, file), UNCHANGED <<source, taken, name>>
  PROVE  OwnOnly(p)
BY HoldsItsName, PutEffect DEF OwnOnly, IInv

LEMMA WriteRefines ==
  ASSUME IInv, IInv', NEW p \in Procs,
         RestrictWorkspace(p) \/ OpenArtifact(p) \/ RestrictArtifact(p) \/ WriteArtifact(p)
  PROVE  Atomic!Publish(p) \/ UNCHANGED Atomic!vars
  <1>1. Effect(p) /\ TypeOK
    BY StepEffect DEF Step, IInv
  <1>2. CASE RestrictWorkspace(p)
    <2>1. pc[p] = "restrict" /\ pc'[p] = "open" /\ UNCHANGED <<source, taken, name, disk, report>>
      BY <1>1, <1>2, Scalars DEF RestrictWorkspace, Goto
    <2>2. OwnOnly(p)
      BY <2>1, HoldsItsName DEF OwnOnly, Holding, Writing
    <2>. QED  BY <1>1, <2>1, <2>2, WritingRefines DEF Writing
  <1>3. CASE OpenArtifact(p)
    <2>1. /\ pc[p] = "open" /\ pc'[p] = "restrict-artifact" /\ Put(p, Nothing)
          /\ UNCHANGED <<source, taken, name, report>>
      BY <1>1, <1>3, Scalars DEF OpenArtifact, Goto
    <2>2. OwnOnly(p)
      BY <2>1, PutIsOwnOnly DEF Holding, Writing
    <2>. QED  BY <1>1, <2>1, <2>2, WritingRefines DEF Writing
  <1>4. CASE RestrictArtifact(p)
    <2>1. pc[p] = "restrict-artifact" /\ UNCHANGED <<source, taken, name, disk>>
      BY <1>4 DEF RestrictArtifact
    <2>2. pc'[p] \in {"open", "content"} /\ report' = report
      <3>1. CASE Artifact(p) \in Directories
        <4>1. Advance(p) /\ Artifact(p) # "manifest.json"
          BY <1>4, <3>1 DEF RestrictArtifact, Directories
        <4>2. next[p] # Len(Artifacts)
          BY <1>1, <4>1, Order, InOrder
        <4>. QED  BY <1>1, <4>1, <4>2, Scalars DEF Advance, Goto
      <3>2. CASE Artifact(p) \notin Directories
        BY <1>1, <1>4, <3>2, Scalars DEF RestrictArtifact, Goto
      <3>. QED  BY <3>1, <3>2
    <2>3. OwnOnly(p)
      BY <2>1, HoldsItsName DEF OwnOnly, Holding, Writing
    <2>. QED  BY <1>1, <2>1, <2>2, <2>3, WritingRefines DEF Writing
  <1>5. CASE WriteArtifact(p)
    <2>1. /\ pc[p] = "content" /\ pc'[p] = "sync"
          /\ Put(p, [bytes  |-> Contents(Artifact(p), taken[p].bytes, rendered[p]),
                     synced |-> FALSE])
          /\ UNCHANGED <<source, taken, name, report>>
      BY <1>1, <1>5, Scalars DEF WriteArtifact, Goto
    <2>2. OwnOnly(p)
      BY <2>1, PutIsOwnOnly DEF Holding, Writing
    <2>. QED  BY <1>1, <2>1, <2>2, WritingRefines DEF Writing
  <1>. QED  BY <1>2, <1>3, <1>4, <1>5

LEMMA SyncRefines ==
  ASSUME IInv, IInv', NEW p \in Procs, SyncArtifact(p)
  PROVE  Atomic!Confirm(p) \/ Atomic!Publish(p) \/ UNCHANGED Atomic!vars
  <1>1. Effect(p) /\ TypeOK
    BY StepEffect DEF Step, IInv
  <1>2. /\ pc[p] = "sync" /\ Advance(p) /\ UNCHANGED <<source, taken, name>>
        /\ Put(p, [Files(p)[Artifact(p)] EXCEPT !.synced = TRUE])
    BY DEF SyncArtifact
  <1>3. OwnOnly(p)
    BY <1>2, PutIsOwnOnly DEF Holding, Writing
  <1>4. CASE Artifact(p) # "manifest.json"
    <2>1. next[p] # Len(Artifacts)
      BY <1>1, <1>4, Order, InOrder
    <2>2. pc'[p] = "open" /\ report' = report
      BY <1>1, <1>2, <2>1, Scalars DEF Advance, Goto
    <2>. QED  BY <1>1, <1>2, <1>3, <1>4, <2>2, WritingRefines DEF Writing
  <1>5. CASE Artifact(p) = "manifest.json"
    <2>1. next[p] = Len(Artifacts)
      BY <1>1, <1>5, Order, InOrder
    <2>2. Finish(p, "prepared") /\ report'[p] = "prepared"
      BY <1>1, <1>2, <2>1, Scalars DEF Advance, Finish
    <2>0. PICK n \in Names : n = name[p]
      BY <1>2, HoldsItsName DEF Holding, Writing
    <2>3. /\ \A m \in Names : disk'[m].by = disk[m].by
          /\ \A m \in Names \ {n} : HoldsOf(m)' = HoldsOf(m)
      BY <1>1, <1>2, <1>3, <2>0, OthersHold DEF Holding, Writing
    <2>4. HoldsOf(n) = taken[p].bytes
      BY <1>2, <1>5, <2>0, HoldsWhileWriting DEF Writing
    <2>5. name'[p] = n /\ disk'[n].by = p
      BY <1>3, <2>0 DEF OwnOnly
    <2>6. HoldsOf(n)' = taken[p].bytes
      BY <1>2, <2>2, <2>3, <2>5, HoldsWhileWritingNext
    <2>7. Atomic!Finish(p, "published", "prepared")
      BY <1>1, <1>2, <1>5, <2>2, PhaseValues, Finishes
    <2>. QED  BY <1>2, <2>3, <2>4, <2>6, <2>7, SameBases, SameWorkspaces DEF Atomic!Confirm
  <1>. QED  BY <1>4, <1>5

\* Losing a file, or all but a part of one, mends no workspace: it is of the
\* version it was of, or of none.
LEMMA NeverMended ==
  ASSUME NEW n \in Names,
         DOMAIN disk'[n].files \subseteq DOMAIN disk[n].files,
         \A a \in DOMAIN disk'[n].files :
           disk'[n].files[a].bytes
             \in {disk[n].files[a].bytes, Nothing.bytes, Partial.bytes},
         Usable(n)'
  PROVE  Usable(n)
  <1>1. {"manifest.json", "resolved"} \cup Terms \subseteq DOMAIN disk'[n].files
    BY DEF Usable
  <1>2. PICK read \in Conflicts : \E render \in Conflicts :
          \A a \in {"manifest.json"} \cup Terms :
            disk'[n].files[a].bytes = Contents(a, read, render)
    BY DEF Usable
  <1>3. PICK render \in Conflicts :
          \A a \in {"manifest.json"} \cup Terms :
            disk'[n].files[a].bytes = Contents(a, read, render)
    BY <1>2
  <1>4. ASSUME NEW a \in {"manifest.json"} \cup Terms
        PROVE  disk[n].files[a].bytes = Contents(a, read, render)
    <2>1. Contents(a, read, render) \notin {Nothing.bytes, Partial.bytes}
      BY Legible
    <2>2. a \in DOMAIN disk'[n].files
      BY <1>1
    <2>. QED  BY <1>3, <2>1, <2>2
  <1>. QED  BY <1>1, <1>4 DEF Usable

LEMMA Loses ==
  ASSUME IInv, IInv', NEW n \in Names, taken' = taken, disk'[n].by = disk[n].by,
         DOMAIN disk'[n].files \subseteq DOMAIN disk[n].files,
         \A a \in DOMAIN disk'[n].files :
           disk'[n].files[a].bytes
             \in {disk[n].files[a].bytes, Nothing.bytes, Partial.bytes}
  PROVE  HoldsOf(n)' \in {HoldsOf(n), "none"}
  <1>1. HoldsOf(n) = HoldsAs(n)
    BY HoldsItsSource
  <1>2. HoldsOf(n)' = HoldsAs(n)'
    BY HoldsItsSourceNext
  <1>3. Usable(n)' => Usable(n)
    BY NeverMended
  <1>. QED  BY <1>1, <1>2, <1>3 DEF HoldsAs

LEMMA WriteFailsRefines ==
  ASSUME IInv, IInv', NEW p \in Procs, RestrictFails(p) \/ WriteFails(p)
  PROVE  Atomic!Discard(p)
  <1>1. Effect(p) /\ TypeOK
    BY StepEffect DEF Step, IInv
  <1>2. /\ pc[p] \in Writing /\ pc'[p] = "cleanup"
        /\ UNCHANGED <<source, taken, name, next, report>>
        /\ disk' = disk \/ (pc[p] = "content" /\ Put(p, Partial))
    <2>1. CASE RestrictFails(p)
      <3>1. /\ pc[p] \in Writing /\ Goto(p, "cleanup")
            /\ UNCHANGED <<source, taken, name, next, report>>
        BY <2>1 DEF RestrictFails, Writing
      <3>2. disk' = disk
        BY <2>1 DEF RestrictFails
      <3>. QED  BY <1>1, <3>1, <3>2, Scalars DEF Goto
    <2>2. CASE WriteFails(p)
      <3>1. /\ pc[p] \in Writing
            /\ UNCHANGED <<source, taken, name, next, report>> /\ Goto(p, "cleanup")
        BY <2>2 DEF WriteFails, Writing
      <3>2. disk' = disk \/ (pc[p] = "content" /\ Put(p, Partial))
        <4>1. CASE pc[p] = "content"
          BY <2>2, <4>1 DEF WriteFails
        <4>2. CASE pc[p] # "content"
          BY <2>2, <4>2 DEF WriteFails
        <4>. QED  BY <4>1, <4>2
      <3>. QED  BY <1>1, <3>1, <3>2, Scalars DEF Goto
    <2>. QED  BY <2>1, <2>2
  <1>3. \A n \in Names : disk'[n].by = disk[n].by /\ HoldsOf(n)' = HoldsOf(n)
    <2>1. CASE disk' = disk
      BY <1>1, <2>1, SameDisk
    <2>2. CASE pc[p] = "content" /\ Put(p, Partial)
      <3>0. PICK n \in Names : n = name[p]
        BY <1>2, HoldsItsName DEF Holding
      <3>1. OwnOnly(p)
        BY <1>2, <2>2, PutIsOwnOnly DEF Holding
      <3>2. /\ \A m \in Names : disk'[m].by = disk[m].by
            /\ \A m \in Names \ {n} : HoldsOf(m)' = HoldsOf(m)
        BY <1>1, <1>2, <3>0, <3>1, OthersHold DEF Holding
      <3>3. HoldsOf(n) = "none"
        BY <1>2, <2>2, <3>0, HoldsWhileWriting
      <3>4. Artifact(p) \in DOMAIN Files(p)
        BY <2>2 DEF IInv, WrittenInv
      <3>5. /\ DOMAIN disk'[n].files \subseteq DOMAIN disk[n].files
            /\ \A a \in DOMAIN disk'[n].files :
                 disk'[n].files[a] \in {disk[n].files[a], Partial}
        <4>1. /\ DOMAIN disk'[n].files = DOMAIN disk[n].files \cup {Artifact(p)}
              /\ disk'[n].files[Artifact(p)] = Partial
              /\ \A a \in DOMAIN disk[n].files \ {Artifact(p)} :
                   disk'[n].files[a] = disk[n].files[a]
          BY <1>1, <2>2, <3>0, PutEffect DEF Files
        <4>2. Artifact(p) \in DOMAIN disk[n].files
          BY <3>0, <3>4 DEF Files
        <4>. QED  BY <4>1, <4>2
      <3>6. HoldsOf(n)' \in {HoldsOf(n), "none"}
        BY <1>2, <3>2, <3>5, Loses
      <3>. QED  BY <3>2, <3>3, <3>6
    <2>. QED  BY <1>2, <2>1, <2>2
  <1>4. PhaseOf(p) \in {"writing", "published"}
    BY <1>2, PhaseValues DEF Writing
  <1>5. Atomic!Enter(p, PhaseOf(p), "discarding")
    BY <1>1, <1>2, PhaseValuesNext, Enters
  <1>. QED  BY <1>2, <1>3, <1>4, <1>5, SameBases, SameWorkspaces DEF Atomic!Discard

LEMMA RemoveArtifactRefines ==
  ASSUME IInv, IInv', NEW p \in Procs, RemoveArtifact(p)
  PROVE  Atomic!Spoil(p) \/ UNCHANGED Atomic!vars
  <1>1. Effect(p) /\ TypeOK
    BY StepEffect DEF Step, IInv
  <1>2. pc[p] = "cleanup" /\ UNCHANGED <<source, pc, taken, name, next, report>>
    BY DEF RemoveArtifact
  <1>3. PICK n \in Names : n = name[p]
    BY <1>2, HoldsItsName DEF Holding
  <1>4. /\ \A m \in Names \ {n} : disk'[m] = disk[m]
        /\ disk'[n] = [by |-> disk[n].by, files |-> disk'[n].files]
        /\ \E a \in DOMAIN Files(p) :
             disk'[n].files = [b \in DOMAIN Files(p) \ {a} |-> Files(p)[b]]
    BY <1>1, <1>3, RemoveEffect
  <1>5. disk'[n].by = disk[n].by
    BY <1>4
  <1>6. /\ DOMAIN disk'[n].files \subseteq DOMAIN disk[n].files
        /\ \A a \in DOMAIN disk'[n].files : disk'[n].files[a] = disk[n].files[a]
    BY <1>3, <1>4 DEF Files
  <1>7. HoldsOf(n)' \in {HoldsOf(n), "none"}
    BY <1>2, <1>5, <1>6, Loses
  <1>8. \A m \in Names \ {n} : HoldsOf(m)' = HoldsOf(m)
    BY <1>1, <1>4, SameHolds
  <1>9. \A q \in Procs : PhaseOf(q)' = PhaseOf(q)
    BY <1>2, SamePhase
  <1>10. CASE HoldsOf(n)' = HoldsOf(n)
    <2>1. \A m \in Names : disk'[m].by = disk[m].by /\ HoldsOf(m)' = HoldsOf(m)
      BY <1>4, <1>5, <1>8, <1>10
    <2>. QED  BY <1>1, <1>2, <1>9, <2>1, Stutters
  <1>11. CASE HoldsOf(n)' = "none"
    <2>. DEFINE W == [m \in Names |-> [by |-> disk[m].by, holds |-> HoldsOf(m)]]
    <2>1. W' = [W EXCEPT ![n].holds = "none"]
      <3>1. W' = [W EXCEPT ![n] = [by |-> disk[n].by, holds |-> "none"]]
        BY <1>4, <1>5, <1>8, <1>11
      <3>2. [W[n] EXCEPT !.holds = "none"] = [by |-> disk[n].by, holds |-> "none"]
        OBVIOUS
      <3>. QED  BY <3>1, <3>2
    <2>. HIDE DEF W
    <2>2. [q \in Procs |-> PhaseOf(q)]' = [q \in Procs |-> PhaseOf(q)]
      BY <1>9
    <2>3. PhaseOf(p) = "discarding"
      BY <1>2, PhaseValues
    <2>. QED  BY <1>2, <1>3, <2>1, <2>2, <2>3, SameBases DEF Atomic!Spoil, Atomic!None, W
  <1>. QED  BY <1>7, <1>10, <1>11

LEMMA RemoveWorkspaceRefines ==
  ASSUME IInv, IInv', NEW p \in Procs, RemoveWorkspace(p)
  PROVE  Atomic!Remove(p)
  <1>1. Effect(p) /\ TypeOK
    BY StepEffect DEF Step, IInv
  <1>2. /\ pc[p] = "cleanup" /\ Finish(p, "cleanup-completed")
        /\ UNCHANGED <<source, taken, name>>
        /\ disk' = [disk EXCEPT ![name[p]] = Absent]
    BY DEF RemoveWorkspace
  <1>3. PICK n \in Names : n = name[p]
    BY <1>2, HoldsItsName DEF Holding
  <1>4. disk'[n] = Absent /\ \A m \in Names \ {n} : disk'[m] = disk[m]
    BY <1>1, <1>2, <1>3, DiskType
  <1>5. disk'[n].by = Nobody
    BY <1>4 DEF Absent
  <1>6. HoldsOf(n)' = "none"
    <2>1. HoldsOf(n)' = HoldsAs(n)'
      BY HoldsItsSourceNext
    <2>2. ~Usable(n)'
      <3>1. DOMAIN disk'[n].files = {}
        BY <1>4 DEF Absent
      <3>. QED  BY <3>1 DEF Usable
    <2>. QED  BY <2>1, <2>2 DEF HoldsAs
  <1>7. \A m \in Names \ {n} : HoldsOf(m)' = HoldsOf(m)
    BY <1>1, <1>4, SameHolds
  <1>. DEFINE W == [m \in Names |-> [by |-> disk[m].by, holds |-> HoldsOf(m)]]
  <1>8. W' = [W EXCEPT ![n] = [by |-> Nobody, holds |-> "none"]]
    BY <1>4, <1>5, <1>6, <1>7
  <1>. HIDE DEF W
  <1>9. Atomic!Finish(p, "discarding", "cleanup-completed")
    BY <1>1, <1>2, PhaseValues, Finishes
  <1>. QED
    BY <1>2, <1>3, <1>8, <1>9, SameBases
    DEF Atomic!Remove, Atomic!Free, Atomic!None, Atomic!Nobody, Nobody, W

\* The directory stays as it is, with or without an answer.
LEMMA EndRefines ==
  ASSUME IInv, IInv', NEW p \in Procs, CleanupFails(p) \/ Kill(p)
  PROVE  Atomic!Retain(p) \/ Atomic!Kill(p)
  <1>1. Effect(p) /\ TypeOK
    BY StepEffect DEF Step, IInv
  <1>2. UNCHANGED <<source, taken, name, disk>>
    BY DEF CleanupFails, Kill
  <1>3. \A n \in Names : disk'[n].by = disk[n].by /\ HoldsOf(n)' = HoldsOf(n)
    BY <1>1, <1>2, SameDisk
  <1>4. CASE CleanupFails(p)
    <2>1. pc[p] = "cleanup" /\ Finish(p, "retained-partial-workspace")
      BY <1>4 DEF CleanupFails
    <2>2. Atomic!Finish(p, "discarding", "retained-partial-workspace")
      BY <1>1, <2>1, PhaseValues, Finishes
    <2>. QED  BY <1>2, <1>3, <2>2, SameBases, SameWorkspaces DEF Atomic!Retain
  <1>5. CASE Kill(p)
    <2>1. pc[p] # "done" /\ Finish(p, "killed")
      BY <1>5 DEF Kill, Finish, Goto
    <2>2. PhaseOf(p) \in {"idle", "working", "writing", "published", "discarding"}
      BY <2>1, PhaseValues
    <2>3. Atomic!Finish(p, PhaseOf(p), "killed")
      BY <1>1, <2>1, Finishes
    <2>. QED  BY <1>2, <1>3, <2>2, <2>3, SameBases, SameWorkspaces DEF Atomic!Kill
  <1>. QED  BY <1>4, <1>5

-------------------------------------------------------------------------------
(***************************************************************************)
(* Other programs, and the loss of power.                                  *)
(***************************************************************************)
LEMMA EditSourceRefines ==
  ASSUME IInv, IInv', EditSource
  PROVE  Atomic!EditSource \/ UNCHANGED Atomic!vars
  <1>1. UNCHANGED <<pc, taken, name, next, report, disk>>
    BY DEF EditSource
  <1>2. ASSUME NEW n \in Names PROVE HoldsOf(n)' = HoldsOf(n)
    <2>1. HoldsOf(n) = HoldsAs(n)
      BY HoldsItsSource
    <2>2. HoldsOf(n)' = HoldsAs(n)'
      BY HoldsItsSourceNext
    <2>3. Usable(n)' = Usable(n)
      BY <1>1, SameUsable
    <2>. QED  BY <1>1, <2>1, <2>2, <2>3 DEF HoldsAs
  <1>3. \A q \in Procs : PhaseOf(q)' = PhaseOf(q)
    BY <1>1, SamePhase
  <1>4. UNCHANGED <<[n \in Names |-> [by |-> disk[n].by, holds |-> HoldsOf(n)]],
                    [q \in Procs |-> PhaseOf(q)], [q \in Procs |-> taken[q].bytes],
                    name, report>>
    BY <1>1, <1>2, <1>3, SameBases, SameWorkspaces
  <1>. QED  BY <1>4 DEF Atomic!EditSource, Atomic!vars

LEMMA PowerLossRefines ==
  ASSUME IInv, IInv', PowerLoss
  PROVE  Atomic!PowerLoss
  <1>0. TypeOK
    BY DEF IInv
  <1>1. /\ UNCHANGED <<source, taken, name>>
        /\ \A q \in Procs : pc'[q] = "done"
        /\ report' = [q \in Procs |-> "killed"]
    BY DEF PowerLoss
  <1>. DEFINE W == [m \in Names |-> [by |-> disk[m].by, holds |-> HoldsOf(m)]]
              L(m) == {W[m]} \cup IF W[m].by \in Procs
                                  THEN {[W[m] EXCEPT !.holds = "none"]} ELSE {}
  <1>2. ASSUME NEW n \in Names PROVE W'[n] \in L(n)
    <2>1. CASE disk'[n] = disk[n]
      <3>1. HoldsOf(n)' = HoldsOf(n)
        <4>1. HoldsOf(n) = HoldsAs(n)
          BY HoldsItsSource
        <4>2. HoldsOf(n)' = HoldsAs(n)'
          BY HoldsItsSourceNext
        <4>3. Usable(n)' = Usable(n)
          BY <2>1, SameUsable
        <4>. QED  BY <1>1, <2>1, <4>1, <4>2, <4>3 DEF HoldsAs
      <3>. QED  BY <2>1, <3>1
    <2>2. CASE disk[n].by \in Procs /\ disk'[n] \in Survivors(n)
      <3>1. disk'[n] = [by |-> disk[n].by, files |-> disk'[n].files]
        BY <1>0, <2>2, SurvivorsEffect
      <3>2. disk'[n].by = disk[n].by
        BY <3>1
      <3>3. /\ DOMAIN disk'[n].files \subseteq DOMAIN disk[n].files
            /\ \A a \in DOMAIN disk'[n].files :
                 disk'[n].files[a] \in {disk[n].files[a], Nothing, Partial}
        BY <1>0, <2>2, SurvivorsEffect
      <3>4. HoldsOf(n)' \in {HoldsOf(n), "none"}
        BY <1>1, <3>2, <3>3, Loses
      <3>5. [W[n] EXCEPT !.holds = "none"] = [by |-> disk[n].by, holds |-> "none"]
        OBVIOUS
      <3>6. W[n].by \in Procs
        BY <2>2
      <3>7. W'[n] = [by |-> disk[n].by, holds |-> HoldsOf(n)']
        BY <3>2
      <3>. QED  BY <3>4, <3>5, <3>6, <3>7
    <2>. QED  BY <1>0, <2>1, <2>2, PowerLossEffect
  <1>3. W' = [n \in Names |-> W'[n]]
    OBVIOUS
  <1>. HIDE DEF W
  <1>4. W' \in {w \in [Names -> UNION {L(n) : n \in Names}] : \A n \in Names : w[n] \in L(n)}
    BY <1>2, <1>3
  <1>5. [q \in Procs |-> PhaseOf(q)]' = [q \in Procs |-> "done"]
    BY <1>1, PhaseValuesNext
  <1>. QED
    BY <1>1, <1>4, <1>5, SameBases
    DEF Atomic!PowerLoss, Atomic!Crash, Atomic!Losses, Atomic!None, W

-------------------------------------------------------------------------------
(***************************************************************************)
(* The theorem.                                                            *)
(***************************************************************************)
LEMMA InitRefines == Init => Atomic!Init
  <1>. SUFFICES ASSUME Init PROVE Atomic!Init
    OBVIOUS
  <1>1. ASSUME NEW n \in Names
        PROVE  disk[n].by \notin Procs /\ HoldsOf(n) = "none"
    <2>1. disk[n].by \notin Procs
      BY Strangers DEF Init, Absent
    <2>2. IInv
      BY InitInv
    <2>3. ~Usable(n)
      BY <2>1, <2>2, UsableVersion
    <2>. QED  BY <2>1, <2>3 DEF HoldsOf
  <1>2. /\ \A p \in Procs : pc[p] = "read" /\ taken[p] = source
        /\ name = [p \in Procs |-> "none"] /\ report = [p \in Procs |-> "none"]
    BY DEF Init
  <1>3. \A p \in Procs : PhaseOf(p) = "idle"
    BY <1>2, PhaseValues
  <1>. QED  BY <1>1, <1>2, <1>3 DEF Atomic!Init, Atomic!None

LEMMA StepRefines ==
  ASSUME IInv, IInv', NEW p \in Procs, Step(p) \/ Kill(p)
  PROVE  Atomic!Invocation(p) \/ Atomic!Kill(p) \/ UNCHANGED Atomic!vars
BY ReadSourceRefines, EarlyRefines, CreateRefines, WriteRefines, SyncRefines,
   WriteFailsRefines, RemoveArtifactRefines, RemoveWorkspaceRefines, EndRefines
   DEF Step, Atomic!Invocation

LEMMA NextRefines ==
  ASSUME IInv, IInv', [Next]_vars
  PROVE  [Atomic!Next]_(Atomic!vars)
  <1>1. CASE UNCHANGED vars
    <2>1. UNCHANGED <<source, pc, taken, name, next, report, disk>>
      BY <1>1 DEF vars
    <2>2. \A q \in Procs : PhaseOf(q)' = PhaseOf(q)
      BY <2>1, SamePhase
    <2>3. ASSUME NEW n \in Names PROVE HoldsOf(n)' = HoldsOf(n)
      <3>1. HoldsOf(n) = HoldsAs(n)
        BY HoldsItsSource
      <3>2. HoldsOf(n)' = HoldsAs(n)'
        BY HoldsItsSourceNext
      <3>3. Usable(n)' = Usable(n)
        BY <2>1, SameUsable
      <3>. QED  BY <2>1, <3>1, <3>2, <3>3 DEF HoldsAs
    <2>. QED  BY <2>1, <2>2, <2>3, SameBases, SameWorkspaces DEF Atomic!vars
  <1>2. CASE Next
    BY <1>2, StepRefines, EditSourceRefines, PowerLossRefines DEF Next, Atomic!Next
  <1>. QED  BY <1>1, <1>2

\* The writing of a workspace (prepare.rs:145-240 and 765-1006) is a single step for
\* `apply`, as AtomicPrepare states it: whatever fails, is killed or is lost, what
\* it can use is complete and of one version of the source.
THEOREM Implementation == Spec => ImplementsAtomicPrepare
  <1>1. Init => Atomic!Init
    BY InitRefines
  <1>2. IInv /\ IInv' /\ [Next]_vars => [Atomic!Next]_(Atomic!vars)
    BY NextRefines
  <1>. QED
    BY <1>1, <1>2, Invariance, PTL DEF Spec, ImplementsAtomicPrepare, Atomic!Spec

===============================================================================
