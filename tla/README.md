# jcw: a TLA+ verification project

`jcw` (jj-conflict-workspace) takes a jj conflict out of a file into a private
workspace (`jcw prepare`), a person or an agent edits `resolved` there, and
`jcw apply` validates the edit and, with `--write`, installs it in place of the
source. This directory holds TLA+ models of that program, the TLC
configurations that check them, theorems that TLAPS proves about the installer,
the validator, the workspace writer, the jj process, the snapshot parser, the text
that leaves the program and the workflow as a whole, and this account of what they
say. Paths such as `apply.rs` stand for `src/src/apply.rs`.

## 1. The system

Two commands, two processes that never talk to each other: `prepare` leaves a
directory on disk and `apply` finds it, possibly much later, while editors, sync
tools, jj and other invocations of `jcw` touch the same files. Inside `prepare`
there is one more process (`jj`) and two threads. All that is hard lies between:
files that change after they were checked, system calls that fail half-way, a
process or a machine that stops, and a parser and a validator that must agree
with jj and with one another byte for byte.

| Component | Source | State it keeps | Operations | What must hold |
| --- | --- | --- | --- | --- |
| apply: validation passes and installer | `apply.rs` 271-1810, 1880-2210 | two snapshots of the four kinds of files, the handle and identity of the temporary file, `AtomicInstaller.state`, the cleanup status | `run`, `read_and_validate`, `compare_snapshots`, `install_validated_with_backend`, the rechecks, `replace`, cleanup | no lost update; the source is whole at every moment; the message tells the truth about the destination and about what is left; a success is durable |
| core: validation of a resolution | `core.rs` 710-1370 | none (functions of manifest, source and resolved) | canvas, `reject_resolved_markers`, `conflict_groups`, `map_resolved_groups`, seed check, plan | nothing outside the conflicts changes; no false refusal; no placeholder is installed; the preview is what is installed |
| core: snapshot parser and remapping | `core.rs` 42-703 | the parser's position: width, region, sections | `parse_snapshot`, `parse_region`, `build_term`, `scan_conflict_regions`, `remap_regions_to_source` | exactly the documents of the grammar are accepted, and each term holds the bytes jj was given |
| prepare: the workspace writer | `prepare.rs` 135-290, 743-1003 | what was read of the source, the workspace directory, the next artifact | `run_with_writer_impl`, `create_workspace`, `write_workspace`, `cleanup_failed_workspace` | a workspace that `apply` would take is complete and of one version of the source; a failure leaves nothing, or says what |
| prepare: the jj process | `prepare.rs` 447-583 | the child, two pipes, two threads, the kept part of stderr | `invoke_process`, `drain_pipe`, `drain_bounded_pipe`, the joins | no deadlock, nothing of the output is lost, a limit on stderr never ends jj |
| path_output | `path_output.rs` | none | `encode_bytes` | one line, reversible |
| prepare: bounded diagnostics | `prepare.rs` 507-536, 601-654 | the kept part of stderr | `drain_bounded_pipe`, `render_bounded_jj_stderr` | within the limit, and cut between two characters or escapes |
| the manifest codec | `prepare.rs` 1015-1165, `apply.rs` 507-712 | none | `manifest_json`, `decode_manifest` | what is written is what is read |
| domain | `domain.rs` | none | `validate` of manifest, plan, document | ranges are ordered and disjoint |
| unified diff | `core.rs` 1372-1536 | none | `render_unified_diff` | read as a patch, it makes what will be installed, and backwards the source |
| repository_root | `repository_root.rs` | none | `resolve_repository_source` | the nearest real `.jj` |
| cli, main, error | `cli.rs`, `main.rs`, `lib.rs`, `error.rs` | none | `parse_args`, exit codes | exit code 0 can be relied on |
| the workflow | all of it, and the user | the source and the workspaces | `prepare`, resolve, `apply --write`, again after a failure | a success stands; no edit is lost; persistence ends in a resolved file |

How they interact: `prepare` reads the source, runs jj through `invoke_process`,
gives its stdout to `parse_snapshot`, finds the parsed conflicts again in the
working copy with `remap_regions_to_source`, reads the source a second time, and
writes the workspace with the manifest last. `apply` reads manifest, source,
`resolved` and artifacts, calls `validate_apply`; with `--write` it does both a
second time, compares the two passes, and hands the second one to the installer,
which rechecks all of it three times on the way to its rename.

## 2. Modules

| Module | Models | Actions |
| --- | --- | --- |
| `ApplyInstall` | apply, one action per system call that reads, checks or changes a file | `Start` ... `Read`, `RefusePass`, validation of each pass, the rechecks, `CreateTemp` to `CleanupTemp`, their failures; `Edit`, `ReplaceParent`, `TouchTemp`, `Kill`, `PowerLoss` for everything else |
| `ApplyInstallProofs` | its theorems: safety of one invocation; then what needs a history (metadata, several invocations) and the refinement of `GuardedReplace` | - |
| `GuardedReplace` | what `apply --write` promises; `ApplyInstall` implements it | `Begin`, `BeginFinal`, `Refuse`, `Replace`, `Doubt`, `Sync`, `SyncFails`, `Confirm`; `Change`, `TouchTemp`, `Kill`, `PowerLoss` |
| `ApplyValidation` | `validate_apply` and what it calls, around a canvas that is edited | `Edit`, `Apply`, `Install` |
| `ApplyValidationProofs` | its theorems; before them, what they need of `UnifiedDiff`: the lines of a file and their numbers, and that a diff fits the file it describes and makes the other one of it | - |
| `UnifiedDiff` | `render_unified_diff` and a reader that takes its output as a patch, as operators; part of `ApplyValidation` | - |
| `SnapshotGrammar` | the parser, one action per rule a line can fall under, and the remapping as operators | `ReadOutside`, `OpenRegion`, `StartSection`, `ReadPayload`, `CloseRegion`, the refusals, `EndOfInput` |
| `SnapshotGrammarProofs` | its theorems | - |
| `Stepwise` | lemmas that `ApplyValidationProofs`, `SnapshotGrammarProofs` and `TextOutputProofs` share: induction along 0..n and along a sequence, functions defined step by step from the beginning or from the end, what a flattened sequence is and where each part of it stands | - |
| `PrepareWorkspace` | `prepare`, one action per system call, several invocations | `ReadSource`, `Render`, `Recheck`, `CreateWorkspace`, ... , `RemoveWorkspace`; `EditSource`, `Kill`, `PowerLoss` |
| `PrepareWorkspaceProofs` | its theorems: safety; the refinement of `AtomicPrepare` | - |
| `AtomicPrepare` | what `prepare` promises; `PrepareWorkspace` implements it | `Read`, `Fail`, `Create`, `Publish`, `Confirm`, `Discard`, `Spoil`, `Remove`, `Retain`; `EditSource`, `Kill`, `PowerLoss` |
| `Workflow` | both commands over the same files, as `AtomicPrepare` and `GuardedReplace`, with the user and other programs | `Prepare`, `Apply`; `Resolve`, `StartApply`, `ApplyAgain`, `PrepareAgain`, `TidyUp`; `EditSource`, `ChangeOfMind`, `KillPrepare`, `KillApply`, `PowerLoss` |
| `ConflictFile` | what jcw as a whole promises about one file; `Workflow` implements it | `Resolve`, `Overrun`, `Sync`, `Announce`; `Write`, `PowerLoss` |
| `WorkflowProofs` | its theorems: safety; the refinement of `ConflictFile` | - |
| `JjProcess` | `invoke_process`, its threads, the pipes, jj | `Spawn`, `StartDrain`, `Wait`, `JoinOut`, `JoinErr`; `Drain`, `DrainEnds`, `DrainFails`; `Write`, `Break`, `JjEnds`, `HeirEnds` |
| `JjProcessProofs` | its theorems | - |
| `PathOutput` | `encode_bytes`, one action per iteration | `Encode` |
| `JjDiagnostics`, `ManifestCodec` | `render_bounded_jj_stderr`; `make_manifest`, `manifest_json`, `decode_manifest` and `Manifest::validate`: operators | - |
| `ByteText`, `TextOutput` | the bytes these three have in common; the three together | - |
| `TextOutputProofs` | their theorems | - |
| `MC...` | instances of each for TLC | - |

`PROJECT.json` names the lines each definition stands for. Definitions whose
comment starts with "Mistake:" are not part of the models: each is a plausible
error in one definition, and substituting it makes a property fail. They are
what shows that the properties can fail.

### ApplyInstall

`pc` is the place in `run` and in the installer; the numbers in `inputs1`,
`inputs2`, `inputs3` tell the three rounds of rechecks apart. `files` is what
the four paths name now: one artifact stands for all of them, since all are read
and rechecked by the same loop. `view` is what the current pass read, `first`
what the first pass read (the two arguments of `compare_snapshots`). `own` is
the temporary file as the process knows it, `temp` what its path names: another
program may have put something else there. A file is `[data, meta, ino, dir,
synced]`: data is a value for the whole contents, meta stands for mode and
times, ino for device and inode, dir for the directory that holds it. `disk` is
the set of files the source path may name after a power loss: a rename adds to
it, the synchronisation of the directory reduces it.

`After` is the transition table of `AtomicInstaller`; an operation it does not
list leads to `Rejected`.

`Accepts`, the views that validation accepts, is a parameter. The only thing
assumed of it is what digests in the manifest give: a manifest determines its
source and its artifact. Which resolutions are accepted is the subject of
`ApplyValidation`.

`commit` and `raced` are history variables: what the rename replaced by what,
and whether another program changed a file after the last check of it. The
README of the program admits that window, so the properties exclude it, and
`raced` says exactly when it was used and nothing more.

### GuardedReplace, and how ApplyInstall implements it

`GuardedReplace` has no passes, rechecks, temporary file or controller. It says
that the source is replaced in one step (`Replace`), by a resolution that
`Accepts` allows for what source and workspace hold *at that moment*; that until
the directory is synchronised (`Sync`) either content may come back; and that
"wrote" is said only after that, "unchanged" only when nothing was replaced.
`disturbed` is the reservation of the README: the window between the last check
and the rename. Only with it may a resolution accepted earlier be installed.

`Guarded` in `ApplyInstall` is the mapping: `pc` becomes one of six phases,
`result` one of five answers, files become their contents, `disk` the contents
that may come back, `raced` is `disturbed`. `ImplementsGuardedReplace` has TLC check each
step of the installer, of other programs and of a power loss against it.

`UndisturbedProceeds` is the other half of the promise, which a specification of
what may happen cannot give: if no other program changes anything, each check
finds what it expects, the identity of the temporary file after its own
metadata were copied included.

### ApplyValidation and UnifiedDiff

Bytes are tokens: a line ending, a run of markers of the active width, the text
of a placeholder, other text. That is what the validator tells apart.
`Boundaries` is `find_group_boundaries`, leftmost candidate first with
backtracking: a recursive function over the number of groups behind, whose step
is `Place`; `Groups` and `Hunks` are recursive functions over the regions and the
groups (`Grouped`, `Hunk`). `OutsideKept` says what they should decide together
without any search order or grouping: some placement of what separates the
conflicts exists.
`Install` is deliberately coarse here (`source' = resolved`); its steps are
`ApplyInstall`.

`UnifiedDiff` renders the plan as `render_unified_diff` does: line numbers, old
and new lines. `Fits` and `Patched` are the reader's side, that of `patch`:
by line numbers alone, without the byte ranges that the plan has, and with the
unified format's rule for a range without lines, which names the line *before* it
(`FirstLine`, `LastLine`). `PreviewIsInstalled` says that the diff fits the source
and makes the installed bytes of it, that each hunk with new lines names the place
these have in the installed bytes, and that backwards the diff gives the source
again. It excludes from the last part a conflict that is resolved to nothing, since
there the code does not follow the rule: `PreviewCanBeTakenBack` is the promise
without the exception, and a finding.

### SnapshotGrammar

A line is `[kind, width, rest, eol]`, so a byte range of the code is a range of
line numbers. Each action is one rule of `parse_region` or of the loop around
it, in the order of the code: what an earlier rule takes, a later one excludes
by its guard. `AreConflicts` says the same grammar for a whole document, without
a position or a state: a set of ranges are the conflicts of a document if each
is one (`IsConflict`), what lies between them opens none, and each record says
what its lines say (`Declares`). It is a relation, so that it can be proved about
for documents of any length; `Candidates` only finds the ranges for TLC. `Given`
in the instance holds the beginnings of the documents to be read and, for those
that are renders of jj, the conflicts they stand for.

### PrepareWorkspace

Contents stand for bytes: `<<"manifest", read, render>>` is a manifest made from
the source bytes `read` and from the terms of `render`. A file is `[bytes,
synced]`. `Survivors` is what a power loss leaves of a workspace: any part of
its entries, since no directory is synchronised, and any part of a file that was
not. `Usable` is what `apply` demands of a workspace before it looks at the
resolution.

`AtomicPrepare` is the promise without the files: in one step (`Publish`) a
workspace becomes one that `apply` would take, complete and of one version of the
source; anything else that is left is never mistaken for one. `HoldsOf` is the
mapping: the version that manifest, terms and canvas are all of. It would be
"mixed" if they were of different ones, which no step of `AtomicPrepare` allows.

### Workflow

The two commands share nothing but files, so their abstract specifications are
instantiated over the same `source` and `workspaces`, and an action of one of
them is conjoined with what it is to the other: a step of `prepare` is a `Change`
of the files `apply` reads, a rename by `apply` is an edit of the source for a
`prepare` under way. `A(n)` is `GuardedReplace` for an `apply` that was given
workspace n. `touched` and `Notice` say what the abstract specifications leave
open: a command refuses for a reason, which is a failing call (`Fault`, bounded),
a file that changed under it, or files that validation does not accept
(`UndisturbedProceeds` is what allows to say so).

The user is a part of the model, with what `main.rs` shows: an exit code. Code 0
from `apply` is believed as long as no other program writes the file
(`Believed`); any other code makes the user start again. A user edits `resolved`
until no placeholder is left, may apply any workspace that looks ready, an
outdated one included, may change a resolution while it is applied, and removes
directories that are of no use, which is what the README asks for after a
partial workspace. `standing` is a history variable: the invocations whose
replacement no other program has written over.

`ConflictFile` is what remains when workspaces, invocations and answers are
forgotten: one file, what it may come back with after a loss of power, and whether
the user has been told that its conflict is resolved. A version with a conflict gives
way to a resolution of *that* version, of whatever workspace and made whenever
(`Resolve`), nothing else can come back afterwards than the two, and the user is told
only when neither the file nor what can come back has a conflict (`Announce`).
`Overrun` is the reservation of the README. The mapping takes `source` and `kept` as
they are, `Believed` for `trusted`, and for `raced` that some invocation is disturbed.

### JjProcess

Output is counted in blocks, a pipe holds `Capacity` of them. `heir` is a process
that jj started and that still holds the write ends of the pipes when jj has
ended (a file-system monitor, a hook).

### PathOutput, JjDiagnostics, ManifestCodec

A byte is a token, one of thirteen: two characters that are also hexadecimal digits,
so that text can spell out an escape, a full stop, the percent sign, a quote and a
backslash, line feed, carriage return and another control, and the four bytes of a
character, as many as UTF-8 has, which can be cut short or stand in the wrong place.
`Decoded` reads `%HH` back. `CutBetweenPieces` says where
diagnostics may be cut without saying how: behind the first k pieces for some k, and
no more than five bytes before there is no more room, which is what the code loses
when a character of four bytes, three of which have room, follows what looks like an
escape.
`ReadsBack` composes writer and reader of the manifest. Objects and lists of the
JSON text are records and sequences, strings are spelled out; the reader of a
string stands for serde_json and is as strict as JSON is.

## 3. Runs

All runs but the findings pass. `CHECK_DEADLOCK FALSE` is set everywhere because
every invocation really ends: a state in which all of them are done, or in which
a document has been read or refused, has no successor. That nothing stops
earlier is `Returns` in `JjProcess`; the other programs are sequential and have
nothing to wait for.

| Run | Bounds | Shows |
| --- | --- | --- |
| `apply_install_solo` | one invocation, two changes by others, one kill or power loss, two metadata values, two directories | every safety property of the installer, the inductive invariant of the proofs, no refusal without a cause, the refinement of `GuardedReplace` with its durability |
| `apply_install_duo` | two invocations, no change by others, two kills or losses of power, two metadata values | a prepared workspace is applied once; `JInv`, what the proofs about histories rely on |
| `apply_validation` | nine layouts, two edits of up to three tokens, nine fillings | outside bytes are kept, no false refusal, the blind output is refused, the preview is a patch that makes what is installed |
| `apply_validation_placeholder` | two conflicts with a blank line between them, one edit | finding: an untouched placeholder is accepted |
| `apply_validation_deletion` | one conflict between two lines, one edit | finding: the diff of a deleted conflict cannot be taken back |
| `snapshot_grammar` | all documents of up to five lines of seventeen kinds; up to nine lines that begin with a conflict; renders of 1080 conflicts | the parser is the grammar; remapping; renders are read back |
| `prepare_workspace_solo` | one invocation, two failures, two stops | partial workspaces and what is said of them; the refinement of `AtomicPrepare` |
| `prepare_workspace_duo` | two invocations, two names, two edits, one failure | one version of the source, no shared directory: the refinement for two |
| `jj_process` | every order of up to five blocks, pipes of two, one block kept, one failure | the call returns, and nothing is lost |
| `text_output` | every sequence of up to four units over thirteen bytes, a unit being a byte, the character, or the character without its last byte; names of up to four bytes in a manifest; limit of eight on the diagnostics | paths reversible and on one line where nothing to be escaped is in non-ASCII text; diagnostics cut whole; a manifest comes back as it was made |
| `path_output_reversible` | up to four units over eight bytes | finding: otherwise not reversible |
| `workflow` | one terminal for each command, used again and again, two names, one change by others, one failing call, one kill or power loss | exit code 0 can be relied on; an old workspace harms nothing (the refinement of `ConflictFile`); persistence ends in a resolved file |

Why the bounds are enough:

* `ApplyInstall`: a change matters by what it hits (one of the four files, the
  directory, the temporary path) and by when. Two changes give change and
  change-back, and a change of a file together with one of the temporary file.
  Two invocations are each other's change: their renames are the only writes of
  the source that `AppliedOnce` is about, so that others make none there; two
  losses of power are one to take back a replacement and one after the next.
  Inode numbers suffice for every file that can be
  created within the bounds (`NewInode` is always defined). What depends on
  the bounds at all is only TLC's part: the proofs have none.
* `ApplyValidation`: three groups is the least number with a separator that is
  searched after a choice was made for another one; two edits can delete a
  separator in one place and make one in another.
* `SnapshotGrammar`: four lines are the shortest conflict. Widths one to three
  stand for "not a marker", "narrowest marker" and "wider"; four would only
  repeat the comparisons. A second conflict follows a first one in two of the
  beginnings and in the renders.
* `PrepareWorkspace`: two failures are the failure of a write and that of the
  cleanup; two stops a kill and a later power loss. `MaxAttempts` is 2 instead
  of 32.
* `Workflow`: one terminal for each command is enough for every order of whole
  invocations and for a `prepare` beside an `apply`, since both are used again.
  Two invocations of `apply` at once are `apply_install_duo`; two of `prepare`,
  `prepare_workspace_duo`. Together with the liveness property a second terminal
  is beyond TLC's time here. Two workspaces are the least number with an outdated
  one. Nobody touches a temporary file here; that is in `apply_install_solo`.
* `TextOutput`: the marker of a truncation takes three tokens of the limit of eight,
  which leaves room for five bytes. Four units, twelve bytes as escapes and sixteen as
  characters, put both limits at every place of a character, an escape and a percent
  sign of the text. A percent sign, one more character, a whole character of four bytes
  and a byte of a second one are the case in which all five bytes of `CutBetweenPieces`
  are lost. With this limit no more than five can be; for any other the theorem says so.
* `JjProcess`: more blocks than one pipe holds, in every order; the limit is
  below the capacity, and below what one read can return.

Symmetry is used for sets whose members are only compared (metadata,
directories, processes and names), and in no run with a liveness property.

## 4. Fairness

`JjProcess`: weak fairness of the parent, of each thread, and of the processes
that write. The first two are what a scheduler gives a runnable thread. The last
one says that jj, and whoever inherits its pipes, writes a finite output and
ends; the code relies on it, since it has no timeout (`prepare.rs` 483-495): a
process that holds the pipes for ever makes `jcw prepare` wait for ever, and this
is listed among the hazards. Failures (`Faults`) are never fair.

`Workflow`: weak fairness of the steps of a command that need no fault: they are
straight-line programs with bounded loops, and a scheduler runs them. Weak
fairness of the user's retries and resolutions: the property is about a user who
goes on. Strong fairness of two choices of the user: which workspace to apply
(`StartApply`), and to remove a directory that is of no use (`TidyUp`). Both
are enabled again and again rather than for ever, because other invocations come
between; without it a user who always applies the same outdated workspace gets
nowhere, and the code cannot help that. Edits, losses and faults are never fair,
and bounded: `EventuallyResolved` says what happens once they stop.

Everything else is safety.

## 5. What is proved

The theorems hold for any set of invocations, names, contents, inodes and
directories, for documents and outputs of any length, and for any bounds on edits,
faults, kills and losses of power: the bounds of section 3 are TLC's alone. What
is assumed of the constants is named in the module that declares them, and is
about types and distinctness, but for three assumptions with content: a manifest
determines its source and its artifacts (`ManifestNamesItsSource`, what its digests
give); in `Workflow` a resolution is no version with a conflict
(`ResolutionsAssumption`); and what jj renders is a document of the grammar that
declares the terms rendered (`RendersAssumption`). The last is about jj, which is
not in this repository, and is what TLC evaluates for each of its renders. "Any
bytes" are any of the tokens of `ByteText`.

| Module | Theorem | States |
| --- | --- | --- |
| `ApplyInstallProofs` | `Invariance` | `IInv` is an invariant |
| | `TypeCorrect` | `TypeOK` |
| | `NoLostUpdate` | `CommitMatchesValidation`: a rename that did not lose the final race replaces the validated source by the validated resolution, while manifest and artifacts are what they were validated as |
| | `TruthfulReports` | `ReportIsTruthful`: "wrote" only after the rename, a promise of an unchanged destination only without it |
| | `AlwaysWhole` | `SourceIsWhole`: no reader and no power loss finds the source empty or torn |
| | `LeftoversAnnounced` | `LeftoverIsReported`: a temporary file that stays is announced, and one announced as removed is gone |
| | `ControllerAgrees` | `ControllerNeverRejects`: the installer's order of operations and the controller's table agree |
| | `OutcomeInvariance` | `JInv` is an invariant |
| | `MetadataKept` | `ReplacementKeepsMetadata`: a replacement nobody interfered with has the metadata of what it replaces |
| | `AppliedAtMostOnce` | `AppliedOnce`: one of any number of concurrent invocations replaces the source, if no other program writes |
| | `Implementation` | `ImplementsGuardedReplace` |
| `ApplyValidationProofs` | `Invariance`, `TypeCorrect` | `IInv`, `TypeOK`: the answer is a plan or a refusal of `validate_apply`; hunks out of order never arise |
| | `OutsideIsKept` | `AcceptedKeepsOutside`: an accepted file is the source with something else in the place of its conflicts |
| | `RefusalsHaveACause` | `RefusedForCause`: no file that keeps the outside bytes is refused for them |
| | `BlindOutputIsRefused` | `BlindOutputRefused`: the unedited canvas is never accepted |
| | `PlansAreRendered` | the hunks of an accepted file make that file of the source |
| | `PreviewIsRight` | `PreviewIsInstalled`: the diff that is shown, read as a patch, makes the bytes that are installed; each hunk with new lines names their place there; and backwards it makes the source, unless a conflict is deleted |
| `PrepareWorkspaceProofs` | `Invariance`, `TypeCorrect` | `IInv`, `TypeOK` |
| | `NothingLeftBehind` | `FailureLeavesNothing`: a failure leaves no directory, or is reported as retaining it |
| | `NoPartOfACanvas` | `UsableHasTheCanvas`: what `apply` takes for a workspace has the whole canvas of the source its manifest names |
| | `PreparedStays` | `PreparedIsUsable`: success is reported only of a complete workspace, and nobody else has or removes it |
| | `Implementation` | `ImplementsAtomicPrepare` |
| `JjProcessProofs` | `Invariance`, `TypeCorrect` | `IInv`, `TypeOK` |
| | `RenderIsWhole` | `OkIsWhole`: a success returns all of stdout |
| | `SuccessReported` | `SuccessIsReported`: the limit on stderr ends no jj and fails no call |
| | `DiagnosticsComplete` | `DiagnosticsAreComplete`: what is kept of stderr is its beginning up to the limit |
| `SnapshotGrammarProofs` | `TypeCorrect` | `TypeOK` |
| | `ParsedIsDeclared` | `ParsedAsDeclared`: what the parser accepts is a document of the grammar, read as its lines declare, and nothing is passed over |
| | `RefusedForGood` | `RefusedIsMalformed`: what it refuses begins no document of the grammar |
| | `ScanIsRight` | `ScanFindsTheParsed`: the scan for the outer markers finds the conflicts that the parser found |
| | `OutsideIsRecognised` | `RemapKeepsOutside`: in another style the scan finds the conflicts, and what it leaves outside is what the parser left outside |
| | `RendersAreRead` | `RendersAreParsed`: what jj renders is accepted, and its terms are read as they were rendered |
| `WorkflowProofs` | `Invariance` | `IInv` is an invariant |
| | `Reliable` | `SuccessStands`: exit code 0 stands until another program writes the source |
| | `Implementation` | `ImplementsConflictFile`: a version with a conflict gives way only to its own resolution, one of the two is what a loss of power brings back, and success is said only when no conflict can come back |
| `TextOutputProofs` | `PathInvariance` | `PathInv` is an invariant |
| | `PathsAreReversible` | `ReversibleOutsideText`: an encoded path is one line and decodes to the path, unless a percent sign or a control byte was copied as text |
| | `DiagnosticsStayWhole` | `DiagnosticsAreCutWhole`: what is shown of stderr is within the limit, cut between two characters or escapes, and at most five bytes shorter than there is room for |
| | `ManifestIsDecoded` | `decode_manifest` gives back what `make_manifest` made, for any source and any ordered conflicts |
| | `ManifestIsRead` | `ManifestReadsBack`: hence for the manifests that the run makes of every name |

`IInv` and `JInv` of `ApplyInstall` are invariants of a run. Those of the other
modules are in no run of their own: TLC's answer was wanted before the proof, and
the theorems make it superfluous.

### The installer

None of its properties is inductive. Whether a rename replaces what was validated
depends on what the steps before it have found, so `IInv` carries those findings
from step to step:

* `PositionInv`, `ViewInv`: what a pass has read so far; that what reaches the
  installer was validated.
* `ControllerInv`: the controller's state at every step of the installer.
* `TempInv`, `CommitInv`: between which steps the temporary file exists, and
  after which a rename has taken effect. This is what the messages rely on.
* `WholeInv`: until the temporary file is synchronised only the process's own
  writes can leave it torn; from then on whatever its path names is whole.
* `CheckedInv`: what the final recheck has found equal is equal still, or the
  race is recorded. Its conjuncts follow the order of the recheck: inputs one
  by one, destination, temporary file, parent.

One lemma per action shows that it keeps `IInv`; `QuietStep`, `MoveStep` and
`EndStep` hold what is common to the steps that change no file, that only
advance, and that end an invocation. `Disturbed` holds what is common to the
changes made by others, among them the renames of other invocations: they reach
the files a process has checked only through `Race`. Nothing is assumed of inode
numbers but that they are distinct at the start: one may come back once no file,
handle or record has it.

`JInv` is added for what needs a history. `TempContentInv` follows the temporary
file from the write over the copy of the metadata to the rename; `OutcomeInv` turns
it into the metadata of a replacement. `SameWorkspaceInv` relates invocations that
have never met: without changes by others they have all read one workspace, and
once one of them has replaced the source, it is equal to `resolved`, which the
next one finds ("nothing to write"). A loss of power can take that back until the
directory is synchronised, and the invariant says exactly when: `disk` holds
nothing else from `cleanup-temp` on. Each action is split into its effect on
the invocation that takes it (`Effect`) and what it may do to the others
(`Bystander`), so that both are proved once per action and not once per pair.

The refinement uses both. Under them each step is shown to be one of
`GuardedReplace` or a stutter: the passes and rechecks stutter until the final
one begins; what replaces the source is accepted for what the files hold *at
the rename*, by `CheckedInv`, or the race is recorded; `disk` becomes the contents that
may come back. The environment's steps map to `Change`, `TouchTemp`, `Kill` and
`PowerLoss`.

### The validator

`Validate` is one function of manifest, source and canvas, so `IInv` only says that
its last answer was `Right` for them; the work is in the function. It is proved
about manifests with any number of regions, which takes induction along recursive
functions. The library's theorems for that cannot be used, so
`Induction` and `Recursion` of `Stepwise` derive it from the well-foundedness of `<`: a set of
numbers without a least counterexample is all of them, and functions defined step
by step exist, which is what a recursive definition needs to equal its own body.

* `GroupsInv` says what `Groups` has made of the first regions, by an assignment of
  regions to groups: the next region has the same group and touches, or the next
  group and begins it.
* `Placed` says of a result of `Boundaries` that it is a chain: separators where the
  places say, each behind the one before. `PlacedKeepsOutside` turns it into
  `OutsideKept`: between regions of one group nothing must stand, and nothing does.
* No false refusal is the other direction: `Kept`, any witness of `OutsideKept`,
  gives a chain of places (`PlacesOf`, region by region), and `PlaceLeftmost`, by
  induction over the groups behind, that the search then finds one, and that no
  chain whatever puts the last group earlier than the search does (`Leftmost`).
  So the range of the last group is inverted only if every alignment has it so.
* `HunksReconstruct` follows unchanged bytes and hunks through `Reconstructed`: up to
  each group both make the same beginning of the resolved file, whether the
  group has a hunk or is equal to what it was.
* `CanvasRefused` is the argument about the unedited canvas. An early separator
  can hide the seed of a region from its own range (section 6), but not that
  of the last one: the canvas itself is an alignment whose last place holds the
  seed of the last region up to the suffix, the search starts the last group no later,
  and its range therefore contains that seed.
* `DiffApplies` knows nothing of conflicts. Lines are a
  decomposition of the bytes that is unique (`LinesUnique`): they make the bytes
  again, and behind a prefix that is whole lines the lines are those of the rest
  (`LinesConcat`). So the number of a line is one more than the lines before it
  (`LineNumberIs`), and a file that consists of gaps and parts, each of whole
  lines, has the lines of the gaps and parts (`JoinedWhole`). A diff that describes
  two such files with the same gaps, and shows old lines in every hunk, therefore fits
  the one and makes the other. The plan says what the gaps and the parts are
  (`PlanIsAligned`); the gaps are whole lines because conflicts are
  (`SourcesAssumption`). `DiffsAreRight` uses the lemma once for the diff, whose hunks
  all show old lines since no conflict is empty (`OldLinesAreThere`), and once for the
  diff reversed, where that is to be assumed. For one hunk of it there is
  `HunkStands`. `IInv` remembers of an accepted file that
  its hunks make it (`PlanMakesResolved`).

### The workspace writer

`PlaceInv` says whose a directory is, from `create_dir` to `remove_dir_all`, so
that no two invocations meet in one. `SourceInv` is the argument about the second
reading of the source: equal identities imply equal bytes, those that jj
rendered. `WrittenInv` says what is complete and on the disk at each step of the
artifacts' order, and `LeftInv` what is left of it by a stop: of each file the
whole or a part, and beside a manifest only files that had been synchronised.
This is where it counts that the manifest comes last: whatever survives with it
was on the disk before it was created.

For the refinement, `HoldsItsSource` shows that the version `apply` takes a
workspace for is the source as its maker read it, never "mixed", and
`UsableOnceWritten` that it becomes one when the content of the manifest is
written (`Publish`). The write of each other artifact is a stutter. `NeverMended`
and `Loses` say that no failure, removal or loss of power makes a workspace usable
that was not, which is what `Discard`, `Spoil`, `Remove` and `PowerLoss` demand.

### The jj process

`BlocksInv` counts: what was written to a stream is in its pipe or read, and what
is kept of stderr is the beginning. `ParentInv` and `WritersInv` say which
threads and processes there are at each step of the parent, and that a thread
ends at the end of the output unless it failed; `AnswerInv` is what the joins
have told. Counting the blocks of a stream by the library's cardinalities is
`OneMoreBlock`.

### The parser

`ParsedAsDeclared` and `RefusedIsMalformed` are about whole documents, the parser
knows the lines read. `IInv` is about those: all markers are as wide as the first
opening (`WidthInv`), the conflicts read are conflicts and declared as recorded
(`RegionsInv`), no opening was passed over (`CoveredInv`), and the sections of the
conflict under way are all its lines as wide as a marker (`SectionsInv`).

That is enough for the accepted documents. A refusal is about all documents that
begin with the lines read, none of which may be well-formed. The lemma is
`ForcedInv`: in each well-formed one, whatever may follow, the first conflicts are
those already read, and the next begins where the one under way does. So a line
that no conflict can have there has no continuation. It needs a first
opening and a first line that closes, which `HasMin` takes from the
well-foundedness of `<` on the naturals.

The scan that `apply` makes of the working copy reads the same text a second time,
and knows less: only outer markers, and no grammar. All it needs of a document is
`Marked` and `InOrder`: ranges in their order, each opened and closed by a marker of
the width looked for and with none of that width inside, and no opening outside.
Then, by `Induction` over the lines, `Scanned` says what it has after each line: the
ranges that end there, and the one that has begun. The conflicts that the parser
read are such ranges (`ConflictsMarked`), hence `ScanIsRight`. For another style,
`Restyles` says where each line of the working copy comes from: a line between the
conflicts, the interior, or a closing marker. `MovedMarked` then finds the moved
ranges again as `Marked`, and `MovedOutside` goes through both texts piece by piece,
since what is kept of a text is made line by line as well.

The renders need the converse of `ParsedAsDeclared`: a document of the grammar *is*
accepted, and read in one way only. By `GivenInv`, what was read of a render is a
beginning of it. A refusal there would be of a line that no well-formed document
continues (`RefusedLine`), and the render is one. At its end the conflicts read are
all it has (`AllRead`): by `ForcedInv` they are the first of its ranges, and by
`CoveredInv` no opening is left for another. Each range declares one sequence of
terms (`DeclaresOne`): the number of headers up to a header is a different one for
each, so that every place in the sequence is spoken for (`OrdinalsAre`).

### The workflow

`StandingInv` is about the invocations of which an exit code 0 may be believed:
from the replacement on the source has no conflict, whoever replaces it next,
because every replacement is by a resolution; and from the synchronisation on
nothing else can come back. `SuccessStands` follows.

The refinement of `ConflictFile` needs one more: while the source has a conflict,
nothing else is what a loss of power brings back (`VersionInv`), so that the two
contents `Resolve` leaves are the version and its resolution, however many
invocations there are and whichever of them has synchronised the directory. With it
each step of `Workflow` is a step of `ConflictFile` or a stutter: a replacement is
`Resolve`, or `Overrun` in the window; the synchronisation at the beginning of the
last recheck and the one after a replacement are `Sync`; and by `StandingInv` an exit
code 0 is an `Announce`.

Since `ApplyInstall` and
`PrepareWorkspace` are proved to implement the specifications that `Workflow`
composes, its promises are those of the code for as long as the composition is
right, which is the one link between them that is only stated.

### Text output

The readers of an encoded path and of a JSON string are recursive from the end of
what they read: what they make of the text behind a place is known first. `Backwards`
of `Stepwise` gives such a function its equation, as `Recursion` does for the
others.

* `PathInv`: the output is one word for each byte read, the byte itself or its escape
  (`WrittenOut`). `DecodedWords` reads such words back from the last to the first, if
  no word but an escape begins with a percent sign. That a percent sign was copied
  only as text is what the property excludes.
* The diagnostics are rendered as pieces, a character, an escape or the mark of a byte
  that is no text. `Rendered` forgets where they begin, and `EscapeBoundary` has to
  find it again from the last bytes: a percent sign begins a piece (`PercentBegins`),
  and the later bytes of a character stand only behind its first
  (`ContinuationFollows`). So a place with no percent sign in the two bytes before it
  and no later byte of a character behind it is between pieces (`WholePieces`). One is
  at most five bytes before the limit (`CutIs`), three for a character that is cut
  (`CharBoundaryIs`) and two for an escape; that the final line ending, of one byte or
  two, was taken away first changes none of this (`WithoutFinalEolIs`). That the cut of
  stderr itself, to which the limit applies first, does not show is `NoShorter`: no byte
  is rendered as less than one.
* `StringReadsBack`: reading a JSON string from its end, the text behind each escape is
  what was written behind it. `HexReadsBack` goes through digits two by two, in the
  same way. Then every field of a term, a region and the manifest reads back, and what
  `make_manifest` counts and names passes the checks of the reader
  (`RegionsAreValid`), since the conflicts of a source are in order (`InOrder`).

### Only model-checked

Liveness (`Returns`, `EventuallyResolved`) and ENABLED (`UndisturbedProceeds`), which
are out of reach of the prover.

## 6. Findings

* **An untouched placeholder is accepted** (`NoPlaceholderAccepted`,
  `core.rs:891`). Two conflicts with a blank line between them, the first
  placeholder left as it is, the second conflict resolved: the separator is a
  single line ending, the leftmost one is the placeholder's own, so the range of
  the first conflict is the placeholder without its line ending, and the seed,
  which includes it, is not found there. The placeholder's text is installed.
  The seed has the same gap at the end of a file whose last line ending an editor
  dropped.
* **The path encoding is not reversible** (`Reversible`, `path_output.rs:62`).
  From the first non-ASCII byte on, the rest of the valid text is copied as it
  is, `%` and line feeds included: different paths have one encoding, and a
  path can take two lines.
* **The diff of a deleted conflict cannot be taken back** (`PreviewCanBeTakenBack`,
  `core.rs:1425`). A range without lines names, in the unified format, the line
  before it; the code gives it the number of the line behind, as it does for ranges
  with lines. `patch --reverse` then puts the conflict one line late. Forwards, where
  only the old range counts, the diff is right.

Met while modelling, without a run of their own:

* `reject_resolved_markers` (`core.rs` 1306-1330) does not look for runs of `-`,
  the marker of a base section, while the README says that active-width marker
  runs are rejected.
* A resolution without a final line ending in the middle of the file runs into
  the line that follows. The diff says "\ No newline at end of file" of it, and
  read backwards it does not fit (`KeepsFinalEols` excludes the case).
* The documentation of `CleanupStatus::NotNeeded` says that no temporary file was
  created (`apply.rs:1886`). The error of a recheck that fails after it was created
  carries that status (`apply.rs:1121`); the caller adds the real one, so that the
  message names both. `LeftoverIsReported` is about the real one.
* `render_bounded_jj_stderr` asserts that the marker of a truncation stands in the
  result exactly once (`prepare.rs:652`). A jj that writes `...[truncated]` itself
  fails that assertion in a debug build.

## 7. What is not modelled

* The schema version, the marker and the lengths in the manifest: numbers, which
  both sides write and read alike.
* How `escape_bytes` spells the bytes of a line of the diff; parse-error texts;
  the checklist that `prepare` prints: formatting.
* The command line: `parse_args` keeps no state and calls nothing. Of the exit
  codes, what they make a user do is in `Workflow`.
* The search for the repository (`repository_root.rs`): one walk up a canonical
  path, reading only; the models take the path it finds as given.
* Validation in `domain.rs` of the marker, the schema version and the lengths of
  hunks. What it requires of ranges, indices and artifacts is `ValidManifest`,
  `ValidPlan`, `ValidDocument` and `ValidRegions`.
* What symbolic links and no-follow flags do, and platforms other than Unix,
  where `--write` is refused before anything happens.
* Reads are atomic in `ApplyInstall`. The code compares the identity of the file
  before and after, and a change in between is seen as one before or after
  the read.
* In `PrepareWorkspace` every edit of the source changes its identity. The code
  compares device, inode, mode, length and modification time, not the time of
  change: a program that restores all of them is not seen, by the code or here.
* Whether jj chooses markers wider than any run in its terms; the renders in
  `SnapshotGrammar` assume it.

## 8. Plan

Done, in this order: `ApplyInstall` and its proofs (the only code that changes a
user's file), `ApplyValidation` (what is allowed to be installed),
`SnapshotGrammar`, `PrepareWorkspace`, `JjProcess`, `PathOutput`; then the abstract
specifications `GuardedReplace` and `AtomicPrepare` with their refinements,
`Workflow` on top of them, `UnifiedDiff`, and the two other renderings of bytes
beside `PathOutput`.

Then the proofs, in the order of section 5: the installer's safety, its histories
and its refinement, the jj process, the workspace writer and its refinement, the
workflow, the parser, the validator, the text output, the renders.

What is left is out of reach of the prover (section 5) or of what this repository
says (the hazards in `PROJECT.json` that no property covers).
