# Verification of Memoria

Memoria keeps a project's documents (READMEs) reviewed: it records, in the
committed file `memoria.lock`, which inputs a reviewer saw, and tells which
documents need another review. This directory holds TLA+ models of the parts of
Memoria whose correctness depends on order, on concurrency or on long sequences
of legal calls, the TLC configurations that check them, and proofs, checked by
TLAPS, of the properties that matter most.

`src/` below is the repository; `domain`, `application` and `infrastructure`
stand for `src/crates/memoria-domain/src`, and so on.

## 1. The system

A run of `memoria` is one short process. It reads the worktree (documents,
covered files, configuration, `memoria.lock`, Git), computes a *snapshot*, and
either reports or changes one thing. Nothing is shared between runs except
files; editors and Git change the same files at any time and know nothing of
Memoria's locks. The Stop hook is the one run with threads of its own: it must
answer an agent before a deadline, whatever Git and the inspection do.

| Component | State it keeps | Operations | Talks to | What makes it correct |
|---|---|---|---|---|
| Review state (`domain/review.rs`) | revision, next invalidation id, a record per reviewed document, open invalidations | `empty`, `add_invalidation`, `acknowledge`, recording a base commit, `validate` | ack, invalidate, init, state store | counters count events; no invalidation vanishes without a review that listed it; transitions keep the state valid |
| `ack` (`application/usecases/ack.rs`) | the artifact, the loaded bytes | lock, snapshot, gates, load, transition, snapshot, gates, save | snapshot, token, state store | accepts a review only of what the reviewer saw, providers first |
| `ack --cover` | loaded bytes | lock, load, compare inputs with HEAD, record base, save | history, state store | changes one field of one record |
| `invalidate` | targets, computed before the lock | snapshot, lock, load, transition, save | state store | every target is pending until reviewed again |
| `init --apply` | "no lock file", seen before the lock | look, lock, save the empty state | state store | never replaces an existing state |
| `render` | replacements, computed before the lock | snapshot, lock, compare and replace each document | atomic writer | changes import bodies only |
| `review` (`prepare_review.rs`, `requirements.rs`) | none (the artifact goes to the reviewer) | readiness, capture, token, reading advice | snapshot, history | the token binds all a reviewer relied on; focused reading misses no change |
| Schedule (`domain/schedule.rs`), import graph, scope map, sections, selection | none | pure functions of paths and bytes | snapshot | their definitions: who is pending, who waits, which cycle, who covers |
| Snapshot (`application/snapshot.rs`) | two or three collections | collect until two agree | files, Git, state store | one state of the worktree, not a mixture |
| Write lock and durable replacement (`infrastructure/fs.rs`) | the advisory lock; a temporary file | lock with a wait budget; stage, sync, rename, sync the directory | every writing command | exclusion; the old or the new file, never a part |
| State store (`infrastructure/state.rs`) | `memoria.lock`, the legacy state file | load, save with validation and comparison | fs | refuses what the next load would refuse |
| Lock codec (`infrastructure/lock_codec.rs`) | none | encode, decode | state store | what is saved is read back; one text per state |
| History (`application/usecases/history.rs`) | search position, budgets | lookup, coverage, rounds of `cover_at` | cat-file reader | tells the truth of what it did not read; its reads are bounded |
| Hook, skill and workflow installers | an intent or transaction record beside the target | install, upgrade, uninstall, recover | fs | recovery completes or restores, never overwrites an outside edit |
| cat-file reader (`infrastructure/cat_file.rs`) | pipes, threads, a child | request, read, drain, discard | git | no deadlock, answers in step with requests |
| Stop hook (`main.rs`, `bounded_process.rs`) | worker, owned process groups, a deadline | receive, spawn, adopt, drain, sweep, release, answer | git, `status --summary` | answers always; silence is truthful; leaves nothing it owned |
| Codecs, Markdown, glob, JSON, presentation | none | text to values | all | round trips |

Hard behaviour, and where it is listed line by line (`PROJECT.json`,
"hazards"): what a command computed before it waited for a lock and uses
after; what editors and Git do between any two steps of a command that holds
the lock; a process that dies between two steps, or a step that fails; old
artifacts, presented late or twice; old lock files that a checkout brings back,
with their counters; the provider-first order through several imports; files
that change while they are collected; pipes that fill and processes that hang;
and whether the loop of editing, reviewing, rendering and acknowledging ever
ends.

## 2. The modules

| Module | What it is |
|---|---|
| `ReviewState` | The value `memoria.lock` stores, and the domain transitions on it, as operators: each transition has its guard (`CanAcknowledge`, `CanInvalidate`) and its result. `StateValid` is `ReviewState::validate`. |
| `ReviewPromise` | The abstract specification of the cycle: two variables, `lockFile` and `artifacts`, no lock, no phases, no worktree. Every change of the review state is one atomic transition of the state that was there, and a review is accepted only while the state still says of the document and all its providers what the artifact says. |
| `ReviewCycle` | The detailed specification: worktree, commands with their steps, write lock, editors, Git, crashes. It states the properties, the fairness, and `Promise == INSTANCE ReviewPromise`. |
| `Layout`, `Imports`, `Sections` | Pure algorithms of the snapshot: which document covers a file and which rule selects it; the import graph, its cycles and order, the merge of two manifests and the schedule, loop by loop; what a section names. |
| `Snapshot` | The collection, file by file, while people save files and Git checks out a lock file, and the analysis of what was collected. |
| `Endpoint` | The Stop hook's process: main thread, worker, deadline, children in process groups, supervisor. |
| `StopHook` | Composes the two: the endpoint's third command builds the snapshot and prints the counts. |
| `ObjectReads`, `CatFile` | What a reader of Git objects promises (one question, one answer), and the pipelined `git cat-file --batch` reader with its threads and pipes, which is shown to implement it (`Promise == INSTANCE ObjectReads`). |
| `History` | The searches of local history under their budgets. |
| `ReviewAdvice` | What a review must read (`requirements::build`), from the stored record, the project now and what the searches find. |
| `LockCodec` | The text of a state in `memoria.lock`, number by number: writer, reader and the checks of the reader. |
| `Markup` | The marker lines of a document, the parser's walk over them, the texts an export may have, and the copy `render` makes. |
| `HookInstall`, `SkillInstall`, `WorkflowInstall` | The three installers. |
| `MC...` | The instances for TLC. |
| `ReviewCycleProofs`, `StopHookProofs`, `ImportsProofs`, `CatFileProofs`, `HistoryProofs`, `HookInstallProofs`, `SkillInstallProofs`, `WorkflowInstallProofs` | The theorems. |

### The review cycle

The steps of a command are the values of `pc`:

| Command | Steps | Code |
|---|---|---|
| `ack` | `StartAck`: lock. `AckCheck`: snapshot, gates. `AckTransition`: load, transition in memory. `AckRecheck`: snapshot, gates. Then save. | `ack.rs:301-596`, stages 3 to 5 of its own comments |
| `ack --cover` | `StartCover`: lock. `LoadCover`: load, guards, plan. Then save. | `ack.rs:651-741` |
| `invalidate` | `StartInvalidate`: targets from a snapshot. `Acquire`. `LoadInvalidate`. Then save. | `invalidate.rs:50-100` |
| `init --apply` | `StartInit`: no lock file. `Acquire`. Then save of the empty state. | `init.rs:195-260` |
| `render` | `StartRender`: replacements from a snapshot. `Acquire`. For each document `CompareDocument`, `RenameDocument`. | `render.rs:114-185`, `fs.rs:299-317` |
| save | `CompareState`: validate, compare the stored with the loaded. `RenameState`: the rename. | `state.rs:355-384`, `fs.rs:224-272` |

Every early return of a command is `Finish`: the command is idle again and the
lock is free. `Crash` covers the death of the process at any step and a failed
step before a rename; both leave the files as they are and drop the lock. A
failure of the directory sync after the rename reports an error with the change
in place, which the model does not tell from success: the command may be
repeated, and the artifact is then refused for its revision.

The wait of `ack` and `ack --cover` for the lock is not a state of its own: they
read nothing of the project before they have it. `invalidate`, `init` and
`render` do, and wait at "wait" with what they read.

Abstractions of data: a document is a model value; its own text, the files it
covers (with the policy that selects them), guidance, reasons and export bodies
are small sets. `Manifest` keeps the text, the files, the import bodies and the
exports they should equal, which is what tells a change from no change. A token
is the fields it hashes. The stored file is the state it decodes to; reviewer,
note and timestamps are left out, so a checkout of a file that differs only in
these is no change here. A snapshot is one step (module `Snapshot` has the steps
and says what they are good for). `render` takes its documents in any order; the
code takes one fixed order. The import graph is a constant, acyclic
(`GraphAssumption`); a cyclic or dangling graph is an error diagnostic that
stops the gates, and `Track` supplies invalid trees by removing a provider. The
history search of `ack` is its outcome, a base commit or none (`BaseOutcomes`).

### The snapshot and the Stop hook

`Collect` follows `snapshot::collect`: configuration, the listing of the
worktree, the kind of each listed path, then sidecars, selected sources, ignore
files from the root inwards, documents and the state files; `EndPass` compares two collections and starts a
third when they differ (`snapshot.rs:92-170`). `Edits` are saves of any file
between any two of these steps. The analysis is a pure function of the last
collection: `Documents`, `Sources`, `HandoffsOf`, `Manifests`, `Statuses`.

`Endpoint` has one action per step that another thread or process can see: main
receives the event, waits and answers (`ReceiveEvent` to `Emit`); the worker
spawns a command, adopts the child into the supervisor, waits, drains, sweeps
the group and releases it (`Spawn` to `Release`, `bounded_process.rs`);
`GiveUp` is the deadline, which cancels the supervisor and kills what it owns.
Children exit, start a helper that outlives them, or write too much. In
`StopHook` the third command's child is the snapshot: it takes steps only while
it is alive, and what it prints is its counts.

### Reading Git

`CatFile` has the caller, the writer thread, the thread that moves output into
a bounded channel, Git and the two pipes with their rooms. Its two callers are
the raw comparison of the index, which keeps a window of requests ahead, and
the historical reader, which asks one object at a time and discards the process
whenever an answer is not read to its end. `History` has one step per read of
`lookup`, `coverage` and `cover_at` with the limits on reads, bytes and
candidates; a read may fail and the deadline may pass before it.
`ReviewAdvice` computes the reasons and the reading from a record that the
current release or one of two older ones wrote.

### The installers

All three plan without a lock, lock, recover what an interrupted command left,
plan again and refuse a difference, write a durable intent, change files one by
one, and clear the intent. `HookInstall` follows the two files (the agent's
configuration and Memoria's record beside it) through `Intend`, `Compare`,
`Replace`; a configuration is its groups, its containers and the user's keys.
`SkillInstall` follows the renames of one package directory with its backups;
`WorkflowInstall` follows inodes and names, since that code rests on what a
rename, a hard link and an open handle do. `Crash` may come at any step and a
step may fail (`Budget`); users, agents and editors write at any step.

### The text of the lock

`LockCodec` writes a state as `encode_payload` does: the shared tables of
timestamps, contents, paths, strings and vectors, built from the occurrences in
the state (`Tables`), front-coded strings, deltas of sorted ids, varints with
zig-zag, then the reviews and the open invalidations. `Decode` reads it with
every check of `decode_payload`, in its order where the order matters, with both
expansion budgets, and `Encode` refuses what those budgets would refuse. A letter
is a number, a byte has four bits; compression is a flag of the frame and the
checksum is right or wrong; UTF-8 and the words of an error are left out. Dates
go through the code's own calendar arithmetic. `WrittenElsewhere` is any other
writer of the file: a merge, a hand edit, another release.

### The text of a document

`Markup` has a document as its lines: Markdown blocks, opening and closing
markers, and lines that try to be a marker and fail. CommonMark is external;
`Block`, `Spans`, `BracketPairs` and `InlineLinks` say what of it the code rests
on. `Read` walks the lines with at most one open block and one open section, the
recovery after a refused opening, and the two lists of problems (`issues` make
the document invalid, `advice` withdraws its sections). `ExportIsInvalid` is the
check of an export's body with the second scan by bytes that
`reference_syntax_problems` makes; `RenderCopy` replaces the bodies of imports.

## 3. The runs

Every event of the outside world (a save, a checkout, a crash, a failing step)
is bounded by a budget that its cfg names. Everything else is unbounded: a
command may start at any time and again, any artifact ever captured may be
presented at any time, and the state spaces are finite because the budgets are.

| Run | Instance and bounds | Question | Properties |
|---|---|---|---|
| `review_cycle` | two documents, two commands; an edit, an invalidation, an init, a crash; no checkout | Do the lock and the gates make every stored change one of the promised atomic transitions, with no update lost or applied twice? | `LockExcludes`, `NoInvalidationLost`, `CountersCountEvents`, `LoadedStateIsFresh`, `RenderKeepsText`, `KeepsPromise` |
| `review_external` | the same; a checkout, an untracking, a hand edit of an import body, an invalidation; `MaxCounter = 3`. Or a pair of texts: export bodies of two lines, or of a paragraph of up to six symbols; any line before and after an import; 3,500 spellings and places of a section's marker | What holds although the lock binds only Memoria, and at the counter limit? Does a copied text keep its meaning, and is every guide heard? | `StoredStateValid`, `EveryRecordWasReviewed`, `RecordsAreRendered`, `SaveReplacesWhatWasLoaded`, `GuidesAreHeard`, `RenderingKeepsMeaning` |
| `review_chain` | a chain of three documents, one command; an edit, a change of guidance, an invalidation; editors may act between comparison and rename. Or a state at rest in its text: twelve states, the text changed elsewhere once | Are reviews accepted provider first, through two imports? Is what is saved read back, and is what is read what would be saved? | `ProvidersReviewedFirst`, `SavedIsReadBack`, `AcceptedTextIsCanonical` |
| `review_live` | two documents, two commands; one of an edit, a change of guidance, a document that disappears and a checkout of an earlier lock file; a hand edit, a crash, a timeout | Does the work end, and is the lock always released? | `Converges`, `LockReleased` |
| `review_window` | two documents, one command, one edit | Is the worktree still what was reviewed when the review is saved? | `NothingSlipsIn` (violated) |
| `skill_install` | two processes, three backup names, one write of the user, one crash or failing step; the disk at first empty, the user's own, or of an older release | Does the swap of a package ever lose what it found or put there? | `SettledContentSurvives`, `OriginalReachable`, `DisplacesOnlyWhatWasPlanned`, `RecoveryCompletes` |
| `skill_uninstall` | one process, one crash | Does an uninstall that reports success leave the package installed? | `UninstallRemoves` (violated) |
| `hook_install` | two processes from two executables, a group of the user's, both representations, an edit, a crash | Do the user's configuration and the record of ownership survive every order of commands? | `UserPartSurvives`, `OwnershipCoherent`, `UninstallLeavesNoTrace`, `InterruptedSettles` |
| `workflow_install` | two processes, two versions, six inodes, two changes by an editor with two texts, one fault; four initial pairs of files, with and without a foreign intent | Is a text of the editor's ever lost, and is every mutation on record? | `EditsSurvive`, `MutationIsOnRecord`, `OnlyOwnedPairsChange`, `EvidenceKept` |
| `workflow_recovery` | one process, one crash | Does some command settle every recognizable pair? | `SomeApplySettles` (violated) |
| `stop_hook` | 278 small projects, three of them edited twice while they are collected; a machine whose children hang, flood and fork, with a deadline | Does the hook always answer, truthfully, of one moment, and leave nothing behind? | `SnapshotOfOneMoment`, `EveryChangeIsSeen`, `ScheduleIsRight`, `NothingAdoptedOutlives`, `SilenceIsTruthful`, `EndpointAnswers` |
| `git_evidence` | walks and histories of up to three objects, a window of two, pipes with room for one and two, one fault; four texts with up to two edits since the review, six repositories, records of four kinds of release; `ReadLimit = 8`, `ByteLimit = 9`, `Candidates = 2`, `Troubles = 1`, `ProofLimit = 2` | Does the pipelined reader answer what was asked, and is what is concluded from history true and bounded? | `ReadsEnd`, `ReadsAsPromised`, `SearchesTellTheTruth`, `FocusedReadingIsSound`, `HandoffsToldTruly` |

A run whose subjects are disjoint (the cycle and the texts; the searches, the
advice and the reader) chooses one in its initial state and steps it alone.

### Why these bounds

Each hazard needs one event of one kind at a bad moment, and the runs place
every event at every moment.

- *Review cycle.* Two commands suffice for a race for one lock, since only one
  is past its wait. Two documents have one provider and one consumer, and the
  chain has a provider that is not direct. `MaxCounter = 3` makes both counters
  reach their limit within three acknowledgements or invalidations; the other
  runs set it out of reach. `RacingReplace` says whether an editor or Git may
  act between a command's comparison of a file and its rename. With a rename
  there is no atomic compare-and-replace, so such an edit is lost by design; in
  `review_cycle`, `review_external` and `review_live` it is FALSE, since
  `RenderKeepsText` and `SaveReplacesWhatWasLoaded` cannot hold in that window.
  It never restricts an editor at any other time, nor an edit of another file.
- *Installers.* A command, the crash of that command and the recovery by the
  next one is the shortest story; a second process adds the plan made before
  the other's lock, and one edit of the user's may fall into any of its gaps.
  Six inodes let every file of the pair be displaced and replaced twice.
- *Snapshot.* Two edits are enough for a mixture in one collection, and enough
  for what two equal collections cannot tell from rest: a change and its
  undoing, a listed but unread file that is deleted and written anew, and an
  ignore file that changes between Git's listing and Memoria's own reading of
  it. `SnapshotOfOneMoment` excepts only these: of the first two it says nothing
  (`restored`), of the third (`IgnoresStood`) that all that was read is of one
  moment, though the listing may not be. The run has projects for all three.
- *Reading Git.* Pipes with less room than one answer needs are where writers
  and readers wait on each other; a real pipe has more room and the model's
  behaviours with fewer objects. Budgets are small enough to end in every
  phase of a search.
- *Markers.* One block and one section may be open and one opening refused, so
  two lines inside and one on either side reach every state of the parser. The
  shortest paragraph in which an accepted link hides brackets has six symbols.
- *Lock texts.* A byte has four bits (the continuation bit of a varint and
  three of value), a varint 25 bits, so overlong and overflowing varints are
  short; the tables have up to 20 strings, and both expansion budgets and the
  threshold above which the text is compressed lie between texts of the
  twelve states. From each, every byte is changed to every other value,
  removed, doubled, or followed by another; the text is written over other
  tables, other frames and as format 2.

Deadlock is checked where the system never stops by itself: in the runs
`review_cycle`, `review_live` and `review_window`. The installers stop when their users want nothing
more and no budget is left, the Stop hook when it has answered, a reader when
its walk is done, a text on disk changes only once and an invalid one is not
rendered, so their cfgs say
CHECK_DEADLOCK FALSE; what must not stop there is stated by `RecoveryCompletes`,
`InterruptedSettles`, `EndpointAnswers` and `ReadsEnd`. Symmetry (of commands,
of inodes) is used in safety runs only.

Every module has its type invariant. The review cycle's, the workflow
installer's, the endpoint's and the reader's are proved, so no run spends time on
them.

### Fairness

`review_live`:

- `WF(Step(p))`: a process that holds the lock runs on; the code has no wait
  after the lock.
- `SF(Acquire(p))`: a waiting process polls the lock every 25 to 200 ms
  (`fs.rs:544-556`), and a freed lock is taken by one of those that poll. The
  lock is free again and again, so weak fairness would not be enough. A wait
  that ends in `busy` is an event with a budget: a timeout may happen a bounded
  number of times, and the command is then started again by its user.
- `WF(Review(d))`, `SF(AckReady(d))`, `SF(RenderAll)`: the people of the project
  do what `memoria check` asks for. This is an assumption on them, not on the
  code; `Converges` says that the code then lets them finish.
- No fairness on edits, invalidations, crashes and covers.

The installers: weak fairness of each process's own steps and of some next
plan, so that an interrupted operation meets another command; strong fairness
of the user's removal of what a refusal told him to remove (a blocking file, an
intent nobody recognizes). Nobody must edit, crash or fail.

The Stop hook: weak fairness of main, of the worker and of the clock, the
deadline being real time; children owe nothing, except on the calm machine,
where they run. `EndpointAnswers` therefore holds over children that hang.

The cat-file reader: weak fairness of the caller, of the writer thread, of the
thread that reads the output and of Git, which may also die.

### Refinements

`KeepsPromise` is `Promise!Spec`: `ReviewCycle` implements `ReviewPromise`, in
which a command is one atomic transition. `ReadsAsPromised` is
`Promise!Spec` of `ObjectReads`: the reader, its threads and its pipes implement
a walk in which every question is answered at once by Git's object or by a
failure that ends the walk.

### The disagreements

- `review_window`. `ack.rs:550` says of its final revalidation that "a
  concurrent change cannot slip in between the transition and the durable
  write". An editor saves after the final snapshot (`ack.rs:513`) and before
  the rename in `save`, where only the bytes of `memoria.lock` are compared. The
  stored record then describes inputs the worktree no longer has. What the
  design keeps even so is checked and proved: the record is of the inputs that
  were reviewed (`EveryRecordWasReviewed`), so the document is pending again.
- `skill_uninstall`. An uninstall writes its transaction before the rename that
  starts the removal (`skill.rs:1304`, `1311`). Interrupted between the two, it
  is "completed" by the next uninstall, which finds nothing to finish, reports
  success and leaves the package; `skill.rs:1287` says "The interrupted removal
  is now complete; nothing else to remove".
- `workflow_recovery`. `docs/cli.md:1471` says that every apply settles the
  record of an interrupted one first. The preview that every command runs
  before (`github_workflow.rs:514` of the use cases) refuses a workflow
  displaced by half, so no command gets as far as the recovery that would
  recognize it.

Smaller observations, met while modelling and modelled as the code has them:

- Recovery of the workflow pair recognizes each file by itself, so a mixture of
  an old and a new file is cleared, against the comment at
  `github_workflow.rs:930-934`.
- A step of the same installer that fails after its rename, or after a
  creation opened its file, counts as no mutation, and the intent is cleared
  although something moved, against `github_workflow.rs:1085-1087`.
- A child that was spawned and not yet adopted when main gives up may outlive
  the endpoint, against `bounded_process.rs:53-55`; hence
  `NothingAdoptedOutlives` speaks of adopted ones. Killing the group of a
  reaped leader also assumes that its pid was not used again.
- A Git discovery that times out is taken for "no project", so silence then
  says nothing; `SilenceIsTruthful` excludes it.
- The hook installer refuses for ever what it did itself, after a crash and a
  crash of the recovery from it (`hooks.rs:1330-1336`; section 4).
- A staging directory of the skill installer, left by a crash before its
  transaction is written, is an eligible input of reviews, against "a crash
  never changes review inputs" in `snapshot.rs`.
- The lock codec reads three kinds of text it never writes, against
  `lock_codec.rs:15-18`: a shared row used only once, a reviewer, note or reason
  with spaces around it, and a file path with `.`, `..` or a final slash; these
  are the exceptions of `AcceptedTextIsCanonical`. A raw text where compression
  is smaller is another, below the model's level. The module's comment speaks
  of format 2, `FORMAT_VERSION` is 3.

- An import whose opening marker stands in an HTML block (no blank line before
  it) is accepted, and its body is copied into HTML; `RenderingKeepsMeaning`
  excludes it (`Sheltered`).
- A `guidance` attribute glued to the value before it, or after an unclosed
  quote, is an advisory problem of its section only, against
  `markdown.rs:42-46`, by which a malformed one is structural.

## 4. The proofs

All theorems are for every value of the constants: every set of documents,
acyclic import graph, number of commands or processes, files, versions, budgets
and limits.

| Module | Theorem | Statement | Assumption |
|---|---|---|---|
| `ReviewCycleProofs` | `TypeCorrect` | `Spec => []TypeOK` | none |
| | `LockExclusion` | `Spec => []LockExcludes` | none |
| | `StoredValidity` | `Spec => []StoredStateValid` | none |
| | `LoadedStateFreshness` | `Spec => []LoadedStateIsFresh` | no checkout in `Budgets` |
| | `SavesReplaceWhatWasLoaded` | `Spec => SaveReplacesWhatWasLoaded` | `~RacingReplace` |
| | `RenderingKeepsText` | `Spec => RenderKeepsText` | `~RacingReplace` |
| | `RecordsComeFromReviews` | `Spec => []EveryRecordWasReviewed` | none |
| | `RecordsRendered` | `Spec => []RecordsAreRendered` | none |
| | `CycleKeepsPromise` | `Spec => KeepsPromise` | no checkout in `Budgets` |
| | `InvalidationsSurvive` | `Spec => []NoInvalidationLost` | no checkout in `Budgets` |
| | `CountersCount` | `Spec => []CountersCountEvents` | no checkout in `Budgets` |
| | `ProvidersFirst` | `Spec => []ProvidersReviewedFirst` | none |
| `StopHookProofs` | `SnapshotsOfOneMoment` | `StopHookSpec => []SnapshotOfOneMoment` | none |
| | `SchedulesAreRight` | `StopHookSpec => []ScheduleIsRight` | none |
| | `EveryChangeSeen` | `StopHookSpec => []EveryChangeIsSeen` | none |
| | `HookImplementsEndpoint` | `StopHookSpec => SpecEndpoint` | none |
| | `StopHookTypes` | `StopHookSpec => []TypeOK` | none |
| | `SilencesAreTruthful` | `StopHookSpec => []SilenceIsTruthful` | none |
| | `EndpointTypes` | `SpecEndpoint => []TypeOKEndpoint` | none |
| | `AdoptedGroupsEnd` | `SpecEndpoint => []NothingAdoptedOutlives` | none |
| `ImportsProofs` | `SearchFinds`, `OrderIs`, `ScheduleIs`, `InputsChangedIs` | what the loops of `Imports` compute | documents are paths, providers are documents |
| `CatFileProofs` | `StreamHolds` | `Spec => []IInv` | none |
| | `ReadsKeepTheirPromise` | `Spec => ReadsAsPromised` | none |
| | `PipesKeepTheirRooms` | `Spec => []TypeOK` | none |
| `HistoryProofs` | `TruthTold` | `Spec => []SearchesTellTheTruth` | `Searchable` manifests, `NoneIsNoAnswer` |
| | `FocusedIsSound` | `AdviceSpec => []FocusedReadingIsSound` | `Reviewable` projects |
| | `HandoffsTold` | `AdviceSpec => []HandoffsToldTruly` | `Reviewable` projects |
| `HookInstallProofs` | `TypeCorrect` | `Spec => []TypeOK` | none |
| | `UserPartKept` | `Spec => []UserPartSurvives` | none |
| | `OwnershipKept` | `Spec => []OwnershipCoherent` | `OriginalsAreTheUsers` |
| | `NoTraceLeft` | `Spec => []UninstallLeavesNoTrace` | `OriginalsAreTheUsers` |
| | `RefusalExplained` | `Spec => []RefusesOnlyWhatIsDone` | `OriginalsAreTheUsers` |
| `SkillInstallProofs` | `TypeCorrect` | `Spec => []TypeOK` | none |
| | `SettledContentKept` | `Spec => []SettledContentSurvives` | none |
| | `DisplacedAsPlanned` | `Spec => []DisplacesOnlyWhatWasPlanned` | none |
| | `OriginalFound` | `Spec => []OriginalReachable` | `OriginsAreInstallations` |
| `WorkflowInstallProofs` | `TypeCorrect` | `Spec => []TypeOK` | none |
| | `MutationsOnRecord` | `Spec => []MutationIsOnRecord` | none |
| | `OwnedPairsChange` | `Spec => []OnlyOwnedPairsChange` | none |
| | `EditorsTextsSurvive` | `Spec => []EditsSurvive` | none |
| | `ForeignEvidenceKept` | `Spec => EvidenceKept` | none |

### The review cycle

`TypeOK` is inductive with `RequestFits`, which says what request a command has
at each step, and it is used by everything else. `OneCommandMoves` and
`OnlyRenameStores` (a step of a command changes no other command's variables;
only `RenameState` changes the lock file) reduce each invariant to the step that
matters.

- `LockExcludes` is inductive with `TypeOK`.
- `StoredStateValid` needs `ValidInv`: every lock file ever stored is valid
  (a checkout may bring any of them back), and so is every state at "rename",
  which is what the validation in `CompareState` establishes.
- `LoadedStateIsFresh` needs `LockExcludes`: with a loaded state in hand a
  command holds the lock, so no other command can be at its rename. With `init`,
  which has loaded nothing under the lock, the comparison takes the lock's part.
- `SaveReplacesWhatWasLoaded` needs `ComparedInv` (at "rename" the file equals
  the loaded one) and `RenderKeepsText` needs `SpliceInv` (at "splice" the
  document equals the plan's): neither the lock nor the comparison alone gives
  them.
- `EveryRecordWasReviewed` and `RecordsAreRendered` come from `RecordsInv`: all
  artifacts are of rendered documents, and every record, of every lock file ever
  stored and of every planned state, is what some artifact says.
- `CycleKeepsPromise` needs `PlannedInv`: what a command is about to save is one
  transition of the state it loaded and, for `ack`, the artifact still binds
  that state (`CurrentArtifactBinds`: the gates of `ack` imply `Promise!Binds`).
  With `LoadedStateIsFresh` the rename is then a transition of the stored state.

Three theorems are about the history. `EveryStepIsAnEvent` reduces a step
to what it does to the stored state and the events: without checkouts, a review
is accepted, an invalidation raised, a base recorded, or nothing.

- `NoInvalidationLost` needs `RaisedOnce`: an id names one invalidation for ever
  and what is open under it was raised with that reason; otherwise a review
  could clear another invalidation than the one its artifact listed.
- `CountersCountEvents` needs `CountInv`: an accepted artifact is older than its
  document's record, so a review is not accepted twice, and each acceptance
  makes the set of accepted reviews one larger.
- `ProvidersReviewedFirst` needs `ChainInv`: every state that was ever stored is
  made of accepted reviews, so the providers that an artifact saw current were
  accepted before it was captured. Since it speaks of every stored state,
  checkouts do not matter.

Nothing is proved of the acyclic graph's recursive construction: `Closure` is
defined as the least set closed under imports.

### The snapshot

A read is a path and what was found there: a content, or whether the file
exists. `SnapshotInv` says that every read of the collection that runs is still
so in the worktree, or gone for good (`Fresh`: what was found has been
overwritten, and nothing comes back), and that every read of the collection
before it was so at the seam, or is gone and was not read again (`Past`). When
the two collections are equal, nothing they read can be gone, so all of it was
so at the seam. That nothing was *left out* needs more: the listing's answer for
a file it does not have is a read too (`ListReads`), the ignore files stand
(`Standing`), and the stages are left in their order, each with nothing unread
(`Orderly`); `FoldersEntered` shows that reading ignore files folder by folder
from the root ends at the folders one would enter knowing them all.

### The schedule and the silence

`ImportsProofs` is about pure algorithms, so what it proves is an induction over
rounds. `Loop` says once that a recursive function over `0 .. N` exists and what
its values are; `CountingTo` is induction over a *set* of numbers, proved from a
least counterexample, because the library's induction theorems cannot be
instantiated. The loops then have invariants like any other process:

- the search for cycles, `SearchInv`: the stack is a path of the graph whose
  documents are the grey ones, everything black has only black providers, and as
  long as nothing was reported the black documents are acyclic. `LessToDo` gives
  the measure that shows the number of steps in `FindCycles` to be enough;
- the merge of two manifests, `MergeInv`: as long as nothing was told, the
  entries passed are equal one by one. It assumes nothing of the stored
  manifest's order, which no one but the reader of the lock file has checked;
- the schedule: when a document is judged its providers have been, so what it
  waits for is the transitive closure (`UpstreamSettles`: as many rounds as there
  are documents are enough).

"No cycle" is stated as *every set of documents has one whose providers are all
outside it*; `CycleReaches` and `NoneReachesItself` show that this is what
`CyclesAreReported` asks, in terms of documents that reach themselves.
`RootCovers` takes the innermost document above a file: a handoff that took the
file away would lead to a document further in.

`ScheduleIsRight` and `EveryChangeIsSeen` then need of the snapshot only that a
complete collection is `Read`: it has the content of every document and source,
of the types that `TypeOKSnapshot` gives them.

`SilenceIsTruthful` follows one word through three processes. `Spoken`: a status
command that printed "quiet", a worker that sent "silent" after the third
command, and a main thread that answers so, each mean `Settled`: the collection
is built, valid, and its counts are zero. Once built it does not change. Counts
of zero are counts of empty sets (`NothingDue`), so no document is pending by
`ScheduleIsRight`'s lemmas, and `SnapshotOfOneMoment` puts the worktree of that
moment in place of the collection. `StopHookSpec` implements `SpecEndpoint`
(`HookImplementsEndpoint`), so the invariant of the endpoint is available.

The assumptions on the constants say what a file may hold: a state file has
finitely many invalidations and manifests that are sequences
(`StatesHoldReviews`), and imports name paths (`DocumentsImport`).

### The endpoint

The theorems are about `SpecEndpoint`, the endpoint with children that do
anything, which `StopHookSpec` implements: its third child is the snapshot. The inductive invariant relates how far the worker is
(`WorkerPlace`), what the supervisor owns at each step of either thread
(`OwnerState`: once cancelled it owns nothing, and nothing is adopted any more),
and the point itself (`OwnedOrDead`): a process of an adopted group lives only
while its group is owned, or on the list main is killing.

### The reader of Git objects

`ReadsKeepTheirPromise` is a refinement: whatever the threads, the pipes, a
deadline and a dying Git do, every answer is the one that a read of its object
alone would give, and the comparison's verdict follows from such answers. The
difficulty is that the caller does not know which object a byte belongs to; it
counts. So the invariant (`IInv`) is about the bytes:

- `Flow`: from the caller's buffer back through the channel, the output thread,
  the pipe and what Git has yet to write, the tokens follow one another
  (`Successive`), beginning with the one the caller is due; behind the last one,
  while Git lives, stand the requests not yet answered, in order and up to the
  last object asked for. A dead Git leaves a beginning of the stream, so the
  same is true without the requests.
- `Telling`, `Walking`, `Alone`: where the caller is in its batch, which requests
  it keeps pending, and that the historical reader has at most one.

Everything then follows from lemmas about streams. `FlowAsks`, `FlowAnswers`
and `FlowBreaks` are what the writer, Git and its death do to one; `FlowHeader`
and `FlowTells` are what the caller takes from the front. `HeaderIs` and
`ContentIs` conclude that the header it sees is of the object it waits for and
that the line feed is where it counts to, so neither check of the reader
(`HeaderOk`, `Terminated`) ever refuses an answer of a Git that answers in order.
`Discarded` is the rule that makes a reader
reusable: an answer not read to its end ends the process, so the next one begins
with an empty stream (with `HistoryHeaderKeeps` in its place the refinement
fails).

`Promised` lists what a step can be in the words of `ObjectReads`, and
`StepIsPromised` maps each to its action; `Wired` says that what is outstanding
there is the stretch of numbers from the last told object to the last request,
or, behind a dead Git, to the last token. What is assumed of the constants is
that a batch is a sequence of objects with a kind, a size and a use
(`BatchesAreObjects`), that no verdict is called undecided
(`UndecidedIsNoVerdict`), and that there is room for one of each (`RoomForOne`).
`PipesKeepTheirRooms` adds to the invariant that no pipe, channel or window holds
more than it has room for; the requests of the comparison wait with the writer.

### The searches of history

The theorem is about one search (`HistoryProofs!Spec`) of anything that is
`Searchable`: any entries, any commits with any contents of any size, any
budgets and any number of failed reads and passed deadlines. `git_evidence`
checks that the searches it starts are searchable.

A search keeps three flags and forgets what it read, so the invariant says what
a flag that is *not* set still means. `Flagged`: a listing that was not cut off
holds every recent commit. `OfLookup`: while the search is clear (no budget ran
out, no read failed), the entry is in none of the commits already tried.
`OfCoverage`: the commits passed over do not hold every input, and of the one
being read each input before the current one was verified or is not there.
`OfCover`: a round starts with a fresh budget, which is why "exhausted" in a
first read means that the input is too large, and the entry a round stopped at
has been read at most once, which is why none is read three times. `AllTried`,
`AllListed` and `WhyIsTrue` turn the end of a search into what its answer says.
`JoinedIs` is about the list of candidates, a recursive function: it keeps the
known commits in place and loses none of the listed ones.

The proof changed one property: an exhausted check means an input larger than
the byte budget *or a read budget of zero*; it had asked for a present input in
both cases, which is false at `ReadLimit = 0`.

### The advice

`AdviceSpec` is the command that looks the missing bodies up and then advises,
for any two projects, any record that some release stored of the first one, and
anything Git may hold or fail to give. The invariant is short: `LookedUp`, no
entry is passed that is neither found nor missed, and `Compared`, what was looked
up is what the comparison needs. The rest is about the operators:

- `FilesTell`: when the merge of the recorded and the present sources tells
  nothing of added or removed ones, both lists have the same sources and each one
  that differs is told. `ManifestIs` gives it its two sorted lists, and
  `ImportsTell` is the same for imported bodies.
- `TextIsFound`: without a miss the reviewed text is at hand. `Advice` compares
  section associations only if it has that text, so this is what keeps a silent
  skip out of focused advice; it is where `NeededWithoutText` would fail.
- `OnlyOneProof`: a token is injective in what it binds, so the candidates that
  reproduce it are the handoffs, or the README boundaries, of the recorded review,
  and no set of the other kind reproduces it (`layout`). `FormerIs` concludes that
  recorded or proven folders are those that the review left out; `CameFor`, that
  an added source has one reason.

`Reviewable` asks that a project has its subject's parsed document, sources that
are paths and imports that are paths and numbers; `git_evidence` checks that the
projects it starts with are.

### The hook installer

A write is prepared from one read of the configuration and of the record, and
lands several steps later, perhaps after a crash and by another command. `IInv`
follows it. `Alone`: whoever is past its plan holds the lock. `Tidy`: what a
command is about to write has the user's part of what it read, so
`UserPartSurvives` is kept by a replacement that replaces what was read, which is
what `raced` says. `OnRecord`: without an intent the configuration and the record
fit each other (`Fits`); with one, both of its pairs fit, and the two files are
at the first pair, or the configuration is at the second and the record at
either. `AtItsPlace`: each step of a command knows at which of these it is. A
step may rely on `OnRecord` only until somebody edits what Memoria owns; an edit
of the user's part changes nothing that `Like` compares. `UninstallLeavesNoTrace`
is `Fits` without a record, and `Fits` with one is the reason it holds: the
configuration is then the first one with the recorded group inserted, and the
record claims exactly the containers the first one had not. `RemovalUndoes` and
`InlineRemovalUndoes` say that taking that group and those containers away gives
the first configuration back; `InstallationFits` and `InlineInstallationFits`,
that a relocation, which removes and inserts again and adds the old claims to its
own, ends at the same two facts.

The configuration's groups are a sequence and the installer filters it, so the
lemmas are about filtering: it commutes with appending (`OnlyAppend`), two filters
are one (`OnlyOfOnly`), and filtering out what is not there changes nothing
(`NothingToTake`). The library's induction theorems cannot be instantiated, so
`CountingUp` and `SequencesFromTheEnd` state induction over a *set* of numbers or
of sequences, proved from a least counterexample, and `Only` is a recursive
function rather than an operator. `OriginalsAreTheUsers` says that no group is
Memoria's before the first command: a file that already held one would be
`unmanaged` and refused.

`RefusalExplained` came out of the proof. Recovery that finds the configuration
landed finishes the record step (`hooks.rs:1338-1353`) without first writing the
phase `configuration-written`, as the ordinary path does before the same step. If
that recovery dies in its turn, before it clears the intent, the phase is
`started` and the record is the desired one, which recovery refuses, with the
message that the file "changed while an interrupted Memoria operation was
pending" (`hooks.rs:1327`; the comment at 1331 says "the record step had not
started"): nobody changed it, and every later install and uninstall refuses
until the user removes the recovery record by hand. It needs two crashes, one in
each command, so `hook_install` with its one crash does not meet it. The theorem
says that it is the only such state, and that removing the intent loses nothing
there: both files are as the interrupted operation wanted them.

### The skill installer

`IInv` is `TypeOK`, `LockHeld`, `SettledContentSurvives` and, for each command,
`CommandOK`: what it has in its hands at its step, that what it is about to
delete, or to move where it will be deleted (`Doomed`), holds nothing settled,
and `AsPlanned`. `Doomed` is what makes `SettledContentSurvives` inductive: the
check of ownership and the deletion it permits are several steps apart, and what
a user writes in between was not settled.

`OriginalReachable` speaks of rest, and its proof of every step between two
rests. `TraceInv` has three parts. `KeptApart`: the files of a displaced original
are in one directory, which has no record. `Underway`: which transaction is on
disk at which step. `Traced`, unless the user was told otherwise: each original is
where the records of the installed package lead (`Installed`, a set of packages
closed under "my backup" up to the original), or, while the package is displaced,
where the records of the directory lead that the transaction brings back
(`Swapped`, `Removed`); and what is staged leads to the same place (`StagedRight`),
so it does not matter whether recovery goes forward or back. `ChainFindsIt` then
shows that the code's chain, the least set of packages closed under their
backups, ends at that original and nowhere else. The constants' assumptions say
what the disk may hold before the first command: typed directories
(`OriginsAreDirectories`), each piece of content in one place, and no original in
a backup that the installed package does not lead to (`OriginsAreInstallations`;
a directory of the user's own that happens to have a backup's name is no
original). Backup names are not those of the three other places
(`BackupsAreNumbered`).

### The workflow installer

`IInv` is `TypeOK /\ LockHeld /\ Recording /\ Handling`. `LockHeld` says that
exactly the holder is past its wait; `Recording`, that there is no intent
before the decision and the decided one after it; `Handling`, which inode a
process has in its hands, that two names are never one file, and that what an
editor wrote or has open has a name or a backup. `EditsSurvive` needs all three:
an editor's text could otherwise be in an inode that a process is about to
unlink as its own.

Only model-checked: liveness (fairness and ENABLED are out of the prover's
reach), and the lock texts and the parsed sections, whose loops are RECURSIVE
operators over data (the codec's round trip).

## 5. Not modelled, and what is left

| Part | Why |
|---|---|
| Artifact saving (`infrastructure/artifact.rs`) | Writes a fresh file; nothing reads it back but its user. |
| Packets and JSON (`packet.rs`, `json.rs`, `render.rs` of the infrastructure) | Text to values and back. Their content, the artifact's fields and what binds them, is in `ReviewCycle`. |
| CommonMark, the characters of a marker | A library, and spelling: `Markup` starts from lines and attributes, `Snapshot` from parsed documents. |
| Presentation, argument parsing, help | Wording and layout. |
| Configuration file, glob syntax | TOML and pattern characters; `Layout` starts from parsed rules and from what they match. |
| Canonical bytes and hashes | A digest is the value it is of; collisions are left out. |
| Git subprocess arguments, parsing of its output | External; `History` and `CatFile` model what is asked and answered. |

A part is listed as *partly* modelled in `PROJECT.json` where an operation of it
is left out; its note says which.

Left to prove: what `LockCodec` and `Markup` compute.
