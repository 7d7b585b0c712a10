----------------------------- MODULE ReviewCycle -----------------------------
(***************************************************************************)
(* The review cycle of a project: editors change documents and sources,    *)
(* reviewers capture artifacts, and the commands `init`, `ack`,            *)
(* `ack --cover`, `invalidate` and `render` change `memoria.lock` or       *)
(* import bodies in several steps under an advisory write lock that only   *)
(* they respect.                                                           *)
(*                                                                         *)
(* A snapshot is one step here: `snapshot::build` reads the project twice  *)
(* and refuses a pair of unequal reads.  A compare-and-replace of a file   *)
(* is two steps, the comparison and the rename, as in the code.            *)
(***************************************************************************)
EXTENDS ReviewState, FiniteSets

CONSTANTS
    Docs,          \* the documents a project may track
    Root,          \* the root README, which every valid project tracks
    Imports,       \* [Docs -> SUBSET Docs]: the providers a document imports
    Text,          \* a document's own bytes, outside its import bodies
    FirstText,     \* the text of every document of the initial project
    Files,         \* what a document covers: its selection policy and the
                   \* bytes of the files the policy selects
    FirstFiles,    \* what every document of the initial project covers
    Exports,       \* export bodies
    ExportOf,      \* [Text -> Exports]: the export a text contains
    Guidance,      \* project guidance
    FirstGuidance, \* the guidance of the initial project
    Reasons,       \* reasons given to `memoria invalidate`
    Scopes,        \* the sets of documents an invalidation scope may cover
    Procs,         \* Memoria commands that may run at the same time
    Free,          \* the write lock's value when no command holds it
    BaseOutcomes,  \* what the history check of an `ack` may conclude
    Budgets,       \* [EventKinds -> Nat]: bounds on the environment's events
    RacingReplace  \* whether editors and Git may act on a file between a
                   \* command's comparison of that file and its rename

EventKinds == {"edit", "hand", "guide", "track", "checkout",
               "init", "invalidate", "crash", "busy"}

-----------------------------------------------------------------------------
(* The import graph.                                                       *)

ClosedUnderImports(S) == \A q \in S : Imports[q] \subseteq S

(* The documents `d` depends on: its providers, their providers, ...       *)
Closure ==
    [d \in Docs |->
        {p \in Docs : \A S \in SUBSET Docs :
            Imports[d] \subseteq S /\ ClosedUnderImports(S) => p \in S}]

ASSUME GraphAssumption ==
    /\ IsFiniteSet(Docs)
    /\ Root \in Docs
    /\ Imports \in [Docs -> SUBSET Docs]
    /\ \A d \in Docs : d \notin Closure[d]

ASSUME ContentAssumption ==
    /\ FirstText \in Text
    /\ FirstFiles \in Files
    /\ ExportOf \in [Text -> Exports]
    /\ FirstGuidance \in Guidance
    /\ Scopes \subseteq SUBSET Docs
    /\ BaseOutcomes \subseteq BOOLEAN

ASSUME EnvironmentAssumption ==
    /\ Free \notin Procs
    /\ Budgets \subseteq [EventKinds -> Nat]
    /\ RacingReplace \in BOOLEAN

-----------------------------------------------------------------------------
VARIABLES
    tracked,    \* the documents the worktree holds and tracks
    text,       \* [Docs -> Text]
    files,      \* [Docs -> Files]
    body,       \* the import bodies of every document
    guidance,   \* the effective guidance
    lockFile,   \* memoria.lock: whether it exists, and the state it decodes to
    artifacts,  \* every artifact a reviewer ever captured
    lockHolder, \* the command that holds the write lock, or Free
    pc,         \* the step each command is at
    req,        \* what each command was asked to do
    loaded,     \* the lock file a command loaded under the lock
    planned,    \* the state a command is about to save
    budget,     \* remaining events of each kind
    raised,     \* history: the invalidations `invalidate` saved
    accepted,   \* history: the artifacts `ack` saved
    stored      \* history: every lock file that was ever stored

worktree == <<tracked, text, files, body, guidance>>
commands == <<lockHolder, pc, req, loaded, planned>>
history  == <<raised, accepted, stored>>
vars == <<worktree, lockFile, artifacts, commands, budget, history>>

-----------------------------------------------------------------------------
(* What a snapshot of the worktree and of the lock file computes.          *)

(* No error diagnostic: the root README exists and every import of a       *)
(* tracked document names a tracked provider.                              *)
TreeValid ==
    /\ Root \in tracked
    /\ \A d \in tracked : Imports[d] \subseteq tracked

ExportBody(p) == ExportOf[text[p]]

Manifest(d) ==
    [text    |-> text[d],
     files   |-> files[d],
     body    |-> body[d],
     imports |-> [p \in Imports[d] |-> ExportBody(p)]]

OutdatedImports(d) == {p \in Imports[d] : body[d][p] # ExportBody(p)}

State == lockFile.state

(* No cause of schedule(): reviewed, unchanged, and not invalidated.       *)
Current(d) ==
    /\ d \in DOMAIN State.reviews
    /\ State.reviews[d].inputs = Manifest(d)
    /\ ActiveInvalidations(State, d) = {}

Pending(d) == ~Current(d)

(* Mutants: only direct providers are looked at; the document is taken     *)
(* for a provider of its own.                                              *)
WaitingOnDirect(d) == \E p \in Imports[d] : Pending(p)
WaitingOnItself(d) == \E p \in Closure[d] \cup {d} : Pending(p)

(* A document waits while a provider is pending or itself waits.           *)
Waiting(d) == \E p \in Closure[d] : Pending(p)

Ready(d) == Pending(d) /\ ~Waiting(d)

ProviderDescriptor(p) ==
    [inputs   |-> Manifest(p),
     guidance |-> guidance,
     revision |-> DocumentRevision(State, p),
     active   |-> CoveredPairs(State, p)]

Context(d) == [p \in Closure[d] |-> ProviderDescriptor(p)]

Consumers(d) == {c \in tracked : d \in Imports[c]}

(* The artifact `memoria review d` captures.  Its token is the hash of     *)
(* exactly these fields, so equal tokens mean equal fields.                *)
Capture(d) ==
    [doc       |-> d,
     revision  |-> DocumentRevision(State, d),
     inputs    |-> Manifest(d),
     baseline  |-> Baseline(State, d),
     guidance  |-> guidance,
     context   |-> Context(d),
     consumers |-> Consumers(d),
     covered   |-> CoveredPairs(State, d)]

(* The gates of `ack` on one snapshot: a valid project that still tracks   *)
(* the document, the reviewed inputs, the reviewed guidance, no waiting    *)
(* provider, and the recomputed token, which binds the artifact's own      *)
(* covered set.                                                            *)
TokenMatches(a) == [Capture(a.doc) EXCEPT !.covered = a.covered] = a

(* A mutant: a small artifact is checked for its inputs alone.             *)
ArtifactInputsCurrent(a) ==
    /\ TreeValid
    /\ a.doc \in tracked
    /\ a.inputs = Manifest(a.doc)
    /\ a.guidance = guidance

ArtifactCurrent(a) ==
    /\ TreeValid
    /\ a.doc \in tracked
    /\ a.inputs = Manifest(a.doc)
    /\ a.guidance = guidance
    /\ ~Waiting(a.doc)
    /\ TokenMatches(a)

-----------------------------------------------------------------------------
(* Initial project: every document is tracked, nothing was ever reviewed,  *)
(* no lock file exists, and import bodies may or may not be rendered.      *)

AbsentFile == [exists |-> FALSE, state |-> EmptyState]
NoRequest  == [kind |-> "none"]

Bodies == {f \in [Docs -> UNION {[I -> Exports] : I \in SUBSET Docs}] :
              \A d \in Docs : DOMAIN f[d] = Imports[d]}

Init ==
    /\ tracked = Docs
    /\ text = [d \in Docs |-> FirstText]
    /\ files = [d \in Docs |-> FirstFiles]
    /\ body \in Bodies
    /\ guidance = FirstGuidance
    /\ lockFile = AbsentFile
    /\ artifacts = {}
    /\ lockHolder = Free
    /\ pc = [p \in Procs |-> "idle"]
    /\ req = [p \in Procs |-> NoRequest]
    /\ loaded = [p \in Procs |-> AbsentFile]
    /\ planned = [p \in Procs |-> EmptyState]
    /\ budget \in Budgets
    /\ raised = {}
    /\ accepted = {}
    /\ stored = {lockFile}

-----------------------------------------------------------------------------
(* Editors and Git: they take no lock.                                     *)

Spend(kind) ==
    /\ budget[kind] > 0
    /\ budget' = [budget EXCEPT ![kind] = @ - 1]

(* No command is between its comparison of `d` and the rename over it.     *)
MayTouchDocument(d) ==
    RacingReplace \/ \A p \in Procs : ~(pc[p] = "splice" /\ req[p].doc = d)

MayTouchLockFile ==
    RacingReplace \/ \A p \in Procs : pc[p] # "rename"

(* An editor saves a document. *)
Edit(d, t) ==
    /\ d \in tracked
    /\ t # text[d]
    /\ MayTouchDocument(d)
    /\ Spend("edit")
    /\ text' = [text EXCEPT ![d] = t]
    /\ UNCHANGED <<tracked, files, body, guidance, lockFile, artifacts, commands,
                   history>>

(* An editor saves a source that a document covers, or its policy.         *)
EditFiles(d, f) ==
    /\ d \in tracked
    /\ f # files[d]
    /\ Spend("edit")
    /\ files' = [files EXCEPT ![d] = f]
    /\ UNCHANGED <<tracked, text, body, guidance, lockFile, artifacts, commands,
                   history>>

(* An editor writes between the markers of an import block.                *)
HandEdit(d, p, e) ==
    /\ d \in tracked
    /\ e # body[d][p]
    /\ MayTouchDocument(d)
    /\ Spend("hand")
    /\ body' = [body EXCEPT ![d] = [@ EXCEPT ![p] = e]]
    /\ UNCHANGED <<tracked, text, files, guidance, lockFile, artifacts, commands,
                   history>>

ChangeGuidance(g) ==
    /\ g # guidance
    /\ Spend("guide")
    /\ guidance' = g
    /\ UNCHANGED <<tracked, text, files, body, lockFile, artifacts, commands,
                   history>>

(* A document is deleted or loses its markers, or comes back.              *)
Track(d) ==
    /\ MayTouchDocument(d)
    /\ Spend("track")
    /\ tracked' = IF d \in tracked THEN tracked \ {d} ELSE tracked \cup {d}
    /\ UNCHANGED <<text, files, body, guidance, lockFile, artifacts, commands,
                   history>>

(* Git puts an earlier lock file into the worktree.                        *)
Checkout(f) ==
    /\ f # lockFile
    /\ MayTouchLockFile
    /\ Spend("checkout")
    /\ lockFile' = f
    /\ UNCHANGED <<worktree, artifacts, commands, history>>

-----------------------------------------------------------------------------
(* A mutant: outdated imports do not stop a review.                        *)
ReviewUnrendered(d) ==
    /\ TreeValid
    /\ d \in tracked
    /\ Ready(d)
    /\ artifacts' = artifacts \cup {Capture(d)}
    /\ UNCHANGED <<worktree, lockFile, commands, budget, history>>

(* `memoria review d`: read-only.  The document must be ready and its      *)
(* import bodies rendered.                                                 *)
Review(d) ==
    /\ TreeValid
    /\ d \in tracked
    /\ Ready(d)
    /\ OutdatedImports(d) = {}
    /\ artifacts' = artifacts \cup {Capture(d)}
    /\ UNCHANGED <<worktree, lockFile, commands, budget, history>>

-----------------------------------------------------------------------------
(* What every writing command shares.  `init`, `invalidate` and `render`   *)
(* read the project, then wait for the lock; `ack` reads it only under the *)
(* lock, so its wait is not a state of its own.                            *)

Goto(p, step) == pc' = [pc EXCEPT ![p] = step]

Request(p, request) ==
    /\ pc[p] = "idle"
    /\ req' = [req EXCEPT ![p] = request]
    /\ UNCHANGED <<worktree, lockFile, artifacts, loaded, planned, history>>

(* A mutant: the lock is taken whoever holds it.                           *)
AcquireAlways(p, step) ==
    /\ lockHolder' = p
    /\ Goto(p, step)

AcquireFor(p, step) ==
    /\ lockHolder = Free
    /\ lockHolder' = p
    /\ Goto(p, step)

(* A mutant: the request outlives its command.                             *)
ForgetAllButRequest(p) ==
    /\ Goto(p, "idle")
    /\ loaded' = [loaded EXCEPT ![p] = AbsentFile]
    /\ planned' = [planned EXCEPT ![p] = EmptyState]
    /\ UNCHANGED req

Forget(p) ==
    /\ Goto(p, "idle")
    /\ req' = [req EXCEPT ![p] = NoRequest]
    /\ loaded' = [loaded EXCEPT ![p] = AbsentFile]
    /\ planned' = [planned EXCEPT ![p] = EmptyState]

(* The command ends and the operating system drops its lock.               *)
Finish(p) == Forget(p) /\ lockHolder' = Free

Acquire(p) ==
    /\ pc[p] = "wait"
    /\ AcquireFor(p, CASE req[p].kind = "invalidate" -> "load"
                        [] req[p].kind = "init"       -> "compare"
                        [] OTHER                      -> "apply")
    /\ UNCHANGED <<worktree, lockFile, artifacts, req, loaded, planned, budget,
                   history>>

(* The wait budget ends while another command holds the lock.              *)
Busy(p) ==
    /\ pc[p] = "wait"
    /\ lockHolder # Free
    /\ Spend("busy")
    /\ Forget(p)
    /\ UNCHANGED <<worktree, lockFile, artifacts, lockHolder, history>>

(* A mutant: whoever dies, the lock is freed.                              *)
CrashFreesLock(p) ==
    /\ pc[p] # "idle"
    /\ Spend("crash")
    /\ Forget(p)
    /\ lockHolder' = Free
    /\ UNCHANGED <<worktree, lockFile, artifacts, history>>

(* The process dies, or a step before a rename fails.                      *)
Crash(p) ==
    /\ pc[p] # "idle"
    /\ Spend("crash")
    /\ Forget(p)
    /\ lockHolder' = IF lockHolder = p THEN Free ELSE lockHolder
    /\ UNCHANGED <<worktree, lockFile, artifacts, history>>

-----------------------------------------------------------------------------
(* Saving: compare the stored bytes with the loaded ones, then rename.     *)

Plan(p, state) == planned' = [planned EXCEPT ![p] = state]

(* Mutants: the planned state is not validated; the stored bytes are not   *)
(* compared.                                                               *)
CompareWithoutValidation(p) ==
    /\ pc[p] = "compare"
    /\ IF lockFile = loaded[p]
         THEN /\ Goto(p, "rename")
              /\ UNCHANGED <<lockHolder, req, loaded, planned>>
         ELSE Finish(p)
    /\ UNCHANGED <<worktree, lockFile, artifacts, budget, history>>

SaveWithoutComparison(p) ==
    /\ pc[p] = "compare"
    /\ IF StateValid(planned[p])
         THEN /\ Goto(p, "rename")
              /\ UNCHANGED <<lockHolder, req, loaded, planned>>
         ELSE Finish(p)
    /\ UNCHANGED <<worktree, lockFile, artifacts, budget, history>>

(* StateStore::save up to the rename: it refuses an invalid state and a    *)
(* lock file that is no longer the one the command loaded.                 *)
CompareState(p) ==
    /\ pc[p] = "compare"
    /\ IF StateValid(planned[p]) /\ lockFile = loaded[p]
         THEN /\ Goto(p, "rename")
              /\ UNCHANGED <<lockHolder, req, loaded, planned>>
         ELSE Finish(p)
    /\ UNCHANGED <<worktree, lockFile, artifacts, budget, history>>

(* The rename makes the new lock file visible; the command then ends,      *)
(* whether or not the directory sync that follows succeeds.                *)
RenameState(p) ==
    /\ pc[p] = "rename"
    /\ lockFile' = [exists |-> TRUE, state |-> planned[p]]
    /\ stored' = stored \cup {lockFile'}
    /\ raised' = IF req[p].kind = "invalidate"
                   THEN raised \cup {[id      |-> loaded[p].state.nextId,
                                      reason  |-> req[p].reason,
                                      targets |-> req[p].targets]}
                   ELSE raised
    /\ accepted' = IF req[p].kind = "ack"
                     THEN accepted \cup {req[p].artifact}
                     ELSE accepted
    /\ Finish(p)
    /\ UNCHANGED <<worktree, artifacts, budget>>

-----------------------------------------------------------------------------
(* `memoria init --apply`: it saves the empty state if it found no lock    *)
(* file before it waited.  What a command that is idle has loaded and      *)
(* planned, no file and the empty state, is just that.                     *)

StartInit(p) ==
    /\ Root \in tracked
    /\ ~lockFile.exists
    /\ Request(p, [kind |-> "init"])
    /\ Goto(p, "wait")
    /\ Spend("init")
    /\ UNCHANGED lockHolder

-----------------------------------------------------------------------------
(* `memoria ack d --packet FILE`.  Any artifact may be presented at any    *)
(* time and more than once.                                                *)

StartAck(p, a) ==
    /\ Request(p, [kind |-> "ack", artifact |-> a])
    /\ AcquireFor(p, "check")
    /\ UNCHANGED budget

(* Stage 3: the first snapshot under the lock.                             *)
AckCheck(p) ==
    /\ pc[p] = "check"
    /\ IF ArtifactCurrent(req[p].artifact)
         THEN /\ Goto(p, "transition")
              /\ UNCHANGED <<lockHolder, req, loaded, planned>>
         ELSE Finish(p)
    /\ UNCHANGED <<worktree, lockFile, artifacts, budget, history>>

(* Stage 4: a fresh load, and the domain transition in memory.             *)
AckTransition(p) ==
    /\ pc[p] = "transition"
    /\ LET a == req[p].artifact
       IN  IF StateValid(State) /\ CanAcknowledge(State, a)
             THEN /\ \E base \in BaseOutcomes :
                        Plan(p, Acknowledge(State, a, base))
                  /\ loaded' = [loaded EXCEPT ![p] = lockFile]
                  /\ Goto(p, "recheck")
                  /\ UNCHANGED <<lockHolder, req>>
             ELSE Finish(p)
    /\ UNCHANGED <<worktree, lockFile, artifacts, budget, history>>

(* Stage 5: the final snapshot before the save.                            *)
AckRecheck(p) ==
    /\ pc[p] = "recheck"
    /\ IF ArtifactCurrent(req[p].artifact)
         THEN /\ Goto(p, "compare")
              /\ UNCHANGED <<lockHolder, req, loaded, planned>>
         ELSE Finish(p)
    /\ UNCHANGED <<worktree, lockFile, artifacts, budget, history>>

-----------------------------------------------------------------------------
(* `memoria invalidate SCOPE --reason R`: the targets are the documents    *)
(* tracked before the command waits for the lock.                          *)

StartInvalidate(p, scope, reason) ==
    /\ scope \cap tracked # {}
    /\ Request(p, [kind    |-> "invalidate",
                   scope   |-> scope,
                   reason  |-> reason,
                   targets |-> scope \cap tracked])
    /\ Goto(p, "wait")
    /\ Spend("invalidate")
    /\ UNCHANGED lockHolder

LoadInvalidate(p) ==
    /\ pc[p] = "load"
    /\ req[p].kind = "invalidate"
    /\ IF StateValid(State) /\ CanInvalidate(State)
         THEN /\ Plan(p, AddInvalidation(State, req[p].scope, req[p].reason,
                                         req[p].targets))
              /\ loaded' = [loaded EXCEPT ![p] = lockFile]
              /\ Goto(p, "compare")
              /\ UNCHANGED <<lockHolder, req>>
         ELSE Finish(p)
    /\ UNCHANGED <<worktree, lockFile, artifacts, budget, history>>

-----------------------------------------------------------------------------
(* `memoria ack d --cover`: it reads no snapshot.  The comparison of the   *)
(* reviewed inputs with HEAD may come out either way.                      *)

StartCover(p, d) ==
    /\ Request(p, [kind |-> "cover", doc |-> d])
    /\ AcquireFor(p, "load")
    /\ UNCHANGED budget

LoadCover(p) ==
    /\ pc[p] = "load"
    /\ req[p].kind = "cover"
    /\ LET d == req[p].doc
       IN  \/ /\ lockFile.exists
              /\ StateValid(State)
              /\ d \in DOMAIN State.reviews
              /\ ~State.reviews[d].base
              /\ Plan(p, RecordBase(State, d))
              /\ loaded' = [loaded EXCEPT ![p] = lockFile]
              /\ Goto(p, "compare")
              /\ UNCHANGED <<lockHolder, req>>
           \/ Finish(p)
    /\ UNCHANGED <<worktree, lockFile, artifacts, budget, history>>

-----------------------------------------------------------------------------
(* `memoria render [DOCUMENT]`: the replacements come from a snapshot      *)
(* taken before the lock; each document is compared with that snapshot and *)
(* replaced on its own, and the first difference ends the command.         *)

Replacement(d) ==
    [text   |-> text[d],
     before |-> body[d],
     after  |-> [p \in Imports[d] |-> ExportBody(p)]]

StartRender(p, selected) ==
    LET outdated == {d \in selected : OutdatedImports(d) # {}}
    IN  /\ TreeValid
        /\ outdated # {}
        /\ Request(p, [kind |-> "render",
                       plan |-> [d \in outdated |-> Replacement(d)]])
        /\ Goto(p, "wait")
        /\ UNCHANGED <<lockHolder, budget>>

(* Mutants: only the import bodies are compared; a difference is retried   *)
(* under the lock.                                                         *)
CompareBodies(p, d) ==
    /\ pc[p] = "apply"
    /\ d \in DOMAIN req[p].plan
    /\ IF body[d] = req[p].plan[d].before
         THEN /\ Goto(p, "splice")
              /\ req' = [req EXCEPT ![p] = [kind |-> "render",
                                            plan |-> req[p].plan,
                                            doc  |-> d]]
              /\ UNCHANGED <<lockHolder, loaded, planned>>
         ELSE Finish(p)
    /\ UNCHANGED <<worktree, lockFile, artifacts, budget, history>>

CompareUntilEqual(p, d) ==
    /\ pc[p] = "apply"
    /\ d \in DOMAIN req[p].plan
    /\ d \in tracked
    /\ text[d] = req[p].plan[d].text
    /\ body[d] = req[p].plan[d].before
    /\ Goto(p, "splice")
    /\ req' = [req EXCEPT ![p] = [kind |-> "render", plan |-> req[p].plan,
                                  doc |-> d]]
    /\ UNCHANGED <<lockHolder, loaded, planned, worktree, lockFile, artifacts,
                   budget, history>>

CompareDocument(p, d) ==
    /\ pc[p] = "apply"
    /\ d \in DOMAIN req[p].plan
    /\ IF /\ d \in tracked
          /\ text[d] = req[p].plan[d].text
          /\ body[d] = req[p].plan[d].before
         THEN /\ Goto(p, "splice")
              /\ req' = [req EXCEPT ![p] = [kind |-> "render",
                                            plan |-> req[p].plan,
                                            doc  |-> d]]
              /\ UNCHANGED <<lockHolder, loaded, planned>>
         ELSE Finish(p)
    /\ UNCHANGED <<worktree, lockFile, artifacts, budget, history>>

(* The rename replaces the whole document with the bytes of the plan.      *)
RenameDocument(p) ==
    /\ pc[p] = "splice"
    /\ LET d    == req[p].doc
           plan == req[p].plan
           rest == DOMAIN plan \ {d}
       IN  /\ tracked' = tracked \cup {d}
           /\ text' = [text EXCEPT ![d] = plan[d].text]
           /\ body' = [body EXCEPT ![d] = plan[d].after]
           /\ IF rest = {}
                THEN Finish(p)
                ELSE /\ Goto(p, "apply")
                     /\ req' = [req EXCEPT ![p] =
                                  [kind |-> "render",
                                   plan |-> [x \in rest |-> plan[x]]]]
                     /\ UNCHANGED <<lockHolder, loaded, planned>>
    /\ UNCHANGED <<files, guidance, lockFile, artifacts, budget, history>>

-----------------------------------------------------------------------------
Environment ==
    \/ \E d \in Docs, t \in Text : Edit(d, t)
    \/ \E d \in Docs, f \in Files : EditFiles(d, f)
    \/ \E d \in Docs : \E p \in Imports[d], e \in Exports : HandEdit(d, p, e)
    \/ \E g \in Guidance : ChangeGuidance(g)
    \/ \E d \in Docs : Track(d)
    \/ \E f \in stored : Checkout(f)

Begin(p) ==
    \/ StartInit(p)
    \/ \E a \in artifacts : StartAck(p, a)
    \/ \E d \in Docs : StartCover(p, d)
    \/ \E scope \in Scopes, reason \in Reasons : StartInvalidate(p, scope, reason)
    \/ \E d \in tracked : StartRender(p, {d})
    \/ StartRender(p, tracked)

(* The steps of a command that has the lock.                               *)
Step(p) ==
    \/ AckCheck(p)
    \/ AckTransition(p)
    \/ AckRecheck(p)
    \/ LoadInvalidate(p)
    \/ LoadCover(p)
    \/ CompareState(p)
    \/ RenameState(p)
    \/ \E d \in Docs : CompareDocument(p, d)
    \/ RenameDocument(p)

Next ==
    \/ Environment
    \/ \E d \in Docs : Review(d)
    \/ \E p \in Procs : Begin(p) \/ Acquire(p) \/ Busy(p) \/ Crash(p) \/ Step(p)

Spec == Init /\ [][Next]_vars

-----------------------------------------------------------------------------
(* Types.                                                                  *)

(* A function from some of the documents to R.                             *)
Partial(f, R) == DOMAIN f \subseteq Docs /\ f \in [DOMAIN f -> R]

SomeBodies == UNION {[I -> Exports] : I \in SUBSET Docs}

Manifests ==
    [text : Text, files : Files, body : SomeBodies, imports : SomeBodies]

Pairs == [id : Nat, reason : Reasons]

Records ==
    [revision : Nat, inputs : Manifests, guidance : Guidance,
     acknowledged : SUBSET Nat, base : BOOLEAN]

Invalidations ==
    [id : Nat, scope : SUBSET Docs, reason : Reasons,
     targets : SUBSET Docs, pending : SUBSET Docs]

Descriptors ==
    [inputs : Manifests, guidance : Guidance, revision : Nat,
     active : SUBSET Pairs]

IsState(s) ==
    /\ s.revision \in Nat
    /\ s.nextId \in Nat
    /\ Partial(s.reviews, Records)
    /\ s.invalidations \subseteq Invalidations

IsLockFile(f) == f.exists \in BOOLEAN /\ IsState(f.state)

IsArtifact(a) ==
    /\ a.doc \in Docs
    /\ a.revision \in Nat
    /\ a.inputs \in Manifests
    /\ a.baseline \subseteq Records
    /\ a.guidance \in Guidance
    /\ a.context \in [Closure[a.doc] -> Descriptors]
    /\ a.consumers \subseteq Docs
    /\ a.covered \subseteq Pairs

Replacements(d) ==
    [text   : Text,
     before : [Imports[d] -> Exports],
     after  : [Imports[d] -> Exports]]

InitRequest(r)  == r.kind = "init"
AckRequest(r)   == r.kind = "ack" /\ r.artifact \in artifacts
CoverRequest(r) == r.kind = "cover" /\ r.doc \in Docs

RenderRequest(r) ==
    /\ r.kind = "render"
    /\ DOMAIN r.plan \subseteq Docs
    /\ \A d \in DOMAIN r.plan : r.plan[d] \in Replacements(d)

InvalidateRequest(r) ==
    /\ r.kind = "invalidate"
    /\ r.scope \subseteq Docs
    /\ r.reason \in Reasons
    /\ r.targets \subseteq r.scope
    /\ r.targets # {}

(* The request a command carries at each of its steps.                     *)
RequestFits(step, r) ==
    /\ step = "idle"   => r = NoRequest
    /\ step = "wait"   =>
          InitRequest(r) \/ InvalidateRequest(r) \/ RenderRequest(r)
    /\ step = "load"   => InvalidateRequest(r) \/ CoverRequest(r)
    /\ step = "apply"  => RenderRequest(r)
    /\ step = "splice" => RenderRequest(r) /\ r.doc \in DOMAIN r.plan
    /\ step \in {"check", "transition", "recheck"} => AckRequest(r)
    /\ step \in {"compare", "rename"} =>
          \/ InitRequest(r)
          \/ AckRequest(r)
          \/ InvalidateRequest(r)
          \/ CoverRequest(r)

Steps == {"idle", "wait", "load", "check", "transition", "recheck", "compare",
          "rename", "apply", "splice"}

WorktreeOK ==
    /\ tracked \subseteq Docs
    /\ text \in [Docs -> Text]
    /\ files \in [Docs -> Files]
    /\ body \in Bodies
    /\ guidance \in Guidance
    /\ budget \in [EventKinds -> Nat]

StorageOK ==
    /\ lockFile \in stored
    /\ \A f \in stored : IsLockFile(f)
    /\ \A a \in artifacts : IsArtifact(a)
    /\ raised \subseteq [id : Nat, reason : Reasons, targets : SUBSET Docs]
    /\ accepted \subseteq artifacts

CommandsOK ==
    /\ lockHolder \in Procs \cup {Free}
    /\ pc \in [Procs -> Steps]
    /\ DOMAIN req = Procs /\ DOMAIN loaded = Procs /\ DOMAIN planned = Procs
    /\ \A p \in Procs : /\ RequestFits(pc[p], req[p])
                         /\ IsLockFile(loaded[p])
                         /\ IsState(planned[p])

(* The values of the variables, and which request fits which step.         *)
TypeOK == WorktreeOK /\ StorageOK /\ CommandsOK

-----------------------------------------------------------------------------
(* Safety.                                                                 *)

(* Commands that work on the repository exclude each other: only the       *)
(* holder of the write lock is past its wait (LockFileCoordinator::lock).  *)
HoldsLock(p) == pc[p] \notin {"idle", "wait"}
LockExcludes == \A p \in Procs : HoldsLock(p) <=> lockHolder = p

(* Whatever order commands, crashes and checkouts come in, the stored      *)
(* state passes ReviewState::validate, so no command can leave a lock file *)
(* that the next one refuses as corrupt.                                   *)
StoredStateValid == StateValid(State)

(* Provider first: when a consumer's review is accepted, every document it *)
(* depends on has an accepted review of exactly the inputs the consumer's  *)
(* reviewer saw, and the import it read is the export of that review.      *)
ReviewedBefore(b, a, p) ==
    /\ b.doc = p
    /\ b.revision + 1 = a.context[p].revision
    /\ b.inputs = a.context[p].inputs
    /\ p \in Imports[a.doc] => a.inputs.imports[p] = ExportOf[b.inputs.text]

ProvidersReviewedFirst ==
    \A a \in accepted : \A p \in Closure[a.doc] :
        /\ a.context[p].active = {}
        /\ \E b \in accepted : ReviewedBefore(b, a, p)

(* No reviewed document carries a stale copy of an export: the import      *)
(* bodies its record binds equal the exports its record binds, although    *)
(* `ack` itself never looks at outdated imports (readiness_error does).    *)
RecordsAreRendered ==
    \A d \in DOMAIN State.reviews :
        State.reviews[d].inputs.body = State.reviews[d].inputs.imports

(* An invalidation is never lost: each document it targets either still    *)
(* waits for it, or had a review accepted whose artifact listed it.  A     *)
(* review that began before the invalidation does not clear it.            *)
NoInvalidationLost ==
    \A i \in raised : \A d \in i.targets :
        \/ \E j \in ActiveInvalidations(State, d) : j.id = i.id
        \/ \E a \in accepted :
              a.doc = d /\ [id |-> i.id, reason |-> i.reason] \in a.covered

(* No update is lost or applied twice: the counters of the state count the *)
(* accepted reviews and the invalidations, one each.                       *)
CountersCountEvents ==
    /\ \A d \in Docs : DocumentRevision(State, d) =
                         Cardinality({a \in accepted : a.doc = d})
    /\ State.nextId - 1 = Cardinality(raised)
    /\ State.revision = Cardinality(accepted) + Cardinality(raised)

(* The command relies on what it loaded. *)
HasLoaded(p) ==
    \/ pc[p] \in {"recheck", "compare"} /\ req[p].kind # "init"
    \/ pc[p] = "rename"

(* As long as nothing but Memoria writes the lock file, the write lock     *)
(* alone keeps a loaded state fresh until it is replaced: `state_conflict` *)
(* never happens, except to an `init`, which loads before it has the lock  *)
(* and relies on the comparison.                                           *)
LoadedStateIsFresh == \A p \in Procs : HasLoaded(p) => loaded[p] = lockFile

(* A record exists only for inputs, and clears only invalidations, that    *)
(* some reviewer's artifact of that document at the preceding revision     *)
(* listed; checkouts of old lock files and reused ids do not change that.  *)
EveryRecordWasReviewed ==
    \A d \in DOMAIN State.reviews : \E a \in artifacts :
        /\ a.doc = d
        /\ a.revision + 1 = State.reviews[d].revision
        /\ a.inputs = State.reviews[d].inputs
        /\ a.guidance = State.reviews[d].guidance
        /\ ClearedIds(a) = State.reviews[d].acknowledged

(* The comparison before the rename protects what Git put there: a save    *)
(* replaces the lock file its command loaded and nothing else.             *)
SaveReplacesWhatWasLoaded ==
    [][\A p \in Procs :
          pc[p] = "rename" /\ lockFile' # lockFile => lockFile = loaded[p]]_vars

(* `render` may change only import bodies: a document an editor saved      *)
(* after the snapshot keeps what the editor wrote.                         *)
RenderKeepsText ==
    [][\A p \in Procs :
          pc[p] = "splice" /\ pc'[p] # "splice" =>
              text' = text /\ tracked' = tracked]_vars

(* What the comment at usecases/ack.rs:550 says of the final revalidation: *)
(* "a concurrent change cannot slip in between the transition and the      *)
(* durable write".  Nothing stops an editor there.                         *)
NothingSlipsIn ==
    [][\A p \in Procs :
          RenameState(p) /\ req[p].kind = "ack" =>
              ArtifactCurrent(req[p].artifact)]_vars

(* The cycle implements its promise.                                       *)
Promise == INSTANCE ReviewPromise
KeepsPromise == Promise!Spec

-----------------------------------------------------------------------------
(* Liveness.                                                               *)

(* A reviewer presents the artifact of a ready document that still         *)
(* describes the project.                                                  *)
AckReady(d) ==
    /\ TreeValid /\ d \in tracked /\ Ready(d)
    /\ Capture(d) \in artifacts
    /\ \E p \in Procs : StartAck(p, Capture(d))

RenderAll == \E p \in Procs : StartRender(p, tracked)

(* A command that has the lock runs on by itself; one that waits polls the *)
(* lock until it gets it, a bounded number of timeouts aside; and the      *)
(* people of the project keep doing what `memoria check` asks for: they    *)
(* review ready documents, acknowledge them, and render imports.           *)
Fairness ==
    /\ \A p \in Procs : WF_vars(Step(p)) /\ SF_vars(Acquire(p))
    /\ \A d \in Docs : WF_vars(Review(d)) /\ SF_vars(AckReady(d))
    /\ SF_vars(RenderAll)

LiveSpec == Spec /\ Fairness

CheckPasses ==
    \A d \in tracked : Current(d) /\ OutdatedImports(d) = {}

(* Once edits, invalidations and crashes stop, the review loop ends with a *)
(* passing `memoria check`: reviews, stale artifacts, renders and the lock *)
(* never block one another for good.                                       *)
Converges == <>[](TreeValid => CheckPasses)

(* The write lock is released again and again, whatever its holders do and *)
(* wherever they crash.                                                    *)
LockReleased == []<>(lockHolder = Free)
=============================================================================
