-------------------------- MODULE ReviewCycleProofs --------------------------
(***************************************************************************)
(* Theorems about the review cycle, for every set of documents, every      *)
(* acyclic import graph, every number of commands and every bound: what    *)
(* the cycle keeps, where its records come from, that it implements the    *)
(* atomic promise of ReviewPromise, and what the review state says of the  *)
(* events that made it.                                                    *)
(***************************************************************************)
EXTENDS ReviewCycle, FiniteSetTheorems, TLAPS

-----------------------------------------------------------------------------
(* The transitions of the review state, and what a snapshot computes, have *)
(* the types the invariant gives them.                                     *)

LEMMA EmptyStateType == IsState(EmptyState) /\ IsLockFile(AbsentFile)
BY DEF EmptyState, AbsentFile, IsLockFile, IsState, Partial

(* Whatever a snapshot says of a document's revision and open              *)
(* invalidations is a number and a set of id-reason pairs.                 *)
LEMMA SnapshotTypes ==
    ASSUME NEW s, IsState(s), NEW d \in Docs
    PROVE  /\ DocumentRevision(s, d) \in Nat
           /\ Baseline(s, d) \subseteq Records
           /\ CoveredPairs(s, d) \subseteq Pairs
<1>1. s.reviews \in [DOMAIN s.reviews -> Records]
  BY DEF IsState, Partial
<1>2. DocumentRevision(s, d) \in Nat
  BY <1>1 DEF DocumentRevision, Records
<1>3. Baseline(s, d) \subseteq Records
  BY <1>1 DEF Baseline
<1>4. CoveredPairs(s, d) \subseteq Pairs
  BY DEF CoveredPairs, ActiveInvalidations, IsState, Invalidations, Pairs
<1>5. QED
  BY <1>2, <1>3, <1>4

LEMMA BodyTypes ==
    ASSUME WorktreeOK, NEW d \in Docs
    PROVE  body[d] \in [Imports[d] -> Exports]
BY GraphAssumption DEF WorktreeOK, Bodies

LEMMA ManifestType ==
    ASSUME WorktreeOK, NEW d \in Docs
    PROVE  Manifest(d) \in Manifests
<1>1. Imports[d] \subseteq Docs /\ Imports[d] \in SUBSET Docs
  BY GraphAssumption
<1>2. body[d] \in SomeBodies
  BY <1>1, BodyTypes DEF SomeBodies
<1>3. [p \in Imports[d] |-> ExportBody(p)] \in [Imports[d] -> Exports]
  BY <1>1, ContentAssumption DEF ExportBody, WorktreeOK
<1>4. [p \in Imports[d] |-> ExportBody(p)] \in SomeBodies
  BY <1>1, <1>3 DEF SomeBodies
<1>5. text[d] \in Text /\ files[d] \in Files
  BY DEF WorktreeOK
<1>6. QED
  BY <1>2, <1>4, <1>5 DEF Manifest, Manifests

LEMMA CaptureType ==
    ASSUME WorktreeOK, IsState(State), NEW d \in Docs
    PROVE  IsArtifact(Capture(d))
<1>1. Closure[d] \subseteq Docs
  BY DEF Closure
<1>2. ASSUME NEW p \in Closure[d] PROVE ProviderDescriptor(p) \in Descriptors
  <2>1. p \in Docs
    BY <1>1, <1>2
  <2>2. Manifest(p) \in Manifests
    BY <2>1, ManifestType
  <2>3. DocumentRevision(State, p) \in Nat /\ CoveredPairs(State, p) \subseteq Pairs
    BY <2>1, SnapshotTypes
  <2>4. QED
    BY <2>2, <2>3 DEF ProviderDescriptor, Descriptors, WorktreeOK
<1>3. Context(d) \in [Closure[d] -> Descriptors]
  BY <1>2 DEF Context
<1>4. Manifest(d) \in Manifests
  BY ManifestType
<1>5. /\ DocumentRevision(State, d) \in Nat
      /\ Baseline(State, d) \subseteq Records
      /\ CoveredPairs(State, d) \subseteq Pairs
  BY SnapshotTypes
<1>6. QED
  BY <1>3, <1>4, <1>5 DEF Capture, Consumers, IsArtifact, WorktreeOK

LEMMA AcknowledgeType ==
    ASSUME NEW s, IsState(s), NEW a, IsArtifact(a), NEW base \in BOOLEAN
    PROVE  IsState(Acknowledge(s, a, base))
<1>1. NewRecord(a, base) \in Records
  BY DEF NewRecord, Records, IsArtifact, ClearedIds, Pairs
<1>2. DOMAIN s.reviews \cup {a.doc} \subseteq Docs
  BY DEF IsState, Partial, IsArtifact
<1>3. \A d \in DOMAIN s.reviews : s.reviews[d] \in Records
  BY DEF IsState, Partial
<1>4. Partial(Acknowledge(s, a, base).reviews, Records)
  BY <1>1, <1>2, <1>3 DEF Acknowledge, Partial
<1>5. ClearCovered(s.invalidations, a) \subseteq Invalidations
  BY DEF ClearCovered, IsState, Invalidations
<1>6. QED
  BY <1>4, <1>5 DEF Acknowledge, IsState

LEMMA AddInvalidationType ==
    ASSUME NEW s, IsState(s), NEW scope \in SUBSET Docs,
           NEW targets \in SUBSET Docs, NEW reason \in Reasons
    PROVE  IsState(AddInvalidation(s, scope, reason, targets))
BY DEF AddInvalidation, IsState, Invalidations

LEMMA RecordBaseType ==
    ASSUME NEW s, IsState(s), NEW d \in DOMAIN s.reviews
    PROVE  IsState(RecordBase(s, d))
<1>1. \A e \in DOMAIN s.reviews : s.reviews[e] \in Records
  BY DEF IsState, Partial
<1>2. [s.reviews EXCEPT ![d].base = TRUE] \in [DOMAIN s.reviews -> Records]
  BY <1>1 DEF IsState, Partial, Records
<1>3. QED
  BY <1>2 DEF RecordBase, IsState, Partial

-----------------------------------------------------------------------------
(* Type correctness.                                                       *)

LEMMA InitType == Init => TypeOK
<1> SUFFICES ASSUME Init PROVE TypeOK
  OBVIOUS
<1>1. WorktreeOK
  BY ContentAssumption, EnvironmentAssumption DEF Init, WorktreeOK
<1>2. StorageOK
  BY EmptyStateType DEF Init, StorageOK
<1>3. CommandsOK
  BY EmptyStateType DEF Init, CommandsOK, Steps, RequestFits
<1>4. QED
  BY <1>1, <1>2, <1>3 DEF TypeOK

(* When one command moves, and no artifact disappears, only its own        *)
(* request, loaded lock file and planned state need to be looked at.       *)
LEMMA MoveType ==
    ASSUME TypeOK, NEW p \in Procs, NEW step \in Steps, Goto(p, step),
           artifacts \subseteq artifacts',
           lockHolder' \in Procs \cup {Free},
           DOMAIN req' = Procs, DOMAIN loaded' = Procs, DOMAIN planned' = Procs,
           \A q \in Procs \ {p} : /\ req'[q] = req[q]
                                  /\ loaded'[q] = loaded[q]
                                  /\ planned'[q] = planned[q],
           RequestFits(step, req[p])', IsLockFile(loaded[p])', IsState(planned[p])'
    PROVE  CommandsOK'
<1>1. ASSUME NEW q \in Procs, q # p
      PROVE  /\ RequestFits(pc[q], req[q])'
             /\ IsLockFile(loaded[q])'
             /\ IsState(planned[q])'
  <2>1. pc'[q] = pc[q]
    BY <1>1 DEF Goto, TypeOK, CommandsOK
  <2>2. req'[q] = req[q] /\ loaded'[q] = loaded[q] /\ planned'[q] = planned[q]
    BY <1>1
  <2>3. RequestFits(pc[q], req[q])'
    BY <2>1, <2>2 DEF TypeOK, CommandsOK, RequestFits, AckRequest
  <2>4. QED
    BY <2>2, <2>3 DEF TypeOK, CommandsOK
<1>2. pc'[p] = step /\ pc' \in [Procs -> Steps]
  BY DEF Goto, TypeOK, CommandsOK
<1>3. QED
  BY <1>1, <1>2 DEF CommandsOK

(* A command that ends, whatever becomes of the lock.                      *)
LEMMA ForgetType ==
    ASSUME TypeOK, NEW p \in Procs, Forget(p), UNCHANGED artifacts,
           lockHolder' \in Procs \cup {Free}
    PROVE  CommandsOK'
<1>1. /\ req'[p] = NoRequest /\ loaded'[p] = AbsentFile
      /\ planned'[p] = EmptyState
  BY DEF Forget, TypeOK, CommandsOK
<1>2. RequestFits("idle", req[p])' /\ IsLockFile(loaded[p])' /\ IsState(planned[p])'
  BY <1>1, EmptyStateType DEF RequestFits
<1>3. /\ DOMAIN req' = Procs /\ DOMAIN loaded' = Procs /\ DOMAIN planned' = Procs
      /\ \A q \in Procs \ {p} : /\ req'[q] = req[q]
                                 /\ loaded'[q] = loaded[q]
                                 /\ planned'[q] = planned[q]
  BY DEF Forget, TypeOK, CommandsOK
<1>4. QED
  BY <1>2, <1>3, MoveType DEF Forget, Steps

(* The environment leaves the commands alone.                              *)
LEMMA CommandsUntouchedType ==
    ASSUME TypeOK, UNCHANGED commands, artifacts \subseteq artifacts'
    PROVE  CommandsOK'
BY DEF TypeOK, CommandsOK, commands, RequestFits, AckRequest, InvalidateRequest,
       CoverRequest, RenderRequest

LEMMA StorageUntouchedType ==
    ASSUME TypeOK, UNCHANGED <<lockFile, artifacts, history>>
    PROVE  StorageOK'
BY DEF TypeOK, StorageOK, history

LEMMA WorktreeUntouchedType ==
    ASSUME TypeOK, UNCHANGED worktree,
           \/ UNCHANGED budget
           \/ \E kind \in EventKinds : Spend(kind)
    PROVE  WorktreeOK'
BY DEF TypeOK, WorktreeOK, worktree, Spend

LEMMA EnvironmentType == TypeOK /\ Environment => TypeOK'
<1> SUFFICES ASSUME TypeOK, Environment PROVE TypeOK'
  OBVIOUS
<1>1. ASSUME NEW d \in Docs, NEW t \in Text, Edit(d, t) PROVE TypeOK'
  <2>1. WorktreeOK'
    BY <1>1 DEF Edit, TypeOK, WorktreeOK, Spend, EventKinds
  <2>2. QED
    BY <1>1, <2>1, CommandsUntouchedType, StorageUntouchedType DEF Edit, TypeOK
<1>0. ASSUME NEW d \in Docs, NEW f \in Files, EditFiles(d, f) PROVE TypeOK'
  <2>1. WorktreeOK'
    BY <1>0 DEF EditFiles, TypeOK, WorktreeOK, Spend, EventKinds
  <2>2. QED
    BY <1>0, <2>1, CommandsUntouchedType, StorageUntouchedType
    DEF EditFiles, TypeOK
<1>2. ASSUME NEW d \in Docs, NEW p \in Imports[d], NEW e \in Exports,
             HandEdit(d, p, e)
      PROVE  TypeOK'
  <2>1. body' \in Bodies
    <3>1. body[d] \in [Imports[d] -> Exports]
      BY BodyTypes DEF TypeOK
    <3>2. [body[d] EXCEPT ![p] = e] \in [Imports[d] -> Exports]
      BY <3>1
    <3>3. Imports[d] \in SUBSET Docs
      BY GraphAssumption
    <3>4. QED
      BY <1>2, <3>2, <3>3 DEF HandEdit, TypeOK, WorktreeOK, Bodies
  <2>2. WorktreeOK'
    BY <1>2, <2>1 DEF HandEdit, TypeOK, WorktreeOK, Spend, EventKinds
  <2>3. QED
    BY <1>2, <2>2, CommandsUntouchedType, StorageUntouchedType
    DEF HandEdit, TypeOK
<1>3. ASSUME NEW g \in Guidance, ChangeGuidance(g) PROVE TypeOK'
  <2>1. WorktreeOK'
    BY <1>3 DEF ChangeGuidance, TypeOK, WorktreeOK, Spend, EventKinds
  <2>2. QED
    BY <1>3, <2>1, CommandsUntouchedType, StorageUntouchedType
    DEF ChangeGuidance, TypeOK
<1>4. ASSUME NEW d \in Docs, Track(d) PROVE TypeOK'
  <2>1. WorktreeOK'
    BY <1>4 DEF Track, TypeOK, WorktreeOK, Spend, EventKinds
  <2>2. QED
    BY <1>4, <2>1, CommandsUntouchedType, StorageUntouchedType DEF Track, TypeOK
<1>5. ASSUME NEW f \in stored, Checkout(f) PROVE TypeOK'
  <2>1. WorktreeOK'
    BY <1>5, WorktreeUntouchedType DEF Checkout, EventKinds
  <2>2. StorageOK'
    BY <1>5 DEF Checkout, TypeOK, StorageOK, history
  <2>3. QED
    BY <1>5, <2>1, <2>2, CommandsUntouchedType DEF Checkout, TypeOK
<1>6. QED
  BY <1>0, <1>1, <1>2, <1>3, <1>4, <1>5 DEF Environment

LEMMA ReviewType == \A d \in Docs : TypeOK /\ Review(d) => TypeOK'
<1> SUFFICES ASSUME NEW d \in Docs, TypeOK, Review(d) PROVE TypeOK'
  OBVIOUS
<1>1. IsArtifact(Capture(d))
  BY CaptureType DEF TypeOK, StorageOK, State, IsLockFile
<1>2. StorageOK'
  BY <1>1 DEF Review, TypeOK, StorageOK, history
<1>3. QED
  BY <1>2, CommandsUntouchedType, WorktreeUntouchedType DEF Review, TypeOK

(* Beginning, waiting for the lock, and dying.                             *)
LEMMA BeginType == \A p \in Procs : TypeOK /\ Begin(p) => TypeOK'
<1> SUFFICES ASSUME NEW p \in Procs, TypeOK, Begin(p) PROVE TypeOK'
  OBVIOUS
<1>0. ASSUME StartInit(p) PROVE TypeOK'
  <2>1. RequestFits("wait", req[p])'
    BY <1>0 DEF StartInit, Request, RequestFits, InitRequest, TypeOK, CommandsOK
  <2>2. CommandsOK'
    BY <1>0, <2>1, MoveType DEF StartInit, Request, TypeOK, CommandsOK, Steps
  <2>3. QED
    BY <1>0, <2>2, StorageUntouchedType, WorktreeUntouchedType
    DEF StartInit, Request, TypeOK, EventKinds
<1>1. ASSUME NEW a \in artifacts, StartAck(p, a) PROVE TypeOK'
  <2>1. RequestFits("check", req[p])'
    BY <1>1 DEF StartAck, Request, RequestFits, AckRequest, TypeOK, CommandsOK
  <2>2. CommandsOK'
    BY <1>1, <2>1, MoveType
    DEF StartAck, Request, AcquireFor, TypeOK, CommandsOK, Steps
  <2>3. QED
    BY <1>1, <2>2, StorageUntouchedType, WorktreeUntouchedType
    DEF StartAck, Request, TypeOK
<1>2. ASSUME NEW d \in Docs, StartCover(p, d) PROVE TypeOK'
  <2>1. RequestFits("load", req[p])'
    BY <1>2 DEF StartCover, Request, RequestFits, CoverRequest, TypeOK, CommandsOK
  <2>2. CommandsOK'
    BY <1>2, <2>1, MoveType
    DEF StartCover, Request, AcquireFor, TypeOK, CommandsOK, Steps
  <2>3. QED
    BY <1>2, <2>2, StorageUntouchedType, WorktreeUntouchedType
    DEF StartCover, Request, TypeOK
<1>3. ASSUME NEW scope \in Scopes, NEW reason \in Reasons,
             StartInvalidate(p, scope, reason)
      PROVE  TypeOK'
  <2>1. scope \subseteq Docs
    BY ContentAssumption
  <2>2. RequestFits("wait", req[p])'
    BY <1>3, <2>1
    DEF StartInvalidate, Request, RequestFits, InvalidateRequest, TypeOK,
        CommandsOK
  <2>3. CommandsOK'
    BY <1>3, <2>2, MoveType DEF StartInvalidate, Request, TypeOK, CommandsOK,
    Steps
  <2>4. QED
    BY <1>3, <2>3, StorageUntouchedType, WorktreeUntouchedType
    DEF StartInvalidate, Request, TypeOK, EventKinds
<1>4. ASSUME NEW selected \in SUBSET tracked, StartRender(p, selected)
      PROVE  TypeOK'
  <2> DEFINE outdated == {d \in selected : OutdatedImports(d) # {}}
             plan == [d \in outdated |-> Replacement(d)]
  <2>1. outdated \subseteq Docs
    BY DEF TypeOK, WorktreeOK
  <2>2. ASSUME NEW d \in Docs PROVE Replacement(d) \in Replacements(d)
    <3>1. /\ body[d] \in [Imports[d] -> Exports]
          /\ text[d] \in Text
          /\ Imports[d] \subseteq Docs
      BY BodyTypes, GraphAssumption DEF TypeOK, WorktreeOK
    <3>2. [q \in Imports[d] |-> ExportBody(q)] \in [Imports[d] -> Exports]
      BY <3>1, ContentAssumption DEF ExportBody, TypeOK, WorktreeOK
    <3>3. QED
      BY <3>1, <3>2 DEF Replacement, Replacements
  <2>3. req'[p] = [kind |-> "render", plan |-> plan]
    BY <1>4 DEF StartRender, Request, TypeOK, CommandsOK
  <2>4. \A d \in outdated : plan[d] \in Replacements(d)
    BY <2>1, <2>2
  <2>5. RequestFits("wait", req[p])'
    <3>1. RenderRequest(req'[p])
      BY <2>1, <2>3, <2>4 DEF RenderRequest
    <3>2. QED
      BY <3>1 DEF RequestFits
  <2>6. CommandsOK'
    BY <1>4, <2>5, MoveType DEF StartRender, Request, TypeOK, CommandsOK, Steps
  <2>7. QED
    BY <1>4, <2>6, StorageUntouchedType, WorktreeUntouchedType
    DEF StartRender, Request, TypeOK
<1>5. QED
  BY <1>0, <1>1, <1>2, <1>3, <1>4 DEF Begin

LEMMA AcquireType == \A p \in Procs : TypeOK /\ Acquire(p) => TypeOK'
<1> SUFFICES ASSUME NEW p \in Procs, TypeOK, Acquire(p) PROVE TypeOK'
  OBVIOUS
<1> DEFINE step == CASE req[p].kind = "invalidate" -> "load"
                     [] req[p].kind = "init"       -> "compare"
                     [] OTHER                      -> "apply"
<1>1. RequestFits("wait", req[p])
  BY DEF Acquire, TypeOK, CommandsOK
<1>2. RequestFits(step, req[p])' /\ step \in Steps
  BY <1>1
  DEF Acquire, RequestFits, InitRequest, InvalidateRequest, RenderRequest, Steps
<1>3. CommandsOK'
  BY <1>2, MoveType DEF Acquire, AcquireFor, TypeOK, CommandsOK
<1>4. QED
  BY <1>3, StorageUntouchedType, WorktreeUntouchedType DEF Acquire, TypeOK

LEMMA StopType == \A p \in Procs : TypeOK /\ (Busy(p) \/ Crash(p)) => TypeOK'
<1> SUFFICES ASSUME NEW p \in Procs, TypeOK, Busy(p) \/ Crash(p) PROVE TypeOK'
  OBVIOUS
<1>1. lockHolder' \in Procs \cup {Free}
  BY DEF Busy, Crash, TypeOK, CommandsOK
<1>2. CommandsOK'
  BY <1>1, ForgetType DEF Busy, Crash
<1>3. QED
  BY <1>2, StorageUntouchedType, WorktreeUntouchedType
  DEF Busy, Crash, TypeOK, EventKinds

-----------------------------------------------------------------------------
(* The steps of a command that has the lock.                               *)

(* A command that finishes without writing anything.                       *)
LEMMA FinishType ==
    ASSUME TypeOK, NEW p \in Procs, Finish(p),
           UNCHANGED <<worktree, lockFile, artifacts, budget, history>>
    PROVE  TypeOK'
<1>1. CommandsOK'
  BY ForgetType DEF Finish
<1>2. QED
  BY <1>1, StorageUntouchedType, WorktreeUntouchedType DEF TypeOK

(* A command that goes on with the request and the states it has.          *)
LEMMA ProceedType ==
    ASSUME TypeOK, NEW p \in Procs, NEW step \in Steps, Goto(p, step),
           RequestFits(step, req[p]),
           UNCHANGED <<lockHolder, req, loaded, planned>>,
           UNCHANGED <<worktree, lockFile, artifacts, budget, history>>
    PROVE  TypeOK'
<1>1. RequestFits(step, req[p])'
  BY DEF RequestFits, AckRequest, InvalidateRequest, CoverRequest, RenderRequest
<1>2. CommandsOK'
  BY <1>1, MoveType DEF TypeOK, CommandsOK
<1>3. QED
  BY <1>2, StorageUntouchedType, WorktreeUntouchedType DEF TypeOK

(* A command that loads the lock file and plans a state.                   *)
LEMMA PlanType ==
    ASSUME TypeOK, NEW p \in Procs, NEW step \in Steps, Goto(p, step),
           RequestFits(step, req[p]),
           NEW state, IsState(state), Plan(p, state),
           loaded' = [loaded EXCEPT ![p] = lockFile],
           UNCHANGED <<lockHolder, req>>,
           UNCHANGED <<worktree, lockFile, artifacts, budget, history>>
    PROVE  TypeOK'
<1>1. RequestFits(step, req[p])'
  BY DEF RequestFits, AckRequest, InvalidateRequest, CoverRequest, RenderRequest
<1>2. IsLockFile(lockFile)
  BY DEF TypeOK, StorageOK
<1>3. loaded'[p] = lockFile /\ planned'[p] = state
  BY DEF Plan, TypeOK, CommandsOK
<1>4. IsLockFile(loaded[p])' /\ IsState(planned[p])'
  BY <1>2, <1>3
<1>5. CommandsOK'
  BY <1>1, <1>4, MoveType DEF Plan, TypeOK, CommandsOK
<1>6. QED
  BY <1>5, StorageUntouchedType, WorktreeUntouchedType DEF TypeOK

LEMMA AckType ==
    \A p \in Procs :
        TypeOK /\ (AckCheck(p) \/ AckTransition(p) \/ AckRecheck(p)) => TypeOK'
<1> SUFFICES ASSUME NEW p \in Procs, TypeOK,
                    AckCheck(p) \/ AckTransition(p) \/ AckRecheck(p)
             PROVE  TypeOK'
  OBVIOUS
<1>1. AckRequest(req[p])
  BY DEF AckCheck, AckTransition, AckRecheck, TypeOK, CommandsOK, RequestFits
<1>2. \A step \in {"transition", "recheck", "compare"} :
         step \in Steps /\ RequestFits(step, req[p])
  BY <1>1 DEF RequestFits, Steps
<1>3. CASE AckCheck(p) \/ AckRecheck(p)
  BY <1>2, <1>3, ProceedType, FinishType DEF AckCheck, AckRecheck
<1>4. CASE AckTransition(p)
  <2> DEFINE a == req[p].artifact
  <2>1. IsArtifact(a) /\ IsState(State)
    BY <1>1 DEF AckRequest, TypeOK, StorageOK, State, IsLockFile
  <2>2. ASSUME NEW base \in BaseOutcomes
        PROVE  IsState(Acknowledge(State, a, base))
    BY <2>1, ContentAssumption, AcknowledgeType
  <2>3. CASE Finish(p)
    BY <1>4, <2>3, FinishType DEF AckTransition
  <2>4. CASE ~Finish(p)
    <3>1. PICK base \in BaseOutcomes : Plan(p, Acknowledge(State, a, base))
      BY <1>4, <2>4 DEF AckTransition
    <3>2. QED
      BY <1>2, <1>4, <2>2, <2>4, <3>1, PlanType DEF AckTransition
  <2>5. QED
    BY <2>3, <2>4
<1>5. QED
  BY <1>3, <1>4

LEMMA LoadInvalidateType == \A p \in Procs : TypeOK /\ LoadInvalidate(p) => TypeOK'
<1> SUFFICES ASSUME NEW p \in Procs, TypeOK, LoadInvalidate(p) PROVE TypeOK'
  OBVIOUS
<1>1. InvalidateRequest(req[p])
  BY DEF LoadInvalidate, TypeOK, CommandsOK, RequestFits, CoverRequest
<1>2. RequestFits("compare", req[p]) /\ "compare" \in Steps
  BY <1>1 DEF RequestFits, Steps
<1>3. IsState(State)
  BY DEF TypeOK, StorageOK, State, IsLockFile
<1>4. IsState(AddInvalidation(State, req[p].scope, req[p].reason, req[p].targets))
  BY <1>1, <1>3, AddInvalidationType DEF InvalidateRequest
<1>5. QED
  BY <1>2, <1>4, PlanType, FinishType DEF LoadInvalidate

LEMMA LoadCoverType == \A p \in Procs : TypeOK /\ LoadCover(p) => TypeOK'
<1> SUFFICES ASSUME NEW p \in Procs, TypeOK, LoadCover(p) PROVE TypeOK'
  OBVIOUS
<1>1. CoverRequest(req[p])
  BY DEF LoadCover, TypeOK, CommandsOK, RequestFits, InvalidateRequest
<1>2. RequestFits("compare", req[p]) /\ "compare" \in Steps
  BY <1>1 DEF RequestFits, Steps
<1>3. IsState(State)
  BY DEF TypeOK, StorageOK, State, IsLockFile
<1>4. CASE Finish(p)
  BY <1>4, FinishType DEF LoadCover
<1>5. CASE ~Finish(p)
  <2>1. IsState(RecordBase(State, req[p].doc))
    BY <1>3, <1>5, RecordBaseType DEF LoadCover
  <2>2. QED
    BY <1>2, <1>5, <2>1, PlanType DEF LoadCover
<1>6. QED
  BY <1>4, <1>5

LEMMA CompareStateType == \A p \in Procs : TypeOK /\ CompareState(p) => TypeOK'
<1> SUFFICES ASSUME NEW p \in Procs, TypeOK, CompareState(p) PROVE TypeOK'
  OBVIOUS
<1>1. RequestFits("rename", req[p]) /\ "rename" \in Steps
  BY DEF CompareState, TypeOK, CommandsOK, RequestFits, Steps
<1>2. QED
  BY <1>1, ProceedType, FinishType DEF CompareState

LEMMA RenameStateType == \A p \in Procs : TypeOK /\ RenameState(p) => TypeOK'
<1> SUFFICES ASSUME NEW p \in Procs, TypeOK, RenameState(p) PROVE TypeOK'
  OBVIOUS
<1>1. IsLockFile(lockFile)'
  BY DEF RenameState, IsLockFile, TypeOK, CommandsOK
<1>2. \/ InitRequest(req[p]) \/ AckRequest(req[p])
      \/ InvalidateRequest(req[p]) \/ CoverRequest(req[p])
  BY DEF RenameState, TypeOK, CommandsOK, RequestFits
<1>3. loaded[p].state.nextId \in Nat
  BY DEF TypeOK, CommandsOK, IsLockFile, IsState
<1>4. raised' \subseteq [id : Nat, reason : Reasons, targets : SUBSET Docs]
  BY <1>2, <1>3
  DEF RenameState, TypeOK, StorageOK, InitRequest, AckRequest, InvalidateRequest,
      CoverRequest
<1>5. accepted' \subseteq artifacts'
  BY <1>2
  DEF RenameState, TypeOK, StorageOK, InitRequest, AckRequest, InvalidateRequest,
      CoverRequest
<1>6. StorageOK'
  BY <1>1, <1>4, <1>5 DEF RenameState, TypeOK, StorageOK
<1>7. CommandsOK'
  BY ForgetType DEF RenameState, Finish
<1>8. QED
  BY <1>6, <1>7, WorktreeUntouchedType DEF RenameState, TypeOK

LEMMA CompareDocumentType ==
    \A p \in Procs, d \in Docs : TypeOK /\ CompareDocument(p, d) => TypeOK'
<1> SUFFICES ASSUME NEW p \in Procs, NEW d \in Docs, TypeOK, CompareDocument(p, d)
             PROVE  TypeOK'
  OBVIOUS
<1>1. CASE Finish(p)
  BY <1>1, FinishType DEF CompareDocument
<1>2. CASE ~Finish(p)
  <2>1. RenderRequest(req[p]) /\ d \in DOMAIN req[p].plan
    BY DEF CompareDocument, TypeOK, CommandsOK, RequestFits
  <2>2. req'[p] = [kind |-> "render", plan |-> req[p].plan, doc |-> d]
    BY <1>2 DEF CompareDocument, TypeOK, CommandsOK
  <2>3. RequestFits("splice", req[p])'
    BY <2>1, <2>2 DEF RequestFits, RenderRequest
  <2>4. CommandsOK'
    BY <1>2, <2>3, MoveType DEF CompareDocument, TypeOK, CommandsOK, Steps
  <2>5. QED
    BY <2>4, StorageUntouchedType, WorktreeUntouchedType
    DEF CompareDocument, TypeOK
<1>3. QED
  BY <1>1, <1>2

LEMMA RenameDocumentType == \A p \in Procs : TypeOK /\ RenameDocument(p) => TypeOK'
<1> SUFFICES ASSUME NEW p \in Procs, TypeOK, RenameDocument(p) PROVE TypeOK'
  OBVIOUS
<1> DEFINE d    == req[p].doc
           plan == req[p].plan
           rest == DOMAIN plan \ {d}
<1>1. RenderRequest(req[p]) /\ d \in DOMAIN plan
  BY DEF RenameDocument, TypeOK, CommandsOK, RequestFits
<1>2. plan[d] \in Replacements(d) /\ d \in Docs
  BY <1>1 DEF RenderRequest
<1>3. body' \in Bodies
  <2>1. plan[d].after \in [Imports[d] -> Exports]
    BY <1>2 DEF Replacements
  <2>2. Imports[d] \in SUBSET Docs
    BY <1>2, GraphAssumption
  <2>3. body' = [body EXCEPT ![d] = plan[d].after]
    BY DEF RenameDocument
  <2>4. QED
    BY <1>2, <2>1, <2>2, <2>3 DEF TypeOK, WorktreeOK, Bodies
<1>4. WorktreeOK'
  BY <1>2, <1>3 DEF RenameDocument, Replacements, TypeOK, WorktreeOK
<1>5. UNCHANGED <<lockFile, artifacts, history>>
  BY DEF RenameDocument
<1>6. CommandsOK'
  <2>1. CASE rest = {}
    BY <1>5, <2>1, ForgetType DEF RenameDocument, Finish
  <2>2. CASE rest # {}
    <3>1. req'[p] = [kind |-> "render", plan |-> [x \in rest |-> plan[x]]]
      BY <2>2 DEF RenameDocument, TypeOK, CommandsOK
    <3>2. RequestFits("apply", req[p])'
      BY <1>1, <3>1 DEF RequestFits, RenderRequest
    <3>3. QED
      BY <1>5, <2>2, <3>2, MoveType DEF RenameDocument, TypeOK, CommandsOK, Steps
  <2>3. QED
    BY <2>1, <2>2
<1>7. QED
  BY <1>4, <1>5, <1>6, StorageUntouchedType DEF TypeOK

(* Type correctness.  Every variable of the cycle keeps its type, and a    *)
(* command is never at a step that its request does not have.              *)
THEOREM TypeCorrect == Spec => []TypeOK
<1>1. TypeOK /\ [Next]_vars => TypeOK'
  <2> SUFFICES ASSUME TypeOK, [Next]_vars PROVE TypeOK'
    OBVIOUS
  <2>1. CASE Environment
    BY <2>1, EnvironmentType
  <2>2. ASSUME NEW d \in Docs, Review(d) PROVE TypeOK'
    BY <2>2, ReviewType
  <2>3. ASSUME NEW p \in Procs, Begin(p) \/ Acquire(p) \/ Busy(p) \/ Crash(p)
        PROVE  TypeOK'
    BY <2>3, BeginType, AcquireType, StopType
  <2>4. ASSUME NEW p \in Procs, Step(p) PROVE TypeOK'
    BY <2>4, AckType, LoadInvalidateType, LoadCoverType, CompareStateType,
       RenameStateType, CompareDocumentType, RenameDocumentType DEF Step
  <2>5. CASE UNCHANGED vars
    BY <2>5, CommandsUntouchedType, StorageUntouchedType, WorktreeUntouchedType
    DEF vars, TypeOK, commands
  <2>6. QED
    BY <2>1, <2>2, <2>3, <2>4, <2>5 DEF Next
<1>2. QED
  BY InitType, <1>1, PTL DEF Spec

-----------------------------------------------------------------------------
(* What one step of one command leaves alone.                              *)

Command(p) == Begin(p) \/ Acquire(p) \/ Busy(p) \/ Crash(p) \/ Step(p)

LEMMA OneCommandMoves ==
    ASSUME TypeOK, NEW p \in Procs, Command(p)
    PROVE  \A q \in Procs \ {p} :
              /\ pc'[q] = pc[q]
              /\ req'[q] = req[q]
              /\ loaded'[q] = loaded[q]
              /\ planned'[q] = planned[q]
<1> USE DEF TypeOK, CommandsOK, Goto, Forget, Finish
<1>1. CASE Begin(p)
  BY <1>1 DEF Begin, StartInit, StartAck, StartCover, StartInvalidate,
              StartRender, Request, AcquireFor
<1>2. CASE Acquire(p) \/ Busy(p) \/ Crash(p)
  BY <1>2 DEF Acquire, AcquireFor, Busy, Crash
<1>3. CASE AckCheck(p) \/ AckTransition(p) \/ AckRecheck(p)
  BY <1>3 DEF AckCheck, AckTransition, AckRecheck, Plan
<1>4. CASE LoadInvalidate(p) \/ LoadCover(p)
  BY <1>4 DEF LoadInvalidate, LoadCover, Plan
<1>5. CASE CompareState(p) \/ RenameState(p)
  BY <1>5 DEF CompareState, RenameState
<1>6. CASE (\E d \in Docs : CompareDocument(p, d)) \/ RenameDocument(p)
  BY <1>6 DEF CompareDocument, RenameDocument
<1>7. QED
  BY <1>1, <1>2, <1>3, <1>4, <1>5, <1>6 DEF Command, Step

(* Only the rename of a saved state touches the lock file; no command      *)
(* touches the artifacts.                                                  *)
LEMMA OnlyRenameStores ==
    ASSUME NEW p \in Procs, Command(p)
    PROVE  /\ UNCHANGED artifacts
           /\ ~RenameState(p) => UNCHANGED <<lockFile, history>>
BY DEF Command, Begin, StartInit, StartAck, StartCover, StartInvalidate,
       StartRender, Request, Acquire, Busy, Crash, Step, AckCheck,
       AckTransition, AckRecheck,
       LoadInvalidate, LoadCover, CompareState, RenameState, CompareDocument,
       RenameDocument

(* Only the rename of a document touches the worktree.                     *)
LEMMA OnlyRenameDocumentEdits ==
    ASSUME NEW p \in Procs, Command(p), ~RenameDocument(p)
    PROVE  UNCHANGED worktree
BY DEF Command, Begin, StartInit, StartAck, StartCover, StartInvalidate,
       StartRender, Request, Acquire, Busy, Crash, Step, AckCheck,
       AckTransition, AckRecheck,
       LoadInvalidate, LoadCover, CompareState, RenameState, CompareDocument

LEMMA EnvironmentFrame ==
    /\ Environment => UNCHANGED <<artifacts, commands, history>>
    /\ \A d \in Docs : Review(d) => UNCHANGED <<lockFile, commands, history>>
BY DEF Environment, Edit, EditFiles, HandEdit, ChangeGuidance, Track, Checkout,
       Review

(* A step of the cycle is one of these.                                    *)
LEMMA StepCases ==
    ASSUME [Next]_vars
    PROVE  \/ Environment
           \/ \E d \in Docs : Review(d)
           \/ \E p \in Procs : Command(p)
           \/ UNCHANGED vars
BY DEF Next, Command

-----------------------------------------------------------------------------
(* The write lock.                                                         *)

(* Commands that work on the repository exclude each other: the holder of  *)
(* the write lock, and only the holder, is past its wait.                  *)
THEOREM LockExclusion == Spec => []LockExcludes
<1>1. Init => LockExcludes
  BY EnvironmentAssumption DEF Init, LockExcludes, HoldsLock
<1>2. TypeOK /\ LockExcludes /\ [Next]_vars => LockExcludes'
  <2> SUFFICES ASSUME TypeOK, LockExcludes, [Next]_vars PROVE LockExcludes'
    OBVIOUS
  <2> USE EnvironmentAssumption DEF LockExcludes, HoldsLock
  <2>1. CASE UNCHANGED commands
    BY <2>1 DEF commands
  <2>2. ASSUME NEW p \in Procs, Command(p) PROVE LockExcludes'
    <3>1. \A q \in Procs \ {p} : pc'[q] = pc[q]
      BY <2>2, OneCommandMoves
    <3>2. \/ lockHolder = p /\ lockHolder' = p /\ HoldsLock(p)'
          \/ lockHolder = Free /\ lockHolder' = p /\ HoldsLock(p)'
          \/ lockHolder = p /\ lockHolder' = Free /\ pc'[p] = "idle"
          \/ lockHolder # p /\ UNCHANGED lockHolder /\ pc'[p] \in {"idle", "wait"}
      <4> USE DEF TypeOK, CommandsOK, Goto, Forget, Finish
      <4>1. CASE Begin(p)
        BY <4>1 DEF Begin, StartInit, StartAck, StartCover, StartInvalidate,
                    StartRender,
                    Request, AcquireFor
      <4>2. CASE Acquire(p) \/ Busy(p) \/ Crash(p)
        BY <4>2 DEF Acquire, AcquireFor, Busy, Crash
      <4>3. CASE AckCheck(p) \/ AckTransition(p) \/ AckRecheck(p)
        BY <4>3 DEF AckCheck, AckTransition, AckRecheck
      <4>4. CASE LoadInvalidate(p) \/ LoadCover(p)
        BY <4>4 DEF LoadInvalidate, LoadCover
      <4>5. CASE CompareState(p) \/ RenameState(p)
        BY <4>5 DEF CompareState, RenameState
      <4>6. CASE (\E d \in Docs : CompareDocument(p, d)) \/ RenameDocument(p)
        BY <4>6 DEF CompareDocument, RenameDocument
      <4>7. QED
        BY <2>2, <4>1, <4>2, <4>3, <4>4, <4>5, <4>6 DEF Command, Step
    <3>3. QED
      BY <3>1, <3>2
  <2>3. QED
    BY <2>1, <2>2, StepCases, EnvironmentFrame DEF vars
<1>3. QED
  BY <1>1, <1>2, TypeCorrect, PTL DEF Spec

-----------------------------------------------------------------------------
(* What reaches the disk.                                                  *)

(* Every lock file that was ever stored is valid, and so is every state a  *)
(* command is about to rename into place.                                  *)
ValidInv ==
    /\ \A f \in stored : StateValid(f.state)
    /\ \A p \in Procs : pc[p] = "rename" => StateValid(planned[p])

LEMMA EmptyStateValid == StateValid(EmptyState)
BY MaxCounterBounds
DEF StateValid, CountersValid, InvalidationsValid, ReviewsValid, EmptyState

(* However commands, crashes and checkouts interleave, the stored state    *)
(* passes ReviewState::validate: no command is ever refused because an     *)
(* earlier one saved a state it would not load.                            *)
THEOREM StoredValidity == Spec => []StoredStateValid
<1>1. Init => ValidInv
  BY EmptyStateValid DEF Init, ValidInv, AbsentFile
<1>2. TypeOK /\ ValidInv /\ [Next]_vars => ValidInv'
  <2> SUFFICES ASSUME TypeOK, ValidInv, [Next]_vars PROVE ValidInv'
    OBVIOUS
  <2>1. CASE UNCHANGED <<commands, stored>>
    BY <2>1 DEF commands, ValidInv
  <2>2. ASSUME NEW p \in Procs, Command(p), ~RenameState(p) PROVE ValidInv'
    <3>1. pc'[p] = "rename" => CompareState(p) /\ ~Finish(p)
      BY <2>2
      DEF TypeOK, CommandsOK, Goto, Forget, Finish, Command, Begin, StartInit,
          StartAck,
          StartCover, StartInvalidate, StartRender, Request, AcquireFor, Acquire,
          Busy, Crash, Step, AckCheck, AckTransition, AckRecheck, LoadInvalidate,
          LoadCover, CompareState, CompareDocument, RenameDocument
    <3>2. pc'[p] = "rename" => StateValid(planned'[p])
      BY <3>1 DEF CompareState
    <3>3. QED
      BY <2>2, <3>2, OneCommandMoves, OnlyRenameStores DEF ValidInv, history
  <2>3. ASSUME NEW p \in Procs, RenameState(p) PROVE ValidInv'
    <3>1. StateValid(planned[p])
      BY <2>3 DEF RenameState, ValidInv
    <3>2. stored' = stored \cup {[exists |-> TRUE, state |-> planned[p]]}
      BY <2>3 DEF RenameState
    <3>3. pc'[p] = "idle"
      BY <2>3 DEF RenameState, Finish, Forget, Goto, TypeOK, CommandsOK
    <3>4. QED
      BY <2>3, <3>1, <3>2, <3>3, OneCommandMoves DEF ValidInv, Command, Step
  <2>4. QED
    BY <2>1, <2>2, <2>3, StepCases, EnvironmentFrame DEF vars, history
<1>3. TypeOK /\ ValidInv => StoredStateValid
  BY DEF TypeOK, StorageOK, ValidInv, StoredStateValid, State
<1>4. QED
  BY <1>1, <1>2, <1>3, TypeCorrect, PTL DEF Spec

(* Without checkouts, only the holder of the lock changes the lock file.   *)
FreshInv == budget["checkout"] = 0 /\ LoadedStateIsFresh

LEMMA Freshness ==
    ASSUME \A b \in Budgets : b["checkout"] = 0
    PROVE  Spec => []FreshInv
<1>1. Init => FreshInv
  BY DEF Init, FreshInv, LoadedStateIsFresh, HasLoaded
<1>2. TypeOK /\ LockExcludes /\ FreshInv /\ [Next]_vars => FreshInv'
  <2> SUFFICES ASSUME TypeOK, LockExcludes, FreshInv, [Next]_vars
               PROVE  FreshInv'
    OBVIOUS
  <2>1. budget'["checkout"] = 0 /\ (Environment => UNCHANGED lockFile)
    <3> USE DEF FreshInv, TypeOK, WorktreeOK, EventKinds, Spend
    <3>1. CASE Environment
      BY <3>1 DEF Environment, Edit, EditFiles, HandEdit, ChangeGuidance,
                  Track, Checkout
    <3>2. ASSUME NEW p \in Procs, Command(p) PROVE budget'["checkout"] = 0
      BY <3>2
      DEF Command, Begin, StartInit, StartAck, StartCover, StartInvalidate,
          StartRender,
          Acquire, Busy, Crash, Step, AckCheck, AckTransition, AckRecheck,
          LoadInvalidate, LoadCover, CompareState, RenameState, CompareDocument,
          RenameDocument
    <3>3. CASE \E d \in Docs : Review(d)
      BY <3>3 DEF Review
    <3>4. QED
      BY <3>1, <3>2, <3>3, StepCases, EnvironmentFrame DEF vars
  <2>2. CASE UNCHANGED <<lockFile, commands>>
    BY <2>1, <2>2 DEF FreshInv, LoadedStateIsFresh, HasLoaded, commands
  <2>3. ASSUME NEW p \in Procs, Command(p), ~RenameState(p) PROVE FreshInv'
    <3>1. HasLoaded(p)' => loaded'[p] = lockFile
      BY <2>3
      DEF FreshInv, LoadedStateIsFresh, HasLoaded, TypeOK, CommandsOK, Goto,
          Forget,
          Finish, Command, Begin, StartInit, StartAck, StartCover,
          StartInvalidate, StartRender,
          Request, AcquireFor, Acquire, Busy, Crash, Step, AckCheck,
          AckTransition, AckRecheck, LoadInvalidate, LoadCover, CompareState,
          CompareDocument, RenameDocument
    <3>2. QED
      BY <2>1, <2>3, <3>1, OneCommandMoves, OnlyRenameStores
      DEF FreshInv, LoadedStateIsFresh, HasLoaded
  <2>4. ASSUME NEW p \in Procs, RenameState(p) PROVE FreshInv'
    <3>1. \A q \in Procs : pc'[q] \in {"idle", "wait"}
      BY <2>4, OneCommandMoves
      DEF Command, Step, RenameState, Finish, Forget, Goto, LockExcludes,
          HoldsLock, TypeOK, CommandsOK
    <3>2. QED
      BY <2>1, <3>1 DEF FreshInv, LoadedStateIsFresh, HasLoaded
  <2>5. QED
    BY <2>1, <2>2, <2>3, <2>4, StepCases, EnvironmentFrame DEF vars
<1>3. QED
  BY <1>1, <1>2, TypeCorrect, LockExclusion, PTL DEF Spec

(* The lock file cannot change under a command that has loaded it, as long *)
(* as Git does not put another one there: the comparison before the rename *)
(* never fails, so no review and no invalidation is refused half-way.      *)
THEOREM LoadedStateFreshness ==
    ASSUME \A b \in Budgets : b["checkout"] = 0
    PROVE  Spec => []LoadedStateIsFresh
<1>1. FreshInv => LoadedStateIsFresh
  BY DEF FreshInv
<1>2. QED
  BY <1>1, Freshness, PTL

-----------------------------------------------------------------------------
(* What a replacement of a file may overwrite, when no editor and no Git   *)
(* command acts between the comparison and the rename.                     *)

ComparedInv == \A p \in Procs : pc[p] = "rename" => lockFile = loaded[p]

(* A save replaces the lock file that its command loaded, and nothing that *)
(* a checkout put there in the meantime.                                   *)
THEOREM SavesReplaceWhatWasLoaded ==
    ASSUME ~RacingReplace
    PROVE  Spec => SaveReplacesWhatWasLoaded
<1>1. Init => ComparedInv
  BY DEF Init, ComparedInv
<1>2. TypeOK /\ LockExcludes /\ ComparedInv /\ [Next]_vars => ComparedInv'
  <2> SUFFICES ASSUME TypeOK, LockExcludes, ComparedInv, [Next]_vars
               PROVE  ComparedInv'
    OBVIOUS
  <2>1. CASE UNCHANGED <<lockFile, commands>>
    BY <2>1 DEF ComparedInv, commands
  <2>2. CASE Environment
    <3>1. (\E p \in Procs : pc[p] = "rename") => UNCHANGED lockFile
      BY <2>2 DEF Environment, Edit, EditFiles, HandEdit, ChangeGuidance,
                  Track, Checkout,
                  MayTouchLockFile
    <3>2. QED
      BY <2>2, <3>1, EnvironmentFrame DEF ComparedInv, commands
  <2>3. ASSUME NEW p \in Procs, Command(p), ~RenameState(p) PROVE ComparedInv'
    <3>1. pc'[p] = "rename" => CompareState(p) /\ ~Finish(p)
      BY <2>3
      DEF TypeOK, CommandsOK, Goto, Forget, Finish, Command, Begin, StartInit,
          StartAck,
          StartCover, StartInvalidate, StartRender, Request, AcquireFor, Acquire,
          Busy, Crash, Step, AckCheck, AckTransition, AckRecheck, LoadInvalidate,
          LoadCover, CompareState, CompareDocument, RenameDocument
    <3>2. pc'[p] = "rename" => lockFile = loaded[p] /\ UNCHANGED loaded
      BY <3>1 DEF CompareState
    <3>3. QED
      BY <2>3, <3>2, OneCommandMoves, OnlyRenameStores DEF ComparedInv
  <2>4. ASSUME NEW p \in Procs, RenameState(p) PROVE ComparedInv'
    <3>1. \A q \in Procs : pc'[q] \in {"idle", "wait"}
      BY <2>4, OneCommandMoves
      DEF Command, Step, RenameState, Finish, Forget, Goto, LockExcludes,
          HoldsLock, TypeOK, CommandsOK
    <3>2. QED
      BY <3>1 DEF ComparedInv
  <2>5. QED
    BY <2>1, <2>2, <2>3, <2>4, StepCases, EnvironmentFrame DEF vars
<1>3. ComparedInv =>
        \A p \in Procs :
           pc[p] = "rename" /\ lockFile' # lockFile => lockFile = loaded[p]
  BY DEF ComparedInv
<1>4. QED
  BY <1>1, <1>2, <1>3, TypeCorrect, LockExclusion, PTL
  DEF Spec, SaveReplacesWhatWasLoaded

SpliceInv ==
    \A p \in Procs : pc[p] = "splice" =>
        /\ req[p].doc \in tracked
        /\ text[req[p].doc] = req[p].plan[req[p].doc].text

(* `render` changes import bodies only: what an editor saved before the    *)
(* comparison is still there after the rename, although the rename writes  *)
(* the whole document from a snapshot taken before the lock.               *)
THEOREM RenderingKeepsText ==
    ASSUME ~RacingReplace
    PROVE  Spec => RenderKeepsText
<1>1. Init => SpliceInv
  BY DEF Init, SpliceInv
<1>2. TypeOK /\ LockExcludes /\ SpliceInv /\ [Next]_vars => SpliceInv'
  <2> SUFFICES ASSUME TypeOK, LockExcludes, SpliceInv, [Next]_vars
               PROVE  SpliceInv'
    OBVIOUS
  <2>1. CASE UNCHANGED <<worktree, commands>>
    BY <2>1 DEF SpliceInv, worktree, commands
  <2>2. CASE Environment
    <3>1. ASSUME NEW p \in Procs, pc[p] = "splice"
          PROVE  /\ text'[req[p].doc] = text[req[p].doc]
                 /\ req[p].doc \in tracked'
      <4>1. req[p].doc \in tracked
        BY <3>1 DEF SpliceInv
      <4>2. ASSUME NEW d \in Docs, MayTouchDocument(d) PROVE d # req[p].doc
        BY <3>1, <4>2 DEF MayTouchDocument
      <4>3. ASSUME NEW d \in Docs, NEW t \in Text, Edit(d, t)
            PROVE  /\ text'[req[p].doc] = text[req[p].doc]
                   /\ UNCHANGED tracked
        BY <4>1, <4>2, <4>3 DEF Edit, TypeOK, WorktreeOK
      <4>4. ASSUME NEW d \in Docs, Track(d)
            PROVE  UNCHANGED text /\ req[p].doc \in tracked'
        BY <4>1, <4>2, <4>4 DEF Track
      <4>5. QED
        BY <2>2, <4>1, <4>3, <4>4
        DEF Environment, EditFiles, HandEdit, ChangeGuidance, Checkout, worktree
    <3>2. QED
      BY <2>2, <3>1, EnvironmentFrame DEF SpliceInv, commands
  <2>3. ASSUME NEW p \in Procs, Command(p), ~RenameDocument(p) PROVE SpliceInv'
    <3>1. pc'[p] = "splice" =>
            \E d \in Docs : CompareDocument(p, d) /\ ~Finish(p)
      BY <2>3
      DEF TypeOK, CommandsOK, Goto, Forget, Finish, Command, Begin, StartInit,
          StartAck,
          StartCover, StartInvalidate, StartRender, Request, AcquireFor, Acquire,
          Busy, Crash, Step, AckCheck, AckTransition, AckRecheck, LoadInvalidate,
          LoadCover, CompareState, CompareDocument, RenameState
    <3>2. ASSUME pc'[p] = "splice"
          PROVE  /\ req'[p].doc \in tracked
                 /\ text[req'[p].doc] = req'[p].plan[req'[p].doc].text
      BY <3>1, <3>2 DEF CompareDocument, TypeOK, CommandsOK
    <3>3. QED
      BY <2>3, <3>2, OneCommandMoves, OnlyRenameDocumentEdits
      DEF SpliceInv, worktree
  <2>4. ASSUME NEW p \in Procs, RenameDocument(p) PROVE SpliceInv'
    <3>1. \A q \in Procs : pc'[q] # "splice"
      BY <2>4, OneCommandMoves
      DEF Command, Step, RenameDocument, Finish, Forget, Goto, LockExcludes,
          HoldsLock, TypeOK, CommandsOK
    <3>2. QED
      BY <3>1 DEF SpliceInv
  <2>5. QED
    BY <2>1, <2>2, <2>3, <2>4, StepCases, EnvironmentFrame DEF vars, Review,
    commands
<1>3. TypeOK /\ LockExcludes /\ SpliceInv /\ [Next]_vars =>
        \A p \in Procs : pc[p] = "splice" /\ pc'[p] # "splice" =>
            text' = text /\ tracked' = tracked
  <2> SUFFICES ASSUME TypeOK, LockExcludes, SpliceInv, [Next]_vars,
                      NEW p \in Procs, pc[p] = "splice", pc'[p] # "splice"
               PROVE  text' = text /\ tracked' = tracked
    OBVIOUS
  <2>1. Command(p)
    BY StepCases, EnvironmentFrame, OneCommandMoves DEF vars, commands
  <2>2. CASE ~RenameDocument(p)
    BY <2>1, <2>2, OnlyRenameDocumentEdits DEF worktree
  <2>3. CASE RenameDocument(p)
    BY <2>3 DEF RenameDocument, SpliceInv, TypeOK, WorktreeOK
  <2>4. QED
    BY <2>2, <2>3
<1>4. QED
  BY <1>1, <1>2, <1>3, TypeCorrect, LockExclusion, PTL DEF Spec, RenderKeepsText

-----------------------------------------------------------------------------
(***************************************************************************)
(* Where the records of the review state come from, and the refinement:    *)
(* the review cycle, with its lock, phases and worktree, implements the    *)
(* atomic promise of ReviewPromise.                                        *)
(***************************************************************************)
-----------------------------------------------------------------------------
(* Records.                                                                *)

(* Some artifact of the document, at the revision before, listed exactly   *)
(* what its record says.                                                   *)
ReviewedBy(a, d, r) ==
    /\ a.doc = d
    /\ a.revision + 1 = r.revision
    /\ a.inputs = r.inputs
    /\ a.guidance = r.guidance
    /\ ClearedIds(a) = r.acknowledged

Reviewed(s) ==
    \A d \in DOMAIN s.reviews : \E a \in artifacts : ReviewedBy(a, d, s.reviews[d])

Rendered(a) == a.inputs.body = a.inputs.imports

(* Inductive: it holds of every lock file that was ever stored, because a  *)
(* checkout may bring it back, and of every state a command has planned.   *)
RecordsInv ==
    /\ \A a \in artifacts : Rendered(a)
    /\ \A f \in stored : Reviewed(f.state)
    /\ \A p \in Procs : Reviewed(planned[p])

LEMMA EmptyStateReviewed == Reviewed(EmptyState)
BY DEF Reviewed, EmptyState

LEMMA AcknowledgeReviewed ==
    ASSUME NEW s, Reviewed(s), NEW a \in artifacts, NEW base
    PROVE  Reviewed(Acknowledge(s, a, base))
<1> DEFINE n == Acknowledge(s, a, base)
<1>1. ASSUME NEW d \in DOMAIN n.reviews
      PROVE  \E b \in artifacts : ReviewedBy(b, d, n.reviews[d])
  <2>1. CASE d = a.doc
    <3>1. n.reviews[d] = NewRecord(a, base)
      BY <2>1, <1>1 DEF Acknowledge
    <3>2. ReviewedBy(a, d, n.reviews[d])
      BY <2>1, <3>1 DEF NewRecord, ReviewedBy
    <3>3. QED
      BY <3>2
  <2>2. CASE d # a.doc
    <3>1. d \in DOMAIN s.reviews /\ n.reviews[d] = s.reviews[d]
      BY <2>2, <1>1 DEF Acknowledge
    <3>2. QED
      BY <3>1 DEF Reviewed
  <2>3. QED
    BY <2>1, <2>2
<1>2. QED
  BY <1>1 DEF Reviewed

LEMMA AddInvalidationReviewed ==
    ASSUME NEW s, Reviewed(s), NEW scope, NEW reason, NEW targets
    PROVE  Reviewed(AddInvalidation(s, scope, reason, targets))
BY DEF Reviewed, AddInvalidation

LEMMA RecordBaseReviewed ==
    ASSUME NEW s, IsState(s), Reviewed(s), NEW e \in DOMAIN s.reviews
    PROVE  Reviewed(RecordBase(s, e))
<1> DEFINE n == RecordBase(s, e)
<1>1. \A d \in DOMAIN s.reviews : s.reviews[d] \in Records
  BY DEF IsState, Partial
<1>2. n.reviews = [s.reviews EXCEPT ![e].base = TRUE]
  BY DEF RecordBase, IsState
<1>3. DOMAIN n.reviews = DOMAIN s.reviews
  BY <1>2 DEF IsState, Partial
<1>4. ASSUME NEW d \in DOMAIN s.reviews
      PROVE  /\ n.reviews[d].revision = s.reviews[d].revision
             /\ n.reviews[d].inputs = s.reviews[d].inputs
             /\ n.reviews[d].guidance = s.reviews[d].guidance
             /\ n.reviews[d].acknowledged = s.reviews[d].acknowledged
  BY <1>1, <1>2, <1>4 DEF Records
<1>5. QED
  BY <1>3, <1>4 DEF Reviewed, ReviewedBy

LEMMA InitRecords == Init => RecordsInv
BY EmptyStateReviewed DEF Init, RecordsInv, AbsentFile

LEMMA CaptureRendered ==
    ASSUME WorktreeOK, NEW d \in Docs, OutdatedImports(d) = {}
    PROVE  Rendered(Capture(d))
<1>1. body[d] \in [Imports[d] -> Exports]
  BY BodyTypes
<1>2. \A p \in Imports[d] : body[d][p] = ExportBody(p)
  BY DEF OutdatedImports
<1>3. body[d] = [p \in Imports[d] |-> ExportBody(p)]
  BY <1>1, <1>2
<1>4. QED
  BY <1>3 DEF Rendered, Capture, Manifest

LEMMA NextRecords == TypeOK /\ RecordsInv /\ [Next]_vars => RecordsInv'
<1> SUFFICES ASSUME TypeOK, RecordsInv, [Next]_vars PROVE RecordsInv'
  OBVIOUS
<1>1. CASE UNCHANGED <<artifacts, commands, history>>
  BY <1>1 DEF RecordsInv, Reviewed, commands, history
<1>2. ASSUME NEW d \in Docs, Review(d) PROVE RecordsInv'
  <2>1. Rendered(Capture(d))
    BY <1>2, CaptureRendered DEF Review, TypeOK
  <2>2. artifacts \subseteq artifacts' /\ \A a \in artifacts' : Rendered(a)
    BY <1>2, <2>1 DEF Review, RecordsInv
  <2>3. ASSUME NEW s, Reviewed(s)
        PROVE  \A e \in DOMAIN s.reviews :
                  \E a \in artifacts' : ReviewedBy(a, e, s.reviews[e])
    BY <2>2, <2>3 DEF Reviewed
  <2>4. UNCHANGED <<stored, planned>>
    BY <1>2 DEF Review, commands, history
  <2>5. QED
    BY <2>2, <2>3, <2>4 DEF RecordsInv, Reviewed
<1>3. ASSUME NEW p \in Procs, Command(p) PROVE RecordsInv'
  <2> USE DEF TypeOK, CommandsOK
  <2>1. /\ Reviewed(State) /\ IsState(State)
        /\ \A q \in Procs : Reviewed(planned[q])
    BY DEF RecordsInv, StorageOK, State, IsLockFile
  <2>2. Reviewed(planned'[p])
    <3>1. CASE planned'[p] = EmptyState \/ planned'[p] = planned[p]
      BY <3>1, <2>1, EmptyStateReviewed
    <3>2. CASE AckTransition(p) /\ ~Finish(p)
      <4>1. req[p].artifact \in artifacts
        BY <3>2 DEF AckTransition, RequestFits, AckRequest
      <4>2. PICK base \in BaseOutcomes :
              Plan(p, Acknowledge(State, req[p].artifact, base))
        BY <3>2 DEF AckTransition
      <4>3. QED
        BY <2>1, <4>1, <4>2, AcknowledgeReviewed DEF Plan
    <3>3. CASE LoadInvalidate(p) /\ ~Finish(p)
      BY <2>1, <3>3, AddInvalidationReviewed DEF LoadInvalidate, Plan
    <3>4. CASE LoadCover(p) /\ ~Finish(p)
      BY <2>1, <3>4, RecordBaseReviewed DEF LoadCover, Plan
    <3>5. QED
      BY <1>3, <3>1, <3>2, <3>3, <3>4
      DEF Command, Begin, StartInit, StartAck, StartCover, StartInvalidate,
          StartRender, Request, Acquire, Busy, Crash, Step, AckCheck, AckTransition,
          AckRecheck, LoadInvalidate, LoadCover, CompareState, RenameState,
          CompareDocument, RenameDocument, Finish, Forget
  <2>3. \A q \in Procs : Reviewed(planned'[q])
    BY <1>3, <2>1, <2>2, OneCommandMoves
  <2>4. \A f \in stored' : Reviewed(f.state)
    <3>1. CASE ~RenameState(p)
      BY <1>3, <3>1, OnlyRenameStores DEF RecordsInv, history
    <3>2. CASE RenameState(p)
      <4>1. stored' = stored \cup {[exists |-> TRUE, state |-> planned[p]]}
        BY <3>2 DEF RenameState
      <4>2. QED
        BY <2>1, <4>1 DEF RecordsInv
    <3>3. QED
      BY <3>1, <3>2
  <2>5. UNCHANGED artifacts
    BY <1>3, OnlyRenameStores
  <2>6. QED
    BY <2>3, <2>4, <2>5 DEF RecordsInv, Reviewed
<1>4. QED
  BY <1>1, <1>2, <1>3, StepCases, EnvironmentFrame DEF vars

LEMMA RecordsInvariant == Spec => []RecordsInv
BY InitRecords, NextRecords, TypeCorrect, PTL DEF Spec

(* No record without a review: whatever lock files a checkout brings back, *)
(* the inputs, the guidance and the cleared invalidations of a record are  *)
(* those of one artifact of that document, at the revision before.         *)
THEOREM RecordsComeFromReviews == Spec => []EveryRecordWasReviewed
<1>1. TypeOK /\ RecordsInv => EveryRecordWasReviewed
  BY DEF TypeOK, StorageOK, RecordsInv, Reviewed, ReviewedBy,
         EveryRecordWasReviewed, State
<1>2. QED
  BY <1>1, TypeCorrect, RecordsInvariant, PTL

(* No reviewed document carries a stale copy of an export, although `ack`  *)
(* does not look at outdated imports: what it saves is what an artifact    *)
(* says, and no artifact is captured before `memoria render`.              *)
THEOREM RecordsRendered == Spec => []RecordsAreRendered
<1>1. TypeOK /\ RecordsInv => RecordsAreRendered
  BY DEF TypeOK, StorageOK, RecordsInv, Reviewed, ReviewedBy, Rendered,
         RecordsAreRendered, State
<1>2. QED
  BY <1>1, TypeCorrect, RecordsInvariant, PTL

-----------------------------------------------------------------------------
(* The refinement.  The promise speaks of `memoria.lock` and the artifacts *)
(* only; the operators it takes from ReviewState are the ones used here.   *)

LEMMA PromiseOperators ==
    /\ Promise!EmptyState = EmptyState
    /\ Promise!State = State
    /\ \A s, d : Promise!DocumentRevision(s, d) = DocumentRevision(s, d)
    /\ \A s, d : Promise!Baseline(s, d) = Baseline(s, d)
    /\ \A s, d : Promise!ActiveInvalidations(s, d) = ActiveInvalidations(s, d)
    /\ \A s, d : Promise!CoveredPairs(s, d) = CoveredPairs(s, d)
    /\ \A s, a : Promise!CanAcknowledge(s, a) <=> CanAcknowledge(s, a)
    /\ \A s, a, base : Promise!Acknowledge(s, a, base) = Acknowledge(s, a, base)
    /\ \A s : Promise!CanInvalidate(s) <=> CanInvalidate(s)
    /\ \A s, scope, reason, targets :
          Promise!AddInvalidation(s, scope, reason, targets)
            = AddInvalidation(s, scope, reason, targets)
    /\ \A s, d : Promise!RecordBase(s, d) = RecordBase(s, d)
BY DEF Promise!EmptyState, EmptyState, Promise!State, State,
       Promise!DocumentRevision, DocumentRevision, Promise!Baseline, Baseline,
       Promise!ActiveInvalidations, ActiveInvalidations, Promise!CoveredPairs,
       CoveredPairs, Promise!CanAcknowledge, CanAcknowledge,
       Promise!Acknowledge, Acknowledge, Promise!NewRecord, NewRecord,
       Promise!ClearCovered, ClearCovered, Promise!ClearedIds, ClearedIds,
       Promise!CanInvalidate, CanInvalidate, Promise!AddInvalidation,
       AddInvalidation, Promise!RecordBase, RecordBase

NothingLoaded(p) == loaded[p] = AbsentFile /\ planned[p] = EmptyState

(* What a command plans to save is one transition of the state it loaded;  *)
(* and a review about to be saved still binds what the lock file says.     *)
PlannedBy(p) ==
    LET r == req[p]
        s == loaded[p].state
    IN  \/ /\ r.kind = "ack"
           /\ CanAcknowledge(s, r.artifact)
           /\ \E base \in BOOLEAN : planned[p] = Acknowledge(s, r.artifact, base)
           /\ pc[p] \in {"compare", "rename"} => Promise!Binds(s, r.artifact)
        \/ /\ r.kind = "invalidate"
           /\ CanInvalidate(s)
           /\ planned[p] = AddInvalidation(s, r.scope, r.reason, r.targets)
        \/ /\ r.kind = "cover"
           /\ r.doc \in DOMAIN s.reviews
           /\ ~s.reviews[r.doc].base
           /\ planned[p] = RecordBase(s, r.doc)
        \/ /\ r.kind = "init"
           /\ NothingLoaded(p)

(* A command that has loaded nothing plans the empty state: what `init`    *)
(* saves.                                                                  *)
PlannedInv ==
    \A p \in Procs :
        /\ pc[p] \in {"idle", "wait"} => NothingLoaded(p)
        /\ pc[p] \in {"recheck", "compare", "rename"} => PlannedBy(p)

(* What the gates of `ack` establish on one snapshot is what the promise   *)
(* asks of the review state: above all, that no provider of the document   *)
(* was reviewed again, changed or invalidated since the artifact.          *)
LEMMA CurrentArtifactBinds ==
    ASSUME TypeOK, NEW a \in artifacts, ArtifactCurrent(a)
    PROVE  Promise!Binds(State, a)
<1> DEFINE c == [Capture(a.doc) EXCEPT !.covered = a.covered]
<1>1. a = c
  BY DEF ArtifactCurrent, TokenMatches
<1>2. /\ c.revision = DocumentRevision(State, a.doc)
      /\ c.baseline = Baseline(State, a.doc)
      /\ c.context = Context(a.doc)
  BY DEF Capture
<1>3. /\ a.revision = DocumentRevision(State, a.doc)
      /\ a.baseline = Baseline(State, a.doc)
      /\ a.context = Context(a.doc)
  BY <1>1, <1>2
<1>4. DOMAIN a.context = Closure[a.doc]
  BY <1>3 DEF Context
<1>5. ASSUME NEW p \in Closure[a.doc]
      PROVE  /\ p \in DOMAIN State.reviews
             /\ State.reviews[p].inputs = a.context[p].inputs
             /\ State.reviews[p].revision = a.context[p].revision
             /\ ActiveInvalidations(State, p) = {}
  <2>1. Current(p)
    BY <1>5 DEF ArtifactCurrent, Waiting, Pending
  <2>2. a.context[p] = ProviderDescriptor(p)
    BY <1>3 DEF Context
  <2>3. QED
    BY <2>1, <2>2 DEF Current, ProviderDescriptor, DocumentRevision
<1>6. QED
  BY <1>3, <1>4, <1>5, PromiseOperators DEF Promise!Binds

LEMMA NextPlanned ==
    TypeOK /\ LoadedStateIsFresh /\ PlannedInv /\ [Next]_vars => PlannedInv'
<1> SUFFICES ASSUME TypeOK, LoadedStateIsFresh, PlannedInv, [Next]_vars
             PROVE  PlannedInv'
  OBVIOUS
<1>1. CASE UNCHANGED commands
  BY <1>1 DEF PlannedInv, PlannedBy, NothingLoaded, commands
<1>2. ASSUME NEW p \in Procs, Command(p) PROVE PlannedInv'
  <2> USE DEF TypeOK, CommandsOK, Goto
  <2>1. ASSUME pc'[p] \in {"recheck", "compare", "rename"} PROVE PlannedBy(p)'
    <3>1. ~Finish(p) /\ pc'[p] # "idle"
      BY <2>1 DEF Finish, Forget
    <3>2. CASE AckTransition(p)
      <4>1. /\ AckRequest(req[p])
            /\ req' = req /\ loaded'[p] = lockFile /\ pc'[p] = "recheck"
            /\ CanAcknowledge(State, req[p].artifact)
        BY <3>1, <3>2 DEF AckTransition, RequestFits
      <4>2. PICK base \in BaseOutcomes :
              Plan(p, Acknowledge(State, req[p].artifact, base))
        BY <3>1, <3>2 DEF AckTransition
      <4>3. planned'[p] = Acknowledge(State, req[p].artifact, base)
        BY <4>2 DEF Plan
      <4>4. base \in BOOLEAN
        BY ContentAssumption
      <4>5. QED
        BY <4>1, <4>3, <4>4 DEF PlannedBy, AckRequest, State
    <3>3. CASE AckRecheck(p)
      <4>1. /\ AckRequest(req[p])
            /\ ArtifactCurrent(req[p].artifact)
            /\ UNCHANGED <<req, loaded, planned>>
        BY <3>1, <3>3 DEF AckRecheck, RequestFits
      <4>2. Promise!Binds(State, req[p].artifact)
        BY <4>1, CurrentArtifactBinds DEF AckRequest
      <4>3. loaded[p] = lockFile /\ PlannedBy(p)
        BY <4>1, <3>3
        DEF AckRecheck, AckRequest, LoadedStateIsFresh, HasLoaded, PlannedInv
      <4>4. QED
        BY <4>1, <4>2, <4>3 DEF PlannedBy, AckRequest, State
    <3>4. CASE LoadInvalidate(p)
      <4>1. /\ req[p].kind = "invalidate" /\ req' = req
            /\ loaded'[p] = lockFile
            /\ CanInvalidate(State)
            /\ planned'[p] = AddInvalidation(State, req[p].scope, req[p].reason,
                                             req[p].targets)
        BY <3>1, <3>4 DEF LoadInvalidate, Plan
      <4>2. QED
        BY <4>1 DEF PlannedBy, State
    <3>5. CASE LoadCover(p)
      <4>1. /\ req[p].kind = "cover" /\ req' = req
            /\ loaded'[p] = lockFile
            /\ req[p].doc \in DOMAIN State.reviews
            /\ ~State.reviews[req[p].doc].base
            /\ planned'[p] = RecordBase(State, req[p].doc)
        BY <3>1, <3>5 DEF LoadCover, Plan
      <4>2. QED
        BY <4>1 DEF PlannedBy, State
    <3>6. CASE CompareState(p)
      <4>1. UNCHANGED <<req, loaded, planned>> /\ PlannedBy(p) /\ pc[p] = "compare"
        BY <3>1, <3>6 DEF CompareState, PlannedInv
      <4>2. QED
        BY <4>1 DEF PlannedBy, NothingLoaded
    <3>7. CASE Acquire(p)
      <4>1. /\ req[p].kind = "init" /\ NothingLoaded(p)
            /\ UNCHANGED <<req, loaded, planned>>
        BY <2>1, <3>7
        DEF Acquire, AcquireFor, PlannedInv, RequestFits, InitRequest,
            InvalidateRequest, RenderRequest
      <4>2. QED
        BY <4>1 DEF PlannedBy, NothingLoaded
    <3>8. QED
      BY <1>2, <2>1, <3>1, <3>2, <3>3, <3>4, <3>5, <3>6, <3>7
      DEF Command, Begin, StartInit, StartAck, StartCover, StartInvalidate,
          StartRender, Request, AcquireFor, Busy, Crash, Forget, Step,
          AckCheck, RenameState, CompareDocument, RenameDocument, Finish
  <2>2. ASSUME pc'[p] \in {"idle", "wait"} PROVE NothingLoaded(p)'
    <3>1. CASE Forget(p)
      BY <3>1 DEF Forget, NothingLoaded
    <3>2. CASE ~Forget(p)
      <4>1. pc[p] = "idle" /\ UNCHANGED <<loaded, planned>>
        BY <1>2, <2>2, <3>2
        DEF Command, Begin, StartInit, StartAck, StartCover, StartInvalidate,
            StartRender, Request, AcquireFor, Acquire, Busy, Crash, Finish,
            Step, AckCheck, AckTransition, AckRecheck, LoadInvalidate,
            LoadCover, CompareState, RenameState, CompareDocument,
            RenameDocument
      <4>2. QED
        BY <4>1 DEF PlannedInv, NothingLoaded
    <3>3. QED
      BY <3>1, <3>2
  <2>3. QED
    BY <1>2, <2>1, <2>2, OneCommandMoves
    DEF PlannedInv, PlannedBy, NothingLoaded
<1>3. QED
  BY <1>1, <1>2, StepCases, EnvironmentFrame DEF vars, commands

LEMMA PlannedInvariant ==
    ASSUME \A b \in Budgets : b["checkout"] = 0
    PROVE  Spec => []PlannedInv
<1>1. Init => PlannedInv
  BY DEF Init, PlannedInv, NothingLoaded
<1>2. QED
  BY <1>1, NextPlanned, TypeCorrect, LoadedStateFreshness, PTL DEF Spec

(* Every step of the cycle is a step of the promise, or changes neither    *)
(* the lock file nor the artifacts.                                        *)
LEMMA StepKeepsPromise ==
    ASSUME TypeOK, LoadedStateIsFresh, PlannedInv, [Next]_vars,
           Environment => UNCHANGED lockFile
    PROVE  [Promise!Next]_(Promise!promised)
<1>1. CASE UNCHANGED <<lockFile, artifacts>>
  BY <1>1 DEF Promise!promised
<1>2. ASSUME NEW d \in Docs, Review(d) PROVE Promise!Observe
  <2> DEFINE a == Capture(d)
  <2>1. artifacts' = artifacts \cup {a} /\ UNCHANGED lockFile
    BY <1>2 DEF Review
  <2>2. /\ a.doc = d
        /\ a.revision = DocumentRevision(State, d)
        /\ a.baseline = Baseline(State, d)
        /\ a.context = Context(d)
        /\ a.covered = CoveredPairs(State, d)
    BY DEF Capture
  <2>3. ASSUME NEW p \in Closure[d]
        PROVE  /\ p \in DOMAIN State.reviews
               /\ State.reviews[p].inputs = a.context[p].inputs
               /\ State.reviews[p].revision = a.context[p].revision
               /\ ActiveInvalidations(State, p) = {}
    <3>1. Current(p)
      BY <1>2, <2>3 DEF Review, Ready, Waiting, Pending
    <3>2. a.context[p] = ProviderDescriptor(p)
      BY <2>2 DEF Context
    <3>3. QED
      BY <3>1, <3>2 DEF Current, ProviderDescriptor, DocumentRevision
  <2>4. DOMAIN a.context = Closure[d]
    BY <2>2 DEF Context
  <2>5. Promise!Binds(Promise!State, a)
    BY <2>2, <2>3, <2>4, PromiseOperators DEF Promise!Binds
  <2>6. QED
    BY <2>1, <2>2, <2>5, PromiseOperators DEF Promise!Observe
<1>3. ASSUME NEW p \in Procs, RenameState(p) PROVE Promise!Next
  <2>1. /\ lockFile' = [exists |-> TRUE, state |-> planned[p]]
        /\ UNCHANGED artifacts
    BY <1>3 DEF RenameState
  <2>2. /\ loaded[p] = lockFile /\ loaded[p].state = State
        /\ PlannedBy(p) /\ pc[p] = "rename"
    BY <1>3 DEF RenameState, LoadedStateIsFresh, HasLoaded, PlannedInv, State
  <2>3. \/ InitRequest(req[p]) \/ AckRequest(req[p])
        \/ InvalidateRequest(req[p]) \/ CoverRequest(req[p])
    BY <2>2 DEF TypeOK, CommandsOK, RequestFits
  <2>4. CASE req[p].kind = "ack"
    <3>1. PICK base \in BOOLEAN :
            planned[p] = Acknowledge(State, req[p].artifact, base)
      BY <2>2, <2>4 DEF PlannedBy
    <3>2. /\ req[p].artifact \in artifacts
          /\ CanAcknowledge(State, req[p].artifact)
          /\ Promise!Binds(State, req[p].artifact)
      BY <2>2, <2>3, <2>4
      DEF PlannedBy, InitRequest, AckRequest, InvalidateRequest, CoverRequest
    <3>3. QED
      BY <2>1, <3>1, <3>2, PromiseOperators
      DEF Promise!Next, Promise!Accept, Promise!Store
  <2>5. CASE req[p].kind = "invalidate"
    <3>1. /\ CanInvalidate(State)
          /\ planned[p] = AddInvalidation(State, req[p].scope, req[p].reason,
                                          req[p].targets)
      BY <2>2, <2>5 DEF PlannedBy
    <3>2. /\ req[p].scope \in SUBSET Docs /\ req[p].reason \in Reasons
          /\ req[p].targets \in (SUBSET req[p].scope) \ {{}}
      BY <2>3, <2>5
      DEF InitRequest, AckRequest, InvalidateRequest, CoverRequest
    <3>3. QED
      BY <2>1, <3>1, <3>2, PromiseOperators
      DEF Promise!Next, Promise!Raise, Promise!Store
  <2>6. CASE req[p].kind = "cover"
    <3>1. /\ req[p].doc \in DOMAIN State.reviews
          /\ ~State.reviews[req[p].doc].base
          /\ planned[p] = RecordBase(State, req[p].doc)
      BY <2>2, <2>6 DEF PlannedBy
    <3>2. QED
      BY <2>1, <3>1, PromiseOperators
      DEF Promise!Next, Promise!Cover, Promise!Store
  <2>7. CASE req[p].kind = "init"
    <3>1. lockFile = AbsentFile /\ planned[p] = EmptyState
      BY <2>2, <2>7 DEF PlannedBy, NothingLoaded
    <3>2. QED
      BY <2>1, <3>1, PromiseOperators
      DEF AbsentFile, Promise!Next, Promise!Initialise, Promise!Store
  <2>8. QED
    BY <2>3, <2>4, <2>5, <2>6, <2>7
    DEF InitRequest, AckRequest, InvalidateRequest, CoverRequest
<1>4. CASE \E p \in Procs : Command(p) /\ ~RenameState(p)
  BY <1>1, <1>4, OnlyRenameStores
<1>5. QED
  BY <1>1, <1>2, <1>3, <1>4, StepCases, EnvironmentFrame
  DEF vars, Promise!Next

(* The cycle implements its promise, as long as Git does not replace the   *)
(* lock file: every change of `memoria.lock` is one atomic transition of   *)
(* the state that was there, and a review is accepted only while the state *)
(* still says of the document and of all its providers what the reviewer's *)
(* artifact says.                                                          *)
THEOREM CycleKeepsPromise ==
    ASSUME \A b \in Budgets : b["checkout"] = 0
    PROVE  Spec => KeepsPromise
<1>1. Init => Promise!Init
  BY PromiseOperators DEF Init, Promise!Init, AbsentFile
<1>2. TypeOK /\ budget["checkout"] = 0 /\ LoadedStateIsFresh /\ PlannedInv
        /\ [Next]_vars => [Promise!Next]_(Promise!promised)
  <2> SUFFICES ASSUME TypeOK, budget["checkout"] = 0, LoadedStateIsFresh,
                      PlannedInv, [Next]_vars
               PROVE  [Promise!Next]_(Promise!promised)
    OBVIOUS
  <2>1. Environment => UNCHANGED lockFile
    BY DEF Environment, Edit, EditFiles, HandEdit, ChangeGuidance, Track,
           Checkout, Spend
  <2>2. QED
    BY <2>1, StepKeepsPromise
<1>3. Spec => [](budget["checkout"] = 0)
  <2>1. FreshInv => budget["checkout"] = 0
    BY DEF FreshInv
  <2>2. QED
    BY <2>1, Freshness, PTL
<1>4. QED
  BY <1>1, <1>2, <1>3, TypeCorrect, LoadedStateFreshness, PlannedInvariant, PTL
  DEF Spec, KeepsPromise, Promise!Spec

-----------------------------------------------------------------------------
(***************************************************************************)
(* What the review state says of the events that made it: no invalidation  *)
(* is lost, the counters count the accepted reviews and the invalidations, *)
(* and providers are reviewed before their consumers.                      *)
(***************************************************************************)
-----------------------------------------------------------------------------
(* What a step does to the stored state and to the events, as long as Git  *)
(* does not replace the lock file: a review is accepted, an invalidation   *)
(* is raised, a base is recorded, or nothing happens to either.            *)

Accepts(a, base) ==
    /\ CanAcknowledge(State, a)
    /\ State' = Acknowledge(State, a, base)
    /\ accepted' = accepted \cup {a}
    /\ UNCHANGED raised

Raises(scope, reason, targets) ==
    /\ State' = AddInvalidation(State, scope, reason, targets)
    /\ raised' = raised \cup {[id      |-> State.nextId,
                               reason  |-> reason,
                               targets |-> targets]}
    /\ UNCHANGED accepted

Covers(d) ==
    /\ State' = RecordBase(State, d)
    /\ UNCHANGED <<raised, accepted>>

Event ==
    \/ UNCHANGED <<State, raised, accepted>>
    \/ \E a \in artifacts, base \in BOOLEAN : Accepts(a, base)
    \/ \E scope \in SUBSET Docs, reason \in Reasons :
          \E targets \in SUBSET scope : Raises(scope, reason, targets)
    \/ \E d \in DOMAIN State.reviews : Covers(d)

LEMMA EveryStepIsAnEvent ==
    ASSUME TypeOK, LoadedStateIsFresh, PlannedInv, [Next]_vars,
           Environment => UNCHANGED lockFile
    PROVE  Event
<1>1. CASE UNCHANGED <<lockFile, history>>
  BY <1>1 DEF Event, State, history
<1>2. ASSUME NEW p \in Procs, RenameState(p) PROVE Event
  <2>1. /\ lockFile' = [exists |-> TRUE, state |-> planned[p]]
        /\ State' = planned[p]
    BY <1>2 DEF RenameState, State
  <2>2. /\ loaded[p].state = State /\ PlannedBy(p) /\ pc[p] = "rename"
    BY <1>2 DEF RenameState, LoadedStateIsFresh, HasLoaded, PlannedInv, State
  <2>3. \/ InitRequest(req[p]) \/ AckRequest(req[p])
        \/ InvalidateRequest(req[p]) \/ CoverRequest(req[p])
    BY <2>2 DEF TypeOK, CommandsOK, RequestFits
  <2>4. CASE req[p].kind = "ack"
    <3>1. PICK base \in BOOLEAN :
            /\ CanAcknowledge(State, req[p].artifact)
            /\ planned[p] = Acknowledge(State, req[p].artifact, base)
      BY <2>2, <2>4 DEF PlannedBy
    <3>2. req[p].artifact \in artifacts
      BY <2>3, <2>4
      DEF InitRequest, AckRequest, InvalidateRequest, CoverRequest
    <3>3. Accepts(req[p].artifact, base)
      BY <1>2, <2>1, <2>4, <3>1 DEF Accepts, RenameState
    <3>4. QED
      BY <3>2, <3>3 DEF Event
  <2>5. CASE req[p].kind = "invalidate"
    <3>1. planned[p] = AddInvalidation(State, req[p].scope, req[p].reason,
                                       req[p].targets)
      BY <2>2, <2>5 DEF PlannedBy
    <3>2. /\ req[p].scope \in SUBSET Docs /\ req[p].reason \in Reasons
          /\ req[p].targets \in SUBSET req[p].scope
      BY <2>3, <2>5
      DEF InitRequest, AckRequest, InvalidateRequest, CoverRequest
    <3>3. Raises(req[p].scope, req[p].reason, req[p].targets)
      BY <1>2, <2>1, <2>2, <2>5, <3>1 DEF Raises, RenameState
    <3>4. QED
      BY <3>2, <3>3 DEF Event
  <2>6. CASE req[p].kind = "cover"
    <3>1. req[p].doc \in DOMAIN State.reviews /\ planned[p] = RecordBase(State, req[p].doc)
      BY <2>2, <2>6 DEF PlannedBy
    <3>2. Covers(req[p].doc)
      BY <1>2, <2>1, <2>6, <3>1 DEF Covers, RenameState
    <3>3. QED
      BY <3>1, <3>2 DEF Event
  <2>7. CASE req[p].kind = "init"
    <3>1. State = EmptyState /\ planned[p] = EmptyState
      BY <2>2, <2>7 DEF PlannedBy, NothingLoaded, AbsentFile
    <3>2. UNCHANGED <<State, raised, accepted>>
      BY <1>2, <2>1, <2>7, <3>1 DEF RenameState
    <3>3. QED
      BY <3>2 DEF Event
  <2>8. QED
    BY <2>3, <2>4, <2>5, <2>6, <2>7
    DEF InitRequest, AckRequest, InvalidateRequest, CoverRequest
<1>3. CASE \E p \in Procs : Command(p) /\ ~RenameState(p)
  BY <1>1, <1>3, OnlyRenameStores
<1>4. QED
  BY <1>1, <1>2, <1>3, StepCases, EnvironmentFrame DEF vars

(* The facts about a step that the invariants of this module need.         *)
EventFacts == TypeOK /\ TypeOK' /\ Event

LEMMA EventInvariant ==
    ASSUME \A b \in Budgets : b["checkout"] = 0
    PROVE  Spec => [][EventFacts]_vars
<1>1. FreshInv /\ [Next]_vars => (Environment => UNCHANGED lockFile)
  BY DEF FreshInv, Environment, Edit, EditFiles, HandEdit, ChangeGuidance,
         Track, Checkout, Spend
<1>2. TypeOK /\ TypeOK' /\ FreshInv /\ PlannedInv /\ [Next]_vars => EventFacts
  BY <1>1, EveryStepIsAnEvent DEF EventFacts, FreshInv
<1>3. QED
  BY <1>2, TypeCorrect, Freshness, PlannedInvariant, PTL DEF Spec

-----------------------------------------------------------------------------
(* Invalidations.                                                          *)

(* Inductive: an id names one invalidation for ever, and what is open in   *)
(* the state was raised under that id for that reason.  Without it, a      *)
(* review could clear an invalidation that its artifact listed under the   *)
(* same id for another reason.                                             *)
RaisedOnce ==
    /\ \A i \in raised : i.id < State.nextId
    /\ \A i, j \in raised : i.id = j.id => i = j
    /\ \A j \in State.invalidations :
          \E i \in raised : i.id = j.id /\ i.reason = j.reason

RaisedInv == RaisedOnce /\ NoInvalidationLost

(* A review leaves every invalidation that its artifact did not list as it *)
(* was, and of the others it removes its own document only.                *)
LEMMA ClearingKeepsOthers ==
    ASSUME NEW invalidations, NEW a, NEW j \in invalidations, NEW d \in j.pending,
           d # a.doc \/ j.id \notin ClearedIds(a),
           j \in Invalidations
    PROVE  \E k \in ClearCovered(invalidations, a) :
              k.id = j.id /\ k.reason = j.reason /\ d \in k.pending
<1>1. CASE j.id \notin ClearedIds(a)
  BY <1>1 DEF ClearCovered
<1>2. CASE j.id \in ClearedIds(a) /\ d # a.doc
  <2> DEFINE k == [j EXCEPT !.pending = @ \ {a.doc}]
  <2>1. k.pending = j.pending \ {a.doc} /\ k.id = j.id /\ k.reason = j.reason
    BY DEF Invalidations
  <2>2. k \in ClearCovered(invalidations, a)
    BY <1>2, <2>1 DEF ClearCovered
  <2>3. QED
    BY <1>2, <2>1, <2>2
<1>3. QED
  BY <1>1, <1>2

(* What is open after a review was open before it.                         *)
LEMMA ClearingAddsNothing ==
    ASSUME NEW invalidations \in SUBSET Invalidations, NEW a,
           NEW k \in ClearCovered(invalidations, a)
    PROVE  \E j \in invalidations : k.id = j.id /\ k.reason = j.reason
BY DEF ClearCovered, Invalidations

LEMMA AcceptsKeepsRaised ==
    ASSUME TypeOK, RaisedInv, NEW a \in artifacts, NEW base \in BOOLEAN,
           Accepts(a, base)
    PROVE  RaisedInv'
<1>1. /\ State'.nextId = State.nextId
      /\ State'.invalidations = ClearCovered(State.invalidations, a)
      /\ raised' = raised /\ accepted' = accepted \cup {a}
  BY DEF Accepts, Acknowledge
<1>2. State.invalidations \subseteq Invalidations /\ IsArtifact(a)
  BY DEF TypeOK, StorageOK, State, IsLockFile, IsState
<1>3. RaisedOnce'
  <2>1. \A k \in State'.invalidations :
           \E i \in raised : i.id = k.id /\ i.reason = k.reason
    BY <1>1, <1>2, ClearingAddsNothing DEF RaisedInv, RaisedOnce
  <2>2. QED
    BY <1>1, <2>1 DEF RaisedInv, RaisedOnce
<1>4. ASSUME NEW i \in raised, NEW d \in i.targets
      PROVE  \/ \E j \in ActiveInvalidations(State', d) : j.id = i.id
             \/ \E b \in accepted' :
                   b.doc = d /\ [id |-> i.id, reason |-> i.reason] \in b.covered
  <2>1. CASE \E b \in accepted :
                b.doc = d /\ [id |-> i.id, reason |-> i.reason] \in b.covered
    BY <1>1, <2>1
  <2>2. ASSUME NEW j \in ActiveInvalidations(State, d), j.id = i.id
        PROVE  \/ \E k \in ActiveInvalidations(State', d) : k.id = i.id
               \/ \E b \in accepted' :
                     b.doc = d /\ [id |-> i.id, reason |-> i.reason] \in b.covered
    <3>1. j \in State.invalidations /\ d \in j.pending /\ j \in Invalidations
      BY <1>2 DEF ActiveInvalidations
    <3>2. CASE d # a.doc \/ j.id \notin ClearedIds(a)
      <4>1. PICK k \in ClearCovered(State.invalidations, a) :
              k.id = j.id /\ d \in k.pending
        BY <3>1, <3>2, ClearingKeepsOthers
      <4>2. QED
        BY <1>1, <2>2, <4>1 DEF ActiveInvalidations
    <3>3. CASE d = a.doc /\ j.id \in ClearedIds(a)
      <4>1. PICK c \in a.covered : c.id = i.id
        BY <2>2, <3>3 DEF ClearedIds
      <4>2. PICK k \in State.invalidations : k.id = c.id /\ k.reason = c.reason
        BY DEF Accepts, CanAcknowledge
      <4>3. c.reason = i.reason
        BY <4>1, <4>2 DEF RaisedInv, RaisedOnce
      <4>4. c = [id |-> i.id, reason |-> i.reason]
        BY <1>2, <4>1, <4>3 DEF IsArtifact, Pairs
      <4>5. QED
        BY <1>1, <3>3, <4>4
    <3>4. QED
      BY <3>2, <3>3
  <2>3. QED
    BY <2>1, <2>2 DEF RaisedInv, NoInvalidationLost
<1>5. NoInvalidationLost'
  BY <1>1, <1>4 DEF NoInvalidationLost
<1>6. QED
  BY <1>3, <1>5 DEF RaisedInv

LEMMA RaisesKeepsRaised ==
    ASSUME TypeOK, RaisedInv, NEW scope \in SUBSET Docs, NEW reason \in Reasons,
           NEW targets \in SUBSET scope, Raises(scope, reason, targets)
    PROVE  RaisedInv'
<1> DEFINE new  == [id |-> State.nextId, reason |-> reason, targets |-> targets]
           open == [id |-> State.nextId, scope |-> scope, reason |-> reason,
                    targets |-> targets, pending |-> targets]
<1>1. /\ State'.nextId = State.nextId + 1
      /\ State'.invalidations = State.invalidations \cup {open}
      /\ raised' = raised \cup {new} /\ accepted' = accepted
  BY DEF Raises, AddInvalidation
<1>2. State.nextId \in Nat /\ \A i \in raised : i.id \in Nat
  BY DEF TypeOK, StorageOK, State, IsLockFile, IsState
<1>3. RaisedOnce'
  <2>1. \A i \in raised' : i.id < State'.nextId
    BY <1>1, <1>2 DEF RaisedInv, RaisedOnce
  <2>2. \A i, j \in raised' : i.id = j.id => i = j
    BY <1>1, <1>2 DEF RaisedInv, RaisedOnce
  <2>3. ASSUME NEW j \in State'.invalidations
        PROVE  \E i \in raised' : i.id = j.id /\ i.reason = j.reason
    <3>1. CASE j \in State.invalidations
      BY <1>1, <3>1 DEF RaisedInv, RaisedOnce
    <3>2. CASE j = open
      <4>1. new \in raised' /\ new.id = j.id /\ new.reason = j.reason
        BY <1>1, <3>2
      <4>2. QED
        BY <4>1
    <3>3. QED
      BY <1>1, <3>1, <3>2
  <2>4. QED
    BY <2>1, <2>2, <2>3 DEF RaisedOnce
<1>4. ASSUME NEW i \in raised', NEW d \in i.targets
      PROVE  \/ \E j \in ActiveInvalidations(State', d) : j.id = i.id
             \/ \E b \in accepted' :
                   b.doc = d /\ [id |-> i.id, reason |-> i.reason] \in b.covered
  <2>1. CASE i \in raised
    BY <1>1, <2>1 DEF RaisedInv, NoInvalidationLost, ActiveInvalidations
  <2>2. CASE i = new
    <3>1. open \in ActiveInvalidations(State', d) /\ open.id = i.id
      BY <1>1, <2>2 DEF ActiveInvalidations
    <3>2. QED
      BY <3>1
  <2>3. QED
    BY <1>1, <2>1, <2>2
<1>5. NoInvalidationLost'
  BY <1>4 DEF NoInvalidationLost
<1>6. QED
  BY <1>3, <1>5 DEF RaisedInv

LEMMA EventKeepsRaised == RaisedInv /\ EventFacts => RaisedInv'
<1> SUFFICES ASSUME RaisedInv, EventFacts PROVE RaisedInv'
  OBVIOUS
<1>1. CASE UNCHANGED <<State, raised, accepted>>
  BY <1>1 DEF RaisedInv, RaisedOnce, NoInvalidationLost
<1>2. ASSUME NEW d \in DOMAIN State.reviews, Covers(d) PROVE RaisedInv'
  <2>1. /\ State'.nextId = State.nextId
        /\ State'.invalidations = State.invalidations
        /\ UNCHANGED <<raised, accepted>>
    BY <1>2 DEF Covers, RecordBase
  <2>2. \A e : ActiveInvalidations(State', e) = ActiveInvalidations(State, e)
    BY <2>1 DEF ActiveInvalidations
  <2>3. QED
    BY <2>1, <2>2 DEF RaisedInv, RaisedOnce, NoInvalidationLost
<1>3. QED
  BY <1>1, <1>2, AcceptsKeepsRaised, RaisesKeepsRaised DEF EventFacts, Event

LEMMA RaisedInvariant ==
    ASSUME \A b \in Budgets : b["checkout"] = 0
    PROVE  Spec => []RaisedInv
<1>1. Init => RaisedInv
  BY DEF Init, RaisedInv, RaisedOnce, NoInvalidationLost, AbsentFile, EmptyState,
         State
<1>2. RaisedInv /\ UNCHANGED vars => RaisedInv'
  BY DEF vars, history, RaisedInv, RaisedOnce, NoInvalidationLost, State
<1>3. Spec => Init /\ [][EventFacts]_vars
  BY EventInvariant DEF Spec
<1>4. QED
  BY <1>1, <1>2, <1>3, EventKeepsRaised, PTL

(* An invalidation is never lost, however many reviews, of however many    *)
(* documents, race it: each document it targets waits for it until a       *)
(* review is accepted whose artifact listed it.                            *)
THEOREM InvalidationsSurvive ==
    ASSUME \A b \in Budgets : b["checkout"] = 0
    PROVE  Spec => []NoInvalidationLost
<1>1. RaisedInv => NoInvalidationLost
  BY DEF RaisedInv
<1>2. QED
  BY <1>1, RaisedInvariant, PTL

-----------------------------------------------------------------------------
(* Counters.                                                               *)

(* Inductive: an accepted artifact is older than its document's record, so *)
(* the review that is accepted next is not one of them.                    *)
CountInv ==
    /\ IsFiniteSet(accepted) /\ IsFiniteSet(raised)
    /\ \A a \in accepted : a.revision < DocumentRevision(State, a.doc)
    /\ CountersCountEvents

AcceptedOf(d) == {a \in accepted : a.doc = d}

LEMMA AcceptsKeepsCount ==
    ASSUME TypeOK, CountInv, NEW a \in artifacts, NEW base \in BOOLEAN,
           Accepts(a, base)
    PROVE  CountInv'
<1>1. /\ State'.nextId = State.nextId
      /\ State'.revision = State.revision + 1
      /\ raised' = raised /\ accepted' = accepted \cup {a}
  BY DEF Accepts, Acknowledge
<1>2. /\ IsState(State) /\ IsArtifact(a)
      /\ \A b \in accepted : IsArtifact(b)
  BY DEF TypeOK, StorageOK, State, IsLockFile
<1>3. a.revision = DocumentRevision(State, a.doc) /\ a.revision \in Nat /\ a.doc \in Docs
  BY <1>2 DEF Accepts, CanAcknowledge, IsArtifact
<1>4. a \notin accepted
  BY <1>3 DEF CountInv
<1>5. ASSUME NEW d \in Docs
      PROVE  DocumentRevision(State', d) = IF d = a.doc THEN a.revision + 1
                                           ELSE DocumentRevision(State, d)
  BY <1>2 DEF Accepts, Acknowledge, DocumentRevision, NewRecord, IsState, Partial
<1>6. IsFiniteSet(accepted') /\ Cardinality(accepted') = Cardinality(accepted) + 1
  BY <1>1, <1>4, FS_AddElement DEF CountInv
<1>7. ASSUME NEW b \in accepted' PROVE b.revision < DocumentRevision(State', b.doc)
  <2>1. b.doc \in Docs /\ b.revision \in Nat /\ DocumentRevision(State, b.doc) \in Nat
    BY <1>1, <1>2, SnapshotTypes DEF IsArtifact
  <2>2. CASE b = a
    BY <1>3, <1>5, <2>2
  <2>3. CASE b \in accepted
    BY <1>3, <1>5, <2>1, <2>3 DEF CountInv
  <2>4. QED
    BY <1>1, <2>2, <2>3
<1>8. ASSUME NEW d \in Docs
      PROVE  DocumentRevision(State', d) = Cardinality(AcceptedOf(d)')
  <2>1. IsFiniteSet(AcceptedOf(d))
    BY FS_Subset DEF AcceptedOf, CountInv
  <2>2. DocumentRevision(State, d) = Cardinality(AcceptedOf(d))
    BY DEF CountInv, CountersCountEvents, AcceptedOf
  <2>3. CASE d = a.doc
    <3>1. AcceptedOf(d)' = AcceptedOf(d) \cup {a} /\ a \notin AcceptedOf(d)
      BY <1>1, <1>4, <2>3 DEF AcceptedOf
    <3>2. Cardinality(AcceptedOf(d)') = Cardinality(AcceptedOf(d)) + 1
      BY <2>1, <3>1, FS_AddElement
    <3>3. QED
      BY <1>3, <1>5, <2>2, <2>3, <3>2
  <2>4. CASE d # a.doc
    <3>1. AcceptedOf(d)' = AcceptedOf(d)
      BY <1>1, <2>4 DEF AcceptedOf
    <3>2. QED
      BY <1>5, <2>2, <2>4, <3>1
  <2>5. QED
    BY <2>3, <2>4
<1>9. State'.revision = Cardinality(accepted') + Cardinality(raised')
  <2>1. Cardinality(accepted) \in Nat /\ Cardinality(raised) \in Nat
    BY FS_CardinalityType DEF CountInv
  <2>2. QED
    BY <1>1, <1>6, <2>1 DEF CountInv, CountersCountEvents
<1>10. QED
  BY <1>1, <1>6, <1>7, <1>8, <1>9 DEF CountInv, CountersCountEvents, AcceptedOf

LEMMA RaisesKeepsCount ==
    ASSUME TypeOK, RaisedOnce, CountInv, NEW scope, NEW reason, NEW targets,
           Raises(scope, reason, targets)
    PROVE  CountInv'
<1> DEFINE new == [id |-> State.nextId, reason |-> reason, targets |-> targets]
<1>1. /\ State'.nextId = State.nextId + 1
      /\ State'.revision = State.revision + 1
      /\ State'.reviews = State.reviews
      /\ raised' = raised \cup {new} /\ accepted' = accepted
  BY DEF Raises, AddInvalidation
<1>2. State.nextId \in Nat /\ State.revision \in Nat
  BY DEF TypeOK, StorageOK, State, IsLockFile, IsState
<1>3. new \notin raised
  BY <1>2 DEF RaisedOnce
<1>4. IsFiniteSet(raised') /\ Cardinality(raised') = Cardinality(raised) + 1
  BY <1>1, <1>3, FS_AddElement DEF CountInv
<1>5. \A d : DocumentRevision(State', d) = DocumentRevision(State, d)
  BY <1>1 DEF DocumentRevision
<1>6. Cardinality(accepted) \in Nat /\ Cardinality(raised) \in Nat
  BY FS_CardinalityType DEF CountInv
<1>7. QED
  BY <1>1, <1>2, <1>4, <1>5, <1>6 DEF CountInv, CountersCountEvents

LEMMA EventKeepsCount == RaisedInv /\ CountInv /\ EventFacts => CountInv'
<1> SUFFICES ASSUME RaisedInv, CountInv, EventFacts PROVE CountInv'
  OBVIOUS
<1>1. CASE UNCHANGED <<State, raised, accepted>>
  BY <1>1 DEF CountInv, CountersCountEvents
<1>2. ASSUME NEW d \in DOMAIN State.reviews, Covers(d) PROVE CountInv'
  <2>1. /\ State'.nextId = State.nextId
        /\ State'.revision = State.revision
        /\ UNCHANGED <<raised, accepted>>
    BY <1>2 DEF Covers, RecordBase
  <2>2. \A e : DocumentRevision(State', e) = DocumentRevision(State, e)
    <3>1. IsState(State)
      BY DEF EventFacts, TypeOK, StorageOK, State, IsLockFile
    <3>2. State'.reviews = [State.reviews EXCEPT ![d].base = TRUE]
      BY <1>2 DEF Covers, RecordBase
    <3>3. \A e \in DOMAIN State.reviews : State'.reviews[e].revision = State.reviews[e].revision
      BY <3>1, <3>2 DEF IsState, Partial, Records
    <3>4. DOMAIN State'.reviews = DOMAIN State.reviews
      BY <3>1, <3>2 DEF IsState, Partial
    <3>5. QED
      BY <3>3, <3>4 DEF DocumentRevision
  <2>3. QED
    BY <2>1, <2>2 DEF CountInv, CountersCountEvents
<1>3. QED
  BY <1>1, <1>2, AcceptsKeepsCount, RaisesKeepsCount DEF EventFacts, Event, RaisedInv

(* No update is lost and none is applied twice, whatever commands race and *)
(* wherever they crash: the counters of the stored state are the numbers   *)
(* of the reviews that were accepted, per document and in all, and of the  *)
(* invalidations that were raised.                                         *)
THEOREM CountersCount ==
    ASSUME \A b \in Budgets : b["checkout"] = 0
    PROVE  Spec => []CountersCountEvents
<1>1. Init => CountInv
  <2> SUFFICES ASSUME Init PROVE CountInv
    OBVIOUS
  <2>1. State = EmptyState /\ accepted = {} /\ raised = {}
    BY DEF Init, AbsentFile, State
  <2>2. IsFiniteSet({}) /\ Cardinality({}) = 0
    BY FS_EmptySet
  <2>3. \A d \in Docs : {a \in accepted : a.doc = d} = {}
    BY <2>1
  <2>4. QED
    BY <2>1, <2>2, <2>3 DEF CountInv, CountersCountEvents, EmptyState, DocumentRevision
<1>2. CountInv /\ UNCHANGED vars => CountInv'
  BY DEF vars, history, CountInv, CountersCountEvents, State
<1>3. Spec => Init /\ [][EventFacts]_vars
  BY EventInvariant DEF Spec
<1>4. CountInv => CountersCountEvents
  BY DEF CountInv
<1>5. QED
  BY <1>1, <1>2, <1>3, <1>4, EventKeepsCount, RaisedInvariant, PTL

-----------------------------------------------------------------------------
(* Providers.  Nothing is assumed of checkouts here.                       *)

(* Every record of the state comes from one of the artifacts in S.         *)
BackedBy(s, S) ==
    \A d \in DOMAIN s.reviews : \E b \in S :
        /\ b.doc = d
        /\ b.revision + 1 = s.reviews[d].revision
        /\ b.inputs = s.reviews[d].inputs

(* The artifact that a command is about to have accepted.                  *)
Presented(p) == {a \in artifacts : req[p].kind = "ack" /\ a = req[p].artifact}

ProvidersReviewed(a) ==
    \A p \in Closure[a.doc] :
        /\ a.context[p].active = {}
        /\ \E b \in accepted : ReviewedBefore(b, a, p)

(* Inductive: every state that was ever stored is made of accepted         *)
(* reviews, so a provider that a reviewer saw current was accepted before  *)
(* the artifact was captured, let alone accepted itself.                   *)
ChainInv ==
    /\ \A a \in artifacts : ProvidersReviewed(a)
    /\ \A f \in stored : BackedBy(f.state, accepted)
    /\ \A p \in Procs : BackedBy(planned[p], accepted \cup Presented(p))

LEMMA BackedByMore ==
    ASSUME NEW s, NEW S, NEW T, S \subseteq T, BackedBy(s, S)
    PROVE  BackedBy(s, T)
BY DEF BackedBy

LEMMA EmptyStateBacked == \A S : BackedBy(EmptyState, S)
BY DEF BackedBy, EmptyState

LEMMA AcknowledgeBacked ==
    ASSUME NEW s, NEW S, BackedBy(s, S), NEW a \in S, NEW base
    PROVE  BackedBy(Acknowledge(s, a, base), S)
<1> DEFINE n == Acknowledge(s, a, base)
<1>1. ASSUME NEW d \in DOMAIN n.reviews
      PROVE  \E b \in S : /\ b.doc = d
                          /\ b.revision + 1 = n.reviews[d].revision
                          /\ b.inputs = n.reviews[d].inputs
  <2>1. CASE d = a.doc
    <3>1. n.reviews[d] = NewRecord(a, base)
      BY <2>1, <1>1 DEF Acknowledge
    <3>2. /\ a.revision + 1 = n.reviews[d].revision
          /\ a.inputs = n.reviews[d].inputs
      BY <3>1 DEF NewRecord
    <3>3. QED
      BY <2>1, <3>2
  <2>2. CASE d # a.doc
    <3>1. d \in DOMAIN s.reviews /\ n.reviews[d] = s.reviews[d]
      BY <2>2, <1>1 DEF Acknowledge
    <3>2. QED
      BY <3>1 DEF BackedBy
  <2>3. QED
    BY <2>1, <2>2
<1>2. QED
  BY <1>1 DEF BackedBy

LEMMA RecordBaseBacked ==
    ASSUME NEW s, IsState(s), NEW S, BackedBy(s, S), NEW e \in DOMAIN s.reviews
    PROVE  BackedBy(RecordBase(s, e), S)
<1> DEFINE n == RecordBase(s, e)
<1>1. \A d \in DOMAIN s.reviews : s.reviews[d] \in Records
  BY DEF IsState, Partial
<1>2. n.reviews = [s.reviews EXCEPT ![e].base = TRUE]
  BY DEF RecordBase, IsState
<1>3. DOMAIN n.reviews = DOMAIN s.reviews
  BY <1>2 DEF IsState, Partial
<1>4. ASSUME NEW d \in DOMAIN s.reviews
      PROVE  /\ n.reviews[d].revision = s.reviews[d].revision
             /\ n.reviews[d].inputs = s.reviews[d].inputs
  BY <1>1, <1>2, <1>4 DEF Records
<1>5. QED
  BY <1>3, <1>4 DEF BackedBy

(* What a reviewer captures was true of a state made of accepted reviews.  *)
LEMMA CaptureFollowsProviders ==
    ASSUME TypeOK, BackedBy(State, accepted), NEW d \in Docs, Ready(d)
    PROVE  ProvidersReviewed(Capture(d))
<1> DEFINE a == Capture(d)
<1>1. /\ a.doc = d
      /\ a.context = Context(d)
      /\ a.inputs.imports = [q \in Imports[d] |-> ExportBody(q)]
  BY DEF Capture, Manifest
<1>2. ASSUME NEW p \in Closure[d]
      PROVE  a.context[p].active = {} /\ \E b \in accepted : ReviewedBefore(b, a, p)
  <2>1. Current(p)
    BY DEF Ready, Waiting, Pending
  <2>2. /\ a.context[p].active = CoveredPairs(State, p)
        /\ a.context[p].inputs = Manifest(p)
        /\ a.context[p].revision = State.reviews[p].revision
    BY <1>1, <2>1 DEF Context, ProviderDescriptor, DocumentRevision, Current
  <2>3. a.context[p].active = {}
    BY <2>1, <2>2 DEF Current, CoveredPairs
  <2>4. PICK b \in accepted : /\ b.doc = p
                              /\ b.revision + 1 = State.reviews[p].revision
                              /\ b.inputs = State.reviews[p].inputs
    BY <2>1 DEF BackedBy, Current
  <2>5. b.inputs = Manifest(p) /\ b.inputs.text = text[p]
    BY <2>1, <2>4 DEF Current, Manifest
  <2>6. ReviewedBefore(b, a, p)
    BY <1>1, <2>2, <2>4, <2>5 DEF ReviewedBefore, ExportBody
  <2>7. QED
    BY <2>3, <2>6
<1>3. QED
  BY <1>1, <1>2 DEF ProvidersReviewed

LEMMA NextChain == TypeOK /\ ChainInv /\ [Next]_vars => ChainInv'
<1> SUFFICES ASSUME TypeOK, ChainInv, [Next]_vars PROVE ChainInv'
  OBVIOUS
<1>1. BackedBy(State, accepted) /\ IsState(State)
  BY DEF TypeOK, StorageOK, State, IsLockFile, ChainInv
<1>2. CASE UNCHANGED <<artifacts, commands, history>>
  BY <1>2 DEF ChainInv, ProvidersReviewed, ReviewedBefore, BackedBy, Presented,
              commands, history
<1>3. ASSUME NEW d \in Docs, Review(d) PROVE ChainInv'
  <2>1. artifacts' = artifacts \cup {Capture(d)} /\ UNCHANGED <<commands, history>>
    BY <1>3 DEF Review
  <2>2. ProvidersReviewed(Capture(d))
    BY <1>1, <1>3, CaptureFollowsProviders DEF Review
  <2>3. \A p \in Procs : Presented(p) \subseteq Presented(p)'
    BY <2>1 DEF Presented, commands
  <2>4. ASSUME NEW p \in Procs PROVE BackedBy(planned[p], accepted \cup Presented(p)')
    <3>1. accepted \cup Presented(p) \subseteq accepted \cup Presented(p)'
      BY <2>3
    <3>2. QED
      BY <3>1, BackedByMore DEF ChainInv
  <2>5. QED
    BY <2>1, <2>2, <2>4
    DEF ChainInv, ProvidersReviewed, ReviewedBefore, BackedBy, commands, history
<1>4. ASSUME NEW p \in Procs, Command(p) PROVE ChainInv'
  <2> USE DEF TypeOK, CommandsOK
  <2>1. UNCHANGED artifacts /\ accepted \subseteq accepted'
    BY <1>4, OnlyRenameStores DEF RenameState, history
  <2>2. BackedBy(planned'[p], accepted \cup Presented(p)')
    <3>1. CASE planned'[p] = EmptyState
      BY <3>1, EmptyStateBacked
    <3>2. CASE /\ planned'[p] = planned[p]
               /\ req'[p] = req[p] \/ req[p].kind # "ack"
      <4>1. accepted \cup Presented(p) \subseteq accepted \cup Presented(p)'
        BY <2>1, <3>2 DEF Presented
      <4>2. BackedBy(planned[p], accepted \cup Presented(p))
        BY DEF ChainInv
      <4>3. QED
        BY <3>2, <4>1, <4>2, BackedByMore
    <3>3. CASE AckTransition(p) /\ ~Finish(p)
      <4>1. /\ req[p].artifact \in artifacts /\ req[p].kind = "ack"
            /\ UNCHANGED <<req, artifacts>>
        BY <3>3 DEF AckTransition, RequestFits, AckRequest
      <4>2. PICK base \in BaseOutcomes :
              Plan(p, Acknowledge(State, req[p].artifact, base))
        BY <3>3 DEF AckTransition
      <4>3. req[p].artifact \in accepted \cup Presented(p)'
        BY <4>1 DEF Presented
      <4>4. BackedBy(State, accepted \cup Presented(p)')
        BY <1>1, BackedByMore
      <4>5. QED
        BY <4>2, <4>3, <4>4, AcknowledgeBacked DEF Plan
    <3>4. CASE LoadInvalidate(p) /\ ~Finish(p)
      <4>1. /\ planned'[p] = AddInvalidation(State, req[p].scope, req[p].reason,
                                             req[p].targets)
            /\ planned'[p].reviews = State.reviews
        BY <3>4 DEF LoadInvalidate, Plan, AddInvalidation
      <4>2. QED
        BY <1>1, <4>1 DEF BackedBy
    <3>5. CASE LoadCover(p) /\ ~Finish(p)
      <4>1. /\ planned'[p] = RecordBase(State, req[p].doc)
            /\ req[p].doc \in DOMAIN State.reviews
        BY <3>5 DEF LoadCover, Plan
      <4>2. BackedBy(State, accepted \cup Presented(p)')
        BY <1>1, BackedByMore
      <4>3. QED
        BY <1>1, <4>1, <4>2, RecordBaseBacked
    <3>6. CASE Begin(p)
      <4>1. planned' = planned /\ req[p] = NoRequest
        BY <3>6 DEF Begin, StartInit, StartAck, StartCover, StartInvalidate,
                    StartRender, Request, RequestFits
      <4>2. QED
        BY <3>2, <4>1 DEF NoRequest
    <3>7. CASE Acquire(p) \/ Busy(p) \/ Crash(p)
      BY <3>1, <3>2, <3>7 DEF Acquire, Busy, Crash, Forget
    <3>8. CASE \/ AckCheck(p) \/ AckRecheck(p) \/ CompareState(p)
               \/ RenameState(p) \/ Finish(p)
      BY <3>1, <3>2, <3>8
      DEF AckCheck, AckRecheck, CompareState, RenameState, Finish, Forget
    <3>9. CASE (\E d \in Docs : CompareDocument(p, d)) \/ RenameDocument(p)
      <4>1. req[p].kind = "render"
        BY <3>9 DEF CompareDocument, RenameDocument, RequestFits, RenderRequest
      <4>2. planned'[p] = EmptyState \/ planned'[p] = planned[p]
        BY <3>9 DEF CompareDocument, RenameDocument, Finish, Forget
      <4>3. QED
        BY <3>1, <3>2, <4>1, <4>2
    <3>10. QED
      BY <1>4, <3>3, <3>4, <3>5, <3>6, <3>7, <3>8, <3>9 DEF Command, Step
  <2>3. ASSUME NEW q \in Procs PROVE BackedBy(planned'[q], accepted' \cup Presented(q)')
    <3>1. CASE q = p
      BY <2>1, <2>2, <3>1, BackedByMore
    <3>2. CASE q # p
      <4>1. planned'[q] = planned[q] /\ Presented(q)' = Presented(q)
        BY <1>4, <2>1, <3>2, OneCommandMoves DEF Presented
      <4>2. accepted \cup Presented(q) \subseteq accepted' \cup Presented(q)'
        BY <2>1, <4>1
      <4>3. QED
        BY <4>1, <4>2, BackedByMore DEF ChainInv
    <3>3. QED
      BY <3>1, <3>2
  <2>4. \A f \in stored' : BackedBy(f.state, accepted')
    <3>1. CASE ~RenameState(p)
      BY <1>4, <3>1, OnlyRenameStores DEF ChainInv, history
    <3>2. CASE RenameState(p)
      <4>1. stored' = stored \cup {[exists |-> TRUE, state |-> planned[p]]}
        BY <3>2 DEF RenameState
      <4>2. Presented(p) \subseteq accepted'
        BY <3>2 DEF RenameState, Presented
      <4>3. BackedBy(planned[p], accepted')
        BY <2>1, <4>2, BackedByMore DEF ChainInv
      <4>4. ASSUME NEW f \in stored PROVE BackedBy(f.state, accepted')
        BY <2>1, BackedByMore DEF ChainInv
      <4>5. QED
        BY <4>1, <4>3, <4>4
    <3>3. QED
      BY <3>1, <3>2
  <2>5. \A a \in artifacts' : ProvidersReviewed(a)'
    BY <2>1 DEF ChainInv, ProvidersReviewed, ReviewedBefore
  <2>6. QED
    BY <2>3, <2>4, <2>5 DEF ChainInv
<1>5. QED
  BY <1>2, <1>3, <1>4, StepCases, EnvironmentFrame DEF vars

(* Provider first, whatever Git checks out: when a consumer's review is    *)
(* accepted, every document it depends on, directly or not, was accepted   *)
(* before, at the revision and for the inputs its reviewer saw, and the    *)
(* imports it read are the exports of those reviews.                       *)
THEOREM ProvidersFirst == Spec => []ProvidersReviewedFirst
<1>1. Init => ChainInv
  BY EmptyStateBacked DEF Init, ChainInv, AbsentFile
<1>2. TypeOK /\ ChainInv => ProvidersReviewedFirst
  BY DEF TypeOK, StorageOK, ChainInv, ProvidersReviewed, ProvidersReviewedFirst
<1>3. QED
  BY <1>1, <1>2, NextChain, TypeCorrect, PTL DEF Spec
=============================================================================
