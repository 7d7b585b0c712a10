----------------------------- MODULE ReviewState -----------------------------
(***************************************************************************)
(* The review state of a project, the value `memoria.lock` stores, and the *)
(* three transitions the domain crate defines on it: raise an              *)
(* invalidation, acknowledge a review, and record a base commit.           *)
(*                                                                         *)
(* A document path, a reason and a base commit are model values; the       *)
(* invalidations are a set, ordered in the code by their ids; reviewer,    *)
(* note, timestamps and digests of the stored token are left out because   *)
(* no transition reads them.                                               *)
(***************************************************************************)
EXTENDS Integers

CONSTANT MaxCounter \* u64::MAX: a stored counter may never have this value

ASSUME MaxCounterBounds == MaxCounter \in Nat /\ MaxCounter > 1

(***************************************************************************)
(* A state as ReviewState::empty() builds it.                              *)
(***************************************************************************)
EmptyState ==
    [revision      |-> 0,
     nextId        |-> 1,
     reviews       |-> [d \in {} |-> {}],
     invalidations |-> {}]

DocumentRevision(s, d) ==
    IF d \in DOMAIN s.reviews THEN s.reviews[d].revision ELSE 0

(* The complete prior record of a document, or none: what a token binds.   *)
Baseline(s, d) == {s.reviews[x] : x \in {d} \cap DOMAIN s.reviews}

ActiveInvalidations(s, d) == {i \in s.invalidations : d \in i.pending}

(* The (id, reason) pairs a review artifact binds for its document. *)
CoveredPairs(s, d) ==
    {[id |-> i.id, reason |-> i.reason] : i \in ActiveInvalidations(s, d)}

(***************************************************************************)
(* ReviewState::add_invalidation.  checked_add refuses a counter at        *)
(* u64::MAX, so the transition has a guard of its own.                     *)
(***************************************************************************)
CanInvalidate(s) == s.revision < MaxCounter /\ s.nextId < MaxCounter

AddInvalidation(s, scope, reason, targets) ==
    [revision      |-> s.revision + 1,
     nextId        |-> s.nextId + 1,
     reviews       |-> s.reviews,
     invalidations |-> s.invalidations \cup {[id      |-> s.nextId,
                                              scope   |-> scope,
                                              reason  |-> reason,
                                              targets |-> targets,
                                              pending |-> targets]}]

(***************************************************************************)
(* ReviewState::acknowledge.  `a` is the artifact under acknowledgement:   *)
(* its document, the revision and inputs its token binds, and the          *)
(* invalidations it covers.                                                *)
(***************************************************************************)
CanAcknowledge(s, a) ==
    /\ a.revision = DocumentRevision(s, a.doc)
    /\ \A c \in a.covered : \E i \in s.invalidations :
          i.id = c.id /\ i.reason = c.reason /\ a.doc \in i.pending
    /\ a.revision < MaxCounter
    /\ s.revision < MaxCounter

ClearedIds(a) == {c.id : c \in a.covered}

(* A mutant: the review clears every invalidation of its document.         *)
ClearEverything(invalidations, a) ==
    {i \in {[j EXCEPT !.pending = @ \ {a.doc}] : j \in invalidations} :
        i.pending # {}}

(* Remove the document from the covered invalidations; an invalidation     *)
(* that nothing waits for any more leaves the state.                       *)
ClearCovered(invalidations, a) ==
    LET clear(i) == IF i.id \in ClearedIds(a)
                      THEN [i EXCEPT !.pending = @ \ {a.doc}]
                      ELSE i
    IN  {i \in {clear(j) : j \in invalidations} : i.pending # {}}

(* A mutant: the covered ids are collected after they were cleared.        *)
RecordWithoutCleared(a, base) ==
    [revision     |-> a.revision + 1,
     inputs       |-> a.inputs,
     guidance     |-> a.guidance,
     acknowledged |-> {},
     base         |-> base]

(* The record an acknowledgement stores for the document.                  *)
NewRecord(a, base) ==
    [revision     |-> a.revision + 1,
     inputs       |-> a.inputs,
     guidance     |-> a.guidance,
     acknowledged |-> ClearedIds(a),
     base         |-> base]

(* A mutant: the state revision stays behind.                              *)
AcknowledgeWithoutRevision(s, a, base) ==
    [s EXCEPT !.reviews       = [d \in DOMAIN @ \cup {a.doc} |->
                                    IF d = a.doc THEN NewRecord(a, base)
                                                 ELSE s.reviews[d]],
              !.invalidations = ClearCovered(@, a)]

Acknowledge(s, a, base) ==
    [revision      |-> s.revision + 1,
     nextId        |-> s.nextId,
     reviews       |-> [d \in DOMAIN s.reviews \cup {a.doc} |->
                          IF d = a.doc THEN NewRecord(a, base)
                                       ELSE s.reviews[d]],
     invalidations |-> ClearCovered(s.invalidations, a)]

(* `ack --cover` records HEAD as the base commit and changes nothing else. *)
RecordBase(s, d) ==
    [revision      |-> s.revision,
     nextId        |-> s.nextId,
     reviews       |-> [s.reviews EXCEPT ![d].base = TRUE],
     invalidations |-> s.invalidations]

(***************************************************************************)
(* ReviewState::validate: what a loaded state must satisfy, and what       *)
(* save refuses to write otherwise.                                        *)
(***************************************************************************)
CountersValid(s) ==
    /\ s.nextId > 0
    /\ s.nextId < MaxCounter
    /\ s.revision < MaxCounter
    /\ s.revision >= s.nextId - 1

InvalidationsValid(s) ==
    /\ \A i \in s.invalidations :
          /\ i.id > 0
          /\ i.id < s.nextId
          /\ i.targets # {}
          /\ i.targets \subseteq i.scope
          /\ i.pending \subseteq i.targets
    /\ \A i, j \in s.invalidations : i.id = j.id => i = j

ReviewsValid(s) ==
    \A d \in DOMAIN s.reviews :
        /\ s.reviews[d].revision > 0
        /\ s.reviews[d].revision < MaxCounter
        /\ s.reviews[d].revision <= s.revision
        /\ \A id \in s.reviews[d].acknowledged : 0 < id /\ id < s.nextId

StateValid(s) == CountersValid(s) /\ InvalidationsValid(s) /\ ReviewsValid(s)
=============================================================================
