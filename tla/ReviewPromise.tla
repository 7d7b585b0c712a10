---------------------------- MODULE ReviewPromise ----------------------------
(***************************************************************************)
(* What the review cycle promises about `memoria.lock`, with no lock, no   *)
(* phases and no worktree: every change of the review state is one atomic  *)
(* transition of the state that was there, and a review is accepted only   *)
(* while the state still says of the document and of all its providers     *)
(* what the reviewer's artifact says.                                      *)
(***************************************************************************)
EXTENDS ReviewState

CONSTANTS Docs, Reasons

VARIABLES lockFile, artifacts

promised == <<lockFile, artifacts>>

State == lockFile.state

Store(state) == lockFile' = [exists |-> TRUE, state |-> state]

(* The review state agrees with what the artifact binds about it: the      *)
(* document's prior record, and every provider reviewed at that revision   *)
(* for the inputs the artifact saw, with no open invalidation.             *)
Binds(s, a) ==
    /\ a.revision = DocumentRevision(s, a.doc)
    /\ a.baseline = Baseline(s, a.doc)
    /\ \A p \in DOMAIN a.context :
          /\ p \in DOMAIN s.reviews
          /\ s.reviews[p].inputs = a.context[p].inputs
          /\ s.reviews[p].revision = a.context[p].revision
          /\ ActiveInvalidations(s, p) = {}

Init ==
    /\ lockFile = [exists |-> FALSE, state |-> EmptyState]
    /\ artifacts = {}

(* A project without a lock file gets one; it never loses a state.         *)
Initialise ==
    /\ ~lockFile.exists
    /\ Store(EmptyState)
    /\ UNCHANGED artifacts

(* A reviewer captures an artifact.  It binds every invalidation that is   *)
(* open for the document at that moment.                                   *)
Observe ==
    /\ \E a \in artifacts' :
          /\ artifacts' = artifacts \cup {a}
          /\ Binds(State, a)
          /\ a.covered = CoveredPairs(State, a.doc)
    /\ UNCHANGED lockFile

Accept ==
    /\ \E a \in artifacts, base \in BOOLEAN :
          /\ Binds(State, a)
          /\ CanAcknowledge(State, a)
          /\ Store(Acknowledge(State, a, base))
    /\ UNCHANGED artifacts

Raise ==
    /\ CanInvalidate(State)
    /\ \E scope \in SUBSET Docs, reason \in Reasons :
          \E targets \in (SUBSET scope) \ {{}} :
             Store(AddInvalidation(State, scope, reason, targets))
    /\ UNCHANGED artifacts

Cover ==
    /\ \E d \in DOMAIN State.reviews :
          /\ ~State.reviews[d].base
          /\ Store(RecordBase(State, d))
    /\ UNCHANGED artifacts

Next == Initialise \/ Observe \/ Accept \/ Raise \/ Cover

Spec == Init /\ [][Next]_promised
=============================================================================
