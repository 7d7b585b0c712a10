------------------------------ MODULE StopHook ------------------------------
(***************************************************************************)
(* The Stop hook over a project that people edit: the third command of the *)
(* endpoint builds a snapshot, counts what is due and prints the counts,   *)
(* and the endpoint turns them into silence or into one message.  A killed *)
(* command stops wherever its collection is.                               *)
(***************************************************************************)
EXTENDS Snapshot, Endpoint

ASSUME OriginsHaveAPace ==
    \A origin \in Origins :
        \/ origin.pace = "calm" /\ origin.events \subseteq Events \ {"held"}
        \/ origin.pace = "late" /\ origin.events \subseteq Events

stopHookVars == <<snapshotVars, endpointVars>>

(***************************************************************************)
(* status::summary and run_summary, and what run_stop reads out of them.   *)
(***************************************************************************)
Counts(c) ==
    LET statuses == Statuses(c)
        never(d)   == "never_reviewed" \in statuses[d].causes
        pending(d) == statuses[d].causes # {} /\ ~never(d)
        count(of(_)) == Cardinality({d \in DOMAIN statuses : of(d)})
    IN  [pending |-> count(pending), never_reviewed |-> count(never),
         waiting |-> count(LAMBDA d : statuses[d].waiting # {}),
         open_invalidations |-> Cardinality(StateOf(c).invalidations)]

\* A mutant: documents without any review are not counted as due.
DueWithoutNew(counts) ==
    counts.pending > 0 \/ counts.waiting > 0 \/ counts.open_invalidations > 0

Due(counts) ==
    \/ counts.pending + counts.never_reviewed > 0
    \/ counts.waiting > 0 \/ counts.open_invalidations > 0

\* A failed snapshot and a structural error end the command without counts.
Summary ==
    CASE outcome = "failed" \/ Invalid(seen) -> "failure"
      [] Due(Counts(seen))                   -> "due"
      [] OTHER                               -> "quiet"

InitStopHook ==
    \E origin \in Origins :
        /\ InitSnapshot(origin)
        /\ InitEndpoint(origin.pace, origin.events)

StatusCollects ==
    /\ "leader" \in alive[Status]
    /\ Begin \/ Collect
    /\ UNCHANGED endpointVars

StatusEnds ==
    /\ outcome \in {"built", "failed"}
    /\ \E text \in Outputs : LeaderExits(Status, text)
    /\ UNCHANGED snapshotVars

StatusPrints == StatusEnds /\ output' = Summary

StopHookNext ==
    \/ Anyone /\ UNCHANGED snapshotVars
    \/ StatusCollects
    \/ StatusPrints
    \/ Edits /\ UNCHANGED endpointVars

(***************************************************************************)
(* Both threads are scheduled and time passes; on a calm machine commands  *)
(* make progress as well.  Nobody has to edit anything.                    *)
(***************************************************************************)
Fairness ==
    /\ WF_stopHookVars(Main /\ UNCHANGED snapshotVars)
    /\ WF_stopHookVars(Worker /\ UNCHANGED snapshotVars)
    /\ WF_stopHookVars(Expire /\ UNCHANGED snapshotVars)
    /\ WF_stopHookVars(pace = "calm" /\ (\/ GitExits /\ UNCHANGED snapshotVars
                                         \/ StatusCollects \/ StatusEnds))

StopHookSpec == InitStopHook /\ [][StopHookNext]_stopHookVars /\ Fairness

TypeOK == TypeOKSnapshot /\ TypeOKEndpoint

(***************************************************************************)
(* Silence is truthful.  An endpoint that says nothing after an inspection *)
(* found, at one moment of its run, a valid project in which every         *)
(* document's stored review is of the manifest the document then had, and  *)
(* no open invalidation: through concurrent edits, retried collections,    *)
(* coverage, graph, schedule, counts, limits and deadlines.  Only edits    *)
(* that two equal collections cannot tell from rest are excepted.          *)
(***************************************************************************)
SilenceIsTruthful ==
    (main = "exited" /\ answer = "silent" /\ command = Status
        /\ ~restored /\ IgnoresStood) =>
        LET then == Whole(seam)
        IN  /\ ~Invalid(then)
            /\ StateOf(then).invalidations = {}
            /\ \A d \in Documents(then) :
                  /\ d \in DOMAIN StateOf(then).reviews
                  /\ StateOf(then).reviews[d] = Manifest(then, d)
=============================================================================
