------------------------------ MODULE Endpoint ------------------------------
(***************************************************************************)
(* The Stop hook's endpoint: a main thread that must answer before one     *)
(* deadline, a worker thread that runs two Git commands and then `memoria  *)
(* status --summary`, the children of those commands, each leading a       *)
(* process group of its own, and the supervisor that owns the groups.      *)
(*                                                                         *)
(* A child is a leader and perhaps a helper it started.  Process           *)
(* identifiers are never reused, a killed group is gone at once, and a     *)
(* thread panics nowhere.  The two drain threads of a command are the      *)
(* condition under which their pipes end.                                  *)
(***************************************************************************)
EXTENDS Naturals

\* The commands of one inspection, in the order in which the worker runs them.
Toplevel  == 1
EmptyTree == 2
Status    == 3
Commands  == {Toplevel, EmptyTree, Status}

Outputs == {"none", "failure", "worktree", "quiet", "due"}

\* What arrives on standard input: a Stop event, another event, one without
\* a working directory, one that cannot be used, or nothing.
Events == {"stop", "other", "nowhere", "unusable", "held"}

VARIABLES
    pace,      \* calm, or late: children hang, flood or fork, time runs out
    event,
    expired,   \* the deadline has passed
    main,      \* event, work, kill, emit or exited
    worker,    \* idle, check, spawn, adopt, wait, drain, sweep, release,
               \* conclude or done
    command,   \* the command the worker is at
    alive,     \* command -> the processes of its group that run
    output,    \* what the command printed
    flooded,   \* it printed more than its limit
    timedOut,  \* what the worker notes of the command
    cancelled, \* Owned.cancelled
    groups,    \* Owned.groups
    doomed,    \* the groups that cancel took and has still to kill
    result,    \* what the worker sent to the main thread
    answer,    \* what the endpoint answers
    adopted    \* history: the commands whose group was ever owned

threads  == <<main, worker, command, result, answer>>
owner    == <<cancelled, groups, doomed, adopted>>
children == <<alive, output, flooded>>
scene    == <<pace, event>>
endpointVars == <<pace, event, expired, main, worker, command, alive, output,
                  flooded, timedOut, cancelled, groups, doomed, result,
                  answer, adopted>>

TypeOKEndpoint ==
    /\ pace \in {"calm", "late"}
    /\ event \in Events
    /\ expired \in BOOLEAN
    /\ main \in {"event", "work", "kill", "emit", "exited"}
    /\ worker \in {"idle", "check", "spawn", "adopt", "wait", "drain", "sweep",
                   "release", "conclude", "done"}
    /\ command \in Commands
    /\ alive \in [Commands -> SUBSET {"leader", "helper"}]
    /\ output \in Outputs
    /\ {flooded, timedOut, cancelled} \subseteq BOOLEAN
    /\ groups \subseteq Commands /\ doomed \subseteq Commands
    /\ adopted \subseteq Commands
    /\ {result, answer} \subseteq {"none", "silent", "message"}

InitEndpoint(tempo, events) ==
    /\ pace = tempo
    /\ event \in events
    /\ expired = FALSE
    /\ main = "event" /\ worker = "idle" /\ command = Toplevel
    /\ alive = [c \in Commands |-> {}]
    /\ output = "none" /\ flooded = FALSE /\ timedOut = FALSE
    /\ cancelled = FALSE /\ groups = {} /\ doomed = {}
    /\ result = "none" /\ answer = "none" /\ adopted = {}

-----------------------------------------------------------------------------
(***************************************************************************)
(* run_hook, on the main thread.                                           *)
(***************************************************************************)
Say(text) == main' = "emit" /\ answer' = text

ReceiveEvent ==
    /\ main = "event" /\ event # "held"
    /\ \/ /\ event = "unusable"
          /\ Say("silent")
          /\ UNCHANGED <<worker, result>>
       \/ /\ event \in {"stop", "other"}
          /\ main' = "work" /\ worker' = "check"
          /\ UNCHANGED <<result, answer>>
       \/ /\ event = "nowhere"
          /\ main' = "work" /\ worker' = "done" /\ result' = "silent"
          /\ UNCHANGED answer
    /\ UNCHANGED <<scene, expired, command, children, timedOut, owner>>

\* A mutant: the event is read to its end, however long that takes.
EventAtLeisure ==
    /\ main = "event" /\ event = "unusable" /\ expired
    /\ Say("message")
    /\ UNCHANGED <<scene, expired, worker, command, children, timedOut, owner, result>>

EventTimeout ==
    /\ main = "event" /\ event = "held" /\ expired
    /\ Say("message")
    /\ UNCHANGED <<scene, expired, worker, command, children, timedOut, owner, result>>

ReceiveResult ==
    /\ main = "work" /\ result # "none"
    /\ Say(result)
    /\ UNCHANGED <<scene, expired, worker, command, children, timedOut, owner, result>>

\* Supervisor::cancel: the flag is set and the groups are taken in one step.
GiveUp ==
    /\ main = "work" /\ expired /\ result = "none"
    /\ main' = "kill"
    /\ cancelled' = TRUE /\ doomed' = groups /\ groups' = {}
    /\ UNCHANGED <<scene, expired, worker, command, children, timedOut, result,
                   answer, adopted>>

KillGroup ==
    /\ main = "kill"
    /\ \E c \in doomed :
          /\ alive' = [alive EXCEPT ![c] = {}]
          /\ doomed' = doomed \ {c}
    /\ UNCHANGED <<scene, expired, threads, output, flooded, timedOut, cancelled,
                   groups, adopted>>

Unfinished ==
    /\ main = "kill" /\ doomed = {}
    /\ Say("message")
    /\ UNCHANGED <<scene, expired, worker, command, children, timedOut, owner, result>>

\* The answer is delivered, and with the process ends its worker.
Emit ==
    /\ main = "emit"
    /\ main' = "exited"
    /\ UNCHANGED <<scene, expired, worker, command, children, timedOut, owner,
                   result, answer>>

Main ==
    \/ ReceiveEvent \/ EventTimeout \/ ReceiveResult \/ GiveUp \/ KillGroup
    \/ Unfinished \/ Emit

-----------------------------------------------------------------------------
(***************************************************************************)
(* run_bounded, for one command after another, on the worker thread.       *)
(***************************************************************************)
At(place) == worker = place /\ main # "exited"

Send(text) == worker' = "done" /\ result' = text

\* No worktree, no inspection; no status, a message.
CommandFailed == Send(IF command = Status THEN "message" ELSE "silent")

Terminate == alive' = [alive EXCEPT ![command] = {}]

CheckOwner ==
    /\ At("check")
    /\ \/ cancelled /\ CommandFailed
       \/ ~cancelled /\ worker' = "spawn" /\ UNCHANGED result
    /\ UNCHANGED <<scene, expired, main, command, children, timedOut, owner, answer>>

Spawn ==
    /\ At("spawn")
    /\ \/ /\ alive' = [alive EXCEPT ![command] = {"leader"}]
          /\ worker' = "adopt"
          /\ UNCHANGED result
       \/ CommandFailed /\ UNCHANGED alive
    /\ UNCHANGED <<scene, expired, main, command, output, flooded, timedOut, owner,
                   answer>>

Adopt ==
    /\ At("adopt")
    /\ \/ /\ cancelled
          /\ Terminate /\ CommandFailed
          /\ UNCHANGED <<groups, adopted>>
       \/ /\ ~cancelled
          /\ groups' = groups \cup {command} /\ adopted' = adopted \cup {command}
          /\ worker' = "wait"
          /\ UNCHANGED <<alive, result>>
    /\ UNCHANGED <<scene, expired, main, command, output, flooded, timedOut,
                   cancelled, doomed, answer>>

LeaderGone ==
    /\ At("wait") /\ "leader" \notin alive[command]
    /\ worker' = "drain"
    /\ UNCHANGED <<scene, expired, main, command, children, timedOut, owner, result, answer>>

StopWaiting ==
    /\ At("wait") /\ "leader" \in alive[command]
    /\ \/ expired \/ flooded \/ cancelled
       \/ pace = "late" /\ command = Status   \* its own, smaller budget
    /\ timedOut' = (expired \/ cancelled \/ ~flooded)
    /\ Terminate
    /\ worker' = "drain"
    /\ UNCHANGED <<scene, expired, main, command, output, flooded, owner, result, answer>>

\* try_wait fails: the only way past the drain.
WaitFails ==
    /\ At("wait") /\ pace = "late"
    /\ Terminate
    /\ groups' = groups \ {command}
    /\ CommandFailed
    /\ UNCHANGED <<scene, expired, main, command, output, flooded, timedOut,
                   cancelled, doomed, adopted, answer>>

\* The pipes end with the last process of the group, or with a flood.
Drained ==
    /\ At("drain") /\ (flooded \/ alive[command] = {})
    /\ worker' = "sweep"
    /\ UNCHANGED <<scene, expired, main, command, children, timedOut, owner, result, answer>>

DrainTimeout ==
    /\ At("drain") /\ pace = "late"
    /\ timedOut' = TRUE
    /\ Terminate
    /\ worker' = "sweep"
    /\ UNCHANGED <<scene, expired, main, command, output, flooded, owner, result, answer>>

Sweep ==
    /\ At("sweep")
    /\ Terminate
    /\ worker' = "release"
    /\ UNCHANGED <<scene, expired, main, command, output, flooded, timedOut, owner,
                   result, answer>>

\* A mutant: the group is released with its leader, before the sweep.
ReleaseEarly ==
    /\ At("drain") \/ At("release")
    /\ groups' = groups \ {command}
    /\ worker' = IF worker = "drain" THEN "drain" ELSE "conclude"
    /\ UNCHANGED <<scene, expired, main, command, children, timedOut, cancelled,
                   doomed, adopted, result, answer>>

Release ==
    /\ At("release")
    /\ groups' = groups \ {command}
    /\ worker' = "conclude"
    /\ UNCHANGED <<scene, expired, main, command, children, timedOut, cancelled,
                   doomed, adopted, result, answer>>

Failed == timedOut \/ flooded \/ output = "failure"

SummaryText == IF ~Failed /\ output = "quiet" THEN "silent" ELSE "message"

\* resolve_event_root between the commands, and run_stop after them.
Conclude ==
    /\ At("conclude")
    /\ \/ /\ command # Status /\ ~Failed
          /\ command' = command + 1 /\ worker' = "check"
          /\ (command = EmptyTree => event = "stop")
          /\ output' = "none" /\ flooded' = FALSE /\ timedOut' = FALSE
          /\ UNCHANGED result
       \/ /\ command # Status
          /\ Failed \/ command = EmptyTree  \* not the registered project, or event
          /\ Send("silent")
          /\ UNCHANGED <<command, output, flooded, timedOut>>
       \/ /\ command = Status
          /\ Send(SummaryText)
          /\ UNCHANGED <<command, output, flooded, timedOut>>
    /\ UNCHANGED <<scene, expired, main, alive, owner, answer>>

Worker ==
    \/ CheckOwner \/ Spawn \/ Adopt \/ LeaderGone \/ StopWaiting \/ WaitFails
    \/ Drained \/ DrainTimeout \/ Sweep \/ Release \/ Conclude

-----------------------------------------------------------------------------
(***************************************************************************)
(* The children and the clock.                                             *)
(***************************************************************************)
LeaderExits(c, text) ==
    /\ "leader" \in alive[c]
    /\ alive' = [alive EXCEPT ![c] = @ \ {"leader"}]
    /\ output' = text
    /\ UNCHANGED <<scene, expired, threads, flooded, timedOut, owner>>

GitExits ==
    \E c \in Commands \ {Status} :
        \E text \in {"worktree", "failure"} : LeaderExits(c, text)

HelperStarts ==
    /\ pace = "late"
    /\ \E c \in Commands :
          /\ alive[c] = {"leader"}
          /\ alive' = [alive EXCEPT ![c] = {"leader", "helper"}]
    /\ UNCHANGED <<scene, expired, threads, output, flooded, timedOut, owner>>

HelperExits ==
    /\ \E c \in Commands :
          /\ "helper" \in alive[c]
          /\ alive' = [alive EXCEPT ![c] = @ \ {"helper"}]
    /\ UNCHANGED <<scene, expired, threads, output, flooded, timedOut, owner>>

Flood ==
    /\ pace = "late" /\ ~flooded
    /\ worker \in {"wait", "drain"} /\ alive[command] # {}
    /\ flooded' = TRUE
    /\ UNCHANGED <<scene, expired, threads, alive, output, timedOut, owner>>

Expire ==
    /\ pace = "late" /\ ~expired /\ main \in {"event", "work"}
    /\ expired' = TRUE
    /\ UNCHANGED <<scene, threads, children, timedOut, owner>>

Anyone == Main \/ Worker \/ GitExits \/ HelperStarts \/ HelperExits \/ Flood \/ Expire

\* The endpoint alone, whatever the status command prints.
NextEndpoint ==
    \/ Anyone
    \/ \E text \in {"quiet", "due", "failure"} : LeaderExits(Status, text)

InitAlone == \/ InitEndpoint("calm", Events \ {"held"})
             \/ InitEndpoint("late", Events)

SpecEndpoint == InitAlone /\ [][NextEndpoint]_endpointVars

-----------------------------------------------------------------------------
(***************************************************************************)
(* However the deadline falls between spawning, owning, draining, sweeping *)
(* and releasing a command, once the endpoint has exited no process of a   *)
(* command it owned is running (bounded_process.rs:53, "so nothing         *)
(* outlives the endpoint that started it"); a command it had started and   *)
(* not yet adopted is another matter.                                      *)
(***************************************************************************)
NothingAdoptedOutlives ==
    main = "exited" => \A c \in adopted : alive[c] = {}

(***************************************************************************)
(* The endpoint answers and exits, with an event that never ends and with  *)
(* children that never do (bounded_process.rs:3, "must answer within a     *)
(* fixed deadline").                                                       *)
(***************************************************************************)
EndpointAnswers == <>(main = "exited")
=============================================================================
