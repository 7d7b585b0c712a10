--------------------------- MODULE StopHookProofs ---------------------------
(***************************************************************************)
(* Proofs about the endpoint and the supervisor of its commands, wherever  *)
(* the deadline falls and whatever the children do, and about the snapshot *)
(* and the Stop hook built on both, for every worktree, every set of saves *)
(* and every number of edits.                                              *)
(***************************************************************************)
EXTENDS StopHook, ImportsProofs, TLAPS

(***************************************************************************)
(* The supervisor: how far the worker and the main thread are, and what is *)
(* owned then.                                                             *)
(***************************************************************************)
\* A worker has not adopted the command it is about to start.
Ahead == {"check", "spawn", "adopt"}

\* The places at which a group is owned, unless the owner has cancelled.
Holding == {"wait", "drain", "sweep", "release"}

WorkerPlace ==
    /\ main = "event" => worker = "idle" /\ adopted = {}
    /\ result # "none" => worker = "done"
    /\ worker \in Ahead => command \notin adopted
    /\ \A c \in adopted : c <= command
    /\ worker = "release" => alive[command] = {}

OwnerState ==
    /\ groups \subseteq {command}
    /\ worker \notin Holding => groups = {}
    /\ cancelled => groups = {}
    /\ main \in {"event", "work"} => ~cancelled
    /\ main # "kill" => doomed = {}
    /\ main = "kill" => cancelled
    /\ main \in {"emit", "exited"} => groups = {}
    /\ main = "emit" => cancelled \/ worker \in {"idle", "done"}

\* A process of an adopted group runs only while somebody is going to kill it.
OwnedOrDead == \A c \in adopted : alive[c] = {} \/ c \in groups \/ c \in doomed

SupervisorInv == TypeOKEndpoint /\ WorkerPlace /\ OwnerState /\ OwnedOrDead

-----------------------------------------------------------------------------
LEMMA InitEstablishes == InitAlone => SupervisorInv
BY DEF InitAlone, InitEndpoint, SupervisorInv, TypeOKEndpoint, WorkerPlace, OwnerState,
       OwnedOrDead, Commands, Toplevel, EmptyTree, Status, Outputs, Events, Ahead, Holding

(* The main thread: whatever it decides, it exits only with no group left  *)
(* to the worker or to itself.                                             *)
LEMMA MainPreserves == SupervisorInv /\ Main => SupervisorInv'
<1> SUFFICES ASSUME SupervisorInv, Main PROVE SupervisorInv'
  OBVIOUS
<1> USE DEF SupervisorInv, TypeOKEndpoint, WorkerPlace, OwnerState, OwnedOrDead,
            scene, threads, owner, children, Ahead, Holding
<1>1. CASE ReceiveEvent
  BY <1>1 DEF ReceiveEvent, Say
<1>2. CASE EventTimeout
  BY <1>2 DEF EventTimeout, Say
<1>3. CASE ReceiveResult
  BY <1>3 DEF ReceiveResult, Say
<1>4. CASE GiveUp
  BY <1>4 DEF GiveUp
<1>5. CASE KillGroup
  BY <1>5 DEF KillGroup
<1>6. CASE Unfinished
  BY <1>6 DEF Unfinished, Say
<1>7. CASE Emit
  BY <1>7 DEF Emit
<1>8. QED
  BY <1>1, <1>2, <1>3, <1>4, <1>5, <1>6, <1>7 DEF Main

(* The worker: a group is released only after its last process is gone,    *)
(* and a command is started only before it is adopted.                     *)
LEMMA WorkerPreserves == SupervisorInv /\ Worker => SupervisorInv'
<1> SUFFICES ASSUME SupervisorInv, Worker PROVE SupervisorInv'
  OBVIOUS
<1> USE DEF SupervisorInv, TypeOKEndpoint, WorkerPlace, OwnerState, OwnedOrDead,
            scene, threads, owner, children, Ahead, Holding,
            At, Send, CommandFailed, Terminate
<1>1. CASE CheckOwner
  BY <1>1 DEF CheckOwner
<1>2. CASE Spawn
  BY <1>2 DEF Spawn
<1>3. CASE Adopt
  <2>1. CASE cancelled
    BY <1>3, <2>1 DEF Adopt
  <2>2. CASE ~cancelled
    <3>1. command \in Nat
      BY DEF Commands, Toplevel, EmptyTree, Status
    <3>2. main = "work" /\ groups = {} /\ doomed = {} /\ result = "none"
      BY <1>3, <2>2 DEF Adopt
    <3>3. /\ groups' = {command} /\ adopted' = adopted \cup {command}
          /\ worker' = "wait"
          /\ UNCHANGED <<pace, event, expired, main, command, alive, output, flooded,
                         timedOut, cancelled, doomed, result, answer>>
      BY <1>3, <2>2, <3>2 DEF Adopt
    <3>4. TypeOKEndpoint' /\ OwnerState'
      BY <3>2, <3>3
    <3>5. WorkerPlace'
      BY <3>1, <3>2, <3>3
    <3>6. OwnedOrDead'
      BY <3>2, <3>3
    <3>7. QED
      BY <3>4, <3>5, <3>6
  <2>3. QED
    BY <2>1, <2>2
<1>4. CASE LeaderGone
  BY <1>4 DEF LeaderGone
<1>5. CASE StopWaiting
  BY <1>5 DEF StopWaiting
<1>6. CASE WaitFails
  BY <1>6 DEF WaitFails
<1>7. CASE Drained
  BY <1>7 DEF Drained
<1>8. CASE DrainTimeout
  BY <1>8 DEF DrainTimeout
<1>9. CASE Sweep
  BY <1>9 DEF Sweep
<1>10. CASE Release
  BY <1>10 DEF Release
<1>11. CASE Conclude
  <2>1. worker = "conclude" /\ main # "exited" /\ result = "none"
    BY <1>11 DEF Conclude
  <2>2. CASE worker' = "check"
    <3>1. command \in {1, 2} /\ command' = command + 1 /\ result' = result
      BY <1>11, <2>2 DEF Conclude, Commands, Toplevel, EmptyTree, Status
    <3>2. UNCHANGED <<pace, event, expired, main, alive, cancelled, groups, doomed,
                      answer, adopted>>
      BY <1>11 DEF Conclude
    <3>3. output' = "none" /\ flooded' = FALSE /\ timedOut' = FALSE
      BY <1>11, <2>2 DEF Conclude
    <3>4. adopted \subseteq 1 .. command
      BY <3>1 DEF Commands, Toplevel, EmptyTree, Status
    <3>5. groups' = {}
      BY <2>1, <3>2
    <3>6. command' \in Commands /\ output' \in Outputs
      BY <3>1, <3>3 DEF Commands, Toplevel, EmptyTree, Status, Outputs
    <3>7. TypeOKEndpoint'
      BY <2>2, <3>1, <3>2, <3>3, <3>6
    <3>8. OwnerState' /\ OwnedOrDead'
      BY <2>1, <2>2, <3>2, <3>5
    <3>9. WorkerPlace'
      BY <2>1, <2>2, <3>1, <3>2, <3>4
    <3>10. QED
      BY <3>7, <3>8, <3>9
  <2>3. CASE worker' = "done"
    <3>1. result' \in {"silent", "message"}
      BY <1>11, <2>3 DEF Conclude, SummaryText
    <3>2. UNCHANGED <<pace, event, expired, main, command, alive, output, flooded,
                      timedOut, cancelled, groups, doomed, answer, adopted>>
      BY <1>11, <2>3 DEF Conclude
    <3>3. QED
      BY <2>1, <2>3, <3>1, <3>2
  <2>4. QED
    BY <1>11, <2>2, <2>3 DEF Conclude
<1>12. QED
  BY <1>1, <1>2, <1>3, <1>4, <1>5, <1>6, <1>7, <1>8, <1>9, <1>10, <1>11 DEF Worker

(* Children and the clock: a group without a process never has one again.  *)
LEMMA OthersPreserve ==
    ASSUME SupervisorInv,
           \/ HelperStarts \/ HelperExits \/ Flood \/ Expire
           \/ \E c \in Commands : \E text \in Outputs : LeaderExits(c, text)
    PROVE  SupervisorInv'
<1> USE DEF SupervisorInv, TypeOKEndpoint, WorkerPlace, OwnerState, OwnedOrDead,
            scene, threads, owner, children, Ahead, Holding
<1>1. CASE HelperStarts
  BY <1>1 DEF HelperStarts
<1>2. CASE HelperExits
  BY <1>2 DEF HelperExits
<1>3. CASE Flood
  BY <1>3 DEF Flood
<1>4. CASE Expire
  BY <1>4 DEF Expire
<1>5. CASE \E c \in Commands : \E text \in Outputs : LeaderExits(c, text)
  BY <1>5 DEF LeaderExits
<1>6. QED
  BY <1>1, <1>2, <1>3, <1>4, <1>5

LEMMA StepPreserves == SupervisorInv /\ [NextEndpoint]_endpointVars => SupervisorInv'
<1> SUFFICES ASSUME SupervisorInv, [NextEndpoint]_endpointVars PROVE SupervisorInv'
  OBVIOUS
<1>1. CASE Main
  BY <1>1, MainPreserves
<1>2. CASE Worker
  BY <1>2, WorkerPreserves
<1>3. CASE HelperStarts \/ HelperExits \/ Flood \/ Expire
  BY <1>3, OthersPreserve
<1>4. CASE GitExits
  <2>1. \E c \in Commands : \E text \in Outputs : LeaderExits(c, text)
    BY <1>4 DEF GitExits, Outputs
  <2>2. QED
    BY <2>1, OthersPreserve
<1>5. CASE \E text \in {"quiet", "due", "failure"} : LeaderExits(Status, text)
  <2>1. \E c \in Commands : \E text \in Outputs : LeaderExits(c, text)
    BY <1>5 DEF Outputs, Commands
  <2>2. QED
    BY <2>1, OthersPreserve
<1>6. CASE UNCHANGED endpointVars
  BY <1>6 DEF SupervisorInv, TypeOKEndpoint, WorkerPlace, OwnerState, OwnedOrDead, endpointVars
<1>7. QED
  BY <1>1, <1>2, <1>3, <1>4, <1>5, <1>6 DEF NextEndpoint, Anyone

LEMMA Invariance == SpecEndpoint => []SupervisorInv
<1>1. QED
  BY InitEstablishes, StepPreserves, PTL DEF SpecEndpoint

-----------------------------------------------------------------------------
(* Type correctness of the endpoint (main.rs:1096, bounded_process.rs).    *)
THEOREM EndpointTypes == SpecEndpoint => []TypeOKEndpoint
<1>1. SupervisorInv => TypeOKEndpoint
  BY DEF SupervisorInv
<1>2. QED
  BY <1>1, Invariance, PTL

(* However the deadline falls between spawning, owning, draining, sweeping *)
(* and releasing a command, an endpoint that has exited has left no        *)
(* process of a group it owned (bounded_process.rs:53).                    *)
THEOREM AdoptedGroupsEnd == SpecEndpoint => []NothingAdoptedOutlives
<1>1. SupervisorInv => NothingAdoptedOutlives
  BY DEF SupervisorInv, OwnerState, OwnedOrDead, NothingAdoptedOutlives
<1>2. QED
  BY <1>1, Invariance, PTL

-----------------------------------------------------------------------------

(***************************************************************************)
(* The inductive invariant.  A read is a path and what was found there: a  *)
(* content, or whether the file exists.  A read is either still true of    *)
(* the worktree or gone for good, because what was found has been          *)
(* overwritten and nothing comes back.                                     *)
(***************************************************************************)
ContentReads(c) ==
    (IF c.config = None THEN {} ELSE {<<ConfigPath, c.config>>})
    \cup {<<p, c.files[p]>> : p \in DOMAIN c.files}
    \cup {<<g, c.rules[g]>> : g \in DOMAIN c.rules}
    \cup (IF c.hasLock = "missing" THEN {} ELSE {<<StatePath, s>> : s \in c.state})

\* Git shows the path, unless it is not there.
Shown(worktree, p) ==
    LET rules == [g \in {x \in Paths : worktree[x] # None /\ IsGitignore(x)} |-> worktree[g]]
    IN  /\ ~Excluded(p, GitScopes(rules))
        /\ Entered(Directory(p), rules)

KindReads(c) ==
    {<<p, c.kinds[p]>> : p \in DOMAIN c.kinds}
    \cup (IF c.hasLock = None THEN {} ELSE {<<StatePath, c.hasLock>>})
    \cup (IF c.hasLegacy = None THEN {} ELSE {<<LegacyPath, c.hasLegacy>>})

\* What the listing tells of the files that are not in the index.
ListReads(c, worktree) ==
    IF c.listed = None THEN {}
    ELSE {<<p, IF p \in c.listed THEN "regular" ELSE "missing">> :
             p \in {q \in Paths \ Tracked : Shown(worktree, q)}}

KindOf(content) == IF content = None THEN "missing" ELSE "regular"

Gone(r) == r \in overwritten /\ disk[r[1]] # r[2]

GoneKind(r) == /\ Kind(disk, r[1]) # r[2]
               /\ \E old \in overwritten : old[1] = r[1] /\ KindOf(old[2]) = r[2]

\* What this collection has read is so, or gone.
Fresh ==
    /\ \A r \in ContentReads(seen) : disk[r[1]] = r[2] \/ Gone(r)
    /\ \A r \in KindReads(seen) : Kind(disk, r[1]) = r[2] \/ GoneKind(r)
    /\ IgnoresStood =>
          \A r \in ListReads(seen, disk) : Kind(disk, r[1]) = r[2] \/ GoneKind(r)

\* What the one before it read was so at the seam, or is not read again.
Past ==
    /\ \A r \in ContentReads(previous) :
          seam[r[1]] = r[2] \/ (Gone(r) /\ r \notin ContentReads(seen))
    /\ \A r \in KindReads(previous) :
          Kind(seam, r[1]) = r[2] \/ (GoneKind(r) /\ r \notin KindReads(seen))
    /\ IgnoresStood =>
          \A r \in ListReads(previous, disk) :
              Kind(seam, r[1]) = r[2] \/ (GoneKind(r) /\ r \notin ListReads(seen, disk))

\* The ignore files stand, and so does what Git may show.
Standing ==
    IgnoresStood =>
        /\ \A g \in Paths : IsGitignore(g) => disk[g] = seam[g]
        /\ seen.listed # None =>
              /\ Tracked \subseteq seen.listed
              /\ \A p \in seen.listed \ Tracked : Shown(disk, p)

Shape(c) ==
    c = [config |-> c.config, listed |-> c.listed, kinds |-> c.kinds,
         files |-> c.files, rules |-> c.rules, hasLock |-> c.hasLock,
         hasLegacy |-> c.hasLegacy, state |-> c.state]

IsMap(read) == read = [p \in DOMAIN read |-> read[p]]

\* The rules are read folder by folder, no file before one of a folder above.
RulesInOrder(rules) ==
    LET files == {p \in Paths : IsGitignore(p) /\ Entered(Directory(p), rules)}
    IN  /\ DOMAIN rules \subseteq files
        /\ \A g \in DOMAIN rules : \A h \in files \ DOMAIN rules : Len(g) <= Len(h)

FilesInOrder(c) ==
    /\ DOMAIN c.files # {} => /\ c.config # None /\ c.listed # None
                              /\ c.listed \subseteq DOMAIN c.kinds
    /\ DOMAIN c.files \subseteq
          (IF Sidecars(c) \subseteq DOMAIN c.files
             THEN Sidecars(c) \cup SelectedFiles(c) \cup Readmes(c)
             ELSE Sidecars(c))

StateInOrder(c) ==
    /\ c.state # {} => /\ c.hasLock # None
                       /\ \E s \in c.state : /\ c.state = {s}
                                             /\ (s = None) = (c.hasLock = "missing")
    /\ c.hasLegacy # None => /\ c.hasLock # None
                             /\ c.hasLock = "missing" => c.state = {None}

\* A collection has read only what it has to, and in order.
Orderly(c) ==
    /\ Shape(c) /\ IsMap(c.kinds) /\ IsMap(c.files) /\ IsMap(c.rules)
    /\ c.listed # None => c.listed \subseteq Paths
    /\ DOMAIN c.kinds \subseteq (IF c.listed = None THEN {} ELSE c.listed)
    /\ FilesInOrder(c)
    /\ RulesInOrder(c.rules)
    /\ StateInOrder(c)

SnapshotInv ==
    /\ disk = [p \in Paths |-> disk[p]]
    /\ seam = [p \in Paths |-> seam[p]]
    /\ \A old \in overwritten : old[1] \in Paths
    /\ Orderly(seen)
    /\ outcome = "built" => Stage(seen) = "complete" /\ seen = previous
    /\ Standing
    /\ ~restored => Fresh /\ Past
-----------------------------------------------------------------------------
(***************************************************************************)
(* Records of a collection.                                                *)
(***************************************************************************)
LEMMA OneMore ==
    ASSUME NEW read, NEW p, NEW value
    PROVE  /\ DOMAIN With(read, p, value) = DOMAIN read \cup {p}
           /\ With(read, p, value)[p] = value
           /\ \A q \in DOMAIN read : q # p => With(read, p, value)[q] = read[q]
           /\ IsMap(With(read, p, value))
BY DEF With, IsMap

\* A collection with one field set is the record that has it so.
LEMMA Noted ==
    ASSUME NEW c, Shape(c), NEW v
    PROVE  /\ [c EXCEPT !.config = v] =
                [config |-> v, listed |-> c.listed, kinds |-> c.kinds,
                 files |-> c.files, rules |-> c.rules, hasLock |-> c.hasLock,
                 hasLegacy |-> c.hasLegacy, state |-> c.state]
           /\ [c EXCEPT !.listed = v] =
                [config |-> c.config, listed |-> v, kinds |-> c.kinds,
                 files |-> c.files, rules |-> c.rules, hasLock |-> c.hasLock,
                 hasLegacy |-> c.hasLegacy, state |-> c.state]
           /\ [c EXCEPT !.kinds = v] =
                [config |-> c.config, listed |-> c.listed, kinds |-> v,
                 files |-> c.files, rules |-> c.rules, hasLock |-> c.hasLock,
                 hasLegacy |-> c.hasLegacy, state |-> c.state]
           /\ [c EXCEPT !.files = v] =
                [config |-> c.config, listed |-> c.listed, kinds |-> c.kinds,
                 files |-> v, rules |-> c.rules, hasLock |-> c.hasLock,
                 hasLegacy |-> c.hasLegacy, state |-> c.state]
           /\ [c EXCEPT !.rules = v] =
                [config |-> c.config, listed |-> c.listed, kinds |-> c.kinds,
                 files |-> c.files, rules |-> v, hasLock |-> c.hasLock,
                 hasLegacy |-> c.hasLegacy, state |-> c.state]
           /\ [c EXCEPT !.hasLock = v] =
                [config |-> c.config, listed |-> c.listed, kinds |-> c.kinds,
                 files |-> c.files, rules |-> c.rules, hasLock |-> v,
                 hasLegacy |-> c.hasLegacy, state |-> c.state]
           /\ [c EXCEPT !.hasLegacy = v] =
                [config |-> c.config, listed |-> c.listed, kinds |-> c.kinds,
                 files |-> c.files, rules |-> c.rules, hasLock |-> c.hasLock,
                 hasLegacy |-> v, state |-> c.state]
           /\ [c EXCEPT !.state = v] =
                [config |-> c.config, listed |-> c.listed, kinds |-> c.kinds,
                 files |-> c.files, rules |-> c.rules, hasLock |-> c.hasLock,
                 hasLegacy |-> c.hasLegacy, state |-> v]
<1> DEFINE field == {"config", "listed", "kinds", "files", "rules", "hasLock", "hasLegacy", "state"}
<1>1. DOMAIN c = field
  BY DEF Shape
<1>2. c = [f \in field |-> c[f]]
  BY DEF Shape
<1>3. [c EXCEPT !.config = v] =
                [config |-> v, listed |-> c.listed, kinds |-> c.kinds,
                 files |-> c.files, rules |-> c.rules, hasLock |-> c.hasLock,
                 hasLegacy |-> c.hasLegacy, state |-> c.state]
  BY <1>1
<1>4. [c EXCEPT !.listed = v] =
                [config |-> c.config, listed |-> v, kinds |-> c.kinds,
                 files |-> c.files, rules |-> c.rules, hasLock |-> c.hasLock,
                 hasLegacy |-> c.hasLegacy, state |-> c.state]
  BY <1>1
<1>5. [c EXCEPT !.kinds = v] =
                [config |-> c.config, listed |-> c.listed, kinds |-> v,
                 files |-> c.files, rules |-> c.rules, hasLock |-> c.hasLock,
                 hasLegacy |-> c.hasLegacy, state |-> c.state]
  BY <1>1
<1>6. [c EXCEPT !.files = v] =
                [config |-> c.config, listed |-> c.listed, kinds |-> c.kinds,
                 files |-> v, rules |-> c.rules, hasLock |-> c.hasLock,
                 hasLegacy |-> c.hasLegacy, state |-> c.state]
  BY <1>1
<1>7. [c EXCEPT !.rules = v] =
                [config |-> c.config, listed |-> c.listed, kinds |-> c.kinds,
                 files |-> c.files, rules |-> v, hasLock |-> c.hasLock,
                 hasLegacy |-> c.hasLegacy, state |-> c.state]
  BY <1>1
<1>8. [c EXCEPT !.hasLock = v] =
                [config |-> c.config, listed |-> c.listed, kinds |-> c.kinds,
                 files |-> c.files, rules |-> c.rules, hasLock |-> v,
                 hasLegacy |-> c.hasLegacy, state |-> c.state]
  BY <1>1
<1>9. [c EXCEPT !.hasLegacy = v] =
                [config |-> c.config, listed |-> c.listed, kinds |-> c.kinds,
                 files |-> c.files, rules |-> c.rules, hasLock |-> c.hasLock,
                 hasLegacy |-> v, state |-> c.state]
  BY <1>1
<1>10. [c EXCEPT !.state = v] =
                [config |-> c.config, listed |-> c.listed, kinds |-> c.kinds,
                 files |-> c.files, rules |-> c.rules, hasLock |-> c.hasLock,
                 hasLegacy |-> c.hasLegacy, state |-> v]
  BY <1>1
<1> QED BY <1>3, <1>4, <1>5, <1>6, <1>7, <1>8, <1>9, <1>10

\* Which files the sidecars select depends on the sidecars alone.
LEMMA SelectionStands ==
    ASSUME NEW c, NEW d, c.kinds = d.kinds, c.config = d.config,
           \A p \in Sidecars(c) : c.files[p] = d.files[p]
    PROVE  /\ Present(c) = Present(d) /\ Readmes(c) = Readmes(d)
           /\ Sidecars(c) = Sidecars(d)
           /\ RuleScopes(c) = RuleScopes(d)
           /\ SelectedFiles(c) = SelectedFiles(d)
<1>1. Present(c) = Present(d)
  BY DEF Present
<1>2. Readmes(c) = Readmes(d)
  BY <1>1 DEF Readmes
<1>3. Sidecars(c) = Sidecars(d)
  BY <1>1, <1>2 DEF Sidecars
<1>4. {RuleScope(Directory(p), Len(p), c.files[p]) : p \in Sidecars(c)}
        = {RuleScope(Directory(p), Len(p), d.files[p]) : p \in Sidecars(d)}
  BY <1>3
<1>5. RuleScopes(c) = RuleScopes(d)
  BY <1>4 DEF RuleScopes
<1>6. SelectedFiles(c) = SelectedFiles(d)
  BY <1>1, <1>5 DEF SelectedFiles
<1> QED BY <1>1, <1>2, <1>3, <1>5, <1>6

\* The index and the files that are shown.
LEMMA ListingIs ==
    ASSUME NEW worktree
    PROVE  Listing(worktree)
             = Tracked \cup {p \in Paths : worktree[p] # None /\ Shown(worktree, p)}
<1> DEFINE there == {p \in Paths : worktree[p] # None}
           few == {p \in there : IsGitignore(p)}
           all == {x \in Paths : worktree[x] # None /\ IsGitignore(x)}
           rules == [g \in few |-> worktree[g]]
           same == [g \in all |-> worktree[g]]
<1>1. few = all
  OBVIOUS
<1>2. rules = same
  BY <1>1
<1>3. Listing(worktree)
        = Tracked \cup {p \in there : /\ ~Excluded(p, GitScopes(rules))
                                      /\ Entered(Directory(p), rules)}
  BY DEF Listing
<1>4. \A p : Shown(worktree, p) = (/\ ~Excluded(p, GitScopes(same))
                                   /\ Entered(Directory(p), same))
  BY DEF Shown
<1> HIDE DEF rules, same
<1> QED BY <1>2, <1>3, <1>4

\* Two worktrees with the same ignore files show the same.
LEMMA ShownStands ==
    ASSUME NEW one, NEW two, \A g \in Paths : IsGitignore(g) => one[g] = two[g]
    PROVE  \A p : Shown(one, p) = Shown(two, p)
<1> DEFINE rules(worktree) ==
             [g \in {x \in Paths : worktree[x] # None /\ IsGitignore(x)} |-> worktree[g]]
<1>1. {x \in Paths : one[x] # None /\ IsGitignore(x)}
        = {x \in Paths : two[x] # None /\ IsGitignore(x)}
  OBVIOUS
<1>2. rules(one) = rules(two)
  BY <1>1
<1>3. \A p : Shown(one, p) = (/\ ~Excluded(p, GitScopes(rules(one)))
                              /\ Entered(Directory(p), rules(one)))
  BY DEF Shown
<1>4. \A p : Shown(two, p) = (/\ ~Excluded(p, GitScopes(rules(two)))
                              /\ Entered(Directory(p), rules(two)))
  BY DEF Shown
<1> HIDE DEF rules
<1> QED BY <1>2, <1>3, <1>4
-----------------------------------------------------------------------------
(***************************************************************************)
(* Every read keeps the invariant: it reads what the worktree shows.       *)
(***************************************************************************)
\* A collection that has read more, and what it read more is so.
Reads(c, d) ==
    /\ ContentReads(d) \subseteq ContentReads(c) \cup {<<p, disk[p]>> : p \in Paths}
    /\ KindReads(d) \subseteq KindReads(c) \cup {<<p, Kind(disk, p)>> : p \in Paths}
    /\ \/ d.listed = c.listed
       \/ d.listed = Listing(disk)

LEMMA ReadingKeeps ==
    ASSUME SnapshotInv, NEW c, Orderly(c), Reads(seen, c), seen' = c, outcome = "running",
           UNCHANGED <<outcome, pass, previous, seam, project>>
    PROVE  SnapshotInv'
<1> USE DEF project
<1>1. disk' = [p \in Paths |-> disk'[p]] /\ seam' = [p \in Paths |-> seam'[p]]
  BY DEF SnapshotInv
<1>2. Orderly(seen')
  OBVIOUS
<1>3. Listing(disk) = Tracked \cup {p \in Paths : disk[p] # None /\ Shown(disk, p)}
  BY ListingIs
<1>4. IgnoresStood' = IgnoresStood
  BY DEF IgnoresStood
<1>5. Standing'
  BY <1>3, <1>4 DEF Standing, SnapshotInv, Reads
<1>6. ListReads(c, disk) \subseteq ListReads(seen, disk) \cup {<<p, Kind(disk, p)>> : p \in Paths}
  <2>1. CASE c.listed = seen.listed
    BY <2>1 DEF ListReads
  <2>2. CASE c.listed = Listing(disk)
    <3>1. \A p \in Paths \ Tracked : Shown(disk, p) => (p \in c.listed) = (disk[p] # None)
      BY <1>3, <2>2
    <3>2. SUFFICES ASSUME NEW r \in ListReads(c, disk)
                   PROVE  r \in {<<p, Kind(disk, p)>> : p \in Paths}
      OBVIOUS
    <3>3. c.listed # None
      BY DEF ListReads
    <3>4. PICK p \in Paths \ Tracked : /\ Shown(disk, p)
                                       /\ r = <<p, IF p \in c.listed THEN "regular" ELSE "missing">>
      BY <3>3 DEF ListReads
    <3>5. r = <<p, Kind(disk, p)>>
      BY <3>1, <3>4 DEF Kind
    <3> QED BY <3>5
  <2> QED BY <2>1, <2>2 DEF Reads
<1>7. ASSUME ~restored
      PROVE  Fresh' /\ Past'
  <2>1. /\ Fresh /\ Past
        /\ \A r : (Gone(r))' = Gone(r)
        /\ \A r : (GoneKind(r))' = GoneKind(r)
    BY <1>7 DEF SnapshotInv, Gone, GoneKind
  <2>2. Fresh'
    <3>1. \A r \in ContentReads(c) : disk[r[1]] = r[2] \/ Gone(r)
      BY <2>1 DEF Fresh, Reads
    <3>2. \A r \in KindReads(c) : Kind(disk, r[1]) = r[2] \/ GoneKind(r)
      BY <2>1 DEF Fresh, Reads
    <3>3. IgnoresStood => \A r \in ListReads(c, disk) : Kind(disk, r[1]) = r[2] \/ GoneKind(r)
      BY <2>1, <1>6 DEF Fresh
    <3> QED BY <3>1, <3>2, <3>3, <2>1, <1>4 DEF Fresh
  <2>3. Past'
    <3>1. \A r \in ContentReads(previous) :
             seam[r[1]] = r[2] \/ (Gone(r) /\ r \notin ContentReads(c))
      BY <2>1 DEF Past, Reads, Gone
    <3>2. \A r \in KindReads(previous) :
             Kind(seam, r[1]) = r[2] \/ (GoneKind(r) /\ r \notin KindReads(c))
      BY <2>1 DEF Past, Reads, GoneKind
    <3>3. IgnoresStood => \A r \in ListReads(previous, disk) :
             Kind(seam, r[1]) = r[2] \/ (GoneKind(r) /\ r \notin ListReads(c, disk))
      BY <2>1, <1>6 DEF Past, GoneKind
    <3> QED BY <3>1, <3>2, <3>3, <2>1, <1>4 DEF Past
  <2> QED BY <2>2, <2>3
<1> QED BY <1>1, <1>2, <1>5, <1>7 DEF SnapshotInv

\* So does the end of the command.
LEMMA EndingKeeps ==
    ASSUME SnapshotInv, NEW end, Give(end), UNCHANGED project,
           end = "built" => Stage(seen) = "complete" /\ seen = previous
    PROVE  SnapshotInv'
<1> USE DEF project, Give
<1>1. IgnoresStood' = IgnoresStood
  BY DEF IgnoresStood
<1>2. /\ \A r : (Gone(r))' = Gone(r)
      /\ \A r : (GoneKind(r))' = GoneKind(r)
  BY DEF Gone, GoneKind
<1>3. Fresh' = Fresh
  BY <1>1, <1>2 DEF Fresh
<1>4. Past' = Past
  BY <1>1, <1>2 DEF Past
<1>5. Standing' = Standing
  BY <1>1 DEF Standing
<1> QED BY <1>3, <1>4, <1>5 DEF SnapshotInv
-----------------------------------------------------------------------------
(***************************************************************************)
(* Git's rules, folder by folder.  Whether a folder is entered depends on  *)
(* the ignore files above it alone.                                        *)
(***************************************************************************)
LEMMA Folders ==
    ASSUME NEW p \in Seq(STRING) \ {<<>>}
    PROVE  /\ Directory(p) \in Seq(STRING)
           /\ Len(Directory(p)) = Len(p) - 1
           /\ Len(p) \in Nat \ {0}
<1>1. p \in Seq(STRING) /\ Len(p) \in Nat /\ Len(p) # 0
  OBVIOUS
<1>2. \A n \in 0 .. Len(p) : SubSeq(p, 1, n) \in Seq(STRING) /\ Len(SubSeq(p, 1, n)) = n
  BY <1>1
<1>3. Len(p) - 1 \in 0 .. Len(p)
  BY <1>1
<1> QED BY <1>1, <1>2, <1>3 DEF Directory

LEMMA Above ==
    ASSUME NEW dir \in Seq(STRING), NEW a \in Ancestors(dir)
    PROVE  /\ a \in Seq(STRING)
           /\ Len(a) <= Len(dir)
           /\ a # Root => Len(a) > 0
<1>1. PICK n \in 0 .. Len(dir) : a = SubSeq(dir, 1, n)
  BY DEF Ancestors
<1>2. a \in Seq(STRING) /\ Len(a) = n
  BY <1>1
<1>3. a # Root => n > 0
  BY <1>1, <1>2 DEF Root
<1> QED BY <1>2, <1>3

LEMMA Rulings ==
    ASSUME NEW one, NEW two, DOMAIN one \subseteq Paths, DOMAIN two \subseteq Paths,
           NEW p,
           \A x \in Paths : IsWithin(Directory(p), Directory(x)) =>
               /\ (x \in DOMAIN one /\ one[x] # None) = (x \in DOMAIN two /\ two[x] # None)
               /\ x \in DOMAIN one /\ one[x] # None => one[x] = two[x]
    PROVE  Excluded(p, GitScopes(one)) = Excluded(p, GitScopes(two))
<1>1. \A x : RuleScope(Directory(x), Len(x), one[x]).dir = Directory(x)
  BY DEF RuleScope
<1>2. \A x : RuleScope(Directory(x), Len(x), two[x]).dir = Directory(x)
  BY DEF RuleScope
<1>3. Matching(p, GitScopes(one)) \subseteq Matching(p, GitScopes(two))
  <2> SUFFICES ASSUME NEW s \in Matching(p, GitScopes(one))
               PROVE  s \in Matching(p, GitScopes(two))
    OBVIOUS
  <2>1. s \in GitScopes(one) /\ IsWithin(Directory(p), s.dir)
    BY DEF Matching
  <2>2. PICK x \in DOMAIN one : one[x] # None /\ s = RuleScope(Directory(x), Len(x), one[x])
    BY <2>1 DEF GitScopes
  <2>3. x \in DOMAIN two /\ two[x] # None /\ two[x] = one[x]
    BY <2>1, <2>2, <1>1
  <2>4. s \in GitScopes(two)
    BY <2>2, <2>3 DEF GitScopes
  <2> QED BY <2>4 DEF Matching
<1>4. Matching(p, GitScopes(two)) \subseteq Matching(p, GitScopes(one))
  <2> SUFFICES ASSUME NEW s \in Matching(p, GitScopes(two))
               PROVE  s \in Matching(p, GitScopes(one))
    OBVIOUS
  <2>1. s \in GitScopes(two) /\ IsWithin(Directory(p), s.dir)
    BY DEF Matching
  <2>2. PICK x \in DOMAIN two : two[x] # None /\ s = RuleScope(Directory(x), Len(x), two[x])
    BY <2>1 DEF GitScopes
  <2>3. x \in DOMAIN one /\ one[x] # None /\ two[x] = one[x]
    BY <2>1, <2>2, <1>2
  <2>4. s \in GitScopes(one)
    BY <2>2, <2>3 DEF GitScopes
  <2> QED BY <2>4 DEF Matching
<1>5. Matching(p, GitScopes(one)) = Matching(p, GitScopes(two))
  BY <1>3, <1>4
<1> QED BY <1>5 DEF Excluded

LEMMA EnteringStands ==
    ASSUME NEW one, NEW two, DOMAIN one \subseteq Paths, DOMAIN two \subseteq Paths,
           NEW dir \in Seq(STRING),
           \A x \in Paths : Len(x) <= Len(dir) =>
               /\ (x \in DOMAIN one) = (x \in DOMAIN two)
               /\ x \in DOMAIN one => one[x] = two[x]
    PROVE  Entered(dir, one) = Entered(dir, two)
<1>1. ASSUME NEW a \in Ancestors(dir) \ {Root}
      PROVE  Excluded(a, GitScopes(one)) = Excluded(a, GitScopes(two))
  <2>1. a \in Seq(STRING) \ {<<>>} /\ Len(a) <= Len(dir)
    BY Above DEF Root
  <2>2. ASSUME NEW x \in Paths, IsWithin(Directory(a), Directory(x))
        PROVE  Len(x) <= Len(dir)
    <3>1. x \in Seq(STRING) \ {<<>>}
      BY PathsAreNamed
    <3>2. Len(Directory(x)) <= Len(Directory(a))
      BY <2>2 DEF IsWithin
    <3>3. Len(Directory(x)) = Len(x) - 1 /\ Len(x) \in Nat
      BY <3>1, Folders
    <3>4. Len(Directory(a)) = Len(a) - 1 /\ Len(a) \in Nat
      BY <2>1, Folders
    <3> QED BY <3>2, <3>3, <3>4, <2>1
  <2> QED BY <2>2, Rulings
<1> QED BY <1>1 DEF Entered

\* One more ignore file, the shortest that was not read.
LEMMA RulesStayInOrder ==
    ASSUME NEW rules, RulesInOrder(rules), NEW g \in Paths, NEW value,
           IsGitignore(g), Entered(Directory(g), rules), g \notin DOMAIN rules,
           \A y \in Paths : /\ IsGitignore(y)
                            /\ Entered(Directory(y), rules)
                            /\ y \notin DOMAIN rules
                            => Len(g) <= Len(y)
    PROVE  RulesInOrder(With(rules, g, value))
<1> DEFINE more == With(rules, g, value)
<1>1. DOMAIN rules \subseteq Paths
  BY DEF RulesInOrder
<1>2. /\ DOMAIN more = DOMAIN rules \cup {g}
      /\ \A x \in DOMAIN rules : x # g => more[x] = rules[x]
  BY DEF With
<1> HIDE DEF more
<1>3. ASSUME NEW y \in Paths, Len(y) <= Len(g)
      PROVE  Entered(Directory(y), more) = Entered(Directory(y), rules)
  <2>1. y \in Seq(STRING) \ {<<>>} /\ g \in Seq(STRING) \ {<<>>}
    BY PathsAreNamed
  <2>2. Directory(y) \in Seq(STRING) /\ Len(Directory(y)) < Len(g)
    BY <1>3, <2>1, Folders
  <2>3. \A x \in Paths : Len(x) <= Len(Directory(y)) => x # g
    <3>1. Len(Directory(y)) \in Int /\ Len(g) \in Int
      BY <2>1, <2>2
    <3> QED BY <2>2, <3>1
  <2>4. \A x \in Paths : Len(x) <= Len(Directory(y)) =>
            /\ (x \in DOMAIN more) = (x \in DOMAIN rules)
            /\ x \in DOMAIN more => more[x] = rules[x]
    BY <2>3, <1>2
  <2>5. DOMAIN more \subseteq Paths
    BY <1>1, <1>2
  <2> QED BY <2>2, <2>4, <2>5, <1>1, EnteringStands
<1>4. \A x \in Paths : Len(x) \in Int
  <2> TAKE x \in Paths
  <2>1. x \in Seq(STRING)
    BY PathsAreNamed
  <2> QED BY <2>1
<1>5. \A x \in DOMAIN rules : /\ x \in Paths /\ IsGitignore(x)
                              /\ Entered(Directory(x), rules)
                              /\ Len(x) <= Len(g)
  BY DEF RulesInOrder
<1>6. \A x \in DOMAIN more : /\ x \in Paths /\ IsGitignore(x)
                             /\ Len(x) <= Len(g)
                             /\ Entered(Directory(x), more)
  <2> TAKE x \in DOMAIN more
  <2>1. x \in Paths /\ IsGitignore(x) /\ Len(x) <= Len(g) /\ Entered(Directory(x), rules)
    <3>1. CASE x = g
      BY <3>1, <1>4
    <3>2. CASE x \in DOMAIN rules
      BY <3>2, <1>5
    <3> QED BY <3>1, <3>2, <1>2
  <2> QED BY <2>1, <1>3
<1>7. ASSUME NEW x \in DOMAIN more, NEW h \in Paths, IsGitignore(h),
             Entered(Directory(h), more), h \notin DOMAIN more
      PROVE  Len(x) <= Len(h)
  <2>1. CASE Len(h) <= Len(g)
    <3>1. Entered(Directory(h), rules) /\ h \notin DOMAIN rules
      BY <2>1, <1>3, <1>7, <1>2
    <3>2. Len(g) <= Len(h)
      BY <3>1, <1>7
    <3> QED BY <3>2, <1>6, <1>4
  <2>2. CASE Len(g) <= Len(h)
    BY <2>2, <1>6, <1>4
  <2> QED BY <2>1, <2>2, <1>4
<1> QED BY <1>6, <1>7 DEF RulesInOrder, more

(***************************************************************************)
(* When every ignore file in a folder that the read rules enter is read,   *)
(* they enter the same folders as all ignore files of the worktree do.     *)
(***************************************************************************)
LEMMA FoldersEntered ==
    ASSUME NEW rules, NEW worktree,
           RulesInOrder(rules),
           \A g \in DOMAIN rules : rules[g] = worktree[g],
           \A g \in Paths : IsGitignore(g) /\ Entered(Directory(g), rules) => g \in DOMAIN rules,
           NEW every, every = [g \in {p \in Paths : IsGitignore(p)} |-> worktree[g]]
    PROVE  \A dir \in Seq(STRING) : Entered(dir, rules) = Entered(dir, every)
<1> DEFINE same(n) == \A dir \in Seq(STRING) : Len(dir) <= n =>
                          Entered(dir, rules) = Entered(dir, every)
           T == {n \in Nat : same(n)}
<1>1. DOMAIN rules \subseteq Paths /\ DOMAIN every \subseteq Paths
  BY DEF RulesInOrder
<1>2. 0 \in T
  <2>1. ASSUME NEW dir \in Seq(STRING), Len(dir) <= 0
        PROVE  Ancestors(dir) \ {Root} = {}
    <3>1. \A a \in Ancestors(dir) : a = Root
      BY <2>1, Above
    <3> QED BY <3>1
  <2>2. same(0)
    BY <2>1 DEF Entered
  <2> QED BY <2>2
<1>3. ASSUME NEW n \in T
      PROVE  n + 1 \in T
  <2>1. same(n) /\ n \in Nat
    OBVIOUS
  <2>2. ASSUME NEW dir \in Seq(STRING), Len(dir) = n + 1
        PROVE  Entered(dir, rules) = Entered(dir, every)
    <3> DEFINE up == Directory(dir)
    <3>1. dir # <<>> /\ dir # Root
      BY <2>2, <2>1 DEF Root
    <3>2. up \in Seq(STRING) /\ Len(up) = n
      BY <3>1, <2>2, <2>1, Folders
    <3>3. Ancestors(dir) = Ancestors(up) \cup {dir}
      <4>1. \A m \in 0 .. n : SubSeq(up, 1, m) = SubSeq(dir, 1, m)
        BY <3>2, <2>2 DEF Directory
      <4>2. SubSeq(dir, 1, n + 1) = dir
        BY <2>2
      <4>3. 0 .. Len(dir) = (0 .. Len(up)) \cup {n + 1}
        BY <3>2, <2>2, <2>1
      <4> QED BY <4>1, <4>2, <4>3, <3>2 DEF Ancestors
    <3>4. Entered(up, rules) = Entered(up, every)
      BY <2>1, <3>2
    <3>5. /\ Entered(dir, rules) = (Entered(up, rules) /\ ~Excluded(dir, GitScopes(rules)))
          /\ Entered(dir, every) = (Entered(up, every) /\ ~Excluded(dir, GitScopes(every)))
      <4> HIDE DEF up
      <4> QED BY <3>1, <3>3 DEF Entered
    <3>6. ASSUME Entered(up, rules)
          PROVE  Excluded(dir, GitScopes(rules)) = Excluded(dir, GitScopes(every))
      <4>1. ASSUME NEW x \in Paths, IsWithin(up, Directory(x)), IsGitignore(x)
            PROVE  x \in DOMAIN rules
        <5>1. x \in Seq(STRING) \ {<<>>}
          BY PathsAreNamed
        <5>2. Directory(x) \in Seq(STRING)
          BY <5>1, Folders
        <5>3. Len(Directory(x)) <= Len(up) /\ SubSeq(up, 1, Len(Directory(x))) = Directory(x)
          BY <4>1 DEF IsWithin
        <5>4. Ancestors(Directory(x)) \subseteq Ancestors(up)
          <6> SUFFICES ASSUME NEW m \in 0 .. Len(Directory(x))
                       PROVE  SubSeq(Directory(x), 1, m) \in Ancestors(up)
            BY DEF Ancestors
          <6>1. SubSeq(Directory(x), 1, m) = SubSeq(up, 1, m)
            <7> HIDE DEF up
            <7> QED BY <5>2, <5>3, <3>2
          <6>2. m \in 0 .. Len(up)
            BY <5>2, <5>3, <3>2
          <6> QED BY <6>1, <6>2 DEF Ancestors
        <5>5. Entered(Directory(x), rules)
          BY <5>4, <3>6 DEF Entered
        <5> QED BY <5>5, <4>1
      <4>2. \A x \in DOMAIN rules : IsGitignore(x)
        BY DEF RulesInOrder
      <4>3. ASSUME NEW x \in Paths, IsWithin(up, Directory(x))
            PROVE  /\ x \in DOMAIN rules <=> x \in DOMAIN every
                   /\ x \in DOMAIN rules => rules[x] = every[x]
        BY <4>1, <4>2, <4>3
      <4>4. \A x \in Paths : IsWithin(Directory(dir), Directory(x)) =>
               /\ (x \in DOMAIN rules /\ rules[x] # None)
                     = (x \in DOMAIN every /\ every[x] # None)
               /\ x \in DOMAIN rules /\ rules[x] # None => rules[x] = every[x]
        BY <4>3
      <4> HIDE DEF up
      <4> QED BY <4>4, <1>1, Rulings
    <3> QED BY <3>4, <3>5, <3>6
  <2>3. same(n + 1)
    <3> SUFFICES ASSUME NEW dir \in Seq(STRING), Len(dir) <= n + 1
                 PROVE  Entered(dir, rules) = Entered(dir, every)
      OBVIOUS
    <3>1. Len(dir) <= n \/ Len(dir) = n + 1
      BY <2>1
    <3> QED BY <3>1, <2>1, <2>2
  <2> QED BY <2>1, <2>3
<1>4. T = Nat
  <2> HIDE DEF T
  <2>1. T \subseteq Nat
    BY DEF T
  <2> QED BY <2>1, <1>2, <1>3, Counting
<1> SUFFICES ASSUME NEW dir \in Seq(STRING)
             PROVE  Entered(dir, rules) = Entered(dir, every)
  OBVIOUS
<1>5. Len(dir) \in T
  BY <1>4
<1>6. same(Len(dir))
  BY <1>5
<1> QED BY <1>6

-----------------------------------------------------------------------------
(***************************************************************************)
(* The actions of a collection, one by one.                                *)
(***************************************************************************)
LEMMA Stages ==
    ASSUME NEW c
    PROVE  /\ Stage(c) = "config" => c.config = None
           /\ Stage(c) \in {"list", "stat", "sidecars", "sources", "rules", "readmes",
                            "state", "legacy", "load", "complete"} => c.config # None
           /\ Stage(c) = "list" => c.listed = None
           /\ Stage(c) \in {"stat", "sidecars", "sources", "rules", "readmes", "state",
                            "legacy", "load", "complete"} => c.listed # None
           /\ Stage(c) = "stat" => c.listed \ DOMAIN c.kinds # {}
           /\ Stage(c) \in {"sidecars", "sources", "rules", "readmes", "state", "legacy",
                            "load", "complete"} => c.listed \subseteq DOMAIN c.kinds
           /\ Stage(c) = "sidecars" => Sidecars(c) \ DOMAIN c.files # {}
           /\ Stage(c) \in {"sources", "rules", "readmes", "state", "legacy", "load",
                            "complete"} => Sidecars(c) \subseteq DOMAIN c.files
           /\ Stage(c) = "sources" => SelectedFiles(c) \ DOMAIN c.files # {}
           /\ Stage(c) \in {"rules", "readmes", "state", "legacy", "load", "complete"} =>
                  SelectedFiles(c) \subseteq DOMAIN c.files
           /\ Stage(c) = "rules" => RuleFiles(c) \ DOMAIN c.rules # {}
           /\ Stage(c) \in {"readmes", "state", "legacy", "load", "complete"} =>
                  RuleFiles(c) \subseteq DOMAIN c.rules
           /\ Stage(c) = "readmes" => Readmes(c) \ DOMAIN c.files # {}
           /\ Stage(c) \in {"state", "legacy", "load", "complete"} =>
                  Readmes(c) \subseteq DOMAIN c.files
           /\ Stage(c) = "state" => c.hasLock = None
           /\ Stage(c) \in {"legacy", "load", "complete"} => c.hasLock # None
           /\ Stage(c) = "legacy" => c.hasLegacy = None
           /\ Stage(c) \in {"load", "complete"} => c.hasLegacy # None
           /\ Stage(c) = "load" => c.state = {}
           /\ Stage(c) = "complete" => c.state # {}
BY DEF Stage

LEMMA ReadConfigKeeps ==
    ASSUME SnapshotInv, ReadConfig
    PROVE  SnapshotInv'
<1>1. outcome = "running" /\ Stage(seen) = "config" /\ UNCHANGED project /\ Orderly(seen)
  BY DEF ReadConfig, Collecting, SnapshotInv
<1>2. CASE disk[ConfigPath] = None
  BY <1>1, <1>2, EndingKeeps DEF ReadConfig
<1>3. ASSUME disk[ConfigPath] # None
      PROVE  SnapshotInv'
  <2> DEFINE c == [seen EXCEPT !.config = disk[ConfigPath]]
  <2>1. Note(c)
    BY <1>1, <1>3 DEF ReadConfig
  <2>2. c = [config |-> disk[ConfigPath], listed |-> seen.listed, kinds |-> seen.kinds,
             files |-> seen.files, rules |-> seen.rules, hasLock |-> seen.hasLock,
             hasLegacy |-> seen.hasLegacy, state |-> seen.state]
    BY <1>1, Noted DEF Orderly
  <2> HIDE DEF c
  <2>3. /\ Shape(c)
        /\ c.config = disk[ConfigPath] /\ c.listed = seen.listed
        /\ c.kinds = seen.kinds /\ c.files = seen.files
        /\ c.rules = seen.rules /\ c.hasLock = seen.hasLock
        /\ c.hasLegacy = seen.hasLegacy /\ c.state = seen.state
    BY <2>2 DEF Shape
  <2>4. DOMAIN seen.files = {}
    BY <1>1, Stages DEF Orderly, FilesInOrder
  <2>5. Orderly(c)
    <3>1. FilesInOrder(c)
      BY <2>3, <2>4 DEF FilesInOrder
    <3> QED BY <3>1, <2>3, <1>1 DEF Orderly, StateInOrder
  <2>6. Reads(seen, c)
    <3>1. ConfigPath \in Paths
      BY OwnFilesArePaths
    <3> QED BY <3>1, <2>3 DEF Reads, ContentReads, KindReads
  <2> QED BY <2>1, <2>5, <2>6, <1>1, ReadingKeeps DEF Note
<1> QED BY <1>2, <1>3

LEMMA StatKeeps ==
    ASSUME SnapshotInv, Stat
    PROVE  SnapshotInv'
<1>1. outcome = "running" /\ Stage(seen) = "stat" /\ UNCHANGED project /\ Orderly(seen)
  BY DEF Stat, Collecting, SnapshotInv
<1> DEFINE p == Least(seen.listed \ DOMAIN seen.kinds)
<1>2. p \in seen.listed \ DOMAIN seen.kinds /\ p \in Paths
  <2>1. seen.listed \ DOMAIN seen.kinds # {} /\ seen.listed \subseteq Paths
    BY <1>1, Stages DEF Orderly
  <2> QED BY <2>1, LeastIsOne
<1>3. SnapshotInv'
  <2> DEFINE c == [seen EXCEPT !.kinds = With(seen.kinds, p, Kind(disk, p))]
  <2>1. Note(c)
    BY <1>1 DEF Stat
  <2>2. c = [config |-> seen.config, listed |-> seen.listed, kinds |-> With(seen.kinds, p, Kind(disk, p)),
             files |-> seen.files, rules |-> seen.rules, hasLock |-> seen.hasLock,
             hasLegacy |-> seen.hasLegacy, state |-> seen.state]
    BY <1>1, Noted DEF Orderly
  <2> HIDE DEF c
  <2>3. /\ Shape(c)
        /\ c.config = seen.config /\ c.listed = seen.listed
        /\ c.kinds = With(seen.kinds, p, Kind(disk, p)) /\ c.files = seen.files
        /\ c.rules = seen.rules /\ c.hasLock = seen.hasLock
        /\ c.hasLegacy = seen.hasLegacy /\ c.state = seen.state
    BY <2>2 DEF Shape
  <2> HIDE DEF p
  <2>4. /\ DOMAIN c.kinds = DOMAIN seen.kinds \cup {p}
        /\ IsMap(c.kinds) /\ c.kinds[p] = Kind(disk, p)
        /\ \A q \in DOMAIN seen.kinds : c.kinds[q] = seen.kinds[q]
    BY <1>2, <2>3 DEF With, IsMap
  <2>5. Orderly(c)
    <3>1. DOMAIN seen.files = {}
      BY <1>2 DEF Orderly, FilesInOrder, SnapshotInv
    <3>2. FilesInOrder(c)
      BY <2>3, <3>1 DEF FilesInOrder
    <3>3. c.listed # None
      BY <1>1, <2>3, Stages
    <3> QED BY <3>2, <3>3, <2>3, <2>4, <1>1, <1>2 DEF Orderly, StateInOrder
  <2>6. Reads(seen, c)
    BY <2>3, <2>4, <1>2 DEF Reads, ContentReads, KindReads
  <2> QED BY <2>1, <2>5, <2>6, <1>1, ReadingKeeps DEF Note
<1> QED BY <1>3

LEMMA ListPathsKeeps ==
    ASSUME SnapshotInv, ListPaths
    PROVE  SnapshotInv'
<1>1. outcome = "running" /\ Stage(seen) = "list" /\ UNCHANGED project /\ Orderly(seen)
  BY DEF ListPaths, Collecting, SnapshotInv
<1>2. CASE Give("failed")
  BY <1>1, <1>2, EndingKeeps DEF ListPaths
<1>3. ASSUME ~Give("failed")
      PROVE  SnapshotInv'
  <2> DEFINE c == [seen EXCEPT !.listed = Listing(disk)]
  <2>1. Note(c)
    BY <1>1, <1>3 DEF ListPaths
  <2>2. c = [config |-> seen.config, listed |-> Listing(disk), kinds |-> seen.kinds,
             files |-> seen.files, rules |-> seen.rules, hasLock |-> seen.hasLock,
             hasLegacy |-> seen.hasLegacy, state |-> seen.state]
    BY <1>1, Noted DEF Orderly
  <2> HIDE DEF c
  <2>3. /\ Shape(c)
        /\ c.config = seen.config /\ c.listed = Listing(disk)
        /\ c.kinds = seen.kinds /\ c.files = seen.files
        /\ c.rules = seen.rules /\ c.hasLock = seen.hasLock
        /\ c.hasLegacy = seen.hasLegacy /\ c.state = seen.state
    BY <2>2 DEF Shape
  <2>4. DOMAIN seen.files = {} /\ DOMAIN seen.kinds = {}
    BY <1>1, Stages DEF Orderly, FilesInOrder
  <2>5. Orderly(c)
    <3>1. FilesInOrder(c)
      BY <2>3, <2>4 DEF FilesInOrder
    <3>2. Listing(disk) \subseteq Paths
      BY ListingIs, TrackedArePaths
    <3> QED BY <3>1, <3>2, <2>3, <2>4, <1>1 DEF Orderly, StateInOrder
  <2>6. Reads(seen, c)
    BY <2>3 DEF Reads, ContentReads, KindReads
  <2> QED BY <2>1, <2>5, <2>6, <1>1, ReadingKeeps DEF Note
<1> QED BY <1>2, <1>3

LEMMA LookForStateKeeps ==
    ASSUME SnapshotInv, LookForState
    PROVE  SnapshotInv'
<1>1. outcome = "running" /\ Stage(seen) = "state" /\ UNCHANGED project /\ Orderly(seen)
  BY DEF LookForState, Collecting, SnapshotInv
<1>3. SnapshotInv'
  <2> DEFINE c == [seen EXCEPT !.hasLock = Kind(disk, StatePath)]
  <2>1. Note(c)
    BY <1>1 DEF LookForState
  <2>2. c = [config |-> seen.config, listed |-> seen.listed, kinds |-> seen.kinds,
             files |-> seen.files, rules |-> seen.rules, hasLock |-> Kind(disk, StatePath),
             hasLegacy |-> seen.hasLegacy, state |-> seen.state]
    BY <1>1, Noted DEF Orderly
  <2> HIDE DEF c
  <2>3. /\ Shape(c)
        /\ c.config = seen.config /\ c.listed = seen.listed
        /\ c.kinds = seen.kinds /\ c.files = seen.files
        /\ c.rules = seen.rules /\ c.hasLock = Kind(disk, StatePath)
        /\ c.hasLegacy = seen.hasLegacy /\ c.state = seen.state
    BY <2>2 DEF Shape
  <2>4. seen.hasLock = None /\ seen.state = {} /\ seen.hasLegacy = None
    BY <1>1, Stages DEF Orderly, StateInOrder
  <2>5. Orderly(c)
    <3>1. FilesInOrder(c)
      <4>1. /\ Sidecars(c) = Sidecars(seen) /\ Readmes(c) = Readmes(seen)
            /\ SelectedFiles(c) = SelectedFiles(seen)
        BY <2>3, SelectionStands
      <4> QED BY <4>1, <2>3, <1>1 DEF Orderly, FilesInOrder
    <3>2. StateInOrder(c)
      BY <2>3, <2>4 DEF StateInOrder
    <3> QED BY <3>1, <3>2, <2>3, <1>1 DEF Orderly
  <2>6. Reads(seen, c)
    <3>1. StatePath \in Paths
      BY OwnFilesArePaths
    <3>2. ContentReads(c) = ContentReads(seen)
      BY <2>3, <2>4 DEF ContentReads
    <3> QED BY <3>1, <3>2, <2>3 DEF Reads, KindReads
  <2> QED BY <2>1, <2>5, <2>6, <1>1, ReadingKeeps DEF Note
<1> QED BY <1>3

LEMMA LookForLegacyKeeps ==
    ASSUME SnapshotInv, LookForLegacy
    PROVE  SnapshotInv'
<1>1. outcome = "running" /\ Stage(seen) = "legacy" /\ UNCHANGED project /\ Orderly(seen)
  BY DEF LookForLegacy, Collecting, SnapshotInv
<1>2. CASE disk[LegacyPath] # None
  BY <1>1, <1>2, EndingKeeps DEF LookForLegacy
<1>3. ASSUME disk[LegacyPath] = None
      PROVE  SnapshotInv'
  <2> DEFINE w == IF seen.hasLock = "missing" THEN {None} ELSE {}
  <2> DEFINE c == [seen EXCEPT !.hasLegacy = "missing", !.state = w]
  <2>1. Note(c)
    BY <1>1, <1>3 DEF LookForLegacy
  <2>2. c = [config |-> seen.config, listed |-> seen.listed, kinds |-> seen.kinds,
             files |-> seen.files, rules |-> seen.rules, hasLock |-> seen.hasLock,
             hasLegacy |-> "missing", state |-> w]
    <3> HIDE DEF w
    <3> DEFINE d == [seen EXCEPT !.hasLegacy = "missing"]
    <3>1. c = [d EXCEPT !.state = w]
      OBVIOUS
    <3>2. d = [config |-> seen.config, listed |-> seen.listed, kinds |-> seen.kinds,
               files |-> seen.files, rules |-> seen.rules, hasLock |-> seen.hasLock,
               hasLegacy |-> "missing", state |-> seen.state]
      BY <1>1, Noted DEF Orderly
    <3> HIDE DEF d, c
    <3>3. Shape(d)
      BY <3>2 DEF Shape
    <3>4. [d EXCEPT !.state = w] =
              [config |-> d.config, listed |-> d.listed, kinds |-> d.kinds,
               files |-> d.files, rules |-> d.rules, hasLock |-> d.hasLock,
               hasLegacy |-> d.hasLegacy, state |-> w]
      BY <3>3, Noted
    <3> QED BY <3>1, <3>2, <3>4
  <2> HIDE DEF c
  <2>3. /\ Shape(c)
        /\ c.config = seen.config /\ c.listed = seen.listed
        /\ c.kinds = seen.kinds /\ c.files = seen.files
        /\ c.rules = seen.rules /\ c.hasLock = seen.hasLock
        /\ c.hasLegacy = "missing" /\ c.state = w
    BY <2>2 DEF Shape
  <2>4. seen.hasLock # None
    BY <1>1, Stages
  <2>5. Orderly(c)
    <3>1. FilesInOrder(c)
      <4>1. /\ Sidecars(c) = Sidecars(seen) /\ Readmes(c) = Readmes(seen)
            /\ SelectedFiles(c) = SelectedFiles(seen)
        BY <2>3, SelectionStands
      <4> QED BY <4>1, <2>3, <1>1 DEF Orderly, FilesInOrder
    <3>2. StateInOrder(c)
      BY <2>3, <2>4 DEF StateInOrder
    <3> QED BY <3>1, <3>2, <2>3, <1>1 DEF Orderly
  <2>6. Reads(seen, c)
    <3>1. LegacyPath \in Paths /\ Kind(disk, LegacyPath) = "missing"
      BY <1>3, OwnFilesArePaths DEF Kind
    <3>2. ContentReads(c) \subseteq ContentReads(seen)
      BY <2>3 DEF ContentReads
    <3> QED BY <3>1, <3>2, <2>3 DEF Reads, KindReads
  <2> QED BY <2>1, <2>5, <2>6, <1>1, ReadingKeeps DEF Note
<1> QED BY <1>2, <1>3

LEMMA LoadStateKeeps ==
    ASSUME SnapshotInv, LoadState
    PROVE  SnapshotInv'
<1>1. outcome = "running" /\ Stage(seen) = "load" /\ UNCHANGED project /\ Orderly(seen)
  BY DEF LoadState, Collecting, SnapshotInv
<1>2. CASE disk[StatePath] = None
  BY <1>1, <1>2, EndingKeeps DEF LoadState
<1>3. ASSUME disk[StatePath] # None
      PROVE  SnapshotInv'
  <2> DEFINE c == [seen EXCEPT !.state = {disk[StatePath]}]
  <2>1. Note(c)
    BY <1>1, <1>3 DEF LoadState
  <2>2. c = [config |-> seen.config, listed |-> seen.listed, kinds |-> seen.kinds,
             files |-> seen.files, rules |-> seen.rules, hasLock |-> seen.hasLock,
             hasLegacy |-> seen.hasLegacy, state |-> {disk[StatePath]}]
    BY <1>1, Noted DEF Orderly
  <2> HIDE DEF c
  <2>3. /\ Shape(c)
        /\ c.config = seen.config /\ c.listed = seen.listed
        /\ c.kinds = seen.kinds /\ c.files = seen.files
        /\ c.rules = seen.rules /\ c.hasLock = seen.hasLock
        /\ c.hasLegacy = seen.hasLegacy /\ c.state = {disk[StatePath]}
    BY <2>2 DEF Shape
  <2>4. seen.hasLock # None /\ seen.hasLock # "missing"
    BY <1>1, Stages DEF Orderly, StateInOrder
  <2>5. Orderly(c)
    <3>1. FilesInOrder(c)
      <4>1. /\ Sidecars(c) = Sidecars(seen) /\ Readmes(c) = Readmes(seen)
            /\ SelectedFiles(c) = SelectedFiles(seen)
        BY <2>3, SelectionStands
      <4> QED BY <4>1, <2>3, <1>1 DEF Orderly, FilesInOrder
    <3>2. StateInOrder(c)
      BY <2>3, <2>4, <1>3 DEF StateInOrder
    <3> QED BY <3>1, <3>2, <2>3, <1>1 DEF Orderly
  <2>6. Reads(seen, c)
    <3>1. StatePath \in Paths
      BY OwnFilesArePaths
    <3>2. ContentReads(c) \subseteq ContentReads(seen) \cup {<<p, disk[p]>> : p \in Paths}
      BY <2>3, <3>1 DEF ContentReads
    <3> QED BY <3>2, <2>3 DEF Reads, KindReads
  <2> QED BY <2>1, <2>5, <2>6, <1>1, ReadingKeeps DEF Note
<1> QED BY <1>2, <1>3

\* A file that belongs to what the collection reads now.
LEMMA ReadFileKeeps ==
    ASSUME SnapshotInv, NEW stage, NEW files, ReadFile(stage, files),
           files \ DOMAIN seen.files # {}, files \subseteq Paths,
           seen.config # None, seen.listed # None, seen.listed \subseteq DOMAIN seen.kinds,
           \/ files = Sidecars(seen)
           \/ /\ Sidecars(seen) \subseteq DOMAIN seen.files
              /\ files \subseteq SelectedFiles(seen) \cup Readmes(seen)
    PROVE  SnapshotInv'
<1> DEFINE p == Least(files \ DOMAIN seen.files)
<1>1. outcome = "running" /\ UNCHANGED project /\ Orderly(seen)
  BY DEF ReadFile, Collecting, SnapshotInv
<1>2. p \in files \ DOMAIN seen.files /\ p \in Paths
  BY LeastIsOne
<1>3. CASE disk[p] = None
  BY <1>1, <1>3, EndingKeeps DEF ReadFile
<1>4. ASSUME disk[p] # None
      PROVE  SnapshotInv'
  <2> DEFINE c == [seen EXCEPT !.files = With(seen.files, p, disk[p])]
  <2>1. Note(c)
    BY <1>4 DEF ReadFile
  <2>2. c = [config |-> seen.config, listed |-> seen.listed, kinds |-> seen.kinds,
             files |-> With(seen.files, p, disk[p]), rules |-> seen.rules,
             hasLock |-> seen.hasLock, hasLegacy |-> seen.hasLegacy, state |-> seen.state]
    BY <1>1, Noted DEF Orderly
  <2> HIDE DEF c, p
  <2>3. /\ Shape(c)
        /\ c.config = seen.config /\ c.listed = seen.listed
        /\ c.kinds = seen.kinds /\ c.files = With(seen.files, p, disk[p])
        /\ c.rules = seen.rules /\ c.hasLock = seen.hasLock
        /\ c.hasLegacy = seen.hasLegacy /\ c.state = seen.state
    BY <2>2 DEF Shape
  <2>4. /\ DOMAIN c.files = DOMAIN seen.files \cup {p}
        /\ IsMap(c.files) /\ c.files[p] = disk[p]
        /\ \A q \in DOMAIN seen.files : c.files[q] = seen.files[q]
    BY <1>2, <2>3 DEF With, IsMap
  <2>5. Orderly(c)
    <3>1. Sidecars(c) = Sidecars(seen) /\ Readmes(c) = Readmes(seen)
      BY <2>3 DEF Sidecars, Readmes, Present
    <3>2. CASE files = Sidecars(seen)
      BY <3>1, <3>2, <1>1, <1>2, <2>3, <2>4 DEF Orderly, FilesInOrder, StateInOrder
    <3>3. CASE /\ Sidecars(seen) \subseteq DOMAIN seen.files
               /\ files \subseteq SelectedFiles(seen) \cup Readmes(seen)
      <4>1. SelectedFiles(c) = SelectedFiles(seen)
        BY <3>3, <2>3, <2>4, SelectionStands
      <4> QED BY <4>1, <3>1, <3>3, <1>1, <1>2, <2>3, <2>4 DEF Orderly, FilesInOrder, StateInOrder
    <3> QED BY <3>2, <3>3
  <2>6. Reads(seen, c)
    BY <2>3, <2>4, <1>2 DEF Reads, ContentReads, KindReads
  <2> QED BY <2>1, <2>5, <2>6, <1>1, ReadingKeeps DEF Note
<1> QED BY <1>3, <1>4

LEMMA FilesArePaths ==
    ASSUME SnapshotInv
    PROVE  Present(seen) \subseteq Paths
BY DEF SnapshotInv, Orderly, Present

LEMMA ReadSidecarKeeps ==
    ASSUME SnapshotInv, ReadSidecar
    PROVE  SnapshotInv'
<1>1. Stage(seen) = "sidecars" /\ ReadFile("sidecars", Sidecars(seen))
  BY DEF ReadSidecar, ReadFile, Collecting
<1>2. Sidecars(seen) \subseteq Paths
  BY FilesArePaths DEF Sidecars
<1> QED BY <1>1, <1>2, Stages, ReadFileKeeps

LEMMA ReadSourceKeeps ==
    ASSUME SnapshotInv, ReadSource
    PROVE  SnapshotInv'
<1>1. Stage(seen) = "sources" /\ ReadFile("sources", SelectedFiles(seen))
  BY DEF ReadSource, ReadFile, Collecting
<1>2. SelectedFiles(seen) \subseteq Paths
  BY FilesArePaths DEF SelectedFiles
<1> QED BY <1>1, <1>2, Stages, ReadFileKeeps

LEMMA ReadReadmeKeeps ==
    ASSUME SnapshotInv, ReadReadme
    PROVE  SnapshotInv'
<1>1. Stage(seen) = "readmes" /\ ReadFile("readmes", Readmes(seen))
  BY DEF ReadReadme, ReadFile, Collecting
<1>2. Readmes(seen) \subseteq Paths
  BY FilesArePaths DEF Readmes
<1> QED BY <1>1, <1>2, Stages, ReadFileKeeps

LEMMA ReadRulesKeeps ==
    ASSUME SnapshotInv, ReadRules
    PROVE  SnapshotInv'
<1>1. outcome = "running" /\ Stage(seen) = "rules" /\ UNCHANGED project /\ Orderly(seen)
  BY DEF ReadRules, Collecting, SnapshotInv
<1> DEFINE unread == RuleFiles(seen) \ DOMAIN seen.rules
           g == Least({x \in unread : \A y \in unread : Len(x) <= Len(y)})
<1>2. g \in unread /\ \A y \in unread : Len(g) <= Len(y)
  <2>1. unread # {} /\ unread \subseteq Paths
    BY <1>1, Stages DEF RuleFiles
  <2>2. {x \in unread : \A y \in unread : Len(x) <= Len(y)} # {}
    <3> HIDE DEF unread
    <3> QED BY <2>1, Shortest
  <2>3. g \in {x \in unread : \A y \in unread : Len(x) <= Len(y)}
    <3> HIDE DEF unread
    <3> QED BY <2>1, <2>2, LeastIsOne
  <2> QED BY <2>3
<1>3. SnapshotInv'
  <2> DEFINE c == [seen EXCEPT !.rules = With(seen.rules, g, disk[g])]
  <2>1. Note(c)
    BY <1>1 DEF ReadRules
  <2>2. c = [config |-> seen.config, listed |-> seen.listed, kinds |-> seen.kinds,
             files |-> seen.files, rules |-> With(seen.rules, g, disk[g]), hasLock |-> seen.hasLock,
             hasLegacy |-> seen.hasLegacy, state |-> seen.state]
    BY <1>1, Noted DEF Orderly
  <2> HIDE DEF c
  <2>3. /\ Shape(c)
        /\ c.config = seen.config /\ c.listed = seen.listed
        /\ c.kinds = seen.kinds /\ c.files = seen.files
        /\ c.rules = With(seen.rules, g, disk[g]) /\ c.hasLock = seen.hasLock
        /\ c.hasLegacy = seen.hasLegacy /\ c.state = seen.state
    BY <2>2 DEF Shape
  <2> HIDE DEF g
  <2>4. /\ DOMAIN c.rules = DOMAIN seen.rules \cup {g}
        /\ IsMap(c.rules) /\ c.rules[g] = disk[g]
        /\ \A x \in DOMAIN seen.rules : c.rules[x] = seen.rules[x]
    BY <1>2, <2>3 DEF With, IsMap
  <2>5. Orderly(c)
    <3>1. FilesInOrder(c)
      <4>1. /\ Sidecars(c) = Sidecars(seen) /\ Readmes(c) = Readmes(seen)
            /\ SelectedFiles(c) = SelectedFiles(seen)
        BY <2>3, SelectionStands
      <4> QED BY <4>1, <2>3, <1>1 DEF Orderly, FilesInOrder
    <3>2. RulesInOrder(c.rules)
      <4>1. /\ g \in Paths /\ IsGitignore(g) /\ Entered(Directory(g), seen.rules)
            /\ g \notin DOMAIN seen.rules
            /\ \A y \in Paths : /\ IsGitignore(y)
                                /\ Entered(Directory(y), seen.rules)
                                /\ y \notin DOMAIN seen.rules
                                => Len(g) <= Len(y)
        BY <1>2 DEF RuleFiles
      <4>2. RulesInOrder(seen.rules)
        BY <1>1 DEF Orderly
      <4> QED BY <4>1, <4>2, <2>3, RulesStayInOrder
    <3> QED BY <3>1, <3>2, <2>3, <2>4, <1>1 DEF Orderly, StateInOrder
  <2>6. Reads(seen, c)
    <3>1. g \in Paths
      BY <1>2 DEF RuleFiles
    <3> QED BY <3>1, <2>3, <2>4 DEF Reads, ContentReads, KindReads
  <2> QED BY <2>1, <2>5, <2>6, <1>1, ReadingKeeps DEF Note
<1> QED BY <1>3
-----------------------------------------------------------------------------
(***************************************************************************)
(* The start and the end of a collection, and what happens in between.     *)
(***************************************************************************)
LEMMA BlankHasReadNothing ==
    /\ Orderly(Blank)
    /\ Blank.listed = None
    /\ ContentReads(Blank) = {} /\ KindReads(Blank) = {}
    /\ \A worktree : ListReads(Blank, worktree) = {}
<1>1. Shape(Blank) /\ IsMap(Blank.kinds) /\ IsMap(Blank.files) /\ IsMap(Blank.rules)
  BY DEF Blank, Shape, IsMap
<1>2. /\ Blank.config = None /\ Blank.listed = None /\ Blank.hasLock = None
      /\ Blank.hasLegacy = None /\ Blank.state = {}
      /\ DOMAIN Blank.kinds = {} /\ DOMAIN Blank.files = {} /\ DOMAIN Blank.rules = {}
  BY DEF Blank
<1>3. FilesInOrder(Blank) /\ RulesInOrder(Blank.rules) /\ StateInOrder(Blank)
  BY <1>2 DEF FilesInOrder, RulesInOrder, StateInOrder
<1>4. ContentReads(Blank) = {} /\ KindReads(Blank) = {}
  BY <1>2 DEF ContentReads, KindReads
<1>5. \A worktree : ListReads(Blank, worktree) = {}
  BY <1>2 DEF ListReads
<1> QED BY <1>1, <1>2, <1>3, <1>4, <1>5 DEF Orderly

LEMMA BeginKeeps ==
    ASSUME SnapshotInv, Begin
    PROVE  SnapshotInv'
<1> USE DEF Begin, project
<1>1. IgnoresStood' = IgnoresStood
  BY DEF IgnoresStood
<1>2. Standing'
  BY <1>1, BlankHasReadNothing DEF Standing, SnapshotInv
<1>3. ASSUME ~restored
      PROVE  Fresh' /\ Past'
  <2>1. /\ Past
        /\ \A r : (Gone(r))' = Gone(r)
        /\ \A r : (GoneKind(r))' = GoneKind(r)
    BY <1>3 DEF SnapshotInv, Gone, GoneKind
  <2>2. Fresh'
    BY BlankHasReadNothing DEF Fresh
  <2>3. Past'
    BY <2>1, <1>1, BlankHasReadNothing DEF Past
  <2> QED BY <2>2, <2>3
<1> QED BY <1>2, <1>3, BlankHasReadNothing DEF SnapshotInv

\* The next collection compares itself with this one.
LEMMA AgainKeeps ==
    ASSUME SnapshotInv, previous' = seen, seen' = Blank, seam' = disk,
           outcome = "running", UNCHANGED <<outcome, project>>
    PROVE  SnapshotInv'
<1> USE DEF project
<1>1. IgnoresStood' = IgnoresStood
  BY DEF IgnoresStood
<1>2. Standing'
  BY <1>1, BlankHasReadNothing DEF Standing
<1>3. ASSUME ~restored
      PROVE  Fresh' /\ Past'
  <2>1. /\ Fresh
        /\ \A r : (Gone(r))' = Gone(r)
        /\ \A r : (GoneKind(r))' = GoneKind(r)
    BY <1>3 DEF SnapshotInv, Gone, GoneKind
  <2>2. Fresh'
    BY BlankHasReadNothing DEF Fresh
  <2>3. Past'
    BY <2>1, <1>1, BlankHasReadNothing DEF Past, Fresh
  <2> QED BY <2>2, <2>3
<1> QED BY <1>2, <1>3, BlankHasReadNothing DEF SnapshotInv

LEMMA EndPassKeeps ==
    ASSUME SnapshotInv, EndPass
    PROVE  SnapshotInv'
<1>1. outcome = "running" /\ Stage(seen) = "complete" /\ UNCHANGED project
  BY DEF EndPass, Collecting
<1>2. CASE Same(previous, seen) /\ Give("built")
  BY <1>1, <1>2, EndingKeeps DEF Same
<1>3. CASE /\ previous' = seen /\ seen' = Blank
           /\ seam' = disk /\ UNCHANGED outcome
  BY <1>1, <1>3, AgainKeeps
<1>4. CASE Give("failed")
  BY <1>1, <1>4, EndingKeeps
<1> QED BY <1>2, <1>3, <1>4 DEF EndPass

\* A save: what it overwrites is gone, and what is gone does not come back.
LEMMA EditKeeps ==
    ASSUME SnapshotInv, NEW p \in Paths, NEW content, Edit(p, content)
    PROVE  SnapshotInv'
<1> USE DEF building
<1>1. /\ disk = [q \in Paths |-> disk[q]]
      /\ disk' = [disk EXCEPT ![p] = content] /\ content # disk[p]
      /\ overwritten' = overwritten \cup {<<p, disk[p]>>}
      /\ UNCHANGED <<outcome, seen, previous, seam>>
      /\ restored' = (restored \/ \E old \in overwritten :
                          old[1] = p /\ (disk[p] = None \/ old[2] = content))
  BY DEF Edit, SnapshotInv
<1>2. /\ disk' = [q \in Paths |-> disk'[q]] /\ disk'[p] = content
      /\ \A q \in Paths \ {p} : disk'[q] = disk[q]
  <2>1. DOMAIN disk = Paths
    BY <1>1
  <2>2. disk' = [q \in Paths |-> IF q = p THEN content ELSE disk[q]]
    BY <2>1, <1>1
  <2> QED BY <2>2, <1>1
<1>3. IgnoresStood' => IgnoresStood /\ ~IsGitignore(p)
  <2>1. <<p, disk[p]>> \in overwritten' /\ overwritten \subseteq overwritten'
    BY <1>1
  <2> QED BY <2>1 DEF IgnoresStood
<1>4. IgnoresStood' => \A q : Shown(disk', q) = Shown(disk, q)
  BY <1>2, <1>3, ShownStands
<1>5. Standing'
  BY <1>1, <1>2, <1>3, <1>4 DEF Standing, SnapshotInv
<1>6. ASSUME ~restored'
      PROVE  Fresh' /\ Past'
  <2>1. /\ ~restored
        /\ \A old \in overwritten : old[1] = p => disk[p] # None /\ old[2] # content
    BY <1>1, <1>6
  <2>2. \A r : Gone(r) => Gone(r)'
    BY <1>1, <1>2, <2>1 DEF Gone, SnapshotInv
  <2>3. \A r \in ContentReads(seen) \cup KindReads(seen) \cup ListReads(seen, disk) :
           r[1] \in Paths
    <3>1. Orderly(seen) /\ DOMAIN seen.kinds \subseteq Paths
      BY DEF SnapshotInv, Orderly
    <3>2. DOMAIN seen.files \subseteq Paths
      BY <3>1 DEF Orderly, FilesInOrder, Sidecars, SelectedFiles, Readmes, Present
    <3>3. DOMAIN seen.rules \subseteq Paths
      BY <3>1 DEF Orderly, RulesInOrder
    <3> QED BY <3>1, <3>2, <3>3, OwnFilesArePaths DEF ContentReads, KindReads, ListReads
  <2>4. \A r : GoneKind(r) => GoneKind(r)'
    <3> SUFFICES ASSUME NEW r, GoneKind(r)
                 PROVE  GoneKind(r)'
      OBVIOUS
    <3>1. PICK old \in overwritten : old[1] = r[1] /\ KindOf(old[2]) = r[2]
      BY DEF GoneKind
    <3>2. Kind(disk', r[1]) # r[2]
      <4>1. CASE r[1] # p
        <5>1. r[1] \in Paths
          BY <3>1 DEF SnapshotInv
        <5> QED BY <4>1, <5>1, <1>2 DEF GoneKind, Kind
      <4>2. CASE r[1] = p
        <5>1. disk[p] # None /\ old[2] # content
          BY <4>2, <3>1, <2>1
        <5>2. KindOf(old[2]) # "regular"
          BY <5>1, <4>2, <3>1 DEF GoneKind, Kind
        <5>3. old[2] = None
          BY <5>2 DEF KindOf
        <5>4. content # None
          BY <5>1, <5>3
        <5> QED BY <5>3, <5>4, <4>2, <3>1, <1>2 DEF Kind, KindOf
      <4> QED BY <4>1, <4>2
    <3> QED BY <3>1, <3>2, <1>1 DEF GoneKind
  <2>5. ASSUME NEW r, r[1] \in Paths, Kind(disk, r[1]) = r[2]
        PROVE  Kind(disk', r[1]) = r[2] \/ GoneKind(r)'
    <3>1. CASE r[1] # p
      BY <3>1, <2>5, <1>2 DEF Kind
    <3>2. CASE r[1] = p
      <4>1. <<p, disk[p]>> \in overwritten'
        BY <1>1
      <4>2. KindOf(disk[p]) = r[2]
        BY <3>2, <2>5 DEF Kind, KindOf
      <4>3. \E old \in overwritten' : old[1] = p /\ KindOf(old[2]) = r[2]
        <5> DEFINE pair == <<p, disk[p]>>
        <5>1. pair[1] = p /\ pair[2] = disk[p]
          OBVIOUS
        <5> HIDE DEF pair
        <5> QED BY <4>1, <4>2, <5>1 DEF pair
      <4> QED BY <3>2, <4>3 DEF GoneKind
    <3> QED BY <3>1, <3>2
  <2>6. Fresh /\ Past
    BY <2>1 DEF SnapshotInv
  <2>7. ASSUME NEW r \in ContentReads(seen)
        PROVE  disk'[r[1]] = r[2] \/ Gone(r)'
    <3>1. CASE Gone(r)
      BY <3>1, <2>2
    <3>2. CASE disk[r[1]] = r[2]
      <4>1. r = <<r[1], r[2]>>
        BY <2>7 DEF ContentReads
      <4> QED BY <3>2, <4>1, <1>1, <1>2, <2>3 DEF Gone
    <3> QED BY <3>1, <3>2, <2>6 DEF Fresh
  <2>8. \A r \in KindReads(seen) : Kind(disk', r[1]) = r[2] \/ GoneKind(r)'
    BY <2>3, <2>4, <2>5, <2>6 DEF Fresh
  <2>9. IgnoresStood' => /\ ListReads(seen, disk') = ListReads(seen, disk)
                         /\ ListReads(previous, disk') = ListReads(previous, disk)
    BY <1>4 DEF ListReads
  <2>10. IgnoresStood' =>
            \A r \in ListReads(seen, disk') : Kind(disk', r[1]) = r[2] \/ GoneKind(r)'
    BY <2>3, <2>4, <2>5, <2>6, <2>9, <1>3 DEF Fresh
  <2>11. Fresh'
    BY <2>7, <2>8, <2>10, <1>1 DEF Fresh
  <2>12. \A r \in ContentReads(previous) :
            seam[r[1]] = r[2] \/ (Gone(r)' /\ r \notin ContentReads(seen))
    BY <2>2, <2>6 DEF Past
  <2>13. \A r \in KindReads(previous) :
            Kind(seam, r[1]) = r[2] \/ (GoneKind(r)' /\ r \notin KindReads(seen))
    BY <2>4, <2>6 DEF Past
  <2>14. IgnoresStood' =>
            \A r \in ListReads(previous, disk') :
               Kind(seam, r[1]) = r[2] \/ (GoneKind(r)' /\ r \notin ListReads(seen, disk'))
    BY <2>4, <2>6, <2>9, <1>3 DEF Past
  <2>15. Past'
    BY <2>12, <2>13, <2>14, <1>1 DEF Past
  <2> QED BY <2>11, <2>15
<1> QED BY <1>1, <1>2, <1>5, <1>6 DEF SnapshotInv
LEMMA InitEstablishesSnapshot ==
    ASSUME NEW origin \in Origins, InitSnapshot(origin)
    PROVE  SnapshotInv
<1> USE DEF InitSnapshot
<1>1. disk = [p \in Paths |-> disk[p]] /\ seam = [p \in Paths |-> seam[p]]
  BY OriginsAreWorktrees
<1>2. Standing
  BY BlankHasReadNothing DEF Standing
<1>3. Fresh /\ Past
  BY BlankHasReadNothing DEF Fresh, Past
<1> QED BY <1>1, <1>2, <1>3, BlankHasReadNothing DEF SnapshotInv

LEMMA CollectKeeps ==
    ASSUME SnapshotInv, Collect
    PROVE  SnapshotInv'
BY ReadConfigKeeps, ListPathsKeeps, StatKeeps, ReadSidecarKeeps, ReadSourceKeeps,
   ReadRulesKeeps, ReadReadmeKeeps, LookForStateKeeps, LookForLegacyKeeps, LoadStateKeeps,
   EndPassKeeps DEF Collect

LEMMA StandingStillKeeps ==
    ASSUME SnapshotInv, UNCHANGED snapshotVars
    PROVE  SnapshotInv'
<1> USE DEF snapshotVars
<1>1. IgnoresStood' = IgnoresStood
  BY DEF IgnoresStood
<1>2. Standing' = Standing
  BY <1>1 DEF Standing
<1>3. /\ \A r : (Gone(r))' = Gone(r)
      /\ \A r : (GoneKind(r))' = GoneKind(r)
  BY DEF Gone, GoneKind
<1>4. Fresh' = Fresh /\ Past' = Past
  BY <1>1, <1>3 DEF Fresh, Past
<1> QED BY <1>2, <1>4 DEF SnapshotInv

LEMMA SnapshotSteps == SnapshotInv /\ [StopHookNext]_stopHookVars => SnapshotInv'
<1> SUFFICES ASSUME SnapshotInv, [StopHookNext]_stopHookVars
             PROVE  SnapshotInv'
  OBVIOUS
<1>1. CASE UNCHANGED snapshotVars
  BY <1>1, StandingStillKeeps
<1>2. CASE Begin
  BY <1>2, BeginKeeps
<1>3. CASE Collect
  BY <1>3, CollectKeeps
<1>4. CASE Edits
  <2>1. PICK save \in Saves : Edit(save[1], save[2])
    BY <1>4 DEF Edits
  <2> QED BY <2>1, SavesAreVersions, EditKeeps
<1>5. StopHookNext \/ UNCHANGED snapshotVars
  BY DEF stopHookVars
<1> QED BY <1>1, <1>2, <1>3, <1>4, <1>5 DEF StopHookNext, StatusCollects, StatusPrints, StatusEnds

LEMMA SnapshotInvariance == StopHookSpec => []SnapshotInv
<1>1. InitStopHook => SnapshotInv
  BY InitEstablishesSnapshot DEF InitStopHook
<1> QED BY <1>1, SnapshotSteps, PTL DEF StopHookSpec

-----------------------------------------------------------------------------
(***************************************************************************)
(* Two equal collections, without anything that came back in between.      *)
(***************************************************************************)
\* Everything the second read was so when it began.
LEMMA BuiltShows ==
    ASSUME SnapshotInv, outcome = "built", ~restored
    PROVE  Shows(seam, seen)
<1>1. Stage(seen) = "complete" /\ seen = previous /\ Past /\ Orderly(seen)
  BY DEF SnapshotInv
<1>2. ASSUME NEW p, NEW v, <<p, v>> \in ContentReads(seen)
      PROVE  seam[p] = v
  <2> DEFINE r == <<p, v>>
  <2>1. r[1] = p /\ r[2] = v
    OBVIOUS
  <2> HIDE DEF r
  <2> QED BY <1>1, <1>2, <2>1 DEF Past, r
<1>3. ASSUME NEW p, NEW v, <<p, v>> \in KindReads(seen)
      PROVE  Kind(seam, p) = v
  <2> DEFINE r == <<p, v>>
  <2>1. r[1] = p /\ r[2] = v
    OBVIOUS
  <2> HIDE DEF r
  <2> QED BY <1>1, <1>3, <2>1 DEF Past, r
<1>4. /\ seen.config # None /\ seen.hasLock # None /\ seen.hasLegacy # None
      /\ seen.state # {}
  BY <1>1, Stages
<1>5. seen.config = seam[ConfigPath]
  <2>1. <<ConfigPath, seen.config>> \in ContentReads(seen)
    BY <1>4 DEF ContentReads
  <2> QED BY <2>1, <1>2
<1>6. \A p \in DOMAIN seen.kinds : seen.kinds[p] = Kind(seam, p)
  <2>1. \A p \in DOMAIN seen.kinds : <<p, seen.kinds[p]>> \in KindReads(seen)
    BY DEF KindReads
  <2> QED BY <2>1, <1>3
<1>7. \A p \in DOMAIN seen.files : seen.files[p] = seam[p]
  <2>1. \A p \in DOMAIN seen.files : <<p, seen.files[p]>> \in ContentReads(seen)
    BY DEF ContentReads
  <2> QED BY <2>1, <1>2
<1>8. \A g \in DOMAIN seen.rules : seen.rules[g] = seam[g]
  <2>1. \A g \in DOMAIN seen.rules : <<g, seen.rules[g]>> \in ContentReads(seen)
    BY DEF ContentReads
  <2> QED BY <2>1, <1>2
<1>9. seen.hasLock = Kind(seam, StatePath) /\ seen.hasLegacy = Kind(seam, LegacyPath)
  <2>1. /\ <<StatePath, seen.hasLock>> \in KindReads(seen)
        /\ <<LegacyPath, seen.hasLegacy>> \in KindReads(seen)
    BY <1>4 DEF KindReads
  <2> QED BY <2>1, <1>3
<1>10. seen.state = {seam[StatePath]}
  <2>1. PICK s \in seen.state : seen.state = {s} /\ (s = None) = (seen.hasLock = "missing")
    BY <1>1, <1>4 DEF Orderly, StateInOrder
  <2>2. CASE s = None
    <3>1. seam[StatePath] = None
      BY <2>1, <2>2, <1>9 DEF Kind
    <3> QED BY <2>1, <2>2, <3>1
  <2>3. CASE s # None
    <3>1. <<StatePath, s>> \in ContentReads(seen)
      BY <2>1, <2>3 DEF ContentReads
    <3> QED BY <2>1, <3>1, <1>2
  <2> QED BY <2>2, <2>3
<1> QED BY <1>5, <1>6, <1>7, <1>8, <1>9, <1>10 DEF Shows

\* And nothing was left out, if the ignore files stood.
LEMMA BuiltIsWhole ==
    ASSUME SnapshotInv, outcome = "built", ~restored, IgnoresStood
    PROVE  seen = Whole(seam)
<1>1. Stage(seen) = "complete" /\ seen = previous /\ Past /\ Standing /\ Orderly(seen)
  BY DEF SnapshotInv
<1>2. Shows(seam, seen)
  BY BuiltShows
<1>3. seen.listed # None
  BY <1>1, Stages
<1>4. seen.listed = Listing(seam)
  <2>1. \A r \in ListReads(seen, disk) : Kind(seam, r[1]) = r[2]
    BY <1>1 DEF Past
  <2>2. \A p : Shown(disk, p) = Shown(seam, p)
    BY <1>1, ShownStands DEF Standing
  <2>3. \A p \in Paths \ Tracked : Shown(seam, p) => (p \in seen.listed) = (seam[p] # None)
    <3> SUFFICES ASSUME NEW p \in Paths \ Tracked, Shown(seam, p)
                 PROVE  (p \in seen.listed) = (seam[p] # None)
      OBVIOUS
    <3> DEFINE v == IF p \in seen.listed THEN "regular" ELSE "missing"
    <3>1. <<p, v>> \in ListReads(seen, disk)
      BY <1>3, <2>2 DEF ListReads
    <3>2. Kind(seam, p) = v
      <4> HIDE DEF v
      <4> QED BY <3>1, <2>1
    <3> QED BY <3>2 DEF Kind
  <2>4. Tracked \subseteq seen.listed /\ \A p \in seen.listed \ Tracked : Shown(seam, p)
    BY <1>1, <1>3, <2>2 DEF Standing
  <2>5. seen.listed \subseteq Paths
    BY <1>1, <1>3 DEF Orderly
  <2>6. \A p : p \in seen.listed <=>
               p \in Tracked \cup {q \in Paths : seam[q] # None /\ Shown(seam, q)}
    BY <2>3, <2>4, <2>5, TrackedArePaths
  <2> QED BY <2>6, ListingIs
<1>5. seen.kinds = [p \in Listing(seam) |-> Kind(seam, p)]
  <2>1. DOMAIN seen.kinds = Listing(seam)
    BY <1>1, <1>3, <1>4, Stages DEF Orderly
  <2> QED BY <2>1, <1>1, <1>2 DEF Orderly, IsMap, Shows
<1> DEFINE rules == [g \in {p \in Paths : IsGitignore(p)} |-> seam[g]]
           read(S) == [p \in S |-> seam[p]]
<1>6. seen.rules = read({x \in DOMAIN rules : Entered(Directory(x), rules)})
  <2>1. RulesInOrder(seen.rules) /\ IsMap(seen.rules)
    BY <1>1 DEF Orderly
  <2>2. \A g \in Paths : IsGitignore(g) /\ Entered(Directory(g), seen.rules) =>
            g \in DOMAIN seen.rules
    BY <1>1, Stages DEF RuleFiles
  <2>3. \A g \in DOMAIN seen.rules : seen.rules[g] = seam[g]
    BY <1>2 DEF Shows
  <2>4. \A dir \in Seq(STRING) : Entered(dir, seen.rules) = Entered(dir, rules)
    BY <2>1, <2>2, <2>3, FoldersEntered
  <2>5. \A x \in Paths : Entered(Directory(x), seen.rules) = Entered(Directory(x), rules)
    <3> TAKE x \in Paths
    <3>1. Directory(x) \in Seq(STRING)
      BY PathsAreNamed, Folders
    <3> QED BY <3>1, <2>4
  <2>6. DOMAIN seen.rules = {x \in DOMAIN rules : Entered(Directory(x), rules)}
    BY <2>1, <2>2, <2>5 DEF RulesInOrder
  <2> HIDE DEF rules
  <2> QED BY <2>1, <2>3, <2>6 DEF IsMap
<1> DEFINE with(files) ==
             [config    |-> seam[ConfigPath],
              listed    |-> Listing(seam),
              kinds     |-> [p \in Listing(seam) |-> Kind(seam, p)],
              files     |-> files,
              rules     |-> read({x \in DOMAIN rules : Entered(Directory(x), rules)}),
              hasLock   |-> Kind(seam, StatePath),
              hasLegacy |-> Kind(seam, LegacyPath),
              state     |-> {seam[StatePath]}]
           scoped == with(read(Sidecars(with(<<>>))))
<1>7. \A files : /\ with(files).config = seen.config /\ with(files).kinds = seen.kinds
                 /\ with(files).files = files
  BY <1>2, <1>5 DEF Shows
<1>8. seen = with(seen.files)
  <2> HIDE DEF rules, read
  <2> QED BY <1>1, <1>2, <1>4, <1>5, <1>6 DEF Orderly, Shape, Shows
<1>9. Whole(seam) = with(read(Sidecars(scoped) \cup SelectedFiles(scoped) \cup Readmes(scoped)))
  BY DEF Whole
<1> HIDE DEF rules, with
<1>10. Sidecars(with(<<>>)) = Sidecars(seen)
  BY <1>7 DEF Sidecars, Readmes, Present
<1>11. /\ Sidecars(scoped) = Sidecars(seen) /\ Readmes(scoped) = Readmes(seen)
       /\ SelectedFiles(scoped) = SelectedFiles(seen)
  <2>1. Sidecars(seen) \subseteq DOMAIN seen.files
    BY <1>1, Stages
  <2>2. \A p \in Sidecars(seen) : seen.files[p] = scoped.files[p]
    BY <1>2, <1>7, <1>10, <2>1 DEF Shows
  <2>3. seen.config = scoped.config /\ seen.kinds = scoped.kinds
    BY <1>7
  <2> HIDE DEF scoped
  <2> QED BY <2>2, <2>3, SelectionStands
<1>12. seen.files = read(Sidecars(scoped) \cup SelectedFiles(scoped) \cup Readmes(scoped))
  <2>1. DOMAIN seen.files = Sidecars(seen) \cup SelectedFiles(seen) \cup Readmes(seen)
    BY <1>1, Stages DEF Orderly, FilesInOrder
  <2> HIDE DEF scoped
  <2> QED BY <2>1, <1>1, <1>2, <1>11 DEF Orderly, IsMap, Shows
<1> HIDE DEF scoped, read
<1> QED BY <1>8, <1>9, <1>12

(***************************************************************************)
(* A snapshot is of one moment (snapshot.rs:140): whatever people save,    *)
(* and however often, what two equal collections have read is what the     *)
(* worktree showed between them, if nothing came back; and with the ignore *)
(* files left alone it is all that the worktree had to show.               *)
(***************************************************************************)
THEOREM SnapshotsOfOneMoment == StopHookSpec => []SnapshotOfOneMoment
<1>1. SnapshotInv => SnapshotOfOneMoment
  BY BuiltShows, BuiltIsWhole DEF SnapshotOfOneMoment
<1> QED BY <1>1, SnapshotInvariance, PTL

-----------------------------------------------------------------------------
(***************************************************************************)
(* What has been read has the types of what can be there.                  *)
(***************************************************************************)
Typed(c) ==
    /\ c.config \in Versions[ConfigPath] \cup {None}
    /\ c.listed = None \/ c.listed \subseteq Paths
    /\ \A p \in DOMAIN c.kinds :
          p \in c.listed /\ c.kinds[p] \in {"regular", "missing"}
    /\ \A p \in DOMAIN c.files : p \in Present(c) /\ c.files[p] \in Versions[p]
    /\ \A g \in DOMAIN c.rules : c.rules[g] \in Versions[g] \cup {None}
    /\ c.state = {} \/ c.state \subseteq Versions[StatePath] \cup {None}

\* The disk and the progress of the command.
Placed ==
    /\ \A p \in Paths : disk[p] \in Versions[p] \cup {None}
    /\ outcome \in {"idle", "running", "built", "failed"}
    /\ pass \in 0 .. 3
    /\ edits \in Nat
    /\ restored \in BOOLEAN

LEMMA TypesAre ==
    /\ TypeOKSnapshot <=> Placed /\ Typed(seen) /\ Typed(previous)
    /\ TypeOKSnapshot' <=> Placed' /\ Typed(seen)' /\ Typed(previous)'
BY DEF TypeOKSnapshot, Placed, Typed

LEMMA BlankIsTyped == Typed(Blank)
BY DEF Blank, Typed

\* One step of the collection.
NextRead(c) ==
    /\ Typed(c)
    /\ seen' = c /\ UNCHANGED <<outcome, pass, previous, project>>

LEMMA ReadingTypes ==
    ASSUME TypeOKSnapshot, NEW c, NextRead(c)
    PROVE  TypeOKSnapshot'
<1>1. Placed' /\ Typed(seen') /\ Typed(previous')
  BY TypesAre DEF NextRead, Placed, project
<1>2. Typed(seen)' /\ Typed(previous)'
  BY <1>1 DEF Typed, Present
<1> QED BY <1>1, <1>2, TypesAre

LEMMA GivingTypes ==
    ASSUME TypeOKSnapshot, NEW ending \in {"built", "failed"}, Give(ending), UNCHANGED project
    PROVE  TypeOKSnapshot'
<1>1. Placed' /\ Typed(seen') /\ Typed(previous')
  BY TypesAre DEF Give, Placed, project
<1>2. Typed(seen)' /\ Typed(previous)'
  BY <1>1 DEF Typed, Present
<1> QED BY <1>1, <1>2, TypesAre

\* Each field of a collection has its type on its own.
LEMMA FieldsTyped ==
    ASSUME NEW c, NEW d, Typed(c), Shape(c)
    PROVE  /\ \A v \in Versions[ConfigPath] \cup {None} :
                 d = [c EXCEPT !.config = v] => Typed(d)
           /\ \A v \in SUBSET Paths :
                 (DOMAIN c.kinds = {} /\ DOMAIN c.files = {}
                    /\ d = [c EXCEPT !.listed = v]) => Typed(d)
           /\ \A p \in Paths, v \in {"regular", "missing"} :
                 (DOMAIN c.files = {} /\ p \in c.listed
                    /\ d = [c EXCEPT !.kinds = With(@, p, v)]) => Typed(d)
           /\ \A p \in Present(c) : \A v \in Versions[p] :
                 d = [c EXCEPT !.files = With(@, p, v)] => Typed(d)
           /\ \A g \in Paths : \A v \in Versions[g] \cup {None} :
                 d = [c EXCEPT !.rules = With(@, g, v)] => Typed(d)
           /\ \A v : d = [c EXCEPT !.hasLock = v] => Typed(d)
           /\ \A v, s : (d = [c EXCEPT !.hasLegacy = v, !.state = s]
                           /\ s \subseteq Versions[StatePath] \cup {None}) => Typed(d)
           /\ \A s : (d = [c EXCEPT !.state = s]
                        /\ s \subseteq Versions[StatePath] \cup {None}) => Typed(d)
<1> DEFINE field == {"config", "listed", "kinds", "files", "rules", "hasLock", "hasLegacy", "state"}
<1>1. DOMAIN c = field
  BY DEF Shape
<1>2. ASSUME NEW v \in Versions[ConfigPath] \cup {None}, d = [c EXCEPT !.config = v]
      PROVE  Typed(d)
  <2>1. /\ d.config = v /\ d.listed = c.listed /\ d.kinds = c.kinds /\ d.files = c.files
        /\ d.rules = c.rules /\ d.state = c.state
    BY <1>1, <1>2
  <2> QED BY <2>1 DEF Typed, Present
<1>3. ASSUME NEW v \in SUBSET Paths, DOMAIN c.kinds = {}, DOMAIN c.files = {},
             d = [c EXCEPT !.listed = v]
      PROVE  Typed(d)
  <2>1. /\ d.config = c.config /\ d.listed = v /\ d.kinds = c.kinds /\ d.files = c.files
        /\ d.rules = c.rules /\ d.state = c.state
    BY <1>1, <1>3
  <2> QED BY <2>1, <1>3 DEF Typed, Present
<1>4. ASSUME NEW p \in Paths, NEW v \in {"regular", "missing"}, DOMAIN c.files = {},
             p \in c.listed, d = [c EXCEPT !.kinds = With(@, p, v)]
      PROVE  Typed(d)
  <2>1. /\ d.config = c.config /\ d.listed = c.listed /\ d.kinds = With(c.kinds, p, v)
        /\ d.files = c.files /\ d.rules = c.rules /\ d.state = c.state
    BY <1>1, <1>4
  <2>2. /\ DOMAIN d.kinds = DOMAIN c.kinds \cup {p} /\ d.kinds[p] = v
        /\ \A q \in DOMAIN c.kinds : q # p => d.kinds[q] = c.kinds[q]
    BY <2>1 DEF With
  <2> QED BY <2>1, <2>2, <1>4 DEF Typed, Present
<1>5. ASSUME NEW p \in Present(c), NEW v \in Versions[p], d = [c EXCEPT !.files = With(@, p, v)]
      PROVE  Typed(d)
  <2>1. /\ d.config = c.config /\ d.listed = c.listed /\ d.kinds = c.kinds
        /\ d.files = With(c.files, p, v) /\ d.rules = c.rules /\ d.state = c.state
    BY <1>1, <1>5
  <2>2. Present(d) = Present(c)
    BY <2>1 DEF Present
  <2>3. /\ DOMAIN d.files = DOMAIN c.files \cup {p} /\ d.files[p] = v
        /\ \A q \in DOMAIN c.files : q # p => d.files[q] = c.files[q]
    BY <2>1 DEF With
  <2> QED BY <2>1, <2>2, <2>3 DEF Typed
<1>6. ASSUME NEW g \in Paths, NEW v \in Versions[g] \cup {None},
             d = [c EXCEPT !.rules = With(@, g, v)]
      PROVE  Typed(d)
  <2>1. /\ d.config = c.config /\ d.listed = c.listed /\ d.kinds = c.kinds
        /\ d.files = c.files /\ d.rules = With(c.rules, g, v) /\ d.state = c.state
    BY <1>1, <1>6
  <2>2. /\ DOMAIN d.rules = DOMAIN c.rules \cup {g} /\ d.rules[g] = v
        /\ \A q \in DOMAIN c.rules : q # g => d.rules[q] = c.rules[q]
    BY <2>1 DEF With
  <2> QED BY <2>1, <2>2 DEF Typed, Present
<1>7. ASSUME NEW v, d = [c EXCEPT !.hasLock = v]
      PROVE  Typed(d)
  <2>1. /\ d.config = c.config /\ d.listed = c.listed /\ d.kinds = c.kinds
        /\ d.files = c.files /\ d.rules = c.rules /\ d.state = c.state
    BY <1>1, <1>7
  <2> QED BY <2>1 DEF Typed, Present
<1>8. ASSUME NEW v, NEW s, d = [c EXCEPT !.hasLegacy = v, !.state = s],
             s \subseteq Versions[StatePath] \cup {None}
      PROVE  Typed(d)
  <2>1. /\ d.config = c.config /\ d.listed = c.listed /\ d.kinds = c.kinds
        /\ d.files = c.files /\ d.rules = c.rules /\ d.state = s
    BY <1>1, <1>8
  <2> QED BY <2>1, <1>8 DEF Typed, Present
<1>9. ASSUME NEW s, d = [c EXCEPT !.state = s], s \subseteq Versions[StatePath] \cup {None}
      PROVE  Typed(d)
  <2>1. /\ d.config = c.config /\ d.listed = c.listed /\ d.kinds = c.kinds
        /\ d.files = c.files /\ d.rules = c.rules /\ d.state = s
    BY <1>1, <1>9
  <2> QED BY <2>1, <1>9 DEF Typed, Present
<1> QED BY <1>2, <1>3, <1>4, <1>5, <1>6, <1>7, <1>8, <1>9

LEMMA FileTypes ==
    ASSUME SnapshotInv, TypeOKSnapshot, NEW stage, NEW files, ReadFile(stage, files),
           files \ DOMAIN seen.files # {}, files \subseteq Present(seen)
    PROVE  TypeOKSnapshot'
<1> DEFINE p == Least(files \ DOMAIN seen.files)
<1>1. p \in Present(seen) /\ p \in Paths
  BY FilesArePaths, LeastIsOne
<1>2. CASE disk[p] = None
  BY <1>2, GivingTypes DEF ReadFile
<1>3. ASSUME disk[p] # None
      PROVE  TypeOKSnapshot'
  <2> DEFINE c == [seen EXCEPT !.files = With(@, p, disk[p])]
  <2>1. Note(c) /\ UNCHANGED project
    BY <1>3 DEF ReadFile
  <2>2. disk[p] \in Versions[p]
    BY <1>1, <1>3 DEF TypeOKSnapshot
  <2>3. Typed(c)
    <3> HIDE DEF p
    <3> QED BY <1>1, <2>2, FieldsTyped, TypesAre DEF SnapshotInv, Orderly
  <2> QED BY <2>1, <2>3, ReadingTypes DEF NextRead, Note
<1> QED BY <1>2, <1>3

LEMMA CollectTypes ==
    ASSUME SnapshotInv, TypeOKSnapshot, Collect
    PROVE  TypeOKSnapshot'
<1>1. /\ Shape(seen) /\ Typed(seen) /\ Orderly(seen) /\ Placed
      /\ {ConfigPath, StatePath, LegacyPath} \subseteq Paths
  BY TypesAre, OwnFilesArePaths DEF SnapshotInv, Orderly
<1>2. CASE ReadConfig
  <2>1. CASE Give("failed") /\ UNCHANGED project
    BY <2>1, GivingTypes
  <2>2. CASE Note([seen EXCEPT !.config = disk[ConfigPath]]) /\ UNCHANGED project
    <3>1. Typed([seen EXCEPT !.config = disk[ConfigPath]])
      BY <1>1, FieldsTyped DEF Placed
    <3> QED BY <2>2, <3>1, ReadingTypes DEF NextRead, Note
  <2> QED BY <1>2, <2>1, <2>2 DEF ReadConfig
<1>3. CASE ListPaths
  <2>1. CASE Give("failed") /\ UNCHANGED project
    BY <2>1, GivingTypes
  <2>2. CASE Note([seen EXCEPT !.listed = Listing(disk)]) /\ UNCHANGED project
    <3>1. Listing(disk) \in SUBSET Paths
      BY ListingIs, TrackedArePaths
    <3>2. seen.listed = None
      BY <1>3, Stages DEF ListPaths, Collecting
    <3>3. DOMAIN seen.kinds = {} /\ DOMAIN seen.files = {}
      BY <1>1, <3>2 DEF Orderly, FilesInOrder
    <3>4. Typed([seen EXCEPT !.listed = Listing(disk)])
      BY <1>1, <3>1, <3>3, FieldsTyped
    <3> QED BY <2>2, <3>4, ReadingTypes DEF NextRead, Note
  <2> QED BY <1>3, <2>1, <2>2 DEF ListPaths
<1>4. CASE Stat
  <2> DEFINE p == Least(seen.listed \ DOMAIN seen.kinds)
  <2>1. Stage(seen) = "stat" /\ Note([seen EXCEPT !.kinds = With(@, p, Kind(disk, p))])
        /\ UNCHANGED project
    BY <1>4 DEF Stat, Collecting
  <2>2. seen.listed # None /\ seen.listed \ DOMAIN seen.kinds # {} /\ seen.listed \subseteq Paths
    BY <1>1, <2>1, Stages DEF Orderly
  <2>3. p \in seen.listed \ DOMAIN seen.kinds /\ p \in Paths
    BY <2>2, LeastIsOne
  <2>4. DOMAIN seen.files = {}
    BY <1>1, <2>3 DEF Orderly, FilesInOrder
  <2>5. Kind(disk, p) \in {"regular", "missing"}
    BY DEF Kind
  <2>6. Typed([seen EXCEPT !.kinds = With(@, p, Kind(disk, p))])
    <3> HIDE DEF p
    <3> QED BY <1>1, <2>3, <2>4, <2>5, FieldsTyped
  <2> QED BY <2>1, <2>6, ReadingTypes DEF NextRead, Note
<1>5. CASE ReadSidecar
  <2>1. Stage(seen) = "sidecars" /\ ReadFile("sidecars", Sidecars(seen))
    BY <1>5 DEF ReadSidecar, ReadFile, Collecting
  <2> QED BY <2>1, Stages, FileTypes DEF Sidecars
<1>6. CASE ReadSource
  <2>1. Stage(seen) = "sources" /\ ReadFile("sources", SelectedFiles(seen))
    BY <1>6 DEF ReadSource, ReadFile, Collecting
  <2> QED BY <2>1, Stages, FileTypes DEF SelectedFiles
<1>7. CASE ReadReadme
  <2>1. Stage(seen) = "readmes" /\ ReadFile("readmes", Readmes(seen))
    BY <1>7 DEF ReadReadme, ReadFile, Collecting
  <2> QED BY <2>1, Stages, FileTypes DEF Readmes
<1>8. CASE ReadRules
  <2> DEFINE unread == RuleFiles(seen) \ DOMAIN seen.rules
             g == Least({x \in unread : \A y \in unread : Len(x) <= Len(y)})
  <2>1. Stage(seen) = "rules" /\ Note([seen EXCEPT !.rules = With(@, g, disk[g])])
        /\ UNCHANGED project
    BY <1>8 DEF ReadRules, Collecting
  <2>2. unread # {} /\ unread \subseteq Paths
    BY <2>1, Stages DEF RuleFiles
  <2>3. g \in Paths
    <3> HIDE DEF unread
    <3> QED BY <2>2, Shortest, LeastIsOne
  <2>4. Typed([seen EXCEPT !.rules = With(@, g, disk[g])])
    <3> HIDE DEF g
    <3> QED BY <1>1, <2>3, FieldsTyped DEF Placed
  <2> QED BY <2>1, <2>4, ReadingTypes DEF NextRead, Note
<1>9. CASE LookForState
  <2>1. Typed([seen EXCEPT !.hasLock = Kind(disk, StatePath)])
    BY <1>1, FieldsTyped
  <2> QED BY <1>9, <2>1, ReadingTypes DEF LookForState, NextRead, Note
<1>10. CASE LookForLegacy
  <2>1. CASE Give("failed") /\ UNCHANGED project
    BY <2>1, GivingTypes
  <2> DEFINE s == IF seen.hasLock = "missing" THEN {None} ELSE {}
             c == [seen EXCEPT !.hasLegacy = "missing", !.state = s]
  <2>2. CASE Note(c) /\ UNCHANGED project
    <3>1. s \subseteq Versions[StatePath] \cup {None}
      OBVIOUS
    <3>2. Typed(c)
      <4> HIDE DEF s
      <4> QED BY <1>1, <3>1, FieldsTyped
    <3> QED BY <2>2, <3>2, ReadingTypes DEF NextRead, Note
  <2> QED BY <1>10, <2>1, <2>2 DEF LookForLegacy
<1>11. CASE LoadState
  <2>1. CASE Give("failed") /\ UNCHANGED project
    BY <2>1, GivingTypes
  <2>2. CASE Note([seen EXCEPT !.state = {disk[StatePath]}]) /\ UNCHANGED project
    <3> DEFINE s == {disk[StatePath]}
    <3>1. s \subseteq Versions[StatePath] \cup {None}
      BY <1>1 DEF Placed
    <3>2. Typed([seen EXCEPT !.state = s])
      <4> HIDE DEF s
      <4> QED BY <1>1, <3>1, FieldsTyped
    <3> QED BY <2>2, <3>2, ReadingTypes DEF NextRead, Note
  <2> QED BY <1>11, <2>1, <2>2 DEF LoadState
<1>12. CASE EndPass
  <2>1. CASE (Give("built") \/ Give("failed")) /\ UNCHANGED project
    BY <2>1, GivingTypes
  <2>2. CASE /\ pass \in {1, 2}
             /\ pass' = pass + 1 /\ previous' = seen /\ seen' = Blank
             /\ UNCHANGED <<outcome, project>>
    <3>1. Placed'
      BY <1>1, <2>2 DEF Placed, project
    <3>2. Typed(seen)' /\ Typed(previous)'
      BY <1>1, <2>2, BlankIsTyped DEF Typed, Present
    <3> QED BY <3>1, <3>2, TypesAre
  <2> QED BY <1>12, <2>1, <2>2 DEF EndPass
<1> QED BY <1>2, <1>3, <1>4, <1>5, <1>6, <1>7, <1>8, <1>9, <1>10, <1>11, <1>12 DEF Collect

LEMMA SnapshotTypesKeep ==
    ASSUME SnapshotInv, TypeOKSnapshot, [StopHookNext]_stopHookVars
    PROVE  TypeOKSnapshot'
<1>1. CASE UNCHANGED snapshotVars
  BY <1>1 DEF TypeOKSnapshot, snapshotVars, Present
<1>2. CASE Begin
  <2>1. Placed'
    BY <1>2, TypesAre DEF Begin, Placed, project
  <2>2. Typed(seen)' /\ Typed(previous)'
    BY <1>2, TypesAre, BlankIsTyped DEF Begin, Typed, Present
  <2> QED BY <2>1, <2>2, TypesAre
<1>3. CASE Collect
  BY <1>3, CollectTypes
<1>4. CASE Edits
  <2>1. PICK save \in Saves : Edit(save[1], save[2])
    BY <1>4 DEF Edits
  <2>2. save[1] \in Paths /\ save[2] \in Versions[save[1]] \cup {None}
    BY SavesAreVersions
  <2>3. Placed'
    <3>1. disk = [q \in Paths |-> disk[q]] /\ Placed
      BY TypesAre DEF SnapshotInv
    <3>2. \A q \in Paths : disk'[q] \in Versions[q] \cup {None}
      BY <2>1, <2>2, <3>1 DEF Edit, Placed
    <3>3. UNCHANGED <<outcome, pass>> /\ edits' = edits - 1 /\ edits > 0 /\ restored' \in BOOLEAN
      BY <2>1 DEF Edit, building
    <3> QED BY <3>1, <3>2, <3>3 DEF Placed
  <2>4. Typed(seen)' /\ Typed(previous)'
    BY <2>1, TypesAre DEF Edit, building, Typed, Present
  <2> QED BY <2>3, <2>4, TypesAre
<1>5. StopHookNext \/ UNCHANGED snapshotVars
  BY DEF stopHookVars
<1> QED BY <1>1, <1>2, <1>3, <1>4, <1>5 DEF StopHookNext, StatusCollects, StatusPrints, StatusEnds

LEMMA SnapshotTypes == StopHookSpec => []TypeOKSnapshot
<1>1. InitStopHook => TypeOKSnapshot
  <2> SUFFICES ASSUME NEW origin \in Origins, InitSnapshot(origin)
               PROVE  TypeOKSnapshot
    BY DEF InitStopHook
  <2>1. /\ disk = origin.disk /\ edits = origin.edits /\ outcome = "idle" /\ pass = 0
        /\ seen = Blank /\ previous = Blank /\ restored = FALSE
    BY DEF InitSnapshot
  <2>2. origin.edits \in Nat /\ \A p \in Paths : origin.disk[p] \in Versions[p] \cup {None}
    BY OriginsAreWorktrees
  <2>3. Placed
    <3>1. 0 \in 0 .. 3 /\ FALSE \in BOOLEAN
      OBVIOUS
    <3>2. \A p \in Paths : disk[p] \in Versions[p] \cup {None}
      BY <2>1, <2>2
    <3> QED BY <2>1, <2>2, <3>1, <3>2 DEF Placed
  <2> QED BY <2>1, <2>3, BlankIsTyped, TypesAre
<1> QED BY <1>1, SnapshotTypesKeep, SnapshotInvariance, PTL DEF StopHookSpec

-----------------------------------------------------------------------------
(***************************************************************************)
(* What a complete collection is analyzed into.                            *)
(***************************************************************************)
Read(c) ==
    /\ \A p \in Readmes(c) \cup SelectedFiles(c) :
          p \in Paths /\ c.files[p] \in Versions[p]
    /\ StateOf(c) \in Versions[StatePath] \cup {EmptyState}

LEMMA BuiltIsRead ==
    ASSUME SnapshotInv, TypeOKSnapshot, outcome = "built"
    PROVE  Read(seen)
<1>1. Stage(seen) = "complete" /\ Orderly(seen) /\ Typed(seen) /\ Present(seen) \subseteq Paths
  BY TypesAre, FilesArePaths DEF SnapshotInv
<1>2. /\ Readmes(seen) \subseteq DOMAIN seen.files \cap Paths
      /\ SelectedFiles(seen) \subseteq DOMAIN seen.files \cap Paths
  BY <1>1, Stages DEF Readmes, SelectedFiles
<1>3. StateOf(seen) \in Versions[StatePath] \cup {EmptyState}
  <2>1. PICK s \in seen.state : seen.state = {s}
    BY <1>1, Stages DEF Orderly, StateInOrder
  <2>2. s \in Versions[StatePath] \cup {None}
    BY <1>1, <2>1 DEF Typed
  <2>3. (CHOOSE x \in seen.state : TRUE) = s
    BY <2>1
  <2> QED BY <2>1, <2>2, <2>3 DEF StateOf
<1> QED BY <1>1, <1>2, <1>3 DEF Read, Typed

\* The documents, their imports and the graph.
LEMMA DocumentsAre ==
    ASSUME NEW c, Read(c)
    PROVE  /\ Documents(c) \in SUBSET Paths /\ Sources(c) \in SUBSET Paths
           /\ \A d \in Documents(c) : c.files[d].imports \in Seq([provider : Paths, export : Nat])
           /\ Providers(Docs(c)) \in [Documents(c) -> SUBSET Documents(c)]
<1>1. Documents(c) \subseteq Paths /\ Sources(c) \subseteq Paths
  BY DEF Documents, Sources, OptedIn, Read
<1>2. ASSUME NEW d \in Documents(c)
      PROVE  c.files[d].imports \in Seq([provider : Paths, export : Nat])
  <2>1. d \in Paths /\ c.files[d] \in Versions[d]
    BY DEF Documents, OptedIn, Read
  <2>2. IsReadme(d) \/ MayOptIn(d)
    BY DEF Documents, OptedIn, Readmes
  <2> QED BY <2>1, <2>2, DocumentsImport
<1>3. DOMAIN Docs(c) = Documents(c)
  BY DEF Docs
<1>4. Providers(Docs(c)) \in [Documents(c) -> SUBSET Documents(c)]
  BY <1>3 DEF Providers
<1> QED BY <1>1, <1>2, <1>4

LEMMA Elements ==
    ASSUME NEW T, NEW s \in Seq(T)
    PROVE  Len(s) \in Nat /\ DOMAIN s = 1 .. Len(s) /\ \A i \in 1 .. Len(s) : s[i] \in T
OBVIOUS

\* A sequence is one of its elements.
LEMMA Sequenced ==
    ASSUME NEW n \in Nat, NEW f, f = [i \in 1 .. n |-> f[i]]
    PROVE  f \in Seq(ToSet(f)) /\ Len(f) = n
<1>1. f \in [1 .. n -> ToSet(f)]
  BY DEF ToSet
<1> HIDE DEF ToSet
<1> QED BY <1>1

LEMMA KeysAreImports ==
    ASSUME NEW c, Read(c), NEW d \in Documents(c)
    PROVE  ImportKeys(c, d) \in SUBSET ImportKey /\ IsFiniteSet(ImportKeys(c, d))
<1> DEFINE imports == c.files[d].imports
           key(i) == [document |-> imports[i].provider, export |-> imports[i].export]
           f == [i \in 1 .. Len(imports) |-> key(i)]
<1>1. imports \in Seq([provider : Paths, export : Nat])
  BY DocumentsAre
<1>2. ImportKeys(c, d) = {key(i) : i \in DOMAIN imports}
  BY DEF ImportKeys
<1> HIDE DEF imports
<1>3. /\ Len(imports) \in Nat /\ DOMAIN imports = 1 .. Len(imports)
      /\ \A i \in 1 .. Len(imports) : imports[i].provider \in Paths /\ imports[i].export \in Nat
  <2> DEFINE T == [provider : Paths, export : Nat]
  <2>1. /\ Len(imports) \in Nat /\ DOMAIN imports = 1 .. Len(imports)
        /\ \A i \in 1 .. Len(imports) : imports[i] \in T
    <3>1. imports \in Seq(T)
      BY <1>1
    <3> HIDE DEF T
    <3> QED BY <3>1, Elements
  <2> QED BY <2>1
<1>4. f \in Surjection(1 .. Len(imports), ImportKeys(c, d))
  <2> HIDE DEF key
  <2> QED BY <1>2, <1>3 DEF Surjection
<1>5. IsFiniteSet(1 .. Len(imports))
  BY <1>3, FS_Interval
<1>6. IsFiniteSet(ImportKeys(c, d))
  <2> HIDE DEF f
  <2> QED BY <1>4, <1>5, FS_Surjection
<1> QED BY <1>2, <1>3, <1>6 DEF ImportKey

\* A manifest has an entry for each source and each import in turn.
LEMMA ManifestIs ==
    ASSUME NEW c, Read(c), NEW d \in Documents(c)
    PROVE  /\ IsManifest(Manifest(c, d)) /\ KeysInOrder(Manifest(c, d))
           /\ Manifest(c, d).document = c.files[d]
           /\ \A s \in ScopeOf(d, Sources(c), Documents(c), HandoffsOf(c)) :
                 [key |-> s, hash |-> c.files[s]] \in ToSet(Manifest(c, d).files)
<1> DEFINE scope == ScopeOf(d, Sources(c), Documents(c), HandoffsOf(c))
           files == InOrder(scope)
           imports == InImportOrder(ImportKeys(c, d))
           entry(p) == [key |-> p, hash |-> c.files[p]]
           hash(k) == ExportBody(c, [provider |-> k.document, export |-> k.export])
           import(k) == [key |-> k, hash |-> hash(k)]
           fs == [i \in DOMAIN files |-> entry(files[i])]
           is == [i \in DOMAIN imports |-> import(imports[i])]
           m == Manifest(c, d)
<1>1. m = [policy |-> Policy(c, d), document |-> c.files[d], files |-> fs, imports |-> is]
  BY DEF Manifest
<1>2. files \in Seq(Paths) /\ ToSet(files) = scope \cap Paths
  BY InOrderIs
<1>3. imports \in Seq(ImportKey)
  <2>1. ImportKeys(c, d) \in SUBSET ImportKey /\ imports \in Seq(ImportKeys(c, d))
    BY KeysAreImports, InImportOrderIs
  <2> HIDE DEF imports
  <2> QED BY <2>1
<1>4. scope \subseteq Paths
  BY DocumentsAre DEF ScopeOf
<1> HIDE DEF files, imports, scope, hash
<1>5. /\ Len(files) \in Nat /\ DOMAIN files = 1 .. Len(files)
      /\ Len(imports) \in Nat /\ DOMAIN imports = 1 .. Len(imports)
      /\ \A i \in 1 .. Len(files) : files[i] \in Paths
      /\ \A i \in 1 .. Len(imports) : imports[i] \in ImportKey
  BY <1>2, <1>3
<1>6. /\ fs = [i \in 1 .. Len(files) |-> fs[i]] /\ is = [i \in 1 .. Len(imports) |-> is[i]]
      /\ \A i \in 1 .. Len(files) : fs[i] = entry(files[i])
      /\ \A i \in 1 .. Len(imports) : is[i].key = imports[i]
  BY <1>5
<1>7. /\ fs \in Seq(ToSet(fs)) /\ Len(fs) = Len(files)
      /\ is \in Seq(ToSet(is)) /\ Len(is) = Len(imports)
  <2> HIDE DEF fs, is
  <2> QED BY <1>5, <1>6, Sequenced
<1>8. \A s \in scope : entry(s) \in ToSet(fs)
  <2> TAKE s \in scope
  <2>1. PICK i \in 1 .. Len(files) : files[i] = s
    BY <1>2, <1>4, <1>5 DEF ToSet
  <2>2. fs[i] = entry(s) /\ DOMAIN fs = 1 .. Len(files)
    BY <1>5, <1>6, <2>1
  <2> HIDE DEF fs, entry
  <2> QED BY <2>1, <2>2 DEF ToSet
<1>9. /\ m.policy = Policy(c, d) /\ m.document = c.files[d] /\ m.files = fs /\ m.imports = is
      /\ m = [policy |-> m.policy, document |-> m.document, files |-> m.files, imports |-> m.imports]
  <2> HIDE DEF m, fs, is
  <2> QED BY <1>1
<1>10. IsManifest(m)
  <2> HIDE DEF m, fs, is
  <2> QED BY <1>7, <1>9 DEF IsManifest
<1>11. KeysInOrder(m)
  <2>1. \A i \in 1 .. Len(fs) : fs[i].key \in Paths
    BY <1>5, <1>6, <1>7
  <2>2. \A i \in 1 .. Len(is) : is[i].key \in ImportKey
    BY <1>5, <1>6, <1>7
  <2> HIDE DEF m, fs, is
  <2> QED BY <2>1, <2>2, <1>9 DEF KeysInOrder
<1> HIDE DEF m, fs
<1> QED BY <1>8, <1>9, <1>10, <1>11 DEF m, scope, entry

\* What stands in the state file, or in none.
LEMMA StateIs ==
    ASSUME NEW c, Read(c)
    PROVE  /\ IsFiniteSet(StateOf(c).invalidations)
           /\ \A d \in DOMAIN StateOf(c).reviews : IsManifest(StateOf(c).reviews[d])
<1>1. CASE StateOf(c) \in Versions[StatePath]
  BY <1>1, StatesHoldReviews DEF IsManifest
<1>2. CASE StateOf(c) = EmptyState
  <2>1. StateOf(c).invalidations = {} /\ DOMAIN StateOf(c).reviews = {}
    BY <1>2 DEF EmptyState
  <2> QED BY <2>1, FS_EmptySet
<1> QED BY <1>1, <1>2 DEF Read

Pending(c, d) ==
    \/ d \notin DOMAIN StateOf(c).reviews
    \/ StateOf(c).reviews[d] # Manifest(c, d)
    \/ \E i \in StateOf(c).invalidations : d \in i

LEMMA CausesAre ==
    ASSUME NEW c, Read(c), NEW d \in Documents(c)
    PROVE  Causes(d, StateOf(c), Manifests(c)) # {} <=> Pending(c, d)
<1> DEFINE old == StateOf(c).reviews[d]
           new == Manifest(c, d)
<1>1. Manifests(c)[d] = new
  BY DEF Manifests
<1>2. CASE d \notin DOMAIN StateOf(c).reviews
  BY <1>2 DEF Causes, Pending
<1>3. CASE d \in DOMAIN StateOf(c).reviews
  <2>1. IsManifest(old) /\ IsManifest(new) /\ KeysInOrder(new)
    BY <1>3, StateIs, ManifestIs
  <2> HIDE DEF old, new
  <2>2. InputsChanged(old, new) <=> ~ /\ old.policy = new.policy
                                      /\ old.files = new.files
                                      /\ old.imports = new.imports
    BY <2>1, InputsChangedIs
  <2>3. old = new <=> ~InputsChanged(old, new) /\ old.document = new.document
    BY <2>1, <2>2 DEF IsManifest
  <2>4. Causes(d, StateOf(c), Manifests(c))
          = (IF InputsChanged(old, new) THEN {"input_changed"} ELSE {})
            \cup (IF old.document # new.document THEN {"document_changed"} ELSE {})
            \cup {"explicit_invalidation" : i \in {x \in StateOf(c).invalidations : d \in x}}
    BY <1>1, <1>3 DEF Causes, old
  <2>5. Pending(c, d) <=> old # new \/ \E i \in StateOf(c).invalidations : d \in i
    BY <1>3 DEF Pending, old, new
  <2> QED BY <2>3, <2>4, <2>5
<1> QED BY <1>2, <1>3

-----------------------------------------------------------------------------
(***************************************************************************)
(* The schedule is right, and every change is seen.                        *)
(***************************************************************************)
LEMMA Around ==
    ASSUME NEW L \in Nat, NEW i \in 1 .. L
    PROVE  i % L = IF i = L THEN 0 ELSE i
OBVIOUS

LEMMA Unbroken ==
    ASSUME NEW c, Read(c), ~Broken(c)
    PROVE  Acyclic(Documents(c), Providers(Docs(c)))
BY DocumentsAre, SearchFinds DEF Broken

LEMMA CyclesReported ==
    ASSUME SnapshotInv, TypeOKSnapshot
    PROVE  CyclesAreReported
<1> SUFFICES ASSUME outcome = "built" PROVE CyclesAreReported
  BY DEF CyclesAreReported
<1> DEFINE docs == Documents(seen)
           providers == Providers(Docs(seen))
           cycles == FindCycles(providers)
           order == TopologicalOrder(docs, providers)
           cyclic == \E d \in docs : d \in Reach(docs, providers)[Cardinality(docs)][d]
<1>1. docs \in SUBSET Paths /\ providers \in [docs -> SUBSET docs]
  BY BuiltIsRead, DocumentsAre
<1>2. CyclesAreReported <=>
          /\ (cycles # {}) = cyclic
          /\ \A path \in cycles :
                /\ Cardinality(ToSet(path)) = Len(path)
                /\ \A i \in DOMAIN path :
                      path[(i % Len(path)) + 1] \in providers[path[i]]
          /\ ~cyclic =>
                /\ ToSet(order) = docs /\ Len(order) = Cardinality(docs)
                /\ \A i \in DOMAIN order : \A p \in providers[order[i]] :
                      \E j \in 1 .. i - 1 : order[j] = p
  BY DEF CyclesAreReported, Reach, Further
<1> HIDE DEF docs, providers
<1>3. /\ \A path \in cycles : IsCycle(path, docs, providers)
      /\ cycles = {} => Acyclic(docs, providers)
  BY <1>1, SearchFinds
<1>4. cycles # {} <=> cyclic
  <2>1. ASSUME NEW path \in cycles PROVE cyclic
    BY <1>1, <1>3, CycleReaches
  <2>2. ASSUME cycles = {} PROVE ~cyclic
    BY <1>1, <1>3, <2>2, NoneReachesItself
  <2> QED BY <2>1, <2>2
<1>5. ASSUME NEW path \in cycles
      PROVE  /\ Cardinality(ToSet(path)) = Len(path)
             /\ \A i \in DOMAIN path : path[(i % Len(path)) + 1] \in providers[path[i]]
  <2>1. IsCycle(path, docs, providers)
    BY <1>3
  <2>2. Cardinality(ToSet(path)) = Len(path)
    BY <2>1, DistinctCount DEF IsCycle
  <2>3. DOMAIN path = 1 .. Len(path) /\ Len(path) \in Nat
    BY <2>1 DEF IsCycle
  <2>4. ASSUME NEW i \in 1 .. Len(path)
        PROVE  path[(i % Len(path)) + 1] \in providers[path[i]]
    <3>1. CASE i = Len(path)
      <4>1. (i % Len(path)) + 1 = 1
        BY <3>1, <2>3, Around
      <4> QED BY <3>1, <4>1, <2>1 DEF IsCycle
    <3>2. CASE i # Len(path)
      <4>1. i % Len(path) = i
        BY <3>2, <2>3, Around
      <4>2. i \in 1 .. Len(path) - 1
        <5>1. \A n \in Nat : \A k \in 1 .. n : k # n => k \in 1 .. n - 1
          OBVIOUS
        <5> QED BY <3>2, <2>3, <5>1
      <4> QED BY <4>1, <4>2, <2>1 DEF IsCycle
    <3> QED BY <3>1, <3>2
  <2> QED BY <2>2, <2>3, <2>4
<1>6. ASSUME ~cyclic
      PROVE  /\ ToSet(order) = docs /\ Len(order) = Cardinality(docs)
             /\ \A i \in DOMAIN order : \A p \in providers[order[i]] :
                   \E j \in 1 .. i - 1 : order[j] = p
  <2>1. Acyclic(docs, providers)
    BY <1>3, <1>4, <1>6
  <2>2. /\ order \in Seq(docs) /\ ToSet(order) = docs
        /\ Len(order) = Cardinality(docs) /\ InTurn(order, providers)
    BY <1>1, <2>1, OrderIs
  <2>3. DOMAIN order = 1 .. Len(order)
    BY <2>2
  <2> HIDE DEF order
  <2> QED BY <2>2, <2>3 DEF InTurn
<1> HIDE DEF cycles, cyclic, order
<1> QED BY <1>2, <1>4, <1>5, <1>6

\* The statuses of a project without structural errors in its imports.
LEMMA StatusesAre ==
    ASSUME NEW c, Read(c), ~Broken(c)
    PROVE  /\ DOMAIN Statuses(c) = Documents(c)
           /\ \A d \in Documents(c) :
                 /\ Statuses(c)[d].causes = Causes(d, StateOf(c), Manifests(c))
                 /\ Statuses(c)[d].causes # {} <=> Pending(c, d)
                 /\ Statuses(c)[d].waiting # {} <=>
                       \E x \in Upstream(Documents(c), Providers(Docs(c)))
                                   [Cardinality(Documents(c))][d] :
                          x \in Documents(c) /\ Pending(c, x)
<1> DEFINE docs == Documents(c)
           providers == Providers(Docs(c))
           up == Upstream(docs, providers)[Cardinality(docs)]
           statuses == Statuses(c)
<1>1. /\ docs \in SUBSET Paths /\ providers \in [docs -> SUBSET docs]
      /\ Acyclic(docs, providers)
  BY DocumentsAre, Unbroken
<1>2. statuses = Schedule(TopologicalOrder(docs, providers), providers, StateOf(c), Manifests(c))
  BY DEF Statuses
<1> HIDE DEF docs, providers, statuses
<1>3. /\ DOMAIN statuses = docs
      /\ \A d \in docs :
            /\ statuses[d].causes = Causes(d, StateOf(c), Manifests(c))
            /\ statuses[d].waiting # {} <=> \E x \in up[d] : Causes(x, StateOf(c), Manifests(c)) # {}
  BY <1>1, <1>2, ScheduleIs
<1>4. up \in [docs -> SUBSET docs]
  <2>1. /\ Cardinality(docs) \in 0 .. Cardinality(docs)
        /\ Upstream(docs, providers) \in [0 .. Cardinality(docs) -> [docs -> SUBSET docs]]
    BY <1>1, UpstreamIs
  <2> QED BY <2>1
<1>5. \A d \in docs : Causes(d, StateOf(c), Manifests(c)) # {} <=> Pending(c, d)
  BY CausesAre DEF docs
<1> HIDE DEF up
<1>6. \A d \in docs : (\E x \in up[d] : Causes(x, StateOf(c), Manifests(c)) # {})
                         <=> \E x \in up[d] : x \in docs /\ Pending(c, x)
  BY <1>4, <1>5
<1> QED BY <1>3, <1>5, <1>6 DEF docs, providers, up, statuses

LEMMA StatusesRight ==
    ASSUME SnapshotInv, TypeOKSnapshot
    PROVE  StatusesAreRight
<1> SUFFICES ASSUME outcome = "built", ~Broken(seen) PROVE StatusesAreRight
  BY DEF StatusesAreRight
<1> DEFINE docs == Documents(seen)
           statuses == Statuses(seen)
           up == Upstream(docs, Providers(Docs(seen)))[Cardinality(docs)]
           pending == {d \in docs : Pending(seen, d)}
<1>1. /\ DOMAIN statuses = docs
      /\ \A d \in docs :
            /\ statuses[d].causes # {} <=> Pending(seen, d)
            /\ statuses[d].waiting # {} <=> \E x \in up[d] : x \in docs /\ Pending(seen, x)
  BY BuiltIsRead, StatusesAre
<1>2. StatusesAreRight <=>
          /\ DOMAIN statuses = docs
          /\ \A d \in docs :
                /\ (statuses[d].causes # {}) = (d \in pending)
                /\ (statuses[d].waiting # {}) = (up[d] \cap pending # {})
  BY DEF StatusesAreRight, Upstream, Deeper, Pending
<1> HIDE DEF docs, statuses, up
<1> QED BY <1>1, <1>2

(***************************************************************************)
(* What the search for cycles, the order of the documents, the merge of    *)
(* sorted manifests and the one pass of the scheduler compute comes to its *)
(* definition (graph.rs:253, schedule.rs:66), in every graph of imports    *)
(* and with every stored state.                                            *)
(***************************************************************************)
THEOREM SchedulesAreRight == StopHookSpec => []ScheduleIsRight
<1>1. SnapshotInv /\ TypeOKSnapshot => ScheduleIsRight
  BY CyclesReported, StatusesRight DEF ScheduleIsRight
<1> QED BY <1>1, SnapshotInvariance, SnapshotTypes, PTL

LEMMA ChangesSeen ==
    ASSUME SnapshotInv, TypeOKSnapshot
    PROVE  EveryChangeIsSeen
<1> SUFFICES ASSUME outcome = "built", ~Broken(seen), <<"README.md">> \in Documents(seen),
                    NEW s \in Sources(seen)
             PROVE  /\ CoveredBy(s, Documents(seen), HandoffsOf(seen)) # {}
                    /\ \A d \in CoveredBy(s, Documents(seen), HandoffsOf(seen)) :
                          Statuses(seen)[d].causes = {} =>
                              [key |-> s, hash |-> seen.files[s]]
                                  \in ToSet(StateOf(seen).reviews[d].files)
  BY DEF EveryChangeIsSeen
<1>1. Read(seen)
  BY BuiltIsRead
<1>2. Documents(seen) \in SUBSET Paths /\ s \in Paths
  BY <1>1, DocumentsAre
<1>3. CoveredBy(s, Documents(seen), HandoffsOf(seen)) # {}
  BY <1>2, RootCovers DEF HandoffsOf
<1>4. ASSUME NEW d \in CoveredBy(s, Documents(seen), HandoffsOf(seen)),
             Statuses(seen)[d].causes = {}
      PROVE  [key |-> s, hash |-> seen.files[s]] \in ToSet(StateOf(seen).reviews[d].files)
  <2>1. d \in Documents(seen)
    BY DEF CoveredBy
  <2>2. StateOf(seen).reviews[d] = Manifest(seen, d)
    BY <1>1, <1>4, <2>1, StatusesAre DEF Pending
  <2>3. s \in ScopeOf(d, Sources(seen), Documents(seen), HandoffsOf(seen))
    BY DEF ScopeOf
  <2> QED BY <1>1, <2>1, <2>2, <2>3, ManifestIs
<1> QED BY <1>3, <1>4

(***************************************************************************)
(* Coverage has no gap below a tracked root document (scope.rs:12), and no *)
(* document is current while a source it covers has another content than   *)
(* the one its stored review is of.                                        *)
(***************************************************************************)
THEOREM EveryChangeSeen == StopHookSpec => []EveryChangeIsSeen
<1>1. SnapshotInv /\ TypeOKSnapshot => EveryChangeIsSeen
  BY ChangesSeen
<1> QED BY <1>1, SnapshotInvariance, SnapshotTypes, PTL

-----------------------------------------------------------------------------
(***************************************************************************)
(* The hook: its endpoint is one that runs any status command, and what it *)
(* says comes from the command's counts.                                   *)
(***************************************************************************)
LEMMA PrintsOneOfThree == StatusPrints => \E text \in {"quiet", "due", "failure"} :
                              LeaderExits(Status, text) /\ text = Summary
<1> SUFFICES ASSUME StatusPrints
             PROVE  \E text \in {"quiet", "due", "failure"} :
                        LeaderExits(Status, text) /\ text = Summary
  OBVIOUS
<1>1. PICK text \in Outputs : LeaderExits(Status, text)
  BY DEF StatusPrints, StatusEnds
<1>2. text = Summary
  BY <1>1 DEF StatusPrints, LeaderExits
<1>3. Summary \in {"quiet", "due", "failure"}
  BY DEF Summary
<1> QED BY <1>1, <1>2, <1>3

LEMMA HookSteps == [StopHookNext]_stopHookVars => [NextEndpoint]_endpointVars
<1> SUFFICES ASSUME [StopHookNext]_stopHookVars
             PROVE  [NextEndpoint]_endpointVars
  OBVIOUS
<1>1. CASE Anyone
  BY <1>1 DEF NextEndpoint
<1>2. CASE UNCHANGED endpointVars
  BY <1>2
<1>3. CASE StatusPrints
  BY <1>3, PrintsOneOfThree DEF NextEndpoint
<1> QED BY <1>1, <1>2, <1>3 DEF StopHookNext, StatusCollects, stopHookVars

(***************************************************************************)
(* The hook over a project implements the endpoint that is specified       *)
(* alone, for which the status command may print anything: whatever the    *)
(* snapshot, the edits and the counts do, every step of the hook is a step *)
(* of the endpoint or leaves it as it is (main.rs:1096).                   *)
(***************************************************************************)
THEOREM HookImplementsEndpoint == StopHookSpec => SpecEndpoint
<1>1. InitStopHook => InitAlone
  <2> SUFFICES ASSUME NEW origin \in Origins, InitEndpoint(origin.pace, origin.events)
               PROVE  InitAlone
    BY DEF InitStopHook
  <2> USE DEF InitEndpoint, InitAlone
  <2>1. CASE origin.pace = "calm" /\ origin.events \subseteq Events \ {"held"}
    BY <2>1
  <2>2. CASE origin.pace = "late" /\ origin.events \subseteq Events
    BY <2>2
  <2> QED BY <2>1, <2>2, OriginsHaveAPace
<1> QED BY <1>1, HookSteps, PTL DEF StopHookSpec, SpecEndpoint

(***************************************************************************)
(* Type correctness of the snapshot and of the endpoint.                   *)
(***************************************************************************)
THEOREM StopHookTypes == StopHookSpec => []TypeOK
<1>1. TypeOKSnapshot /\ SupervisorInv => TypeOK
  BY DEF TypeOK, SupervisorInv
<1> QED BY <1>1, SnapshotTypes, HookImplementsEndpoint, Invariance, PTL

-----------------------------------------------------------------------------
(***************************************************************************)
(* Silence.                                                                *)
(***************************************************************************)
\* The command found, in what it had collected, nothing that is due.
Settled == outcome = "built" /\ ~Invalid(seen) /\ ~Due(Counts(seen))

\* What says that nothing is due comes from there, step by step.
Spoken ==
    /\ output = "quiet" => Settled
    /\ result = "silent" /\ command = Status => Settled
    /\ answer = "silent" /\ command = Status => Settled
    /\ answer = "silent" => worker \in {"idle", "done"}
    /\ answer # "none" => main \in {"emit", "exited"}
    /\ worker = "idle" => command = Toplevel

LEMMA SettledStays ==
    ASSUME Settled, [StopHookNext]_stopHookVars
    PROVE  Settled'
<1>1. ~Collect
  BY DEF Settled, Collect, ReadConfig, ListPaths, Stat, ReadSidecar, ReadSource, ReadReadme,
         ReadFile, ReadRules, LookForState, LookForLegacy, LoadState, EndPass, Collecting
<1>2. ~Begin /\ ~Edits
  BY DEF Settled, Begin, Edits, Edit
<1>3. UNCHANGED snapshotVars
  BY <1>1, <1>2 DEF StopHookNext, StatusCollects, StatusPrints, StatusEnds, stopHookVars
<1> QED BY <1>3 DEF Settled, snapshotVars

LEMMA MainSpoken ==
    ASSUME SupervisorInv, Spoken, Settled => Settled', Main
    PROVE  Spoken'
<1> USE DEF Spoken, SupervisorInv, TypeOKEndpoint, WorkerPlace, OwnerState,
            scene, threads, owner, children, Toplevel, Status
<1>1. CASE ReceiveEvent
  BY <1>1 DEF ReceiveEvent, Say
<1>2. CASE EventTimeout
  BY <1>2 DEF EventTimeout, Say
<1>3. CASE ReceiveResult
  BY <1>3 DEF ReceiveResult, Say
<1>4. CASE GiveUp
  BY <1>4 DEF GiveUp
<1>5. CASE KillGroup
  BY <1>5 DEF KillGroup
<1>6. CASE Unfinished
  BY <1>6 DEF Unfinished, Say
<1>7. CASE Emit
  BY <1>7 DEF Emit
<1> QED BY <1>1, <1>2, <1>3, <1>4, <1>5, <1>6, <1>7 DEF Main

LEMMA WorkerSpoken ==
    ASSUME SupervisorInv, Spoken, Settled => Settled', Worker
    PROVE  Spoken'
<1> USE DEF Spoken, SupervisorInv, TypeOKEndpoint, WorkerPlace,
            scene, threads, owner, children, Toplevel, Status,
            At, Send, CommandFailed, Terminate
<1>1. CASE CheckOwner
  BY <1>1 DEF CheckOwner
<1>2. CASE Spawn
  BY <1>2 DEF Spawn
<1>3. CASE Adopt
  BY <1>3 DEF Adopt
<1>4. CASE LeaderGone
  BY <1>4 DEF LeaderGone
<1>5. CASE StopWaiting
  BY <1>5 DEF StopWaiting
<1>6. CASE WaitFails
  BY <1>6 DEF WaitFails
<1>7. CASE Drained
  BY <1>7 DEF Drained
<1>8. CASE DrainTimeout
  BY <1>8 DEF DrainTimeout
<1>9. CASE Sweep
  BY <1>9 DEF Sweep
<1>10. CASE Release
  BY <1>10 DEF Release
<1>11. CASE Conclude
  BY <1>11 DEF Conclude, SummaryText
<1> QED BY <1>1, <1>2, <1>3, <1>4, <1>5, <1>6, <1>7, <1>8, <1>9, <1>10, <1>11 DEF Worker

LEMMA OthersSpoken ==
    ASSUME SupervisorInv, Spoken, Settled => Settled',
           GitExits \/ HelperStarts \/ HelperExits \/ Flood \/ Expire
    PROVE  Spoken'
<1> USE DEF Spoken, scene, threads, owner, children
<1>1. CASE GitExits
  <2>1. PICK c \in Commands, text \in {"worktree", "failure"} : LeaderExits(c, text)
    BY <1>1 DEF GitExits
  <2>2. output' # "quiet" /\ UNCHANGED threads
    BY <2>1 DEF LeaderExits
  <2> QED BY <2>2
<1>2. CASE HelperStarts
  BY <1>2 DEF HelperStarts
<1>3. CASE HelperExits
  BY <1>3 DEF HelperExits
<1>4. CASE Flood
  BY <1>4 DEF Flood
<1>5. CASE Expire
  BY <1>5 DEF Expire
<1> QED BY <1>1, <1>2, <1>3, <1>4, <1>5

LEMMA PrintingSpoken ==
    ASSUME Spoken, Settled => Settled', StatusPrints
    PROVE  Spoken'
<1>1. PICK text \in {"quiet", "due", "failure"} : LeaderExits(Status, text) /\ text = Summary
  BY PrintsOneOfThree
<1>2. Summary = "quiet" => Settled
  BY DEF Summary, Settled, StatusPrints, StatusEnds
<1> QED BY <1>1, <1>2 DEF Spoken, LeaderExits, threads

LEMMA SpokenKeeps == SupervisorInv /\ Spoken /\ [StopHookNext]_stopHookVars => Spoken'
<1> SUFFICES ASSUME SupervisorInv, Spoken, [StopHookNext]_stopHookVars
             PROVE  Spoken'
  OBVIOUS
<1>1. Settled => Settled'
  BY SettledStays
<1>2. CASE Main
  BY <1>1, <1>2, MainSpoken
<1>3. CASE Worker
  BY <1>1, <1>3, WorkerSpoken
<1>4. CASE GitExits \/ HelperStarts \/ HelperExits \/ Flood \/ Expire
  BY <1>1, <1>4, OthersSpoken
<1>5. CASE StatusPrints
  BY <1>1, <1>5, PrintingSpoken
<1>6. CASE UNCHANGED endpointVars
  BY <1>1, <1>6 DEF Spoken, endpointVars
<1> QED BY <1>2, <1>3, <1>4, <1>5, <1>6 DEF StopHookNext, Anyone, StatusCollects, stopHookVars

LEMMA SpokenInvariance == StopHookSpec => []Spoken
<1>1. InitStopHook => Spoken
  BY DEF InitStopHook, InitEndpoint, Spoken
<1> QED BY <1>1, SpokenKeeps, HookImplementsEndpoint, Invariance, PTL DEF StopHookSpec

\* Counts of nothing are counts of empty sets.
LEMMA NothingCounted ==
    ASSUME NEW S, IsFiniteSet(S)
    PROVE  Cardinality(S) \in Nat /\ (Cardinality(S) = 0 <=> S = {})
BY FS_CardinalityType, FS_EmptySet

LEMMA NothingDue ==
    ASSUME NEW c, Read(c), ~Invalid(c), ~Due(Counts(c))
    PROVE  /\ StateOf(c).invalidations = {}
           /\ \A d \in Documents(c) :
                 /\ d \in DOMAIN StateOf(c).reviews
                 /\ StateOf(c).reviews[d] = Manifest(c, d)
<1> DEFINE statuses == Statuses(c)
           Never == {d \in DOMAIN statuses : "never_reviewed" \in statuses[d].causes}
           Stale == {d \in DOMAIN statuses : /\ statuses[d].causes # {}
                                             /\ ~("never_reviewed" \in statuses[d].causes)}
           Waiting == {d \in DOMAIN statuses : statuses[d].waiting # {}}
           counts == Counts(c)
<1>1. /\ counts.pending = Cardinality(Stale) /\ counts.never_reviewed = Cardinality(Never)
      /\ counts.waiting = Cardinality(Waiting)
      /\ counts.open_invalidations = Cardinality(StateOf(c).invalidations)
  BY DEF Counts
<1>2. ~Broken(c)
  BY DEF Invalid
<1>3. /\ DOMAIN statuses = Documents(c)
      /\ \A d \in Documents(c) : statuses[d].causes # {} <=> Pending(c, d)
  BY <1>2, StatusesAre
<1>4. IsFiniteSet(Documents(c))
  BY DocumentsAre, PathsAreFinite
<1>5. IsFiniteSet(Stale) /\ IsFiniteSet(Never)
  <2>1. Stale \subseteq Documents(c) /\ Never \subseteq Documents(c)
    BY <1>3
  <2> HIDE DEF Stale, Never
  <2> QED BY <2>1, <1>4, FS_Subset
<1>6. IsFiniteSet(StateOf(c).invalidations)
  BY StateIs
<1>7. /\ ~(counts.pending + counts.never_reviewed > 0)
      /\ ~(counts.open_invalidations > 0)
  BY DEF Due
<1> HIDE DEF Stale, Never, Waiting, statuses, counts
<1>8. /\ Cardinality(Stale) \in Nat /\ Cardinality(Never) \in Nat
      /\ Cardinality(StateOf(c).invalidations) \in Nat
  BY <1>5, <1>6, NothingCounted
<1>9. /\ Cardinality(Stale) = 0 /\ Cardinality(Never) = 0
      /\ Cardinality(StateOf(c).invalidations) = 0
  BY <1>1, <1>7, <1>8
<1>10. Stale = {} /\ Never = {} /\ StateOf(c).invalidations = {}
  BY <1>5, <1>6, <1>9, NothingCounted
<1>11. \A d \in Documents(c) : statuses[d].causes = {}
  BY <1>3, <1>10 DEF Stale, Never
<1> QED BY <1>3, <1>10, <1>11 DEF Pending

(***************************************************************************)
(* Silence is truthful (main.rs:1173): an endpoint that says nothing after *)
(* an inspection found at one moment of its run a valid project in which   *)
(* every stored review is of the manifest that its document then had, and  *)
(* no open invalidation.                                                   *)
(***************************************************************************)
THEOREM SilencesAreTruthful == StopHookSpec => []SilenceIsTruthful
<1>1. SnapshotInv /\ TypeOKSnapshot /\ Spoken => SilenceIsTruthful
  <2> SUFFICES ASSUME SnapshotInv, TypeOKSnapshot, Spoken,
                      answer = "silent", command = Status, ~restored, IgnoresStood
               PROVE  LET then == Whole(seam)
                      IN  /\ ~Invalid(then)
                          /\ StateOf(then).invalidations = {}
                          /\ \A d \in Documents(then) :
                                /\ d \in DOMAIN StateOf(then).reviews
                                /\ StateOf(then).reviews[d] = Manifest(then, d)
    BY DEF SilenceIsTruthful
  <2>1. Settled
    BY DEF Spoken
  <2>2. seen = Whole(seam) /\ Read(seen)
    BY <2>1, BuiltIsWhole, BuiltIsRead DEF Settled
  <2>3. /\ ~Invalid(seen)
        /\ StateOf(seen).invalidations = {}
        /\ \A d \in Documents(seen) :
              /\ d \in DOMAIN StateOf(seen).reviews
              /\ StateOf(seen).reviews[d] = Manifest(seen, d)
    BY <2>1, <2>2, NothingDue DEF Settled
  <2> QED BY <2>2, <2>3
<1> QED BY <1>1, SnapshotInvariance, SnapshotTypes, SpokenInvariance, PTL
=============================================================================
