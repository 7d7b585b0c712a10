---------------------------- MODULE HookInstall ----------------------------
(***************************************************************************)
(* The installer of the agents' `Stop` hook: FsHookStore adds one group to *)
(* a configuration that belongs to the user and keeps an ownership record  *)
(* beside it.  A durable intent is written before the configuration        *)
(* changes; the next command settles an interrupted one from the two       *)
(* identities it records for the configuration and for the record.         *)
(*                                                                         *)
(* A configuration is what the installer tells apart: the containers, the  *)
(* groups in the order of the Stop array, other events and other keys.  A  *)
(* group of Memoria's is named by the executable its command runs.         *)
(* Digests are taken as injective, so identities are the values.  One      *)
(* target; the representation (hooks.json or the inline table of           *)
(* config.toml) is chosen once.  Every error path of the installer returns *)
(* without a clean-up, so a failed step is the same as a crash there.      *)
(***************************************************************************)
EXTENDS Integers, Sequences

CONSTANTS
    Procs,        \* processes that may run an installer command
    Executables,  \* paths Memoria may be installed at
    ExeOf,        \* process -> the executable it runs
    UserGroups,   \* Stop groups of the user's
    Lookalikes,   \* those that look like one of Memoria's
    Originals,    \* configurations of hooks.json before the first command
    InlineOriginals, \* configurations of the inline table
    Edits,        \* bound on outside edits
    Crashes,      \* bound on crashes
    None

ASSUME BoundsAreNatural == Edits \in Nat /\ Crashes \in Nat

ASSUME EveryProcessRuns == ExeOf \in [Procs -> Executables]

ASSUME LookalikesAreTheUsers == Lookalikes \subseteq UserGroups

Groups == Executables \cup UserGroups

VARIABLES
    inline,   \* the representation
    config,   \* the configuration file, or None
    record,   \* the ownership record, or None
    intent,   \* the transaction record, or None
    lock,     \* the process that holds the integration lock
    cmd,      \* process -> the command it runs
    mine,     \* history: the user's part, as the last outside edit left it
    touched,  \* history: somebody edited the configuration
    meddled,  \* history: somebody edited what Memoria owns
    raced,    \* history: a write fell between a comparison and its rename
    original, \* history: the first configuration
    edits, crashes

history == <<mine, touched, meddled, raced, original>>
files == <<config, record, intent>>
vars == <<inline, files, lock, cmd, history, edits, crashes>>

\* The groups are in the Stop array, and the array and other events in `hooks`.
Configuration ==
    {c \in [hooks : BOOLEAN, stop : BOOLEAN, groups : Seq(Groups),
            events : BOOLEAN, keys : BOOLEAN] :
        /\ c.groups # <<>> => c.stop
        /\ c.stop \/ c.events => c.hooks}

Created == [file : BOOLEAN, hooks : BOOLEAN, stop : BOOLEAN]
Ownership == [entry : Executables, created : Created]

MaybeConfig == Configuration \cup {None}
MaybeRecord == Ownership \cup {None}
Intent == [op : {"install", "uninstall"}, expected : MaybeConfig,
           desired : MaybeConfig, expectedRecord : MaybeRecord,
           desiredRecord : MaybeRecord,
           phase : {"started", "configuration-written"}]

ASSUME NoneIsNothing ==
    None \notin Procs \cup Executables \cup Configuration \cup Ownership \cup Intent

Nobody == [file |-> FALSE, hooks |-> FALSE, stop |-> FALSE]

EmptyObject == [hooks |-> FALSE, stop |-> FALSE, groups |-> <<>>,
                events |-> FALSE, keys |-> FALSE]

GroupsOf(c) == IF c = None THEN <<>> ELSE c.groups

\* The groups of a kind, in their order.
Only(groups, kind) ==
    LET kept[n \in 0..Len(groups)] ==
            IF n = 0 THEN <<>>
            ELSE IF groups[n] \in kind THEN Append(kept[n - 1], groups[n])
            ELSE kept[n - 1]
    IN  kept[Len(groups)]

Count(groups, g) == Len(Only(groups, {g}))

Without(groups, g) == Only(groups, Groups \ {g})

Owned(c) == Only(GroupsOf(c), Executables)

(***************************************************************************)
(* No command of Memoria's ran before, so no group is hers yet; and the    *)
(* inline table is chosen in a file that is there.                         *)
(***************************************************************************)
ASSUME OriginalsAreTheUsers ==
    /\ Originals \subseteq MaybeConfig /\ InlineOriginals \subseteq Configuration
    /\ \A c \in Originals \cup InlineOriginals : Owned(c) = <<>>

ResemblesOwned(g) == g \in Executables \cup Lookalikes

(***************************************************************************)
(* insert_group and remove_group: only absent containers are created, and  *)
(* only created ones are removed.                                          *)
(***************************************************************************)
CreatedBy(c) ==
    [file  |-> c = None,
     hooks |-> IF c = None THEN TRUE ELSE ~c.hooks,
     stop  |-> IF c = None THEN TRUE ELSE ~c.stop]

InsertGroup(c, exe) ==
    LET base == IF c = None THEN EmptyObject ELSE c
    IN  [base EXCEPT !.hooks = TRUE, !.stop = TRUE, !.groups = Append(@, exe)]

\* A mutant: the containers go with the group, whoever made them.
RemoveGroupAndContainers(c, exe, created) ==
    LET groups == Without(c.groups, exe)
        stop   == c.stop /\ groups # <<>>
    IN  [c EXCEPT !.groups = groups, !.stop = stop,
                  !.hooks  = c.hooks /\ (stop \/ c.events)]

RemoveGroup(c, exe, created) ==
    LET groups == Without(c.groups, exe)
        stop   == c.stop /\ ~(groups = <<>> /\ created.stop)
    IN  [c EXCEPT !.groups = groups, !.stop = stop,
                  !.hooks  = c.hooks /\ (stop \/ c.events \/ ~created.hooks)]

Both(a, b) == [file  |-> a.file \/ b.file, hooks |-> a.hooks \/ b.hooks,
               stop  |-> a.stop \/ b.stop]

(***************************************************************************)
(* What an installation writes, from one read of each file.  `previous` is *)
(* the record it read.                                                     *)
(***************************************************************************)
InstalledConfig(c, previous, relocated, exe) ==
    IF c = None \/ previous = None \/ ~relocated THEN InsertGroup(c, exe)
    ELSE InsertGroup(RemoveGroup(c, previous.entry, previous.created), exe)

InstalledCreated(c, previous, relocated) ==
    LET base == IF c # None /\ previous # None /\ relocated
                  THEN RemoveGroup(c, previous.entry, previous.created) ELSE c
        here == [CreatedBy(base) EXCEPT !.file = (c = None)]
    IN  Both(here, IF previous = None THEN Nobody ELSE previous.created)

\* apply_inline_install: the previous group goes, its containers stay.
InlineConfig(c, previous, exe) ==
    LET base == IF c = None THEN EmptyObject ELSE c
    IN  InsertGroup([base EXCEPT !.groups = IF previous = None THEN @
                                            ELSE Without(@, previous.entry)], exe)

InlineCreated(c, previous) ==
    LET here == [CreatedBy(c) EXCEPT !.file = FALSE]
        old  == IF previous = None THEN Nobody ELSE previous.created
    IN  Both(here, [old EXCEPT !.file = FALSE])

\* A mutant: a file Memoria made goes as a whole.
UninstalledFile(c, owned) ==
    IF owned.created.file THEN None ELSE RemoveGroup(c, owned.entry, owned.created)

\* What an uninstall leaves: nothing, when Memoria made the file and it is empty.
UninstalledConfig(c, owned) ==
    LET rest == RemoveGroup(c, owned.entry, owned.created)
    IN  IF ~rest.hooks /\ ~rest.keys /\ owned.created.file THEN None ELSE rest

\* apply_inline_uninstall: `hooks` may only go together with `Stop`.
InlineUninstalled(c, owned) ==
    LET base   == IF c = None THEN EmptyObject ELSE c
        groups == Without(base.groups, owned.entry)
        drop   == base.stop /\ groups = <<>> /\ owned.created.stop
    IN  [base EXCEPT !.groups = groups,
                     !.stop   = @ /\ ~drop,
                     !.hooks  = @ /\ ~(drop /\ ~base.events /\ owned.created.hooks)]

(***************************************************************************)
(* build_plan: the state of the destination, seen by an executable.        *)
(***************************************************************************)
StateFor(exe) ==
    LET owned == Count(GroupsOf(config), record.entry)
    IN  IF record # None
          THEN IF owned = 0 THEN "modified"
               ELSE IF owned > 1 THEN "conflict"
               ELSE IF record.entry = exe THEN "installed" ELSE "relocated"
          ELSE IF \E i \in DOMAIN GroupsOf(config) : ResemblesOwned(GroupsOf(config)[i])
                 THEN "unmanaged" ELSE "absent"

NoChange(op, state) ==
    /\ intent = None
    /\ \/ op = "install" /\ state = "installed"
       \/ op = "uninstall" /\ state = "absent"

\* gate_install and gate_uninstall.
Gate(op, state) ==
    /\ state \notin {"modified", "conflict"}
    /\ op = "install" => state # "unmanaged"

Steps == {"idle", "planned", "recover", "recoverRecord", "decide", "read",
          "intend", "compare", "replace", "intendRecord", "compareRecord",
          "replaceRecord", "clear", "done"}

Idle == [pc |-> "idle", op |-> None, state |-> None,
         seen |-> None, recovery |-> FALSE, recovering |-> FALSE,
         landed |-> FALSE, before |-> None, after |-> None, oldRecord |-> None, newRecord |-> None]

\* The user's part of a configuration: all that no executable wrote.
UserPart(c) ==
    IF c = None THEN [groups |-> <<>>, events |-> FALSE, keys |-> FALSE]
    ELSE [groups |-> Only(c.groups, Groups \ Executables),
          events |-> c.events, keys |-> c.keys]

States == {"absent", "installed", "relocated", "unmanaged", "modified", "conflict"}

Command ==
    {c \in [pc : Steps, op : {"install", "uninstall", None}, state : States \cup {None},
            seen : MaybeConfig, recovery : BOOLEAN, recovering : BOOLEAN,
            landed : BOOLEAN, before : MaybeConfig, after : MaybeConfig,
            oldRecord : MaybeRecord, newRecord : MaybeRecord] :
        c.pc # "idle" => c.op \in {"install", "uninstall"}}

TypeOK ==
    /\ inline \in BOOLEAN
    /\ config \in MaybeConfig
    /\ record \in MaybeRecord
    /\ intent \in Intent \cup {None}
    /\ lock \in Procs \cup {None}
    /\ cmd \in [Procs -> Command]
    /\ original \in MaybeConfig
    /\ touched \in BOOLEAN /\ meddled \in BOOLEAN /\ raced \in BOOLEAN
    /\ edits \in Nat /\ crashes \in Nat

-----------------------------------------------------------------------------
At(p, step) == cmd[p].pc = step

Go(p, step) == cmd' = [cmd EXCEPT ![p].pc = step] /\ UNCHANGED lock

\* The command returns, well or not, and its guard is dropped.
End(p) == cmd' = [cmd EXCEPT ![p] = Idle] /\ lock' = None

Quiet == UNCHANGED <<inline, history, edits, crashes>>

(***************************************************************************)
(* Planning, outside the lock.  An interrupted operation always reaches    *)
(* the apply; otherwise the gate decides.                                  *)
(***************************************************************************)
Plan(p, op) ==
    LET state == StateFor(ExeOf[p])
    IN  /\ At(p, "idle")
        /\ intent = None => Gate(op, state)
        /\ ~NoChange(op, state)
        /\ cmd' = [cmd EXCEPT ![p] = [Idle EXCEPT !.pc = "planned", !.op = op,
                                                  !.state = state,
                                                  !.seen = config,
                                                  !.recovery = intent # None]]
        /\ UNCHANGED <<files, lock>> /\ Quiet

\* integration_lock does not wait.
Lock(p) ==
    /\ At(p, "planned")
    /\ \/ lock = None /\ lock' = p /\ cmd' = [cmd EXCEPT ![p].pc = "recover"]
       \/ lock # None /\ cmd' = [cmd EXCEPT ![p] = Idle] /\ UNCHANGED lock
    /\ UNCHANGED files /\ Quiet

(***************************************************************************)
(* recover: the configuration, read once, is compared with both            *)
(* identities, ...                                                         *)
(***************************************************************************)
Landed == config = intent.desired
Untouched == config = intent.expected

Recover(p) ==
    /\ At(p, "recover")
    /\ LET known == Landed \/ (intent.phase = "started" /\ Untouched)
       IN  \/ intent = None /\ Go(p, "decide")
           \/ /\ intent # None /\ known
              /\ cmd' = [cmd EXCEPT ![p].pc = "recoverRecord", ![p].landed = Landed]
              /\ UNCHANGED lock
           \/ intent # None /\ ~known /\ End(p)
    /\ UNCHANGED files /\ Quiet

(***************************************************************************)
(* ... then the record with its own two, and the record step is finished   *)
(* if the write of the configuration had landed.                           *)
(***************************************************************************)
\* A mutant: an interrupted write is always taken for undone.
RecoverRecordAsUndone(p) ==
    /\ At(p, "recoverRecord")
    /\ cmd' = [cmd EXCEPT ![p].recovering = TRUE, ![p].pc = "clear"]
    /\ UNCHANGED <<files, lock>> /\ Quiet

RecoverRecord(p) ==
    /\ At(p, "recoverRecord")
    /\ LET expected == record = intent.expectedRecord
           desired  == record = intent.desiredRecord
           known    == expected \/ (intent.phase = "configuration-written" /\ desired)
       IN  \/ ~known /\ End(p)
           \/ /\ known /\ (cmd[p].landed /\ ~desired)
              /\ cmd' = [cmd EXCEPT ![p].recovering = TRUE,
                                    ![p].oldRecord  = intent.expectedRecord,
                                    ![p].newRecord  = intent.desiredRecord,
                                    ![p].pc         = "compareRecord"]
              /\ UNCHANGED lock
           \/ /\ known /\ ~(cmd[p].landed /\ ~desired)
              /\ cmd' = [cmd EXCEPT ![p].recovering = TRUE, ![p].pc = "clear"]
              /\ UNCHANGED lock
    /\ UNCHANGED files /\ Quiet

(***************************************************************************)
(* The fresh plan under the lock.                                          *)
(***************************************************************************)
\* agrees_with_plan: a plan that asked for recovery is compared with nothing.
Agrees(p) ==
    cmd[p].recovery \/ (cmd[p].seen = config /\ cmd[p].state = StateFor(ExeOf[p]))

Decide(p) ==
    /\ At(p, "decide")
    /\ LET state == StateFor(ExeOf[p])
           op    == cmd[p].op
           same  == op = "install" /\ NoChange(op, state)
       IN  \/ ~Gate(op, state) /\ End(p)
           \/ Gate(op, state) /\ same /\ Go(p, "done")
           \/ Gate(op, state) /\ ~same /\ ~Agrees(p) /\ End(p)
           \/ /\ Gate(op, state) /\ ~same /\ Agrees(p)
              /\ cmd' = [cmd EXCEPT ![p].pc = "read", ![p].state = state,
                                    ![p].seen = None, ![p].recovery = FALSE]
              /\ UNCHANGED lock
    /\ UNCHANGED files /\ Quiet

\* A command writes one pair of values over the pair it read.
Prepare(p, config2, record2) ==
    /\ cmd' = [cmd EXCEPT ![p].pc        = "intend",
                          ![p].before    = config,  ![p].after     = config2,
                          ![p].oldRecord = record,  ![p].newRecord = record2]
    /\ UNCHANGED lock

ReadForInstall(p) ==
    LET exe       == ExeOf[p]
        relocated == cmd[p].state = "relocated"
    IN  /\ At(p, "read") /\ cmd[p].op = "install"
        /\ \/ /\ ~inline /\ Count(GroupsOf(config), exe) > 0
              /\ Go(p, "done")
           \/ /\ ~inline /\ Count(GroupsOf(config), exe) = 0
              /\ Prepare(p, InstalledConfig(config, record, relocated, exe),
                         [entry   |-> exe,
                          created |-> InstalledCreated(config, record, relocated)])
           \/ /\ inline
              /\ Prepare(p, InlineConfig(config, record, exe),
                         [entry   |-> exe,
                          created |-> InlineCreated(config, record)])
        /\ UNCHANGED files /\ Quiet

ReadForUninstall(p) ==
    /\ At(p, "read") /\ cmd[p].op = "uninstall"
    /\ \/ record = None /\ Go(p, "done")
       \/ record # None /\ inline
          /\ Prepare(p, InlineUninstalled(config, record), None)
       \/ record # None /\ ~inline /\ config # None
          /\ Prepare(p, UninstalledConfig(config, record), None)
       \/ /\ record # None /\ ~inline /\ config = None
          /\ cmd' = [cmd EXCEPT ![p].pc = "compareRecord", ![p].oldRecord = record]
          /\ UNCHANGED lock
    /\ UNCHANGED files /\ Quiet

(***************************************************************************)
(* The intent, the compare and swap, the intent again, the record the same *)
(* way, and the end of the intent.  A comparison and the rename after it   *)
(* are two steps.                                                          *)
(***************************************************************************)
\* A mutant: the record's identities are not written.
IntentOfConfiguration(p, phase) ==
    [op |-> cmd[p].op, expected |-> cmd[p].before, desired |-> cmd[p].after,
     phase |-> phase]

IntentOf(p, phase) ==
    [op             |-> cmd[p].op,
     expected       |-> cmd[p].before,    desired       |-> cmd[p].after,
     expectedRecord |-> cmd[p].oldRecord, desiredRecord |-> cmd[p].newRecord,
     phase          |-> phase]

Intend(p) ==
    /\ At(p, "intend")
    /\ intent' = IntentOf(p, "started")
    /\ Go(p, "compare")
    /\ UNCHANGED <<config, record>> /\ Quiet

Compare(p) ==
    /\ At(p, "compare")
    /\ \/ config = cmd[p].before /\ Go(p, "replace")
       \/ config # cmd[p].before /\ End(p)
    /\ UNCHANGED files /\ Quiet

Replace(p) ==
    /\ At(p, "replace")
    /\ config' = cmd[p].after
    /\ raced' = (raced \/ config # cmd[p].before)
    /\ Go(p, "intendRecord")
    /\ UNCHANGED <<inline, record, intent, mine, touched, meddled, original,
                   edits, crashes>>

IntendRecord(p) ==
    /\ At(p, "intendRecord")
    /\ intent' = IntentOf(p, "configuration-written")
    /\ Go(p, "compareRecord")
    /\ UNCHANGED <<config, record>> /\ Quiet

CompareRecord(p) ==
    /\ At(p, "compareRecord")
    /\ \/ record = cmd[p].oldRecord /\ Go(p, "replaceRecord")
       \/ record # cmd[p].oldRecord /\ End(p)
    /\ UNCHANGED files /\ Quiet

ReplaceRecord(p) ==
    /\ At(p, "replaceRecord")
    /\ record' = cmd[p].newRecord
    /\ raced' = (raced \/ record # cmd[p].oldRecord)
    /\ Go(p, "clear")
    /\ UNCHANGED <<inline, config, intent, mine, touched, meddled, original,
                   edits, crashes>>

\* A mutant: recovery leaves the intent behind.
ClearOwn(p) ==
    /\ At(p, "clear")
    /\ \/ /\ cmd[p].recovering /\ UNCHANGED intent
          /\ cmd' = [cmd EXCEPT ![p].pc = "decide", ![p].recovering = FALSE,
                                ![p].landed = FALSE, ![p].oldRecord = None,
                                ![p].newRecord = None]
          /\ UNCHANGED lock
       \/ ~cmd[p].recovering /\ intent' = None /\ Go(p, "done")
    /\ UNCHANGED <<config, record>> /\ Quiet

Clear(p) ==
    /\ At(p, "clear")
    /\ intent' = None
    /\ \/ /\ cmd[p].recovering
          /\ cmd' = [cmd EXCEPT ![p].pc = "decide", ![p].recovering = FALSE,
                                ![p].landed = FALSE, ![p].oldRecord = None,
                                ![p].newRecord = None]
          /\ UNCHANGED lock
       \/ ~cmd[p].recovering /\ Go(p, "done")
    /\ UNCHANGED <<config, record>> /\ Quiet

Return(p) ==
    /\ At(p, "done") /\ End(p) /\ UNCHANGED files /\ Quiet

-----------------------------------------------------------------------------
\* A crash, or a step that fails: the files stay as they are.
Crash(p) ==
    /\ lock = p
    /\ crashes > 0
    /\ crashes' = crashes - 1
    /\ End(p)
    /\ UNCHANGED <<inline, files, history, edits>>

(***************************************************************************)
(* The user, or the agent whose file it is, edits it at any time.          *)
(***************************************************************************)
Edited(c, owned) ==
    /\ edits > 0
    /\ edits' = edits - 1
    /\ config' = c
    /\ mine' = UserPart(c)
    /\ touched' = TRUE
    /\ meddled' = (meddled \/ owned)
    /\ UNCHANGED <<inline, record, intent, lock, cmd, raced, original, crashes>>

AddGroup(g) ==
    Edited(InsertGroup(config, g), g \in Executables)

DropGroup(g) ==
    /\ Count(GroupsOf(config), g) > 0
    /\ Edited([config EXCEPT !.groups = Without(@, g)], g \in Executables)

AddKey ==
    /\ config # None /\ ~config.keys
    /\ Edited([config EXCEPT !.keys = TRUE], FALSE)

\* Only hooks.json: the inline table is part of a larger file.
DropFile ==
    /\ ~inline /\ config # None
    /\ Edited(None, TRUE)

DropRecord ==
    /\ edits > 0 /\ record # None
    /\ edits' = edits - 1
    /\ record' = None
    /\ meddled' = TRUE
    /\ UNCHANGED <<inline, config, intent, lock, cmd, mine, touched, raced,
                   original, crashes>>

(***************************************************************************)
(* The message of a refused recovery names the recovery record: somebody   *)
(* settles the matter by hand and removes it.                              *)
(***************************************************************************)
Refused ==
    /\ intent # None
    /\ \/ ~(Landed \/ (intent.phase = "started" /\ Untouched))
       \/ ~(\/ record = intent.expectedRecord
            \/ intent.phase = "configuration-written" /\ record = intent.desiredRecord)

RemoveIntent ==
    /\ lock = None /\ Refused
    /\ intent' = None
    /\ meddled' = TRUE
    /\ UNCHANGED <<inline, config, record, lock, cmd, mine, touched, raced,
                   original, edits, crashes>>

-----------------------------------------------------------------------------
Init ==
    /\ \/ inline = FALSE /\ config \in Originals
       \/ inline = TRUE /\ config \in InlineOriginals
    /\ record = None
    /\ intent = None
    /\ lock = None
    /\ cmd = [p \in Procs |-> Idle]
    /\ mine = UserPart(config)
    /\ original = config
    /\ touched = FALSE /\ meddled = FALSE /\ raced = FALSE
    /\ edits = Edits
    /\ crashes = Crashes

Work(p) ==
    \/ Lock(p) \/ Recover(p) \/ RecoverRecord(p) \/ Decide(p)
    \/ ReadForInstall(p) \/ ReadForUninstall(p)
    \/ Intend(p) \/ Compare(p) \/ Replace(p) \/ IntendRecord(p)
    \/ CompareRecord(p) \/ ReplaceRecord(p) \/ Clear(p) \/ Return(p)

SomePlan ==
    \E p \in Procs, op \in {"install", "uninstall"} : Plan(p, op)

Next ==
    \/ SomePlan
    \/ \E p \in Procs : Work(p) \/ Crash(p)
    \/ \E g \in Groups : AddGroup(g) \/ DropGroup(g)
    \/ AddKey \/ DropFile \/ DropRecord \/ RemoveIntent

Spec == Init /\ [][Next]_vars

(***************************************************************************)
(* Fairness: a running command goes on, people run the installer again,    *)
(* and settle by hand what it refuses to settle.                           *)
(***************************************************************************)
FairSpec ==
    /\ Spec
    /\ \A p \in Procs : WF_vars(Work(p))
    /\ WF_vars(SomePlan)
    /\ SF_vars(RemoveIntent)

-----------------------------------------------------------------------------
AtRest == lock = None /\ intent = None

(***************************************************************************)
(* The user's groups, events and keys are always as the last outside edit  *)
(* left them, through installations, removals, relocations, crashes and    *)
(* recovery -- unless that edit fell between the comparison and the rename *)
(* of a replacement, where no advisory lock can see it (hooks.rs:1088).    *)
(***************************************************************************)
UserPartSurvives == ~raced => UserPart(config) = mine

(***************************************************************************)
(* Unless somebody edits what Memoria owns, at rest the record and the     *)
(* configuration agree: exactly the recorded group, or no group at all --  *)
(* whichever step a crash interrupted.                                     *)
(***************************************************************************)
OwnershipCoherent ==
    (AtRest /\ ~meddled /\ ~raced) =>
        Owned(config) = IF record = None THEN <<>> ELSE <<record.entry>>

(***************************************************************************)
(* A configuration nobody else touched is, once the hook is uninstalled,   *)
(* what it was before the first installation: Memoria removes exactly the  *)
(* containers, and the file, it created.                                   *)
(***************************************************************************)
UninstallLeavesNoTrace ==
    (AtRest /\ ~touched /\ ~meddled /\ record = None) => config = original

(***************************************************************************)
(* An operation is always settled in the end, interrupted or not.          *)
(***************************************************************************)
InterruptedSettles == []<>(intent = None)
=============================================================================
