--------------------------- MODULE WorkflowInstall ---------------------------
(***************************************************************************)
(* The managed GitHub workflow: FsWorkflowStore keeps a workflow file and  *)
(* an ownership record in the worktree.  A mutation writes a durable       *)
(* intent, moves each file it replaces into a private recovery store,      *)
(* compares the moved bytes with the ones it planned for, and creates the  *)
(* new files exclusively.  An advisory lock serializes Memoria only: an    *)
(* editor opens, saves, replaces and deletes the same files at any moment. *)
(*                                                                         *)
(* Files are inodes with names, because the code rests on what a rename, a *)
(* hard link and an open handle do: a rename moves the inode an editor     *)
(* still holds, a link fails when its name is taken.  Contents are what    *)
(* the store tells apart: the text rendered from one set of parameters,    *)
(* the record of one set, an editor's text, or a file not yet written.     *)
(* Parameters (version, Action reference, runner) are one ordered value.   *)
(***************************************************************************)
EXTENDS Integers, FiniteSets

CONSTANTS
    Procs,        \* processes that may run an integrations command
    Versions,     \* sets of parameters, ordered as their versions
    Inodes,       \* file identities
    Edits,        \* texts an editor may write
    FirstPairs,   \* [workflow, record] before the first command: a version or None
    FirstIntents, \* None, or Foreign: data another release left
    Foreign,
    Budget,       \* [fault, edit]: failing steps and crashes, an editor's changes
    None

ASSUME VersionsAreNumbers == Versions \subseteq Nat /\ Versions # {}

Costs == {"fault", "edit"}

ASSUME BudgetIsNatural == Budget \in [Costs -> Nat]

ASSUME NoneIsNothing == /\ None \notin Procs \cup Inodes \cup Versions
                        /\ Foreign # None

Files == {"workflow", "record"}
Operations == {"install", "upgrade", "uninstall"}

Rendered(v) == <<"workflow", v>>
RecordOf(v) == <<"record", v>>
Typed(e)    == <<"edit", e>>
Unwritten   == <<"unwritten">>

Contents == {Rendered(v) : v \in Versions} \cup {RecordOf(v) : v \in Versions}
                \cup {Typed(e) : e \in Edits} \cup {Unwritten}

VARIABLES
    name,    \* worktree: file -> its inode, or None
    kept,    \* inodes that have a name in the recovery store
    data,    \* inode -> content
    intent,  \* the intent record: None, Foreign, or a transaction
    lock,    \* the process that holds the advisory lock
    cmd,     \* process -> the command it runs
    held,    \* the inode an editor has open
    edits,   \* history: texts an editor wrote and has not removed itself
    spent    \* faults and edits so far

store == <<name, kept, data>>
editor == <<held, edits>>
vars == <<store, intent, lock, cmd, editor, spent>>

Transaction == [op : Operations,
                expected : [Files -> Contents \cup {None}],
                intended : [Files -> Contents \cup {None}]]

Nothing == [f \in Files |-> None]

ASSUME EvidenceIsForeign ==
    /\ FirstPairs \subseteq [Files -> Versions \cup {None}]
    /\ FirstIntents \subseteq {None, Foreign}
    /\ {None, Foreign} \cap Transaction = {}
    /\ None \notin Contents

Stations == {"idle", "lock", "look", "settle", "read", "decide", "displace",
             "check", "restore", "unlink", "create", "fill", "clear", "fail"}

Command == [pc : Stations,
            op : Operations, v : Versions, saw : [Files -> Contents \cup {None}],
            mutated : BOOLEAN, file : Files, own : Inodes \cup {None}]

At(f) == IF name[f] = None THEN None ELSE data[name[f]]

Unused == Inodes \ ({name[f] : f \in Files} \cup kept \cup {held}
                        \cup {cmd[p].own : p \in Procs})

(***************************************************************************)
(* Planning.  The label of a pair of bytes (FsWorkflowStore::state), and   *)
(* what an operation does to a pair with that label (build_plan).          *)
(***************************************************************************)
Recorded(saw) == {v \in Versions : saw["record"] = RecordOf(v)}

\* A mutant: the bytes of a template are owned, with or without a record.
AdoptingState(saw, v) ==
    CASE saw["workflow"] = None -> "absent"
      [] saw["workflow"] = Rendered(v) -> "current"
      [] OTHER -> "outdated"

State(saw, v) ==
    IF saw["workflow"] = None /\ saw["record"] = None THEN "absent"
    ELSE IF saw["record"] = None THEN "unmanaged"
    ELSE IF saw["workflow"] = None \/ Recorded(saw) = {} THEN "conflict"
    ELSE IF \E w \in Recorded(saw) : saw["workflow"] # Rendered(w) THEN "modified"
    ELSE IF v \in Recorded(saw) THEN "current"
    ELSE "outdated"

Plan(saw, op, v) ==
    LET state == State(saw, v)
        newer == \E w \in Recorded(saw) : v < w
    IN  IF \/ op = "upgrade" /\ newer
           \/ state \in {"unmanaged", "modified", "conflict"} THEN "refuse"
        ELSE IF state = "absent"
               THEN CASE op = "install"   -> "write"
                      [] op = "upgrade"   -> "refuse"
                      [] op = "uninstall" -> "nothing"
        ELSE IF op = "uninstall" THEN "remove"
        ELSE IF state = "current" THEN "nothing"
        ELSE IF op = "upgrade" THEN "write" ELSE "refuse"

Intended(op, v) ==
    [f \in Files |-> IF op = "uninstall" THEN None
                     ELSE IF f = "workflow" THEN Rendered(v) ELSE RecordOf(v)]

\* A mutant: only the workflow's bytes are recorded.
IntentOfWorkflow(c) ==
    [op |-> c.op, expected |-> [workflow |-> c.saw["workflow"]],
     intended |-> [workflow |-> Intended(c.op, c.v)["workflow"]]]

IntentOf(c) == [op |-> c.op, expected |-> c.saw, intended |-> Intended(c.op, c.v)]

\* A file is recognized when it holds the expected or the intended bytes,
\* each file for itself.
Recognized(t, saw) == \A f \in Files : saw[f] \in {t.expected[f], t.intended[f]}

-----------------------------------------------------------------------------
Idle == [pc |-> "idle", op |-> "install", v |-> CHOOSE v \in Versions : TRUE,
         saw |-> Nothing, mutated |-> FALSE, file |-> "workflow", own |-> None]

InitialContent(f, v) == IF f = "workflow" THEN Rendered(v) ELSE RecordOf(v)

\* Before the first command: a pair as a checkout left it.
Init ==
    \E pair \in FirstPairs :
        \E inode \in [Files -> Inodes] :
            /\ inode["workflow"] # inode["record"]
            /\ name = [f \in Files |-> IF pair[f] = None THEN None ELSE inode[f]]
            /\ inode = CHOOSE i \in [Files -> Inodes] : i["workflow"] # i["record"]
            /\ data = [i \in Inodes |->
                          IF \E f \in Files : name[f] = i
                          THEN LET f == CHOOSE f \in Files : name[f] = i
                               IN  InitialContent(f, pair[f])
                          ELSE Unwritten]
            /\ kept = {} /\ intent \in FirstIntents /\ lock = None
            /\ cmd = [p \in Procs |-> Idle]
            /\ held = None /\ edits = {}
            /\ spent = [c \in Costs |-> 0]

\* An inode without a name is gone, unless somebody has it open.
Freed(i) == [data EXCEPT ![i] = Unwritten]

Goto(p, pc) == cmd' = [cmd EXCEPT ![p].pc = pc]

Return(p) == /\ cmd' = [cmd EXCEPT ![p] = Idle]
             /\ lock' = IF lock = p THEN None ELSE lock

Spend(what) == /\ spent[what] < Budget[what]
               /\ spent' = [spent EXCEPT ![what] = @ + 1]

Mishap == Spend("fault")

\* The command after `file`: the record follows the workflow.
Advance(p, pc, after) ==
    IF cmd[p].file = "workflow"
    THEN cmd' = [cmd EXCEPT ![p].file = "record", ![p].pc = pc, ![p].own = None,
                            ![p].mutated = TRUE]
    ELSE cmd' = [cmd EXCEPT ![p].file = "workflow", ![p].pc = after, ![p].own = None,
                            ![p].mutated = TRUE]

(***************************************************************************)
(* run_with: a preview without the lock.  It ends the command unless there *)
(* is something to write or a transaction to settle; apply plans again.    *)
(***************************************************************************)
Preview(p, op, v) ==
    LET saw == [f \in Files |-> At(f)]
    IN  /\ cmd[p].pc = "idle"
        /\ op = "uninstall" => v = Idle.v  \* it takes no parameters
        /\ Plan(saw, op, v) # "refuse"
        /\ Plan(saw, op, v) = "nothing" => intent # None
        /\ cmd' = [cmd EXCEPT ![p].pc = "lock", ![p].op = op, ![p].v = v]
        /\ UNCHANGED <<store, intent, lock, editor, spent>>

\* A mutant: the lock is not exclusive.
LockAnyway(p) ==
    /\ cmd[p].pc = "lock"
    /\ lock' = p /\ Goto(p, "look")
    /\ UNCHANGED <<store, intent, editor, spent>>

Lock(p) ==
    /\ cmd[p].pc = "lock"
    /\ \/ lock = None /\ lock' = p /\ Goto(p, "look")
       \/ lock # None /\ Return(p)
    /\ UNCHANGED <<store, intent, editor, spent>>

\* observe reads the workflow, then the record, then the intent.
Look(p) ==
    /\ cmd[p].pc \in {"look", "read"}
    /\ cmd' = [cmd EXCEPT ![p].saw["workflow"] = At("workflow"),
                          ![p].pc = IF cmd[p].pc = "look" THEN "settle" ELSE "decide"]
    /\ UNCHANGED <<store, intent, lock, editor, spent>>

\* A mutant: data of another release is settled as an absent transaction.
SettleForeign(p) ==
    LET saw == [cmd[p].saw EXCEPT !["record"] = At("record")]
    IN  /\ cmd[p].pc = "settle"
        /\ IF intent \in {None, Foreign} THEN TRUE ELSE Recognized(intent, saw)
        /\ intent' = None /\ Goto(p, "read") /\ UNCHANGED <<lock, spent>>
        /\ UNCHANGED <<store, editor>>

\* recover: a recognized transaction is cleared, anything else is preserved.
Settle(p) ==
    LET saw == [cmd[p].saw EXCEPT !["record"] = At("record")]
    IN  /\ cmd[p].pc = "settle"
        /\ \/ intent = None /\ Goto(p, "read") /\ UNCHANGED <<intent, lock, spent>>
           \/ intent = Foreign /\ Return(p) /\ UNCHANGED <<intent, spent>>
           \/ /\ intent \notin {None, Foreign}
              /\ \/ Recognized(intent, saw) /\ intent' = None /\ Goto(p, "read")
                    /\ UNCHANGED <<lock, spent>>
                 \/ ~Recognized(intent, saw) /\ Return(p) /\ UNCHANGED <<intent, spent>>
                 \/ Recognized(intent, saw) /\ Mishap /\ Return(p) /\ UNCHANGED intent
        /\ UNCHANGED <<store, editor>>

\* The plan is made again from the bytes read now; its intent is durable
\* before anything changes.
Decide(p) ==
    LET saw  == [cmd[p].saw EXCEPT !["record"] = At("record")]
        plan == Plan(saw, cmd[p].op, cmd[p].v)
    IN  /\ cmd[p].pc = "decide"
        /\ \/ plan \in {"refuse", "nothing"} /\ Return(p) /\ UNCHANGED <<intent, spent>>
           \/ /\ plan \in {"write", "remove"}
              /\ cmd' = [cmd EXCEPT ![p].saw = saw, ![p].pc = "displace"]
              /\ intent' = IntentOf(cmd'[p])
              /\ UNCHANGED <<lock, spent>>
           \/ plan \in {"write", "remove"} /\ Mishap /\ Return(p) /\ UNCHANGED intent
        /\ UNCHANGED <<store, editor>>

AfterDisplacing(c) == IF c.op = "uninstall" THEN "clear" ELSE "create"

\* displace: a file that was there is renamed into the recovery store.
Displace(p) ==
    LET f == cmd[p].file
    IN  /\ cmd[p].pc = "displace"
        /\ \/ /\ cmd[p].saw[f] = None
              /\ cmd' = [cmd EXCEPT
                    ![p].file = IF f = "workflow" THEN "record" ELSE "workflow",
                    ![p].pc = IF f = "workflow" THEN "displace"
                              ELSE AfterDisplacing(cmd[p])]
              /\ UNCHANGED <<store, spent>>
           \/ /\ cmd[p].saw[f] # None /\ name[f] # None
              /\ name' = [name EXCEPT ![f] = None]
              /\ kept' = kept \cup {name[f]}
              /\ \/ /\ cmd' = [cmd EXCEPT ![p].own = name[f], ![p].pc = "check"]
                    /\ UNCHANGED spent
                 \/ Mishap /\ Goto(p, "fail")  \* the directory is not synced
              /\ UNCHANGED data
           \/ /\ cmd[p].saw[f] # None /\ name[f] = None
              /\ Goto(p, "fail") /\ UNCHANGED <<store, spent>>
        /\ UNCHANGED <<intent, lock, editor>>

\* The displaced bytes are compared with the planned ones.  A backup that
\* holds Memoria's own bytes and that no editor has open is not followed.
Check(p) ==
    /\ cmd[p].pc = "check"
    /\ \/ /\ data[cmd[p].own] = cmd[p].saw[cmd[p].file]
          /\ IF held = cmd[p].own THEN UNCHANGED <<kept, data>>
             ELSE kept' = kept \ {cmd[p].own} /\ data' = Freed(cmd[p].own)
          /\ Advance(p, "displace", AfterDisplacing(cmd[p])) /\ UNCHANGED spent
       \/ /\ data[cmd[p].own] # cmd[p].saw[cmd[p].file]
          /\ Goto(p, "restore") /\ UNCHANGED <<kept, data, spent>>
       \/ Mishap /\ Goto(p, "fail") /\ UNCHANGED <<kept, data>>
    /\ UNCHANGED <<name, intent, lock, editor>>

\* A mutant: the displaced file is renamed back over whatever is there.
RestoreByRename(p) ==
    /\ cmd[p].pc = "restore"
    /\ name' = [name EXCEPT ![cmd[p].file] = cmd[p].own]
    /\ kept' = kept \ {cmd[p].own}
    /\ Goto(p, "fail")
    /\ UNCHANGED <<data, intent, lock, editor, spent>>

\* restore: a hard link, which fails when the name is taken.
Restore(p) ==
    /\ cmd[p].pc = "restore"
    /\ \/ /\ name[cmd[p].file] = None
          /\ name' = [name EXCEPT ![cmd[p].file] = cmd[p].own]
          /\ Goto(p, "unlink") /\ UNCHANGED spent
       \/ /\ name[cmd[p].file] # None
          /\ Goto(p, "fail") /\ UNCHANGED <<name, spent>>
       \/ Mishap /\ Goto(p, "fail") /\ UNCHANGED name
    /\ UNCHANGED <<kept, data, intent, lock, editor>>

\* The other name of the restored inode goes; a failure costs a copy.
Unlink(p) ==
    /\ cmd[p].pc = "unlink"
    /\ \/ kept' = kept \ {cmd[p].own} /\ UNCHANGED spent
       \/ Mishap /\ UNCHANGED kept
    /\ Goto(p, "fail")
    /\ UNCHANGED <<name, data, intent, lock, editor>>

\* create_new: the name must be free when the file is opened.
Create(p) ==
    LET f == cmd[p].file
    IN  /\ cmd[p].pc = "create"
        /\ \/ /\ name[f] = None
              /\ \E i \in Unused :
                    /\ i = CHOOSE j \in Unused : TRUE
                    /\ name' = [name EXCEPT ![f] = i]
                    /\ data' = [data EXCEPT ![i] = Unwritten]
                    /\ cmd' = [cmd EXCEPT ![p].own = i, ![p].pc = "fill"]
              /\ UNCHANGED spent
           \/ name[f] # None /\ Goto(p, "fail") /\ UNCHANGED <<name, data, spent>>
           \/ Mishap /\ Goto(p, "fail") /\ UNCHANGED <<name, data>>
        /\ UNCHANGED <<kept, intent, lock, editor>>

\* The bytes are written to the file that was opened, wherever its name is now.
Fill(p) ==
    /\ cmd[p].pc = "fill"
    /\ \/ /\ data' = [data EXCEPT ![cmd[p].own] =
                          Intended(cmd[p].op, cmd[p].v)[cmd[p].file]]
          /\ Advance(p, "create", "clear") /\ UNCHANGED spent
       \/ Mishap /\ Goto(p, "fail") /\ UNCHANGED data
    /\ UNCHANGED <<name, kept, intent, lock, editor>>

\* The mutation is complete: its intent is cleared and the lock released.
Clear(p) ==
    /\ cmd[p].pc = "clear"
    /\ \/ intent' = None /\ UNCHANGED spent
       \/ Mishap /\ UNCHANGED intent
    /\ Return(p)
    /\ UNCHANGED <<store, editor>>

\* A failure keeps the intent, unless nothing is known to have changed.
Fail(p) ==
    /\ cmd[p].pc = "fail"
    /\ \/ intent' = (IF cmd[p].mutated THEN intent ELSE None) /\ UNCHANGED spent
       \/ Mishap /\ UNCHANGED intent
    /\ Return(p)
    /\ UNCHANGED <<store, editor>>

Crash(p) ==
    /\ cmd[p].pc # "idle" /\ Spend("fault")
    /\ Return(p)
    /\ UNCHANGED <<store, intent, editor>>

-----------------------------------------------------------------------------
(***************************************************************************)
(* The editor.  A text is in one place at a time, so that it can be looked *)
(* for.  A file Memoria has created and not yet written is not opened.     *)
(***************************************************************************)
Overwritten(i) == {e \in Edits : i \in Inodes /\ data[i] = Typed(e)}

Fresh == {e \in Edits : \A i \in Inodes : data[i] # Typed(e)}

BeingWritten == {cmd[p].own : p \in {q \in Procs : cmd[q].pc = "fill"}}

Open(f) ==
    /\ held = None /\ spent.edit < Budget["edit"]
    /\ name[f] # None /\ name[f] \notin BeingWritten
    /\ held' = name[f]
    /\ UNCHANGED <<store, intent, lock, cmd, edits, spent>>

\* The editor saves through its handle, into the inode wherever it went.
Save(e) ==
    /\ held # None /\ e \in Fresh /\ Spend("edit")
    /\ data' = [data EXCEPT ![held] = Typed(e)]
    /\ edits' = (edits \ Overwritten(held)) \cup {e}
    /\ held' = None
    /\ UNCHANGED <<name, kept, intent, lock, cmd>>

\* The contents once the editor took the name of `i` away: what has another
\* name, or is open in a command, stays.
Dropped(i) == IF i \in Inodes \ kept /\ \A p \in Procs : cmd[p].own # i
              THEN Freed(i) ELSE data

\* A new file takes the name, over the old one if there is one.  An editor
\* that replaces or deletes the file it has open closes it.
Put(f, e) ==
    /\ e \in Fresh /\ Spend("edit")
    /\ \E i \in Unused :
          /\ i = CHOOSE j \in Unused : TRUE
          /\ name' = [name EXCEPT ![f] = i]
          /\ data' = [Dropped(name[f]) EXCEPT ![i] = Typed(e)]
    /\ edits' = (edits \ Overwritten(name[f])) \cup {e}
    /\ held' = IF held = name[f] THEN None ELSE held
    /\ UNCHANGED <<kept, intent, lock, cmd>>

Delete(f) ==
    /\ name[f] # None /\ Spend("edit")
    /\ name' = [name EXCEPT ![f] = None]
    /\ data' = Dropped(name[f])
    /\ edits' = edits \ Overwritten(name[f])
    /\ held' = IF held = name[f] THEN None ELSE held
    /\ UNCHANGED <<kept, intent, lock, cmd>>

-----------------------------------------------------------------------------
Work(p) ==
    \/ \E op \in Operations, v \in Versions : Preview(p, op, v)
    \/ Lock(p) \/ Look(p) \/ Settle(p) \/ Decide(p)
    \/ Displace(p) \/ Check(p) \/ Restore(p) \/ Unlink(p)
    \/ Create(p) \/ Fill(p) \/ Clear(p) \/ Fail(p)

Edit ==
    \/ \E f \in Files : Open(f) \/ Delete(f) \/ \E e \in Edits : Put(f, e)
    \/ \E e \in Edits : Save(e)

Next == (\E p \in Procs : Work(p) \/ Crash(p)) \/ Edit

Spec == Init /\ [][Next]_vars

-----------------------------------------------------------------------------
\* Every file has one of the contents above, and every command one of the
\* stations of FsWorkflowStore::apply.
TypeOK ==
    /\ name \in [Files -> Inodes \cup {None}]
    /\ kept \subseteq Inodes
    /\ data \in [Inodes -> Contents]
    /\ intent \in Transaction \cup {None, Foreign}
    /\ lock \in Procs \cup {None}
    /\ cmd \in [Procs -> Command]
    /\ held \in Inodes \cup {None}
    /\ edits \subseteq Edits
    /\ spent \in [Costs -> Nat]

\* What an editor wrote is still in the worktree or in the recovery store,
\* unless an editor removed it: neither the displacement, nor the restoring
\* of a file that changed, nor a crash or a failed step between them loses a
\* text (github_workflow.rs: "Both byte sequences always survive").
EditsSurvive ==
    \A e \in edits : \E i \in kept \cup {name[f] : f \in Files} :
        i \in Inodes /\ data[i] = Typed(e)

Mutating == {"displace", "check", "restore", "unlink", "create", "fill", "clear"}

\* While a mutation runs, the intent on disk is its own: nobody settles or
\* replaces it under the mutation, so that whatever interrupts the mutation
\* leaves the bytes it expected and the bytes it intended on record.
MutationIsOnRecord ==
    \A p \in Procs : cmd[p].pc \in Mutating => intent = IntentOf(cmd[p])

\* Intent data this release does not understand stops every mutation and is
\* never cleared: it is evidence of a transaction, not a transaction.
EvidenceKept ==
    [][intent = Foreign =>
          /\ intent' = Foreign
          /\ kept' = kept
          /\ \A p \in Procs : cmd'[p].pc \notin Mutating]_vars

\* Memoria owns a workflow only through its record: a mutation that displaces
\* was planned on a workflow that holds exactly the bytes its record expects,
\* and one that creates over nothing was planned on an absent pair.
OnlyOwnedPairsChange ==
    \A p \in Procs : cmd[p].pc \in Mutating =>
        \/ cmd[p].saw = Nothing
        \/ \E v \in Versions : cmd[p].saw = Intended("install", v)

\* An interrupted mutation can be settled: with its intent on disk, the lock
\* free and each file holding bytes that `recover` recognizes, some command
\* gets as far as recovery (docs/cli.md: "Every apply settles that record
\* first").  Recovery runs inside apply, and run_with plans before it.
SomeApplySettles ==
    LET pair == [f \in Files |-> At(f)]
    IN  (lock = None /\ intent \notin {None, Foreign} /\ Recognized(intent, pair)) =>
            \E op \in Operations, v \in Versions : Plan(pair, op, v) # "refuse"
=============================================================================
