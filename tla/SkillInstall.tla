---------------------------- MODULE SkillInstall ----------------------------
(***************************************************************************)
(* The skill package installer: install, upgrade and uninstall of one      *)
(* directory `memoria` under one parent, as the renames, the transaction   *)
(* record and the recovery of FsSkillStore perform them, with commands     *)
(* that die between any two steps, steps that fail, and people who write   *)
(* into the same directories.                                              *)
(*                                                                         *)
(* A directory is what `inspect` tells apart: its install record, whether  *)
(* Memoria's own files are all there, and the user files in it.  An edited *)
(* managed file and an unknown file are the same to every decision of the  *)
(* code, so both are user files here.  File names, hashes and messages are *)
(* left out.  A rename onto something that exists fails.                   *)
(***************************************************************************)
EXTENDS Integers, Sequences

CONSTANTS
    Procs,     \* the processes that may run an installer command
    Versions,  \* versions a package may have
    Executables, \* the versions of the executables on the machine
    Targets,   \* agents a package is for
    Contents,  \* what users may write, each piece once
    Backups,   \* bound: the sequence of backup names, in numbering order
    Origins,   \* what may be on disk before the first command
    Budget,    \* bounds on user writes, and on failed steps and crashes
    None       \* no directory, no record, no backup, no transaction, no lock

ASSUME BudgetIsNatural == Budget \in [{"write", "mishap"} -> Nat]

BackupNames == {Backups[i] : i \in DOMAIN Backups}

ASSUME ExecutablesAreVersions == Executables \subseteq Versions

ASSUME BackupsAreNumbered ==
    /\ DOMAIN Backups \subseteq Nat
    /\ BackupNames \cap {"dest", "staging", "removing"} = {}

Places == {"dest", "staging", "removing"} \cup BackupNames
Ops == {"install", "upgrade", "uninstall"}

Record == [target : Targets, version : Versions,
           backup : BackupNames \cup {None}]
Directory == [record : Record \cup {None}, whole : BOOLEAN,
              files : SUBSET Contents]
Transaction == [phase : {"staged", "removing"}, backup : BackupNames \cup {None}]

ASSUME OriginsAreDirectories == Origins \subseteq [Places -> Directory \cup {None}]

\* What earlier commands left: each piece of content is in one place, and the
\* records of the package lead to a directory of the user's in a backup place.
ASSUME OriginsAreInstallations ==
    \A o \in Origins :
        /\ \A x, y \in Places :
              (x # y /\ o[x] # None /\ o[y] # None) => o[x].files \cap o[y].files = {}
        /\ \A b \in BackupNames :
              (o[b] # None /\ o[b].record = None /\ o[b].files # {}) =>
                 /\ o["dest"] # None /\ o["dest"].record # None
                 /\ \E T \in SUBSET (BackupNames \ {b}) :
                       /\ o["dest"].record.backup \in T \cup {b}
                       /\ \A x \in T : /\ o[x] # None /\ o[x].record # None
                                       /\ o[x].record.backup \in T \cup {b}

VARIABLES
    disk,    \* place -> directory or None
    txn,     \* the transaction record beside the package
    lock,    \* the process that holds the parent lock
    cmd,     \* process -> the command it runs
    settled, \* history: user files on disk at a time nobody held the lock
    moved,   \* history: user files their owner moved out of the parent
    kept,    \* history: user files of originals that were displaced
    excused, \* history: an original was left in its backup, and the user told
    left     \* what is left of the budget

vars == <<disk, txn, lock, cmd, settled, moved, kept, excused, left>>

Absent(d) == d = None

(***************************************************************************)
(* inspect and validate_owned: Memoria deletes only what it owns.          *)
(***************************************************************************)
Managed(d) == d # None /\ d.record # None

Unmanaged(d) == d # None /\ d.record = None

\* A mutant: the contents of the directory are not looked at.
OwnedByRecord(d) == Managed(d) /\ d.whole

Owned(d) == Managed(d) /\ d.whole /\ d.files = {}

FilesIn(dsk) == UNION {dsk[x].files : x \in {y \in Places : dsk[y] # None}}

(***************************************************************************)
(* classify: the state of the destination, seen by a request.              *)
(***************************************************************************)
StateFor(target, version) ==
    LET d == disk["dest"]
    IN  CASE Absent(d)                                  -> "absent"
          [] Unmanaged(d)                               -> "unmanaged"
          [] Managed(d) /\ ~Owned(d)                    -> "modified"
          [] Owned(d) /\ d.record.target # target       -> "conflict"
          [] Owned(d) /\ d.record.target = target
                      /\ d.record.version = version     -> "current"
          [] OTHER                                      -> "outdated"

(***************************************************************************)
(* backup_chain: the obsolete packages that the records lead through, and  *)
(* the original directory of the user if one is at their end.  The code    *)
(* reports a conflict where the records lead back, or to a package that is *)
(* not its own: `ok` is FALSE.                                             *)
(***************************************************************************)
Chain(target) ==
    LET first == IF Managed(disk["dest"]) THEN disk["dest"].record.backup ELSE None
        ahead(S)  == ({first} \cup {disk[b].record.backup : b \in S}) \ {None}
        packages  == {b \in BackupNames : /\ Owned(disk[b])
                                          /\ disk[b].record.target = target}
        obsolete  == {b \in packages :
                         \A S \in SUBSET packages :
                             ahead(S) \cap packages \subseteq S => b \in S}
        ends      == ahead(obsolete) \ obsolete
        originals == {b \in ends : Unmanaged(disk[b])}
    IN  [ok       |-> \/ first = None
                      \/ \E b \in obsolete : disk[b].record.backup = None
                      \/ \E b \in ends : ~Managed(disk[b]),
         obsolete |-> obsolete,
         original |-> IF originals = {} THEN None
                                        ELSE CHOOSE b \in originals : TRUE]

(***************************************************************************)
(* recovery_state: without a transaction no temporary directory may be     *)
(* there, and with one, only directories Memoria owns.                     *)
(***************************************************************************)
Strays == {x \in {"staging", "removing"} : disk[x] # None}

Recoverable ==
    \A x \in Strays : txn # None /\ Owned(disk[x])

\* next_backup: the first name that is not taken.
FreeNumbers == {i \in DOMAIN Backups : disk[Backups[i]] = None}
NextBackup ==
    Backups[CHOOSE i \in FreeNumbers : \A j \in FreeNumbers : i <= j]

(***************************************************************************)
(* plan_install, plan_upgrade and plan_uninstall: whether the request goes *)
(* ahead, needs no change, or is refused.  `recovery` is whether a         *)
(* transaction awaits recovery.                                            *)
(***************************************************************************)
Verdict(req, recovery) ==
    LET state == StateFor(req.target, req.version)
        chain == Chain(req.target)
    IN  CASE req.op = "install" ->
               (CASE state = "absent"                     -> "apply"
                  [] state = "unmanaged" /\ req.replace   -> "apply"
                  [] state = "current" /\ recovery        -> "apply"
                  [] state = "current" /\ ~recovery       -> "nochange"
                  [] OTHER                                -> "refuse")
          [] req.op = "upgrade" ->
               (CASE state = "current" /\ ~recovery       -> "nochange"
                  [] state \in {"current", "outdated"} /\ chain.ok -> "apply"
                  [] OTHER                                -> "refuse")
          [] req.op = "uninstall" ->
               (CASE state = "absent" /\ recovery         -> "apply"
                  [] state = "absent" /\ ~recovery        -> "nochange"
                  [] state \in {"current", "outdated"} /\ chain.ok -> "apply"
                  [] OTHER                                -> "refuse")

\* A mutant: the plan holds the whole record instead of its version.
DescriptionWithRecord(req) ==
    LET d == disk["dest"]
    IN  [state   |-> StateFor(req.target, req.version),
         version |-> IF Managed(d) THEN d.record ELSE None,
         files   |-> IF Absent(d) THEN {} ELSE d.files]

\* What a plan says of the destination.
Description(req) ==
    LET d == disk["dest"]
    IN  [state   |-> StateFor(req.target, req.version),
         version |-> IF Managed(d) THEN d.record.version ELSE None,
         files   |-> IF Absent(d) THEN {} ELSE d.files]

\* A mutant: the plan's unknown content is not compared.
AgreesOnState(plan, fresh) == plan.state = fresh.state

\* agrees_with_plan.
Agrees(plan, fresh) == plan = fresh

\* Only an installation may ask to replace what is there.
Requests ==
    {r \in [op : Ops, target : Targets, version : Executables,
             replace : BOOLEAN] :
        r.replace => r.op = "install"}
Plans == [state : {"absent", "unmanaged", "modified", "conflict", "current",
                   "outdated"},
          version : Versions \cup {None}, files : SUBSET Contents]
Steps == {"idle", "planned", "recover", "redo", "redoPlace", "redoRestore",
          "redoClear", "decide", "stage", "fill", "mark", "swap", "place",
          "restore", "unstage", "untxn", "settle", "prune", "markRemoval",
          "displace", "erase", "reinstate", "sweep", "clear", "done"}

Command == [pc : Steps, req : Requests \cup {None}, plan : Plans \cup {None},
            recovery : BOOLEAN, backup : BackupNames \cup {None},
            original : BackupNames \cup {None}, obsolete : SUBSET BackupNames]

ASSUME NoneIsNothing ==
    /\ None \notin Procs \cup BackupNames
    /\ None \notin Record /\ None \notin Directory /\ None \notin Transaction
    /\ None \notin Requests /\ None \notin Plans

Idle == [pc |-> "idle", req |-> None, plan |-> None, recovery |-> FALSE,
         backup |-> None, original |-> None, obsolete |-> {}]

TypeOK ==
    /\ disk \in [Places -> Directory \cup {None}]
    /\ txn \in Transaction \cup {None}
    /\ lock \in Procs \cup {None}
    /\ cmd \in [Procs -> Command]
    /\ settled \in SUBSET Contents
    /\ moved \in SUBSET Contents
    /\ kept \in SUBSET Contents
    /\ excused \in BOOLEAN
    /\ left \in [{"write", "mishap"} -> Nat]

-----------------------------------------------------------------------------
(***************************************************************************)
(* What every step under the lock is made of.                              *)
(***************************************************************************)
At(p, step) == cmd[p].pc = step

Go(p, step) ==
    /\ cmd' = [cmd EXCEPT ![p].pc = step]
    /\ UNCHANGED <<lock, settled>>

\* The command returns and its guard is dropped.
End(p) ==
    /\ cmd' = [cmd EXCEPT ![p] = Idle]
    /\ lock' = None
    /\ settled' = settled \cup FilesIn(disk')

Fine == UNCHANGED left

Fault ==
    /\ left["mishap"] > 0
    /\ left' = [left EXCEPT !["mishap"] = @ - 1]

Rename(from, to) ==
    /\ disk[from] # None
    /\ disk[to] = None
    /\ disk' = [disk EXCEPT ![to] = disk[from], ![from] = None]

\* The rename did not happen: the step failed, or something is in its way.
NotRenamed(from, to) ==
    /\ UNCHANGED disk
    /\ \/ Fault
       \/ (disk[from] = None \/ disk[to] # None) /\ Fine

\* What remove_dir_all may leave when it stops half way.
Remains(d) ==
    {d} \cup {[record |-> r, whole |-> FALSE, files |-> f] :
                r \in {d.record, None}, f \in SUBSET d.files}

Delete(x) == disk' = [disk EXCEPT ![x] = None]

RemovePart(x) ==
    \E d \in Remains(disk[x]) : disk' = [disk EXCEPT ![x] = d]

\* An unmanaged destination that is displaced is somebody's original.
KeepOriginal ==
    kept' = IF Unmanaged(disk["dest"]) THEN kept \cup disk["dest"].files
                                       ELSE kept

-----------------------------------------------------------------------------
(***************************************************************************)
(* plan: outside the lock.  A refused plan, or one without a change,       *)
(* changes nothing and is no step.                                         *)
(***************************************************************************)
Plan(p, req) ==
    /\ At(p, "idle")
    /\ Recoverable
    /\ Verdict(req, txn # None) = "apply"
    /\ cmd' = [cmd EXCEPT ![p] = [Idle EXCEPT !.pc       = "planned",
                                              !.req      = req,
                                              !.plan     = Description(req),
                                              !.recovery = txn # None]]
    /\ UNCHANGED <<disk, txn, lock, settled, moved, kept, excused, left>>

\* lock_file does not wait: a second installer is refused.
Lock(p) ==
    /\ At(p, "planned")
    /\ \/ lock = None /\ lock' = p /\ cmd' = [cmd EXCEPT ![p].pc = "recover"]
       \/ lock # None /\ cmd' = [cmd EXCEPT ![p] = Idle] /\ UNCHANGED lock
    /\ UNCHANGED <<disk, txn, settled, moved, kept, excused, left>>

(***************************************************************************)
(* recover, one action per step of it.                                     *)
(***************************************************************************)
Recover(p) ==
    /\ At(p, "recover")
    /\ UNCHANGED disk
    /\ \/ ~Recoverable /\ End(p)
       \/ Recoverable /\ txn = None /\ Go(p, "decide")
       \/ Recoverable /\ txn # None /\ Go(p, "redo")
    /\ UNCHANGED <<txn, moved, kept, excused, left>>

\* Finish the swap of an interrupted installation.
RedoStaged(p) ==
    /\ At(p, "redo")
    /\ txn.phase = "staged"
    /\ LET blocked == \/ txn.backup = None
                      \/ txn.backup # None /\ disk[txn.backup] # None
       IN  \/ /\ disk["staging"] = None
              /\ Fine /\ UNCHANGED <<disk, kept>> /\ Go(p, "redoRestore")
           \/ /\ disk["staging"] # None /\ disk["dest"] = None
              /\ Fine /\ UNCHANGED <<disk, kept>> /\ Go(p, "redoPlace")
           \/ /\ disk["staging"] # None /\ disk["dest"] # None /\ blocked
              /\ Fine /\ UNCHANGED <<disk, kept>> /\ End(p)
           \/ /\ disk["staging"] # None /\ disk["dest"] # None /\ ~blocked
              /\ \/ /\ Rename("dest", txn.backup) /\ KeepOriginal
                    /\ \/ Fine /\ Go(p, "redoPlace")
                       \/ Fault /\ End(p)
                 \/ NotRenamed("dest", txn.backup) /\ UNCHANGED kept /\ End(p)
    /\ UNCHANGED <<txn, moved, excused>>

RedoPlace(p) ==
    /\ At(p, "redoPlace")
    /\ \/ /\ Rename("staging", "dest")
          /\ \/ Fine /\ Go(p, "redoClear")
             \/ Fault /\ End(p)
       \/ NotRenamed("staging", "dest") /\ End(p)
    /\ UNCHANGED <<txn, moved, kept, excused>>

\* Finish the deletion of an interrupted removal.
RedoRemoving(p) ==
    /\ At(p, "redo")
    /\ txn.phase = "removing"
    /\ \/ disk["removing"] = None /\ Fine /\ UNCHANGED disk /\ Go(p, "redoRestore")
       \/ disk["removing"] # None /\ Fine /\ Delete("removing") /\ Go(p, "redoRestore")
       \/ disk["removing"] # None /\ Fault /\ RemovePart("removing") /\ End(p)
    /\ UNCHANGED <<txn, moved, kept, excused>>

\* A mutant: the backup is put back only by the command that was interrupted.
RedoWithoutRestore(p) ==
    /\ At(p, "redoRestore")
    /\ Fine /\ UNCHANGED disk /\ Go(p, "redoClear")
    /\ UNCHANGED <<txn, moved, kept, excused>>

\* A mutant: recovery that finds nothing to put back takes it for a conflict.
RedoOrRefuse(p) ==
    /\ At(p, "redoRestore")
    /\ \/ disk["dest"] # None /\ Fine /\ UNCHANGED disk /\ End(p)
       \/ disk["dest"] = None /\ Fine /\ UNCHANGED disk /\ Go(p, "redoClear")
    /\ UNCHANGED <<txn, moved, kept, excused>>

RedoRestore(p) ==
    /\ At(p, "redoRestore")
    /\ LET restore == /\ disk["dest"] = None
                      /\ txn.backup # None
                      /\ disk[txn.backup] # None
       IN  \/ ~restore /\ Fine /\ UNCHANGED disk /\ Go(p, "redoClear")
           \/ /\ restore /\ Rename(txn.backup, "dest")
              /\ \/ Fine /\ Go(p, "redoClear")
                 \/ Fault /\ End(p)
           \/ restore /\ NotRenamed(txn.backup, "dest") /\ End(p)
    /\ UNCHANGED <<txn, moved, kept, excused>>

\* An uninstall that completed a removal has nothing else to do.
RedoClear(p) ==
    /\ At(p, "redoClear")
    /\ UNCHANGED disk
    /\ \/ /\ Fine /\ txn' = None
          /\ IF txn.phase = "removing" /\ cmd[p].req.op = "uninstall"
               THEN Go(p, "done")
               ELSE Go(p, "decide")
       \/ Fault /\ txn' \in {txn, None} /\ End(p)
    /\ UNCHANGED <<disk, moved, kept, excused>>

(***************************************************************************)
(* The fresh plan under the lock, and what the command will do by it.      *)
(***************************************************************************)
Decide(p) ==
    /\ At(p, "decide")
    /\ UNCHANGED disk
    /\ LET c       == cmd[p]
           verdict == IF Recoverable THEN Verdict(c.req, FALSE) ELSE "refuse"
           chain   == Chain(c.req.target)
           agrees  == c.recovery \/ Agrees(c.plan, Description(c.req))
           room    == disk["dest"] = None \/ FreeNumbers # {}
           backup  == IF disk["dest"] = None THEN None ELSE NextBackup
       IN  \/ verdict = "nochange" /\ Go(p, "done")
           \/ verdict = "refuse" /\ End(p)
           \/ verdict = "apply" /\ ~agrees /\ End(p)
           \/ /\ verdict = "apply" /\ agrees /\ c.req.op = "uninstall"
              /\ cmd' = [cmd EXCEPT ![p].pc       = "markRemoval",
                                    ![p].original = chain.original,
                                    ![p].obsolete = chain.obsolete]
              /\ UNCHANGED <<lock, settled>>
           \/ /\ verdict = "apply" /\ agrees /\ c.req.op # "uninstall" /\ room
              /\ cmd' = [cmd EXCEPT ![p].pc       = "stage",
                                    ![p].backup   = backup,
                                    ![p].original = IF c.req.op = "upgrade"
                                                      THEN chain.original
                                                      ELSE backup]
              /\ UNCHANGED <<lock, settled>>
           \/ /\ verdict = "apply" /\ agrees /\ c.req.op # "uninstall" /\ ~room
              /\ End(p)
    /\ UNCHANGED <<txn, moved, kept, excused, left>>

(***************************************************************************)
(* apply_install.                                                          *)
(***************************************************************************)
Stage(p) ==
    /\ At(p, "stage")
    /\ \/ /\ disk["staging"] = None
          /\ disk' = [disk EXCEPT !["staging"] = [record |-> None,
                                                  whole  |-> FALSE,
                                                  files  |-> {}]]
          /\ Fine /\ Go(p, "fill")
       \/ disk["staging"] # None /\ UNCHANGED disk /\ Fine /\ End(p)
       \/ UNCHANGED disk /\ Fault /\ End(p)
    /\ UNCHANGED <<txn, moved, kept, excused>>

\* The managed files, and the record last.
Fill(p) ==
    /\ At(p, "fill")
    /\ LET record == [target  |-> cmd[p].req.target,
                      version |-> cmd[p].req.version,
                      backup  |-> cmd[p].original]
       IN  \/ /\ disk["staging"] # None
              /\ disk' = [disk EXCEPT !["staging"].record = record,
                                      !["staging"].whole  = TRUE]
              /\ Fine /\ Go(p, "mark")
           \/ disk["staging"] = None /\ UNCHANGED disk /\ Fine /\ Go(p, "unstage")
           \/ UNCHANGED disk /\ Fault /\ Go(p, "unstage")
    /\ UNCHANGED <<txn, moved, kept, excused>>

\* Everything is staged: the transaction that recovery will finish.
Mark(p) ==
    /\ At(p, "mark")
    /\ LET new == [phase |-> "staged", backup |-> cmd[p].backup]
       IN  \/ /\ Fine /\ txn' = new
              /\ Go(p, IF cmd[p].backup = None THEN "place" ELSE "swap")
           \/ Fault /\ txn' \in {txn, new} /\ Go(p, "unstage")
    /\ UNCHANGED <<disk, moved, kept, excused>>

Swap(p) ==
    /\ At(p, "swap")
    /\ LET backup == cmd[p].backup
       IN  \/ /\ Rename("dest", backup) /\ KeepOriginal
              /\ \/ Fine /\ Go(p, "place")
                 \/ Fault /\ Go(p, "restore")
           \/ NotRenamed("dest", backup) /\ UNCHANGED kept /\ Go(p, "unstage")
    /\ UNCHANGED <<txn, moved, excused>>

\* A rename whose directory sync failed keeps the transaction.
Place(p) ==
    /\ At(p, "place")
    /\ \/ /\ Rename("staging", "dest")
          /\ \/ Fine /\ Go(p, "settle")
             \/ Fault /\ End(p)
       \/ /\ NotRenamed("staging", "dest")
          /\ Go(p, IF cmd[p].backup = None THEN "unstage" ELSE "restore")
    /\ UNCHANGED <<txn, moved, kept, excused>>

\* An ordinary error puts the displaced package back.
Restore(p) ==
    /\ At(p, "restore")
    /\ LET backup == cmd[p].backup
       IN  \/ Rename(backup, "dest") /\ Fine /\ UNCHANGED excused
           \/ disk["dest"] # None /\ Fine /\ UNCHANGED <<disk, excused>>
           \/ disk["dest"] = None /\ NotRenamed(backup, "dest") /\ excused' = TRUE
    /\ Go(p, "unstage")
    /\ UNCHANGED <<txn, moved, kept>>

Unstage(p) ==
    /\ At(p, "unstage")
    /\ \/ disk["staging"] = None /\ Fine /\ UNCHANGED disk
       \/ disk["staging"] # None /\ Fine /\ Delete("staging")
       \/ disk["staging"] # None /\ Fault /\ RemovePart("staging")
    /\ Go(p, "untxn")
    /\ UNCHANGED <<txn, moved, kept, excused>>

Untxn(p) ==
    /\ At(p, "untxn")
    /\ \/ Fine /\ txn' = None
       \/ Fault /\ UNCHANGED txn
    /\ UNCHANGED disk
    /\ End(p)
    /\ UNCHANGED <<moved, kept, excused>>

\* sync_parent, then remove_txn: either may fail after the package is in place.
Settle(p) ==
    /\ At(p, "settle")
    /\ UNCHANGED disk
    /\ \/ /\ Fine /\ txn' = None
          /\ Go(p, IF cmd[p].req.op = "upgrade" /\ cmd[p].backup # None
                     THEN "prune" ELSE "done")
       \/ Fault /\ txn' \in {txn, None} /\ End(p)
    /\ UNCHANGED <<moved, kept, excused>>

\* The previous managed version is deleted if it is still Memoria's.
Prune(p) ==
    /\ At(p, "prune")
    /\ LET previous == cmd[p].backup
       IN  \/ ~Owned(disk[previous]) /\ Fine /\ UNCHANGED disk
           \/ Owned(disk[previous]) /\ Fine /\ Delete(previous)
           \/ Owned(disk[previous]) /\ Fault /\ RemovePart(previous)
    /\ Go(p, "done")
    /\ UNCHANGED <<txn, moved, kept, excused>>

(***************************************************************************)
(* apply_uninstall.                                                        *)
(***************************************************************************)
MarkRemoval(p) ==
    /\ At(p, "markRemoval")
    /\ UNCHANGED disk
    /\ LET new == [phase |-> "removing", backup |-> cmd[p].original]
       IN  \/ Fine /\ txn' = new /\ Go(p, "displace")
           \/ Fault /\ txn' \in {txn, new} /\ End(p)
    /\ UNCHANGED <<disk, moved, kept, excused>>

Displace(p) ==
    /\ At(p, "displace")
    /\ \/ /\ Rename("dest", "removing")
          /\ \/ Fine /\ Go(p, "erase")
             \/ Fault /\ End(p)
       \/ NotRenamed("dest", "removing") /\ Go(p, "untxn")
    /\ UNCHANGED <<txn, moved, kept, excused>>

Erase(p) ==
    /\ At(p, "erase")
    /\ \/ disk["removing"] # None /\ Fine /\ Delete("removing") /\ Go(p, "reinstate")
       \/ disk["removing"] # None /\ Fault /\ RemovePart("removing") /\ End(p)
       \/ disk["removing"] = None /\ Fine /\ UNCHANGED disk /\ End(p)
    /\ UNCHANGED <<txn, moved, kept, excused>>

\* The original comes back; a failure leaves the transaction to recovery.
Reinstate(p) ==
    /\ At(p, "reinstate")
    /\ LET backup  == cmd[p].original
           restore == /\ backup # None
                      /\ disk[backup] # None
                      /\ disk["dest"] = None
       IN  \/ ~restore /\ Fine /\ UNCHANGED disk /\ Go(p, "sweep")
           \/ /\ restore /\ Rename(backup, "dest")
              /\ \/ Fine /\ Go(p, "sweep")
                 \/ Fault /\ End(p)
           \/ restore /\ NotRenamed(backup, "dest") /\ End(p)
    /\ UNCHANGED <<txn, moved, kept, excused>>

\* The obsolete versions of the chain, one at a time.
Sweep(p) ==
    /\ At(p, "sweep")
    /\ \/ /\ cmd[p].obsolete = {}
          /\ Go(p, "clear") /\ Fine /\ UNCHANGED disk
       \/ \E b \in cmd[p].obsolete :
             /\ cmd' = [cmd EXCEPT ![p].obsolete = @ \ {b}]
             /\ UNCHANGED <<lock, settled>>
             /\ \/ ~Owned(disk[b]) /\ Fine /\ UNCHANGED disk
                \/ Owned(disk[b]) /\ Fine /\ Delete(b)
                \/ Owned(disk[b]) /\ Fault /\ RemovePart(b)
    /\ UNCHANGED <<txn, moved, kept, excused>>

Clear(p) ==
    /\ At(p, "clear")
    /\ UNCHANGED disk
    /\ \/ Fine /\ txn' = None /\ Go(p, "done")
       \/ Fault /\ txn' \in {txn, None} /\ End(p)
    /\ UNCHANGED <<moved, kept, excused>>

\* The command has succeeded and returns.
Return(p) ==
    /\ At(p, "done")
    /\ UNCHANGED disk
    /\ End(p)
    /\ UNCHANGED <<txn, moved, kept, excused, left>>

-----------------------------------------------------------------------------
\* What the process was deleting when it died.
Deleting(p) ==
    CASE At(p, "erase")                              -> {"removing"}
      [] At(p, "redo") /\ txn.phase = "removing"     -> {"removing"}
      [] At(p, "unstage")                            -> {"staging"}
      [] At(p, "prune")                              -> {cmd[p].backup}
      [] At(p, "sweep")                              -> cmd[p].obsolete
      [] OTHER                                       -> {}

\* The process dies; the kernel drops its lock and the disk stays.
Crash(p) ==
    /\ ~At(p, "idle")
    /\ Fault
    /\ \/ UNCHANGED disk
       \/ \E x \in Deleting(p) :
             /\ disk[x] # None
             /\ x \in BackupNames => Owned(disk[x])
             /\ RemovePart(x)
    /\ IF lock = p THEN End(p)
                   ELSE cmd' = [cmd EXCEPT ![p] = Idle] /\ UNCHANGED <<lock, settled>>
    /\ UNCHANGED <<txn, moved, kept, excused>>

\* Somebody saves a file into a directory, or makes the destination.
Write(x, c) ==
    /\ left["write"] > 0
    /\ left' = [left EXCEPT !["write"] = @ - 1]
    /\ c \notin FilesIn(disk) \cup settled \cup moved
    /\ \/ /\ disk[x] # None
          /\ disk' = [disk EXCEPT ![x].files = @ \cup {c}]
          /\ UNCHANGED excused
       \/ /\ disk[x] = None /\ x = "dest"
          /\ disk' = [disk EXCEPT ![x] = [record |-> None, whole |-> FALSE,
                                          files  |-> {c}]]
          /\ excused' = (excused \/ lock # None \/ txn # None)
    /\ settled' = IF lock = None THEN settled \cup {c} ELSE settled
    /\ UNCHANGED <<txn, lock, cmd, moved, kept>>

(***************************************************************************)
(* Between commands somebody heeds a conflict: moves a directory away that *)
(* recovery stops at, or his own files out of a managed package.           *)
(***************************************************************************)
Blocking(x) ==
    \/ x \in Strays /\ (txn = None \/ ~Owned(disk[x]))
    \/ /\ x = "dest" /\ disk[x] # None /\ disk["staging"] # None
       /\ txn # None /\ txn.phase = "staged"
       /\ \/ txn.backup = None
          \/ txn.backup # None /\ disk[txn.backup] # None

Heed(x) ==
    /\ lock = None
    /\ disk[x] # None
    /\ \/ Blocking(x) /\ Delete(x)
       \/ /\ Managed(disk[x]) /\ disk[x].files # {}
          /\ disk' = [disk EXCEPT ![x].files = {}]
    /\ moved' = moved \cup disk[x].files
    /\ excused' = (excused \/ (x = "dest" /\ disk'[x] = None))
    /\ UNCHANGED <<txn, lock, cmd, settled, kept, left>>

-----------------------------------------------------------------------------
Init ==
    /\ disk \in Origins
    /\ txn = None
    /\ lock = None
    /\ cmd = [p \in Procs |-> Idle]
    /\ settled = FilesIn(disk)
    /\ moved = {}
    /\ kept = UNION {disk[b].files : b \in {x \in BackupNames : Unmanaged(disk[x])}}
    /\ excused = FALSE
    /\ left = Budget

Work(p) ==
    \/ Lock(p) \/ Recover(p) \/ RedoStaged(p) \/ RedoPlace(p)
    \/ RedoRemoving(p) \/ RedoRestore(p) \/ RedoClear(p) \/ Decide(p)
    \/ Stage(p) \/ Fill(p) \/ Mark(p) \/ Swap(p) \/ Place(p)
    \/ Restore(p) \/ Unstage(p) \/ Untxn(p) \/ Settle(p) \/ Prune(p)
    \/ MarkRemoval(p) \/ Displace(p) \/ Erase(p) \/ Reinstate(p)
    \/ Sweep(p) \/ Clear(p) \/ Return(p)

Next ==
    \/ \E p \in Procs, req \in Requests : Plan(p, req)
    \/ \E p \in Procs : Work(p) \/ Crash(p)
    \/ \E x \in Places, c \in Contents : Write(x, c)
    \/ \E x \in Places : Heed(x)

Spec == Init /\ [][Next]_vars

(***************************************************************************)
(* Fairness: a command that runs goes on, and people keep asking the       *)
(* installer for something and heed the conflicts they are told of.        *)
(***************************************************************************)
FairSpec ==
    /\ Spec
    /\ \A p \in Procs : WF_vars(Work(p))
    /\ WF_vars(\E p \in Procs, req \in Requests : Plan(p, req))
    /\ SF_vars(\E x \in Places : Heed(x))

-----------------------------------------------------------------------------
(***************************************************************************)
(* Whatever a user had on disk at a time no command held the lock is still *)
(* on disk, or its owner moved it: no rename, deletion, roll-back or       *)
(* recovery, complete or cut short, destroys it.  (skill.rs:598, "every    *)
(* deletion touches only directories that validate_owned accepted")        *)
(***************************************************************************)
SettledContentSurvives == settled \subseteq FilesIn(disk) \cup moved

(***************************************************************************)
(* At rest, the directory a user had before the installation is either at  *)
(* the destination or where the installed package's records lead, so that  *)
(* an uninstall gives it back -- unless the user was told, or put another  *)
(* directory in its way.                                                   *)
(***************************************************************************)
OriginalReachable ==
    (lock = None /\ txn = None /\ ~excused) =>
        \A b \in BackupNames :
            (disk[b] # None /\ disk[b].files \cap kept # {}) =>
                /\ Managed(disk["dest"])
                /\ LET chain == Chain(disk["dest"].record.target)
                   IN  chain.ok => chain.original = b

(***************************************************************************)
(* A package is displaced by a command only with user files its own plan   *)
(* listed: what was settled when the command took the lock and was not in  *)
(* the plan stops it.                                                      *)
(***************************************************************************)
DisplacesOnlyWhatWasPlanned ==
    \A p \in Procs :
        cmd[p].pc \in {"stage", "fill", "mark", "swap", "markRemoval", "displace"} =>
            \/ cmd[p].recovery
            \/ disk["dest"] = None
            \/ disk["dest"].files \cap settled \subseteq cmd[p].plan.files

(***************************************************************************)
(* An interrupted transaction is resolved in the end.                      *)
(***************************************************************************)
RecoveryCompletes == (txn # None /\ lock = None) ~> (txn = None)

(***************************************************************************)
(* "The interrupted removal is now complete; nothing else to remove"       *)
(* (skill.rs:1287): an uninstall that succeeds leaves no package.          *)
(***************************************************************************)
UninstallRemoves ==
    \A p \in Procs :
        (At(p, "done") /\ cmd[p].req.op = "uninstall") => ~Managed(disk["dest"])
=============================================================================
