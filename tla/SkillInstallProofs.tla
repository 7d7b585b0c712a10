-------------------------- MODULE SkillInstallProofs --------------------------
(***************************************************************************)
(* Theorems about the skill package installer, for any number of           *)
(* processes, backup names, versions and pieces of user content, and for   *)
(* every bound on writes, failed steps and crashes.                        *)
(***************************************************************************)
EXTENDS SkillInstall, WellFoundedInduction, TLAPS

(***************************************************************************)
(* The inductive invariant, in parts.                                      *)
(***************************************************************************)
\* Exactly the holder of the parent lock is past its wait for it.
Inside(c) == c.pc \notin {"idle", "planned"}

LockHeld == \A p \in Procs : Inside(cmd[p]) <=> lock = p

\* What a command has in its hands at each step.
Equipped(c) ==
    /\ c.pc # "idle" => c.req \in Requests /\ c.plan \in Plans
    /\ c.pc \in {"redo", "redoPlace", "redoRestore", "redoClear"} => txn \in Transaction
    /\ c.pc \in {"swap", "restore", "prune"} => c.backup \in BackupNames

\* A directory without any content that was there before the lock was taken.
Disposable(x) == disk[x] # None => disk[x].files \cap settled = {}

\* What a command is about to delete, or to move where it will delete it.
Doomed(c) ==
    {x \in Places :
        \/ x = "dest" /\ c.pc \in {"markRemoval", "displace"}
        \/ /\ x = "staging"
           /\ c.pc \in {"fill", "mark", "swap", "place", "restore", "unstage"}
        \/ /\ x = "removing"
           /\ c.pc = "erase" \/ (c.pc = "redo" /\ txn.phase = "removing")}

\* What a command was asked to displace is all there is to displace.
AsPlanned(c) ==
    c.pc \in {"stage", "fill", "mark", "swap", "markRemoval", "displace"} =>
        \/ c.recovery
        \/ disk["dest"] = None
        \/ disk["dest"].files \cap settled \subseteq c.plan.files

CommandOK(c) ==
    /\ Equipped(c)
    /\ \A x \in Doomed(c) : Disposable(x)
    /\ AsPlanned(c)

IInv ==
    /\ TypeOK
    /\ LockHeld
    /\ \A p \in Procs : CommandOK(cmd[p])
    /\ SettledContentSurvives

-----------------------------------------------------------------------------
(* Lemmas about the operators of the installer.                            *)

LEMMA PlacesApart ==
    /\ {"dest", "staging", "removing"} \subseteq Places /\ BackupNames \subseteq Places
    /\ \A b \in BackupNames : b \notin {"dest", "staging", "removing", None}
BY BackupsAreNumbered, NoneIsNothing DEF Places

LEMMA DirectoryTypes ==
    ASSUME TypeOK, NEW x \in Places, disk[x] # None
    PROVE  /\ disk[x] \in Directory
           /\ disk[x].files \subseteq Contents
           /\ disk[x].whole \in BOOLEAN
           /\ disk[x].record \in Record \cup {None}
           /\ disk[x].record # None =>
                 /\ disk[x].record \in Record
                 /\ disk[x].record.backup \in BackupNames \cup {None}
                 /\ disk[x].record.version \in Versions
BY DEF TypeOK, Directory, Record

LEMMA InFiles ==
    ASSUME NEW dsk, NEW c
    PROVE  c \in FilesIn(dsk) <=>
              \E x \in Places : dsk[x] # None /\ c \in dsk[x].files
BY DEF FilesIn

LEMMA OwnedIsDisposable ==
    ASSUME NEW x, Owned(disk[x])
    PROVE  Disposable(x) /\ Managed(disk[x])
BY DEF Owned, Disposable

(* A rename carries every file along.                                      *)
LEMMA RenameKeepsFiles ==
    ASSUME TypeOK, NEW from \in Places, NEW to \in Places, Rename(from, to)
    PROVE  /\ FilesIn(disk') = FilesIn(disk)
           /\ disk' \in [Places -> Directory \cup {None}]
           /\ \A x \in Places \ {from, to} : disk'[x] = disk[x]
           /\ disk'[from] = None /\ disk'[to] = disk[from]
<1>1. /\ disk' \in [Places -> Directory \cup {None}] /\ from # to
      /\ \A x \in Places \ {from, to} : disk'[x] = disk[x]
      /\ disk'[from] = None /\ disk'[to] = disk[from]
  BY DEF TypeOK, Rename
<1>2. ASSUME NEW c \in FilesIn(disk) PROVE c \in FilesIn(disk')
  <2>1. PICK x \in Places : disk[x] # None /\ c \in disk[x].files
    BY InFiles
  <2>2. \E y \in Places : disk'[y] # None /\ c \in disk'[y].files
    BY <1>1, <2>1 DEF Rename
  <2>3. QED
    BY <2>2, InFiles
<1>3. ASSUME NEW c \in FilesIn(disk') PROVE c \in FilesIn(disk)
  <2>1. PICK x \in Places : disk'[x] # None /\ c \in disk'[x].files
    BY InFiles
  <2>2. \E y \in Places : disk[y] # None /\ c \in disk[y].files
    BY <1>1, <2>1 DEF Rename
  <2>3. QED
    BY <2>2, InFiles
<1>4. QED
  BY <1>1, <1>2, <1>3

\* A change of one directory only.
OnlyAt(x) ==
    /\ disk' \in [Places -> Directory \cup {None}]
    /\ \A y \in Places \ {x} : disk'[y] = disk[y]

LEMMA DeletionIsLocal ==
    ASSUME TypeOK, NEW x \in Places, disk[x] # None, Delete(x) \/ RemovePart(x)
    PROVE  OnlyAt(x)
<1>1. CASE Delete(x)
  BY <1>1 DEF TypeOK, Delete, OnlyAt
<1>2. CASE RemovePart(x)
  <2>1. PICK d \in Remains(disk[x]) : disk' = [disk EXCEPT ![x] = d]
    BY <1>2 DEF RemovePart
  <2>2. d \in Directory
    <3>1. CASE d = disk[x]
      BY <3>1, DirectoryTypes
    <3>2. ASSUME NEW r \in {disk[x].record, None}, NEW f \in SUBSET disk[x].files,
                 d = [record |-> r, whole |-> FALSE, files |-> f]
          PROVE  d \in Directory
      BY <3>2, DirectoryTypes DEF Directory
    <3>3. QED
      BY <2>1, <3>1, <3>2 DEF Remains
  <2>3. QED
    BY <2>1, <2>2 DEF TypeOK, OnlyAt
<1>3. QED
  BY <1>1, <1>2

LEMMA ChangeKeepsSettled ==
    ASSUME NEW x \in Places, OnlyAt(x), Disposable(x)
    PROVE  FilesIn(disk) \cap settled \subseteq FilesIn(disk')
<1> SUFFICES ASSUME NEW c \in FilesIn(disk), c \in settled PROVE c \in FilesIn(disk')
  OBVIOUS
<1>1. PICK y \in Places : disk[y] # None /\ c \in disk[y].files
  BY InFiles
<1>2. y # x
  BY <1>1 DEF Disposable
<1>3. disk'[y] = disk[y]
  BY <1>2 DEF OnlyAt
<1>4. QED
  BY <1>1, <1>3, InFiles

LEMMA FirstFreeName == FreeNumbers # {} => NextBackup \in BackupNames
<1> SUFFICES ASSUME FreeNumbers # {} PROVE NextBackup \in BackupNames
  OBVIOUS
<1>1. FreeNumbers \subseteq Nat /\ FreeNumbers \subseteq DOMAIN Backups
  BY BackupsAreNumbered DEF FreeNumbers
<1>2. PICK i \in FreeNumbers : \A j \in FreeNumbers : ~(<<j, i>> \in OpToRel(<, Nat))
  BY <1>1, WFMin, NatLessThanWellFounded
<1>3. \A j \in FreeNumbers : i <= j
  <2>1. OpToRel(<, Nat) = {ss \in Nat \X Nat : ss[1] < ss[2]}
    BY DEF OpToRel
  <2>2. ASSUME NEW j \in FreeNumbers, j < i PROVE FALSE
    <3>1. <<j, i>> \in {ss \in Nat \X Nat : ss[1] < ss[2]}
      BY <1>1, <2>2
    <3>2. QED
      BY <1>2, <2>1, <3>1, Zenon
  <2>3. QED
    BY <1>1, <2>2
<1>4. (CHOOSE k \in FreeNumbers : \A j \in FreeNumbers : k <= j) \in FreeNumbers
  BY <1>3
<1>5. QED
  BY <1>1, <1>4 DEF NextBackup, BackupNames

LEMMA ChainTypes ==
    ASSUME TypeOK, NEW target
    PROVE  /\ Chain(target).original \in BackupNames \cup {None}
           /\ Chain(target).obsolete \subseteq BackupNames
<1> DEFINE first == IF Managed(disk["dest"]) THEN disk["dest"].record.backup ELSE None
           ahead(S) == ({first} \cup {disk[b].record.backup : b \in S}) \ {None}
           packages == {b \in BackupNames : Owned(disk[b]) /\ disk[b].record.target = target}
           obsolete == {b \in packages :
                           \A S \in SUBSET packages :
                               ahead(S) \cap packages \subseteq S => b \in S}
           ends == ahead(obsolete) \ obsolete
           originals == {b \in ends : Unmanaged(disk[b])}
<1>1. /\ Chain(target).obsolete = obsolete
      /\ Chain(target).original = IF originals = {} THEN None
                                  ELSE CHOOSE b \in originals : TRUE
  BY DEF Chain
<1>2. obsolete \subseteq BackupNames
  OBVIOUS
<1>3. first \in BackupNames \cup {None}
  BY PlacesApart, DirectoryTypes DEF Managed
<1>4. \A b \in obsolete : disk[b].record.backup \in BackupNames \cup {None}
  BY PlacesApart, DirectoryTypes DEF Managed, Owned
<1>5. originals \subseteq BackupNames
  BY <1>3, <1>4
<1>6. originals # {} => (CHOOSE b \in originals : TRUE) \in originals
  OBVIOUS
<1> HIDE DEF originals, obsolete
<1>7. QED
  BY <1>1, <1>2, <1>5, <1>6

-----------------------------------------------------------------------------
(* What the steps of a command do to `cmd`, to the lock and to what is     *)
(* settled.                                                                *)

LEMMA GoFacts ==
    ASSUME cmd \in [Procs -> Command], NEW p \in Procs, NEW step \in Steps, Go(p, step)
    PROVE  /\ cmd' \in [Procs -> Command]
           /\ \A q \in Procs \ {p} : cmd'[q] = cmd[q]
           /\ cmd'[p].pc = step
           /\ cmd'[p].req = cmd[p].req /\ cmd'[p].plan = cmd[p].plan
           /\ cmd'[p].recovery = cmd[p].recovery /\ cmd'[p].backup = cmd[p].backup
           /\ cmd'[p].original = cmd[p].original /\ cmd'[p].obsolete = cmd[p].obsolete
           /\ lock' = lock /\ settled' = settled
BY DEF Go, Command

LEMMA IdleType == Idle \in Command /\ Idle.pc = "idle"
BY DEF Idle, Command, Steps

LEMMA EndFacts ==
    ASSUME cmd \in [Procs -> Command], NEW p \in Procs, End(p)
    PROVE  /\ cmd' \in [Procs -> Command]
           /\ \A q \in Procs \ {p} : cmd'[q] = cmd[q]
           /\ cmd'[p] = Idle /\ cmd'[p].pc = "idle"
           /\ lock' = None /\ settled' = settled \cup FilesIn(disk')
BY IdleType DEF End

(* A step inside the lock goes on or ends the command, and of other        *)
(* commands it changes nothing.                                            *)
Continues(p) ==
    /\ cmd'[p] \in Command /\ Inside(cmd'[p])
    /\ cmd'[p].req = cmd[p].req /\ cmd'[p].plan = cmd[p].plan
    /\ cmd'[p].recovery = cmd[p].recovery
    /\ lock' = lock /\ settled' = settled

Ends(p) ==
    /\ cmd'[p] = Idle
    /\ lock' = None /\ settled' = settled \cup FilesIn(disk')

InsideStep(p) ==
    /\ Inside(cmd[p])
    /\ cmd' \in [Procs -> Command]
    /\ \A q \in Procs \ {p} : cmd'[q] = cmd[q]
    /\ Continues(p) \/ Ends(p)

LEMMA GoingContinues ==
    ASSUME cmd \in [Procs -> Command], NEW p \in Procs, Inside(cmd[p]),
           NEW step \in Steps \ {"idle", "planned"}, Go(p, step)
    PROVE  InsideStep(p)
BY GoFacts DEF InsideStep, Continues, Inside

LEMMA EndingEnds ==
    ASSUME cmd \in [Procs -> Command], NEW p \in Procs, Inside(cmd[p]), End(p)
    PROVE  InsideStep(p)
BY EndFacts DEF InsideStep, Ends

(* What Decide and Sweep write into their command.                         *)
LEMMA CommandFields ==
    ASSUME NEW c \in Command, NEW step \in Steps, NEW b \in BackupNames \cup {None},
           NEW o \in BackupNames \cup {None}, NEW S \in SUBSET BackupNames
    PROVE  /\ [c EXCEPT !.pc = step, !.original = o, !.obsolete = S] \in Command
           /\ [c EXCEPT !.pc = step, !.backup = b, !.original = o] \in Command
           /\ [c EXCEPT !.obsolete = S] \in Command
BY DEF Command

LEMMA Written ==
    ASSUME cmd \in [Procs -> Command], NEW p \in Procs, NEW c \in Command,
           cmd' = [cmd EXCEPT ![p] = c]
    PROVE  /\ cmd' \in [Procs -> Command]
           /\ \A q \in Procs \ {p} : cmd'[q] = cmd[q]
           /\ cmd'[p] = c
OBVIOUS

LEMMA DecideMoves ==
    ASSUME TypeOK, NEW p \in Procs, Decide(p)
    PROVE  /\ InsideStep(p)
           /\ \/ cmd'[p].pc = "idle" \/ cmd'[p].pc = "done"
              \/ /\ cmd'[p].pc = "markRemoval" /\ cmd[p].req.op = "uninstall"
                 /\ Verdict(cmd[p].req, FALSE) = "apply"
                 /\ cmd[p].recovery \/ cmd[p].plan = Description(cmd[p].req)
              \/ /\ cmd'[p].pc = "stage"
                 /\ cmd[p].recovery \/ cmd[p].plan = Description(cmd[p].req)
<1> DEFINE c == cmd[p]
           chain == Chain(c.req.target)
           room == disk["dest"] = None \/ FreeNumbers # {}
           backup == IF disk["dest"] = None THEN None ELSE NextBackup
           agrees == c.recovery \/ Agrees(c.plan, Description(c.req))
           verdict == IF Recoverable THEN Verdict(c.req, FALSE) ELSE "refuse"
<1>0. cmd \in [Procs -> Command] /\ c \in Command /\ c.pc = "decide"
  BY DEF TypeOK, Decide, At
<1>1. chain.original \in BackupNames \cup {None} /\ chain.obsolete \in SUBSET BackupNames
  BY ChainTypes
<1>2. room => backup \in BackupNames \cup {None}
  BY FirstFreeName
<1>3. \/ verdict = "nochange" /\ Go(p, "done")
      \/ End(p)
      \/ /\ verdict = "apply" /\ agrees /\ c.req.op = "uninstall"
         /\ cmd' = [cmd EXCEPT ![p].pc = "markRemoval", ![p].original = chain.original,
                               ![p].obsolete = chain.obsolete]
         /\ UNCHANGED <<lock, settled>>
      \/ /\ verdict = "apply" /\ agrees /\ room
         /\ cmd' = [cmd EXCEPT ![p].pc = "stage", ![p].backup = backup,
                               ![p].original = IF c.req.op = "upgrade" THEN chain.original
                                                                     ELSE backup]
         /\ UNCHANGED <<lock, settled>>
  BY DEF Decide
<1> HIDE DEF chain, room, backup, agrees, verdict
<1>4. CASE verdict = "nochange" /\ Go(p, "done")
  BY <1>0, <1>4, GoFacts, GoingContinues DEF Steps, Inside
<1>5. CASE End(p)
  BY <1>0, <1>5, EndFacts, EndingEnds DEF Inside
<1>6. agrees => c.recovery \/ c.plan = Description(c.req)
  BY DEF agrees, Agrees
<1>7. verdict = "apply" => Verdict(c.req, FALSE) = "apply"
  BY DEF verdict
<1>8. CASE /\ verdict = "apply" /\ agrees /\ c.req.op = "uninstall"
           /\ cmd' = [cmd EXCEPT ![p].pc = "markRemoval", ![p].original = chain.original,
                                 ![p].obsolete = chain.obsolete]
           /\ UNCHANGED <<lock, settled>>
  <2>1. /\ cmd' \in [Procs -> Command]
        /\ \A q \in Procs \ {p} : cmd'[q] = cmd[q]
        /\ cmd'[p] = [c EXCEPT !.pc = "markRemoval", !.original = chain.original,
                               !.obsolete = chain.obsolete]
    <3>1. [c EXCEPT !.pc = "markRemoval", !.original = chain.original,
                    !.obsolete = chain.obsolete] \in Command
      BY <1>0, <1>1, CommandFields DEF Steps
    <3>2. cmd' = [cmd EXCEPT ![p] = [c EXCEPT !.pc = "markRemoval",
                     !.original = chain.original, !.obsolete = chain.obsolete]]
      BY <1>0, <1>8
    <3>3. QED
      BY <1>0, <3>1, <3>2, Written
  <2>2. cmd'[p].pc = "markRemoval" /\ cmd'[p].req = c.req /\ cmd'[p].plan = c.plan
        /\ cmd'[p].recovery = c.recovery
    BY <1>0, <2>1 DEF Command
  <2>3. QED
    BY <1>0, <1>6, <1>7, <1>8, <2>1, <2>2 DEF InsideStep, Continues, Inside
<1>9. CASE /\ verdict = "apply" /\ agrees /\ room
           /\ cmd' = [cmd EXCEPT ![p].pc = "stage", ![p].backup = backup,
                                 ![p].original = IF c.req.op = "upgrade" THEN chain.original
                                                                       ELSE backup]
           /\ UNCHANGED <<lock, settled>>
  <2> DEFINE original == IF c.req.op = "upgrade" THEN chain.original ELSE backup
  <2>0. original \in BackupNames \cup {None} /\ backup \in BackupNames \cup {None}
    BY <1>1, <1>2, <1>9
  <2> HIDE DEF original
  <2>1. /\ cmd' \in [Procs -> Command]
        /\ \A q \in Procs \ {p} : cmd'[q] = cmd[q]
        /\ cmd'[p] = [c EXCEPT !.pc = "stage", !.backup = backup, !.original = original]
    <3>1. [c EXCEPT !.pc = "stage", !.backup = backup, !.original = original] \in Command
      BY <1>0, <2>0, CommandFields DEF Steps
    <3>2. cmd' = [cmd EXCEPT ![p] = [c EXCEPT !.pc = "stage", !.backup = backup,
                                             !.original = original]]
      BY <1>0, <1>9 DEF original
    <3>3. QED
      BY <1>0, <3>1, <3>2, Written
  <2>2. cmd'[p].pc = "stage" /\ cmd'[p].req = c.req /\ cmd'[p].plan = c.plan
        /\ cmd'[p].recovery = c.recovery
    BY <1>0, <2>1 DEF Command
  <2>3. QED
    BY <1>0, <1>6, <1>9, <2>1, <2>2 DEF InsideStep, Continues, Inside
<1>10. QED
  BY <1>3, <1>4, <1>5, <1>8, <1>9

LEMMA SweepMoves ==
    ASSUME TypeOK, NEW p \in Procs, Sweep(p)
    PROVE  /\ InsideStep(p)
           /\ cmd'[p].pc \in {"sweep", "clear"}
<1>0. cmd \in [Procs -> Command] /\ cmd[p] \in Command /\ cmd[p].pc = "sweep"
  BY DEF TypeOK, Sweep, At
<1>1. CASE Go(p, "clear")
  BY <1>0, <1>1, GoFacts, GoingContinues DEF Steps, Inside
<1>2. ASSUME NEW b \in cmd[p].obsolete, cmd' = [cmd EXCEPT ![p].obsolete = @ \ {b}],
             UNCHANGED <<lock, settled>>
      PROVE  InsideStep(p) /\ cmd'[p].pc \in {"sweep", "clear"}
  <2> DEFINE c == [cmd[p] EXCEPT !.obsolete = cmd[p].obsolete \ {b}]
  <2>1. cmd[p].obsolete \ {b} \in SUBSET BackupNames
    BY <1>0 DEF Command
  <2>2. c \in Command
    BY <1>0, <2>1 DEF Command
  <2>3. cmd' = [cmd EXCEPT ![p] = c]
    BY <1>0, <1>2
  <2>4. /\ cmd' \in [Procs -> Command]
        /\ \A q \in Procs \ {p} : cmd'[q] = cmd[q]
        /\ cmd'[p] = c
    BY <1>0, <2>2, <2>3, Written
  <2>5. c.pc = "sweep" /\ c.req = cmd[p].req /\ c.plan = cmd[p].plan
        /\ c.recovery = cmd[p].recovery
    BY <1>0 DEF Command
  <2>6. QED
    BY <1>0, <1>2, <2>2, <2>4, <2>5 DEF InsideStep, Continues, Inside
<1>3. QED
  BY <1>1, <1>2 DEF Sweep

\* The steps of a command under the lock.
UnderLock(p) == Work(p) /\ ~Lock(p)

LEMMA WorkMoves ==
    ASSUME TypeOK, NEW p \in Procs, UnderLock(p)
    PROVE  InsideStep(p)
<1>0. cmd \in [Procs -> Command]
  BY DEF TypeOK
<1>1. ASSUME Inside(cmd[p]),
             End(p) \/ \E step \in Steps \ {"idle", "planned"} : Go(p, step)
      PROVE  InsideStep(p)
  BY <1>0, <1>1, GoingContinues, EndingEnds
<1> USE DEF Inside, At, Steps
<1>2. CASE Recover(p) \/ RedoStaged(p) \/ RedoPlace(p) \/ RedoRemoving(p)
  BY <1>1, <1>2 DEF Recover, RedoStaged, RedoPlace, RedoRemoving
<1>3. CASE RedoRestore(p) \/ RedoClear(p)
  BY <1>1, <1>3 DEF RedoRestore, RedoClear
<1>4. CASE Decide(p)
  BY <1>4, DecideMoves
<1>5. CASE Stage(p) \/ Fill(p) \/ Mark(p) \/ Swap(p)
  BY <1>1, <1>5 DEF Stage, Fill, Mark, Swap
<1>6. CASE Place(p) \/ Restore(p) \/ Unstage(p) \/ Untxn(p)
  BY <1>1, <1>6 DEF Place, Restore, Unstage, Untxn
<1>7. CASE Settle(p) \/ Prune(p) \/ MarkRemoval(p) \/ Displace(p)
  BY <1>1, <1>7 DEF Settle, Prune, MarkRemoval, Displace
<1>8. CASE Erase(p) \/ Reinstate(p) \/ Clear(p) \/ Return(p)
  BY <1>1, <1>8 DEF Erase, Reinstate, Clear, Return
<1>9. CASE Sweep(p)
  BY <1>9, SweepMoves
<1>10. QED
  BY <1>2, <1>3, <1>4, <1>5, <1>6, <1>7, <1>8, <1>9 DEF Work, UnderLock

(* Outside the lock a step changes its own command only.                   *)
OutsideStep(p) ==
    /\ cmd' \in [Procs -> Command]
    /\ \A q \in Procs \ {p} : cmd'[q] = cmd[q]
    /\ ~Inside(cmd[p]) /\ ~Inside(cmd'[p])
    /\ cmd'[p].pc # "idle" => cmd'[p].req \in Requests /\ cmd'[p].plan \in Plans
    /\ UNCHANGED <<disk, txn, lock, settled, moved, kept, excused>>

LEMMA DescriptionType ==
    ASSUME TypeOK, NEW req \in Requests
    PROVE  Description(req) \in Plans
<1>1. StateFor(req.target, req.version) \in
         {"absent", "unmanaged", "modified", "conflict", "current", "outdated"}
  BY DEF StateFor
<1>2. (IF Managed(disk["dest"]) THEN disk["dest"].record.version ELSE None)
         \in Versions \cup {None}
  BY DirectoryTypes, PlacesApart DEF Managed
<1>3. (IF Absent(disk["dest"]) THEN {} ELSE disk["dest"].files) \in SUBSET Contents
  BY DirectoryTypes, PlacesApart DEF Absent
<1>4. QED
  BY <1>1, <1>2, <1>3 DEF Description, Plans

LEMMA PlanMoves ==
    ASSUME TypeOK, NEW p \in Procs, NEW req \in Requests, Plan(p, req)
    PROVE  OutsideStep(p)
<1>0. cmd \in [Procs -> Command] /\ cmd[p].pc = "idle"
  BY DEF TypeOK, Plan, At
<1> DEFINE c == [Idle EXCEPT !.pc = "planned", !.req = req,
                             !.plan = Description(req), !.recovery = txn # None]
<1>1. ASSUME NEW plan \in Plans, NEW b \in BOOLEAN
      PROVE  LET d == [Idle EXCEPT !.pc = "planned", !.req = req, !.plan = plan,
                                   !.recovery = b]
             IN  d \in Command /\ d.pc = "planned" /\ d.req = req /\ d.plan = plan
  BY DEF Idle, Command, Steps
<1>2. (txn # None) \in BOOLEAN
  OBVIOUS
<1>4. c \in Command /\ c.pc = "planned" /\ c.req = req /\ c.plan = Description(req)
  BY <1>1, <1>2, DescriptionType
<1>3. cmd' = [cmd EXCEPT ![p] = c]
  BY DEF Plan
<1> HIDE DEF c
<1>5. QED
  BY <1>0, <1>3, <1>4, Written, DescriptionType DEF Plan, OutsideStep, Inside

LEMMA RefusalMoves ==
    ASSUME TypeOK, NEW p \in Procs, ~Inside(cmd[p]), cmd' = [cmd EXCEPT ![p] = Idle],
           UNCHANGED <<disk, txn, lock, settled, moved, kept, excused>>
    PROVE  OutsideStep(p)
BY IdleType, Written DEF TypeOK, OutsideStep, Inside

-----------------------------------------------------------------------------
(* The steps of the system, sorted: a command outside the lock, a command  *)
(* that takes it, a command under it, a process that dies, a user.         *)

Taking(p) ==
    /\ cmd[p].pc = "planned" /\ lock = None /\ lock' = p
    /\ cmd' \in [Procs -> Command]
    /\ \A q \in Procs \ {p} : cmd'[q] = cmd[q]
    /\ cmd'[p].pc = "recover"
    /\ cmd'[p].req = cmd[p].req /\ cmd'[p].plan = cmd[p].plan
    /\ UNCHANGED <<disk, txn, settled, moved, kept, excused>>

LEMMA LockMoves ==
    ASSUME TypeOK, NEW p \in Procs, Lock(p)
    PROVE  Taking(p) \/ OutsideStep(p)
<1>0. cmd \in [Procs -> Command] /\ cmd[p].pc = "planned" /\ cmd[p] \in Command
  BY DEF TypeOK, Lock, At
<1>1. CASE lock = None /\ lock' = p /\ cmd' = [cmd EXCEPT ![p].pc = "recover"]
  <2>1. [cmd[p] EXCEPT !.pc = "recover"] \in Command
    BY <1>0 DEF Command, Steps
  <2>2. cmd' = [cmd EXCEPT ![p] = [cmd[p] EXCEPT !.pc = "recover"]]
    BY <1>0, <1>1
  <2>3. QED
    BY <1>0, <1>1, <2>1, <2>2, Written DEF Lock, Taking, Command
<1>2. CASE lock # None /\ cmd' = [cmd EXCEPT ![p] = Idle] /\ UNCHANGED lock
  BY <1>0, <1>2, RefusalMoves DEF Lock, Inside
<1>3. QED
  BY <1>1, <1>2 DEF Lock

\* The process that dies may leave half a deletion behind.
Dying(p) ==
    /\ InsideStep(p) /\ Ends(p)
    /\ \/ UNCHANGED disk
       \/ \E x \in Deleting(p) :
             /\ disk[x] # None
             /\ x \in BackupNames => Owned(disk[x])
             /\ RemovePart(x)
    /\ UNCHANGED <<txn, moved, kept, excused>>

LEMMA CrashMoves ==
    ASSUME TypeOK, LockHeld, NEW p \in Procs, Crash(p)
    PROVE  Dying(p) \/ OutsideStep(p)
<1>0. cmd \in [Procs -> Command]
  BY DEF TypeOK
<1>1. CASE lock = p
  <2>1. End(p) /\ Inside(cmd[p])
    BY <1>1 DEF Crash, LockHeld
  <2>2. InsideStep(p) /\ Ends(p)
    BY <1>0, <2>1, EndFacts, EndingEnds DEF Ends
  <2>3. QED
    BY <2>2 DEF Crash, Dying
<1>2. CASE lock # p
  <2>1. ~Inside(cmd[p])
    BY <1>2 DEF LockHeld
  <2>2. Deleting(p) = {}
    BY <2>1 DEF Deleting, Inside, At
  <2>3. /\ cmd' = [cmd EXCEPT ![p] = Idle]
        /\ UNCHANGED <<disk, txn, lock, settled, moved, kept, excused>>
    BY <1>2, <2>2 DEF Crash
  <2>4. QED
    BY <2>1, <2>3, RefusalMoves
<1>3. QED
  BY <1>1, <1>2

LEMMA StepCases ==
    ASSUME TypeOK, LockHeld, Next
    PROVE  \/ \E p \in Procs : OutsideStep(p) \/ Taking(p) \/ UnderLock(p) \/ Dying(p)
           \/ \E x \in Places, c \in Contents : Write(x, c)
           \/ \E x \in Places : Heed(x)
<1>1. ASSUME NEW p \in Procs, NEW req \in Requests, Plan(p, req) PROVE OutsideStep(p)
  BY <1>1, PlanMoves
<1>2. ASSUME NEW p \in Procs, Work(p) PROVE OutsideStep(p) \/ Taking(p) \/ UnderLock(p)
  BY <1>2, LockMoves DEF UnderLock
<1>3. ASSUME NEW p \in Procs, Crash(p) PROVE Dying(p) \/ OutsideStep(p)
  BY <1>3, CrashMoves
<1>4. QED
  BY <1>1, <1>2, <1>3 DEF Next

LEMMA LockStep ==
    ASSUME TypeOK, LockHeld, [Next]_vars
    PROVE  LockHeld'
<1>1. ASSUME NEW p \in Procs, OutsideStep(p) \/ Taking(p) PROVE LockHeld'
  BY <1>1, NoneIsNothing DEF OutsideStep, Taking, LockHeld, Inside
<1>2. ASSUME NEW p \in Procs, InsideStep(p) PROVE LockHeld'
  BY <1>2, NoneIsNothing, IdleType DEF InsideStep, Continues, Ends, LockHeld, Inside
<1>3. UNCHANGED <<cmd, lock>> => LockHeld'
  BY DEF LockHeld
<1>4. QED
  BY <1>1, <1>2, <1>3, StepCases, WorkMoves DEF Dying, Write, Heed, vars

-----------------------------------------------------------------------------
(* What the steps under the lock do to the disk: nothing, a rename, or the *)
(* change of one directory that holds nothing settled.                     *)
GentleOnDisk ==
    \/ UNCHANGED disk
    \/ \E from, to \in Places : Rename(from, to)
    \/ \E x \in Places : Disposable(x) /\ OnlyAt(x)

LEMMA GentleKeeps ==
    ASSUME TypeOK, GentleOnDisk
    PROVE  /\ disk' \in [Places -> Directory \cup {None}]
           /\ FilesIn(disk) \cap settled \subseteq FilesIn(disk')
BY RenameKeepsFiles, ChangeKeepsSettled DEF GentleOnDisk, TypeOK, OnlyAt

LEMMA WorkOnDisk ==
    ASSUME TypeOK, NEW p \in Procs, CommandOK(cmd[p]), UnderLock(p)
    PROVE  GentleOnDisk
<1>0. cmd[p] \in Command
  BY DEF TypeOK
<1>1. ASSUME NEW x \in Places, disk[x] # None, x \in Doomed(cmd[p]) \/ Owned(disk[x]),
             Delete(x) \/ RemovePart(x)
      PROVE  GentleOnDisk
  BY <1>1, OwnedIsDisposable, DeletionIsLocal DEF GentleOnDisk, CommandOK
<1> USE PlacesApart DEF At
<1>2. CASE Recover(p) \/ RedoClear(p) \/ Decide(p) \/ Mark(p)
  BY <1>2 DEF Recover, RedoClear, Decide, Mark, GentleOnDisk
<1>3. CASE Untxn(p) \/ Settle(p) \/ MarkRemoval(p) \/ Clear(p) \/ Return(p)
  BY <1>3 DEF Untxn, Settle, MarkRemoval, Clear, Return, GentleOnDisk
<1>4. CASE RedoStaged(p)
  <2>1. txn.backup # None => txn.backup \in Places
    BY <1>4 DEF RedoStaged, CommandOK, Equipped, Transaction
  <2>2. QED
    BY <1>4, <2>1 DEF RedoStaged, NotRenamed, GentleOnDisk
<1>5. CASE RedoPlace(p) \/ Place(p) \/ Displace(p)
  BY <1>5 DEF RedoPlace, Place, Displace, NotRenamed, GentleOnDisk
<1>6. CASE RedoRemoving(p)
  <2>1. "removing" \in Doomed(cmd[p])
    BY <1>6 DEF RedoRemoving, Doomed
  <2>2. QED
    BY <1>1, <1>6, <2>1 DEF RedoRemoving, GentleOnDisk
<1>7. CASE RedoRestore(p)
  <2>1. txn.backup # None => txn.backup \in Places
    BY <1>7 DEF RedoRestore, CommandOK, Equipped, Transaction
  <2>2. QED
    BY <1>7, <2>1 DEF RedoRestore, NotRenamed, GentleOnDisk
<1>8. CASE Stage(p)
  <2>1. [record |-> None, whole |-> FALSE, files |-> {}] \in Directory
    BY DEF Directory
  <2>2. disk["staging"] = None => Disposable("staging")
    BY DEF Disposable
  <2>3. ASSUME disk' = [disk EXCEPT !["staging"] =
                          [record |-> None, whole |-> FALSE, files |-> {}]]
        PROVE  OnlyAt("staging")
    BY <2>1, <2>3 DEF OnlyAt, TypeOK
  <2>4. QED
    BY <1>8, <2>2, <2>3 DEF Stage, GentleOnDisk
<1>9. CASE Fill(p)
  <2>1. "staging" \in Doomed(cmd[p])
    BY <1>9 DEF Fill, Doomed
  <2>2. cmd[p].req \in Requests
    BY <1>9 DEF Fill, CommandOK, Equipped
  <2> DEFINE record == [target  |-> cmd[p].req.target, version |-> cmd[p].req.version,
                        backup  |-> cmd[p].original]
  <2>3. record \in Record
    BY <1>0, <2>2, ExecutablesAreVersions DEF Record, Requests, Command
  <2> HIDE DEF record
  <2>4. ASSUME disk["staging"] # None,
               disk' = [disk EXCEPT !["staging"].record = record, !["staging"].whole = TRUE]
        PROVE  OnlyAt("staging")
    <3>1. disk["staging"] \in Directory
      BY <2>4, DirectoryTypes
    <3>2. [disk["staging"] EXCEPT !.record = record, !.whole = TRUE] \in Directory
      BY <2>3, <3>1 DEF Directory
    <3>3. disk' = [disk EXCEPT !["staging"] =
                     [disk["staging"] EXCEPT !.record = record, !.whole = TRUE]]
      BY <2>4, <3>1 DEF TypeOK, Directory
    <3>4. QED
      BY <3>2, <3>3 DEF OnlyAt, TypeOK
  <2>5. Disposable("staging")
    BY <2>1 DEF CommandOK
  <2>6. QED
    BY <1>9, <2>4, <2>5 DEF Fill, GentleOnDisk, record
<1>10. CASE Swap(p) \/ Restore(p)
  <2>1. cmd[p].backup \in Places
    BY <1>10 DEF Swap, Restore, CommandOK, Equipped
  <2>2. QED
    BY <1>10, <2>1 DEF Swap, Restore, NotRenamed, GentleOnDisk
<1>11. CASE Unstage(p)
  <2>1. "staging" \in Doomed(cmd[p])
    BY <1>11 DEF Unstage, Doomed
  <2>2. QED
    BY <1>1, <1>11, <2>1 DEF Unstage, GentleOnDisk
<1>12. CASE Prune(p)
  <2>1. cmd[p].backup \in Places
    BY <1>12 DEF Prune, CommandOK, Equipped
  <2>2. QED
    BY <1>1, <1>12, <2>1 DEF Prune, GentleOnDisk, Owned, Managed
<1>13. CASE Erase(p)
  <2>1. "removing" \in Doomed(cmd[p])
    BY <1>13 DEF Erase, Doomed
  <2>2. QED
    BY <1>1, <1>13, <2>1 DEF Erase, GentleOnDisk
<1>14. CASE Reinstate(p)
  <2>1. cmd[p].original # None => cmd[p].original \in Places
    BY <1>0 DEF Command
  <2>2. QED
    BY <1>14, <2>1 DEF Reinstate, NotRenamed, GentleOnDisk
<1>15. CASE Sweep(p)
  <2>1. cmd[p].obsolete \subseteq Places
    BY <1>0 DEF Command
  <2>2. QED
    BY <1>1, <1>15, <2>1 DEF Sweep, GentleOnDisk, Owned, Managed
<1>16. QED
  BY <1>2, <1>3, <1>4, <1>5, <1>6, <1>7, <1>8, <1>9, <1>10, <1>11, <1>12, <1>13,
     <1>14, <1>15 DEF Work, UnderLock

LEMMA DyingOnDisk ==
    ASSUME TypeOK, NEW p \in Procs, CommandOK(cmd[p]), Dying(p)
    PROVE  GentleOnDisk
<1>0. cmd[p] \in Command
  BY DEF TypeOK
<1>1. CASE UNCHANGED disk
  BY <1>1 DEF GentleOnDisk
<1>2. ASSUME NEW x \in Deleting(p), disk[x] # None, RemovePart(x),
             x \in BackupNames => Owned(disk[x])
      PROVE  GentleOnDisk
  <2>1. x \in Places /\ (x \in Doomed(cmd[p]) \/ x \in BackupNames)
    <3>1. \/ x = "removing" /\ cmd[p].pc = "erase"
          \/ x = "removing" /\ cmd[p].pc = "redo" /\ txn.phase = "removing"
          \/ x = "staging" /\ cmd[p].pc = "unstage"
          \/ x = cmd[p].backup /\ cmd[p].pc = "prune"
          \/ x \in cmd[p].obsolete
      BY <1>2 DEF Deleting, At
    <3>2. QED
      BY <1>0, <3>1, PlacesApart DEF Doomed, Command, CommandOK, Equipped
  <2>2. Disposable(x)
    BY <1>2, <2>1, OwnedIsDisposable DEF CommandOK
  <2>3. OnlyAt(x)
    BY <1>2, <2>1, DeletionIsLocal
  <2>4. QED
    BY <2>1, <2>2, <2>3 DEF GentleOnDisk
<1>3. QED
  BY <1>1, <1>2 DEF Dying

-----------------------------------------------------------------------------
(* Every step keeps the types.                                             *)

LEMMA FilesAreContents ==
    ASSUME NEW dsk \in [Places -> Directory \cup {None}]
    PROVE  FilesIn(dsk) \subseteq Contents
BY InFiles DEF Directory

LEMMA KeptType ==
    ASSUME TypeOK, KeepOriginal \/ UNCHANGED kept
    PROVE  kept' \subseteq Contents
BY DirectoryTypes, PlacesApart DEF TypeOK, KeepOriginal, Unmanaged

LEMMA WorkOnHistory ==
    ASSUME TypeOK, NEW p \in Procs, CommandOK(cmd[p]), UnderLock(p)
    PROVE  /\ txn' \in Transaction \cup {None}
           /\ kept' \subseteq Contents
           /\ moved' = moved
           /\ excused' \in BOOLEAN
           /\ left' = left \/ Fault
<1>0. cmd[p] \in Command /\ txn \in Transaction \cup {None}
  BY DEF TypeOK
<1>1. \A b \in BackupNames \cup {None} :
         /\ [phase |-> "staged", backup |-> b] \in Transaction
         /\ [phase |-> "removing", backup |-> b] \in Transaction
  BY DEF Transaction
<1>2. cmd[p].backup \in BackupNames \cup {None} /\ cmd[p].original \in BackupNames \cup {None}
  BY <1>0 DEF Command
<1>3. KeepOriginal \/ UNCHANGED kept => kept' \subseteq Contents
  BY KeptType
<1>4. excused \in BOOLEAN
  BY DEF TypeOK
<1> USE <1>0, <1>1, <1>2, <1>3, <1>4 DEF Fine, NotRenamed
<1>5. CASE Recover(p) \/ RedoStaged(p) \/ RedoPlace(p) \/ RedoRemoving(p)
  BY <1>5 DEF Recover, RedoStaged, RedoPlace, RedoRemoving
<1>6. CASE RedoRestore(p) \/ RedoClear(p) \/ Decide(p) \/ Stage(p) \/ Fill(p)
  BY <1>6 DEF RedoRestore, RedoClear, Decide, Stage, Fill
<1>7. CASE Mark(p) \/ Swap(p) \/ Place(p) \/ Restore(p) \/ Unstage(p)
  BY <1>7 DEF Mark, Swap, Place, Restore, Unstage
<1>8. CASE Untxn(p) \/ Settle(p) \/ Prune(p) \/ MarkRemoval(p) \/ Displace(p)
  BY <1>8 DEF Untxn, Settle, Prune, MarkRemoval, Displace
<1>9. CASE Erase(p) \/ Reinstate(p) \/ Sweep(p) \/ Clear(p) \/ Return(p)
  BY <1>9 DEF Erase, Reinstate, Sweep, Clear, Return
<1>10. QED
  BY <1>5, <1>6, <1>7, <1>8, <1>9 DEF Work, UnderLock

LEMMA SpentType ==
    ASSUME TypeOK, Fault \/ UNCHANGED left \/ \E x \in Places, c \in Contents : Write(x, c)
    PROVE  left' \in [{"write", "mishap"} -> Nat]
BY DEF TypeOK, Fault, Write

(* A user's write adds what was never settled to one directory; what it    *)
(* replaces, if anything, was nothing.                                     *)
LEMMA WriteAdds ==
    ASSUME TypeOK, NEW x \in Places, NEW c \in Contents, Write(x, c)
    PROVE  /\ OnlyAt(x)
           /\ c \notin settled
           /\ disk'[x] # None
           /\ disk[x] # None => disk'[x].files = disk[x].files \cup {c}
           /\ disk[x] = None => disk'[x].files = {c}
           /\ settled' = settled \/ (lock = None /\ settled' = settled \cup {c})
<1>1. CASE disk[x] # None /\ disk' = [disk EXCEPT ![x].files = @ \cup {c}]
  <2>1. disk[x] \in Directory
    BY <1>1, DirectoryTypes
  <2>2. [disk[x] EXCEPT !.files = disk[x].files \cup {c}] \in Directory
    BY <2>1 DEF Directory
  <2>3. disk' = [disk EXCEPT ![x] = [disk[x] EXCEPT !.files = disk[x].files \cup {c}]]
    BY <1>1
  <2>4. QED
    BY <1>1, <2>1, <2>2, <2>3, NoneIsNothing DEF TypeOK, OnlyAt, Write, Directory
<1>2. CASE /\ disk[x] = None /\ x = "dest"
           /\ disk' = [disk EXCEPT ![x] = [record |-> None, whole |-> FALSE, files |-> {c}]]
  <2>1. [record |-> None, whole |-> FALSE, files |-> {c}] \in Directory
    BY DEF Directory
  <2>2. QED
    BY <1>2, <2>1, NoneIsNothing DEF TypeOK, OnlyAt, Write
<1>3. QED
  BY <1>1, <1>2 DEF Write

LEMMA WriteKeepsFiles ==
    ASSUME TypeOK, NEW x \in Places, NEW c \in Contents, Write(x, c)
    PROVE  FilesIn(disk) \cup {c} \subseteq FilesIn(disk')
<1>1. ASSUME NEW e \in FilesIn(disk) PROVE e \in FilesIn(disk')
  <2>1. PICK y \in Places : disk[y] # None /\ e \in disk[y].files
    BY InFiles
  <2>2. disk'[y] # None /\ e \in disk'[y].files
    BY <2>1, WriteAdds DEF OnlyAt
  <2>3. QED
    BY <2>2, InFiles
<1>2. c \in FilesIn(disk')
  BY WriteAdds, InFiles
<1>3. QED
  BY <1>1, <1>2

(* Heeding a conflict moves out what it removes.                           *)
LEMMA HeedMoves ==
    ASSUME TypeOK, NEW x \in Places, Heed(x)
    PROVE  /\ OnlyAt(x)
           /\ moved' = moved \cup disk[x].files /\ moved' \subseteq Contents
           /\ FilesIn(disk) \subseteq FilesIn(disk') \cup moved'
<1>1. disk[x] # None /\ disk[x] \in Directory /\ disk[x].files \subseteq Contents
  BY DirectoryTypes DEF Heed
<1>2. OnlyAt(x)
  <2>1. CASE Delete(x)
    BY <1>1, <2>1, DeletionIsLocal
  <2>2. CASE disk' = [disk EXCEPT ![x].files = {}]
    <3>1. [disk[x] EXCEPT !.files = {}] \in Directory
      BY <1>1 DEF Directory
    <3>2. disk' = [disk EXCEPT ![x] = [disk[x] EXCEPT !.files = {}]]
      BY <2>2
    <3>3. QED
      BY <3>1, <3>2 DEF TypeOK, OnlyAt
  <2>3. QED
    BY <2>1, <2>2 DEF Heed
<1>3. moved' = moved \cup disk[x].files
  BY DEF Heed
<1>4. ASSUME NEW c \in FilesIn(disk) PROVE c \in FilesIn(disk') \cup moved'
  <2>1. PICK y \in Places : disk[y] # None /\ c \in disk[y].files
    BY InFiles
  <2>2. CASE y = x
    BY <1>3, <2>1, <2>2
  <2>3. CASE y # x
    BY <1>2, <2>1, <2>3, InFiles DEF OnlyAt
  <2>4. QED
    BY <2>2, <2>3
<1>5. QED
  BY <1>1, <1>2, <1>3, <1>4 DEF TypeOK

LEMMA TypeStep ==
    ASSUME IInv, [Next]_vars
    PROVE  TypeOK'
<1>0. TypeOK /\ LockHeld /\ \A p \in Procs : CommandOK(cmd[p])
  BY DEF IInv
<1>1. ASSUME NEW p \in Procs, OutsideStep(p) \/ Taking(p),
             left' \in [{"write", "mishap"} -> Nat]
      PROVE  TypeOK'
  BY <1>0, <1>1 DEF OutsideStep, Taking, TypeOK
<1>2. ASSUME NEW p \in Procs, InsideStep(p), GentleOnDisk,
             txn' \in Transaction \cup {None}, kept' \subseteq Contents, moved' = moved,
             excused' \in BOOLEAN, left' \in [{"write", "mishap"} -> Nat]
      PROVE  TypeOK'
  <2>1. disk' \in [Places -> Directory \cup {None}]
    BY <1>0, <1>2, GentleKeeps
  <2>2. settled' \subseteq Contents /\ lock' \in Procs \cup {None}
    BY <1>0, <1>2, <2>1, FilesAreContents DEF InsideStep, Continues, Ends, TypeOK
  <2>3. QED
    BY <1>0, <1>2, <2>1, <2>2 DEF InsideStep, TypeOK
<1>3. ASSUME NEW p \in Procs, UnderLock(p) PROVE TypeOK'
  BY <1>0, <1>2, <1>3, WorkMoves, WorkOnDisk, WorkOnHistory, SpentType
<1>4. ASSUME NEW p \in Procs, NEW req \in Requests, Plan(p, req) PROVE TypeOK'
  BY <1>0, <1>1, <1>4, PlanMoves, SpentType DEF Plan
<1>5. ASSUME NEW p \in Procs, Lock(p) PROVE TypeOK'
  BY <1>0, <1>1, <1>5, LockMoves, SpentType DEF Lock
<1>6. ASSUME NEW p \in Procs, Crash(p) PROVE TypeOK'
  <2>1. left' \in [{"write", "mishap"} -> Nat]
    BY <1>0, <1>6, SpentType DEF Crash
  <2>2. CASE Dying(p)
    BY <1>0, <1>2, <2>1, <2>2, DyingOnDisk DEF Dying, TypeOK
  <2>3. QED
    BY <1>0, <1>1, <1>6, <2>1, <2>2, CrashMoves
<1>7. ASSUME NEW x \in Places, NEW c \in Contents, Write(x, c) PROVE TypeOK'
  <2>1. disk' \in [Places -> Directory \cup {None}] /\ settled' \subseteq Contents
    BY <1>0, <1>7, WriteAdds DEF OnlyAt, TypeOK
  <2>2. left' \in [{"write", "mishap"} -> Nat]
    BY <1>0, <1>7, SpentType
  <2>3. excused' \in BOOLEAN
    BY <1>0, <1>7 DEF Write, TypeOK
  <2>4. QED
    BY <1>0, <1>7, <2>1, <2>2, <2>3 DEF Write, TypeOK
<1>8. ASSUME NEW x \in Places, Heed(x) PROVE TypeOK'
  <2>1. disk' \in [Places -> Directory \cup {None}] /\ moved' \subseteq Contents
    BY <1>0, <1>8, HeedMoves DEF OnlyAt
  <2>2. excused' \in BOOLEAN
    BY <1>0, <1>8 DEF Heed, TypeOK
  <2>3. QED
    BY <1>0, <1>8, <2>1, <2>2 DEF Heed, TypeOK
<1>9. CASE UNCHANGED vars
  BY <1>0, <1>9 DEF vars, TypeOK
<1>10. QED
  BY <1>3, <1>4, <1>5, <1>6, <1>7, <1>8, <1>9 DEF Next, UnderLock

-----------------------------------------------------------------------------
(* What a command has in its hands fits its next step.                     *)

(* The fresh plan of an uninstall that goes ahead found nothing but        *)
(* Memoria's own package at the destination.                               *)
LEMMA UninstallIsOfOwn ==
    ASSUME NEW req, req.op = "uninstall", Verdict(req, FALSE) = "apply"
    PROVE  Owned(disk["dest"])
<1>1. StateFor(req.target, req.version) \in {"current", "outdated"}
  BY DEF Verdict
<1>2. QED
  BY <1>1 DEF StateFor, Absent, Unmanaged, Managed, Owned

LEMMA DecideOK ==
    ASSUME TypeOK, NEW p \in Procs, CommandOK(cmd[p]), Decide(p)
    PROVE  CommandOK(cmd[p])'
<1>0. UNCHANGED <<disk, txn>>
  BY DEF Decide
<1>1. CASE cmd'[p].pc = "idle"
  BY <1>1 DEF CommandOK, Equipped, Doomed, AsPlanned
<1>2. CASE cmd'[p].pc # "idle"
  <2>1. /\ cmd'[p].req = cmd[p].req /\ cmd'[p].plan = cmd[p].plan
        /\ cmd'[p].recovery = cmd[p].recovery /\ settled' = settled
    BY <1>2, DecideMoves, IdleType DEF InsideStep, Continues, Ends
  <2>2. cmd[p].req \in Requests /\ cmd[p].plan \in Plans
    BY DEF CommandOK, Equipped, Decide, At
  <2>3. CASE cmd'[p].pc = "done"
    BY <2>1, <2>2, <2>3 DEF CommandOK, Equipped, Doomed, AsPlanned
  <2>4. ASSUME cmd[p].recovery \/ cmd[p].plan = Description(cmd[p].req)
        PROVE  \/ cmd[p].recovery
               \/ disk["dest"] = None
               \/ disk["dest"].files \cap settled \subseteq cmd[p].plan.files
    BY <2>4 DEF Description, Absent
  <2>5. CASE cmd'[p].pc = "stage" /\ (cmd[p].recovery \/ cmd[p].plan = Description(cmd[p].req))
    <3>1. AsPlanned(cmd[p])'
      BY <1>0, <2>1, <2>4, <2>5 DEF AsPlanned
    <3>2. QED
      BY <2>1, <2>2, <2>5, <3>1 DEF CommandOK, Equipped, Doomed
  <2>6. CASE /\ cmd'[p].pc = "markRemoval" /\ cmd[p].req.op = "uninstall"
             /\ Verdict(cmd[p].req, FALSE) = "apply"
             /\ cmd[p].recovery \/ cmd[p].plan = Description(cmd[p].req)
    <3>1. AsPlanned(cmd[p])'
      BY <1>0, <2>1, <2>4, <2>6 DEF AsPlanned
    <3>2. Disposable("dest")'
      BY <1>0, <2>1, <2>6, UninstallIsOfOwn, OwnedIsDisposable DEF Disposable
    <3>3. \A x \in Doomed(cmd[p])' : Disposable(x)'
      BY <2>6, <3>2 DEF Doomed
    <3>4. QED
      BY <2>1, <2>2, <2>6, <3>1, <3>3 DEF CommandOK, Equipped
  <2>7. QED
    BY <1>2, <2>3, <2>5, <2>6, DecideMoves
<1>3. QED
  BY <1>1, <1>2

LEMMA WorkOK ==
    ASSUME TypeOK, NEW p \in Procs, CommandOK(cmd[p]), UnderLock(p)
    PROVE  CommandOK(cmd[p])'
<1>0. cmd \in [Procs -> Command] /\ cmd[p] \in Command /\ Inside(cmd[p])
  BY WorkMoves DEF TypeOK, InsideStep
<1>1. cmd[p].req \in Requests /\ cmd[p].plan \in Plans
  BY <1>0 DEF CommandOK, Equipped, Inside
<1>2. cmd[p].backup \in BackupNames \cup {None}
  BY <1>0 DEF Command
<1>3. ASSUME End(p) PROVE CommandOK(cmd[p])'
  BY <1>0, <1>3, EndFacts DEF CommandOK, Equipped, Doomed, AsPlanned
<1>4. ASSUME NEW step \in Steps \ {"idle"}, Go(p, step)
      PROVE  /\ cmd'[p].pc = step /\ cmd'[p].req = cmd[p].req /\ cmd'[p].plan = cmd[p].plan
             /\ cmd'[p].recovery = cmd[p].recovery /\ cmd'[p].backup = cmd[p].backup
             /\ settled' = settled
  BY <1>0, <1>4, GoFacts
\* A step that dooms nothing new.
<1>5. ASSUME NEW step \in Steps \ {"idle", "redo", "swap", "restore", "prune", "stage", "fill",
                                   "mark", "markRemoval", "displace", "place",
                                   "unstage", "erase"},
             Go(p, step),
             step \in {"redoPlace", "redoRestore", "redoClear"} => txn' \in Transaction
      PROVE  CommandOK(cmd[p])'
  BY <1>1, <1>4, <1>5 DEF CommandOK, Equipped, Doomed, AsPlanned
<1> USE DEF At, Steps
<1>6. CASE Recover(p)
  <2>1. CASE Recoverable /\ txn # None /\ Go(p, "redo")
    <3>1. Disposable("removing")
      BY <2>1, OwnedIsDisposable DEF Recoverable, Strays, Disposable
    <3>2. UNCHANGED <<disk, txn, settled>> /\ txn \in Transaction
      BY <1>4, <1>6, <2>1 DEF Recover, TypeOK
    <3>3. Disposable("removing")'
      BY <3>1, <3>2 DEF Disposable
    <3>4. QED
      BY <1>1, <1>4, <2>1, <3>2, <3>3 DEF CommandOK, Equipped, Doomed, AsPlanned
  <2>2. QED
    BY <1>3, <1>5, <1>6, <2>1 DEF Recover
<1>7. CASE RedoStaged(p) \/ RedoPlace(p) \/ RedoRemoving(p)
  <2>1. txn \in Transaction /\ txn' = txn
    BY <1>7 DEF RedoStaged, RedoPlace, RedoRemoving, CommandOK, Equipped
  <2>2. QED
    BY <1>3, <1>5, <1>7, <2>1 DEF RedoStaged, RedoPlace, RedoRemoving
<1>8. CASE RedoRestore(p)
  <2>1. txn \in Transaction /\ txn' = txn
    BY <1>8 DEF RedoRestore, CommandOK, Equipped
  <2>2. QED
    BY <1>3, <1>5, <1>8, <2>1 DEF RedoRestore
<1>9. CASE RedoClear(p)
  BY <1>3, <1>5, <1>9 DEF RedoClear
<1>10. CASE Decide(p)
  BY <1>10, DecideOK
<1>11. CASE Stage(p)
  <2>1. CASE /\ disk' = [disk EXCEPT !["staging"] = [record |-> None, whole |-> FALSE,
                                                   files |-> {}]]
             /\ Go(p, "fill")
    <3>1. disk'["dest"] = disk["dest"] /\ Disposable("staging")'
      BY <2>1, PlacesApart DEF TypeOK, Disposable
    <3>2. AsPlanned(cmd[p])'
      BY <1>4, <1>11, <2>1, <3>1 DEF AsPlanned, CommandOK, Stage
    <3>3. QED
      BY <1>1, <1>4, <2>1, <3>1, <3>2 DEF CommandOK, Equipped, Doomed
  <2>2. QED
    BY <1>3, <1>11, <2>1 DEF Stage
<1>12. CASE Fill(p)
  <2>0. Disposable("staging")
    BY <1>12, PlacesApart DEF Fill, Doomed, CommandOK
  <2>1. CASE /\ \E record : disk' = [disk EXCEPT !["staging"].record = record,
                                             !["staging"].whole  = TRUE]
             /\ disk["staging"] # None /\ Go(p, "mark")
    <3>1. PICK record : disk' = [disk EXCEPT !["staging"].record = record,
                                            !["staging"].whole  = TRUE]
      BY <2>1
    <3>2. disk["staging"] \in Directory
      BY <2>1, DirectoryTypes, PlacesApart
    <3>3. disk'["dest"] = disk["dest"] /\ disk'["staging"].files = disk["staging"].files
      BY <3>1, <3>2, PlacesApart DEF TypeOK, Directory
    <3>4. Disposable("staging")' /\ AsPlanned(cmd[p])'
      BY <1>4, <1>12, <2>0, <2>1, <3>3 DEF AsPlanned, CommandOK, Fill, Disposable
    <3>5. QED
      BY <1>1, <1>4, <2>1, <3>4 DEF CommandOK, Equipped, Doomed
  <2>2. CASE UNCHANGED disk /\ Go(p, "unstage")
    BY <1>1, <1>4, <2>0, <2>2 DEF CommandOK, Equipped, Doomed, Disposable, AsPlanned
  <2>3. QED
    BY <1>12, <2>1, <2>2 DEF Fill
<1>13. CASE Mark(p)
  <2>1. Disposable("staging") /\ disk' = disk
    BY <1>13, PlacesApart DEF Mark, Doomed, CommandOK
  <2>2. AsPlanned(cmd[p])
    BY DEF CommandOK
  <2>3. QED
    BY <1>1, <1>2, <1>4, <1>13, <2>1, <2>2
    DEF Mark, CommandOK, Equipped, Doomed, Disposable, AsPlanned
<1>14. CASE Swap(p) \/ Restore(p)
  <2>1. Disposable("staging") /\ cmd[p].backup \in BackupNames
    BY <1>14, PlacesApart DEF Swap, Restore, Doomed, CommandOK, Equipped
  <2>2. disk'["staging"] = disk["staging"]
    BY <1>14, <2>1, PlacesApart, RenameKeepsFiles DEF Swap, Restore, NotRenamed
  <2>3. \E step \in {"place", "restore", "unstage"} : Go(p, step)
    BY <1>14 DEF Swap, Restore
  <2>4. QED
    BY <1>1, <1>4, <2>1, <2>2, <2>3 DEF CommandOK, Equipped, Doomed, Disposable, AsPlanned
<1>15. CASE Place(p)
  <2>1. CASE NotRenamed("staging", "dest")
             /\ Go(p, IF cmd[p].backup = None THEN "unstage" ELSE "restore")
    <3>1. Disposable("staging") /\ disk' = disk
      BY <1>15, <2>1, PlacesApart DEF Place, Doomed, CommandOK, NotRenamed
    <3>2. QED
      BY <1>1, <1>2, <1>4, <2>1, <3>1 DEF CommandOK, Equipped, Doomed, Disposable, AsPlanned
  <2>2. QED
    BY <1>3, <1>5, <1>15, <2>1 DEF Place
<1>16. CASE Unstage(p) \/ Untxn(p) \/ Prune(p)
  BY <1>3, <1>5, <1>16 DEF Unstage, Untxn, Prune
<1>17. CASE Settle(p)
  BY <1>1, <1>2, <1>3, <1>4, <1>17 DEF Settle, CommandOK, Equipped, Doomed, AsPlanned
<1>18. CASE MarkRemoval(p)
  <2>1. CASE Go(p, "displace")
    <3>1. Disposable("dest") /\ disk' = disk /\ AsPlanned(cmd[p])
      BY <1>18, PlacesApart DEF MarkRemoval, Doomed, CommandOK
    <3>2. QED
      BY <1>1, <1>4, <1>18, <2>1, <3>1
      DEF MarkRemoval, CommandOK, Equipped, Doomed, Disposable, AsPlanned
  <2>2. QED
    BY <1>3, <1>18, <2>1 DEF MarkRemoval
<1>19. CASE Displace(p)
  <2>1. CASE Rename("dest", "removing") /\ Go(p, "erase")
    <3>1. Disposable("dest") /\ disk'["removing"] = disk["dest"]
      BY <1>19, <2>1, PlacesApart, RenameKeepsFiles DEF Displace, Doomed, CommandOK
    <3>2. QED
      BY <1>1, <1>4, <2>1, <3>1 DEF CommandOK, Equipped, Doomed, Disposable, AsPlanned
  <2>2. QED
    BY <1>3, <1>5, <1>19, <2>1 DEF Displace
<1>20. CASE Erase(p) \/ Reinstate(p) \/ Clear(p) \/ Return(p)
  BY <1>3, <1>5, <1>20 DEF Erase, Reinstate, Clear, Return
<1>21. CASE Sweep(p)
  <2>1. cmd'[p].pc \in {"sweep", "clear"} /\ InsideStep(p)
    BY <1>21, SweepMoves
  <2>2. cmd'[p].req = cmd[p].req /\ cmd'[p].plan = cmd[p].plan
    BY <2>1, IdleType DEF InsideStep, Continues, Ends
  <2>3. QED
    BY <1>1, <2>1, <2>2 DEF CommandOK, Equipped, Doomed, AsPlanned
<1>22. QED
  BY <1>6, <1>7, <1>8, <1>9, <1>10, <1>11, <1>12, <1>13, <1>14, <1>15, <1>16, <1>17,
     <1>18, <1>19, <1>20, <1>21 DEF Work, UnderLock

LEMMA TakingOK ==
    ASSUME NEW p \in Procs, CommandOK(cmd[p]), Taking(p)
    PROVE  CommandOK(cmd[p])'
BY DEF Taking, CommandOK, Equipped, Doomed, AsPlanned

(* Nobody disturbs the command that holds the lock: other commands wait    *)
(* outside, and what a user writes meanwhile was not settled.              *)
LEMMA WriteOK ==
    ASSUME TypeOK, LockHeld, NEW p \in Procs, CommandOK(cmd[p]),
           NEW x \in Places, NEW c \in Contents, Write(x, c)
    PROVE  CommandOK(cmd[p])'
<1>1. cmd' = cmd /\ lock' = lock /\ txn' = txn
  BY DEF Write
<1>2. CASE ~Inside(cmd[p])
  <2>1. cmd[p].pc # "idle" => cmd[p].req \in Requests /\ cmd[p].plan \in Plans
    BY DEF CommandOK, Equipped
  <2>2. QED
    BY <1>1, <1>2, <2>1 DEF CommandOK, Equipped, Doomed, AsPlanned, Inside
<1>3. CASE Inside(cmd[p])
  <2>1. settled' = settled
    BY <1>3, WriteAdds, NoneIsNothing DEF LockHeld
  <2>2. ASSUME NEW y \in Places, Disposable(y) PROVE Disposable(y)'
    BY <2>1, <2>2, WriteAdds DEF Disposable, OnlyAt
  <2>3. Equipped(cmd[p])' /\ Doomed(cmd[p])' = Doomed(cmd[p])
    BY <1>1 DEF CommandOK, Equipped, Doomed
  <2>4. AsPlanned(cmd[p])'
    <3>1. AsPlanned(cmd[p])
      BY DEF CommandOK
    <3>2. CASE x = "dest"
      BY <1>1, <2>1, <3>1, <3>2, WriteAdds DEF AsPlanned
    <3>3. CASE x # "dest"
      <4>1. disk'["dest"] = disk["dest"]
        BY <3>3, WriteAdds, PlacesApart DEF OnlyAt
      <4>2. QED
        BY <1>1, <2>1, <3>1, <4>1 DEF AsPlanned
    <3>4. QED
      BY <3>2, <3>3
  <2>5. \A y \in Doomed(cmd[p]) : Disposable(y)'
    BY <2>2 DEF CommandOK, Doomed
  <2>6. QED
    BY <2>3, <2>4, <2>5 DEF CommandOK
<1>4. QED
  BY <1>2, <1>3

LEMMA CommandStep ==
    ASSUME IInv, [Next]_vars, NEW q \in Procs
    PROVE  CommandOK(cmd[q])'
<1>0. TypeOK /\ LockHeld /\ \A p \in Procs : CommandOK(cmd[p])
  BY DEF IInv
\* Another command's step.
<1>1. ASSUME NEW p \in Procs, p # q, cmd'[q] = cmd[q],
             UNCHANGED <<disk, txn, settled>> \/ ~Inside(cmd[q])
      PROVE  CommandOK(cmd[q])'
  <2>1. CommandOK(cmd[q])
    BY <1>0
  <2>2. CASE UNCHANGED <<disk, txn, settled>>
    BY <1>1, <2>1, <2>2 DEF CommandOK, Equipped, Doomed, AsPlanned, Disposable
  <2>3. CASE ~Inside(cmd[q])
    BY <1>1, <2>1, <2>3 DEF CommandOK, Equipped, Doomed, AsPlanned, Inside
  <2>4. QED
    BY <1>1, <2>2, <2>3
<1>2. ASSUME NEW p \in Procs, InsideStep(p), p # q PROVE CommandOK(cmd[q])'
  <2>1. cmd'[q] = cmd[q] /\ ~Inside(cmd[q])
    BY <1>0, <1>2 DEF InsideStep, LockHeld
  <2>2. QED
    BY <1>1, <1>2, <2>1
<1>3. ASSUME NEW p \in Procs, OutsideStep(p) PROVE CommandOK(cmd[q])'
  <2>1. CASE p = q
    BY <1>3, <2>1 DEF OutsideStep, CommandOK, Equipped, Doomed, AsPlanned, Inside
  <2>2. CASE p # q
    BY <1>1, <1>3, <2>2 DEF OutsideStep
  <2>3. QED
    BY <2>1, <2>2
<1>4. ASSUME NEW p \in Procs, Taking(p) PROVE CommandOK(cmd[q])'
  <2>1. CASE p = q
    BY <1>0, <1>4, <2>1, TakingOK
  <2>2. CASE p # q
    BY <1>1, <1>4, <2>2 DEF Taking
  <2>3. QED
    BY <2>1, <2>2
<1>5. ASSUME NEW p \in Procs, UnderLock(p) PROVE CommandOK(cmd[q])'
  BY <1>0, <1>2, <1>5, WorkMoves, WorkOK
<1>6. ASSUME NEW p \in Procs, Dying(p) PROVE CommandOK(cmd[q])'
  <2>1. CASE p = q
    BY <1>6, <2>1, IdleType DEF Dying, Ends, CommandOK, Equipped, Doomed, AsPlanned
  <2>2. CASE p # q
    BY <1>2, <1>6, <2>2 DEF Dying
  <2>3. QED
    BY <2>1, <2>2
<1>7. ASSUME NEW x \in Places, NEW c \in Contents, Write(x, c) PROVE CommandOK(cmd[q])'
  BY <1>0, <1>7, WriteOK
<1>8. ASSUME NEW x \in Places, Heed(x) PROVE CommandOK(cmd[q])'
  <2>1. cmd' = cmd /\ ~Inside(cmd[q])
    BY <1>0, <1>8, NoneIsNothing DEF Heed, LockHeld
  <2>2. cmd[q].pc # "idle" => cmd[q].req \in Requests /\ cmd[q].plan \in Plans
    BY <1>0 DEF CommandOK, Equipped
  <2>3. QED
    BY <2>1, <2>2 DEF CommandOK, Equipped, Doomed, AsPlanned, Inside
<1>9. CASE UNCHANGED vars
  <2>1. CommandOK(cmd[q]) /\ UNCHANGED <<disk, txn, settled, cmd>>
    BY <1>0, <1>9 DEF vars
  <2>2. QED
    BY <2>1 DEF CommandOK, Equipped, Doomed, AsPlanned, Disposable
<1>10. QED
  BY <1>0, <1>3, <1>4, <1>5, <1>6, <1>7, <1>8, <1>9, StepCases

-----------------------------------------------------------------------------
(* Nothing settled is lost.                                                *)
LEMMA SettledStep ==
    ASSUME IInv, [Next]_vars
    PROVE  SettledContentSurvives'
<1>0. /\ TypeOK /\ LockHeld /\ settled \subseteq FilesIn(disk) \cup moved
      /\ \A p \in Procs : CommandOK(cmd[p])
  BY DEF IInv, SettledContentSurvives
<1>1. ASSUME FilesIn(disk) \cap settled \subseteq FilesIn(disk') \cup moved',
             moved \subseteq moved',
             settled' \subseteq settled \cup FilesIn(disk')
      PROVE  SettledContentSurvives'
  BY <1>0, <1>1 DEF SettledContentSurvives
<1>2. ASSUME NEW p \in Procs, UnderLock(p) \/ Dying(p) PROVE SettledContentSurvives'
  <2>1. GentleOnDisk /\ moved' = moved
    BY <1>0, <1>2, WorkOnDisk, DyingOnDisk, WorkOnHistory DEF Dying
  <2>2. settled' \subseteq settled \cup FilesIn(disk')
    BY <1>0, <1>2, WorkMoves DEF Dying, InsideStep, Continues, Ends
  <2>3. QED
    BY <1>0, <1>1, <2>1, <2>2, GentleKeeps
<1>3. ASSUME UNCHANGED <<disk, settled, moved>> PROVE SettledContentSurvives'
  BY <1>0, <1>3 DEF SettledContentSurvives
<1>4. ASSUME NEW x \in Places, NEW c \in Contents, Write(x, c) PROVE SettledContentSurvives'
  <2>1. FilesIn(disk) \cup {c} \subseteq FilesIn(disk') /\ moved' = moved
    BY <1>0, <1>4, WriteKeepsFiles DEF Write
  <2>2. settled' \subseteq settled \cup {c}
    BY <1>4 DEF Write
  <2>3. QED
    BY <1>1, <2>1, <2>2
<1>5. ASSUME NEW x \in Places, Heed(x) PROVE SettledContentSurvives'
  BY <1>0, <1>1, <1>5, HeedMoves DEF Heed
<1>6. QED
  BY <1>0, <1>2, <1>3, <1>4, <1>5, StepCases DEF OutsideStep, Taking, vars

LEMMA InitEstablishes == Init => IInv
<1> SUFFICES ASSUME Init PROVE IInv
  OBVIOUS
<1>1. disk \in [Places -> Directory \cup {None}]
  BY OriginsAreDirectories DEF Init
<1>2. \A p \in Procs : cmd[p] = Idle
  BY DEF Init
<1>3. kept \subseteq Contents
  <2>1. \A b \in BackupNames : Unmanaged(disk[b]) => disk[b].files \subseteq Contents
    BY <1>1, PlacesApart DEF Unmanaged, Directory
  <2>2. QED
    BY <2>1 DEF Init
<1>4. TypeOK
  BY <1>1, <1>3, IdleType, FilesAreContents, BudgetIsNatural DEF Init, TypeOK
<1>5. LockHeld
  BY <1>2, IdleType, NoneIsNothing DEF Init, LockHeld, Inside
<1>6. \A p \in Procs : CommandOK(cmd[p])
  BY <1>2, IdleType DEF CommandOK, Equipped, Doomed, AsPlanned
<1>7. SettledContentSurvives
  BY DEF Init, SettledContentSurvives
<1>8. QED
  BY <1>4, <1>5, <1>6, <1>7 DEF IInv

LEMMA StepPreserves == IInv /\ [Next]_vars => IInv'
<1> SUFFICES ASSUME IInv, [Next]_vars PROVE IInv'
  OBVIOUS
<1>1. TypeOK' /\ LockHeld' /\ SettledContentSurvives'
  BY TypeStep, LockStep, SettledStep DEF IInv
<1>2. \A p \in Procs : CommandOK(cmd[p])'
  BY CommandStep
<1>3. QED
  BY <1>1, <1>2 DEF IInv

LEMMA Invariance == Spec => []IInv
BY InitEstablishes, StepPreserves, PTL DEF Spec

-----------------------------------------------------------------------------
(* The theorems.                                                           *)

(* Every variable keeps its type; in particular a command never writes a   *)
(* record or a transaction that names a directory which is no backup, and  *)
(* there is a first free name whenever there is room for a backup.         *)
THEOREM TypeCorrect == Spec => []TypeOK
BY Invariance, PTL DEF IInv

(* Whatever a user had on disk at a time no command held the lock is still *)
(* on disk, or its owner moved it, whatever the installer renames, deletes *)
(* rolls back or recovers, and wherever it dies.                           *)
THEOREM SettledContentKept == Spec => []SettledContentSurvives
BY Invariance, PTL DEF IInv

(* A command displaces the package only with user files its own plan       *)
(* listed, unless it came to finish an interrupted transaction.            *)
THEOREM DisplacedAsPlanned == Spec => []DisplacesOnlyWhatWasPlanned
<1>1. IInv => DisplacesOnlyWhatWasPlanned
  BY DEF IInv, CommandOK, AsPlanned, DisplacesOnlyWhatWasPlanned
<1>2. QED
  BY <1>1, Invariance, PTL

-----------------------------------------------------------------------------
(***************************************************************************)
(* Where the user's original is.  A backup holds what its owner wants back *)
(* when a file of a displaced original is in it.                           *)
(***************************************************************************)
Holds(x) == disk[x] # None /\ disk[x].files \cap kept # {}

Holders == {b \in BackupNames : Holds(b)}

\* Each piece of content is in one place; what was kept is still there or was
\* moved by its owner, and never in a directory with a record.
KeptApart ==
    /\ \A x, y \in Places : (x # y /\ disk[x] # None /\ disk[y] # None) =>
                              disk[x].files \cap disk[y].files = {}
    /\ kept \subseteq FilesIn(disk) \cup moved
    /\ \A x \in Places : Holds(x) => /\ x \notin {"staging", "removing"}
                                    /\ disk[x].record = None

\* The records lead from `first` through the packages in T to b.
Path(T, first, b) ==
    /\ b \notin T /\ first \in T \cup {b}
    /\ \A x \in T : Managed(disk[x]) /\ disk[x].record.backup \in T \cup {b}

LeadsBack(x, b) ==
    /\ Managed(disk[x])
    /\ \E T \in SUBSET (BackupNames \ {x}) : Path(T, disk[x].record.backup, b)

Installed(b) == LeadsBack("dest", b)

AllInstalled == \A b \in Holders : Installed(b)

Displaced(phase) == disk["dest"] = None /\ txn # None /\ txn.phase = phase

\* The package was displaced, and what takes it back takes the original along.
Swapped(b) ==
    /\ Displaced("staged")
    /\ txn.backup \in BackupNames
    /\ txn.backup = b \/ LeadsBack(txn.backup, b)

Removed(b) == Displaced("removing") /\ txn.backup = b

\* What is staged leads to the original, before and after the swap.
LeadsAlike(d, record, backup) ==
    /\ Unmanaged(d) => record.backup = backup
    /\ Managed(d) => Holders \subseteq {record.backup}

StagedRight ==
    (txn # None /\ txn.phase = "staged" /\ Managed(disk["staging"])) =>
        /\ disk["dest"] # None =>
              LeadsAlike(disk["dest"], disk["staging"].record, txn.backup)
        /\ (disk["dest"] = None /\ txn.backup # None) =>
              LeadsAlike(disk[txn.backup], disk["staging"].record, txn.backup)

\* What is on disk at which step, whatever users do.
Footing(step, backup, original) ==
    /\ step \in {"decide", "stage", "fill", "mark", "prune", "markRemoval"} => txn = None
    /\ step \in {"swap", "place", "restore", "settle"} =>
            txn = [phase |-> "staged", backup |-> backup]
    /\ step \in {"displace", "erase", "reinstate", "sweep", "clear"} =>
            txn = [phase |-> "removing", backup |-> original]
    /\ step = "redoPlace" => txn.phase = "staged"
    /\ step \in {"redo", "redoPlace", "mark", "swap", "place"} =>
            disk["staging"] = None \/ Managed(disk["staging"])
    /\ step \in {"markRemoval", "displace"} => Managed(disk["dest"])

Underway(c) == Footing(c.pc, c.backup, c.original)

\* Where a command may find, or leave, the package displaced.
Midway == {"idle", "planned", "recover", "redo", "redoPlace", "redoRestore", "place",
           "restore", "erase", "reinstate"}

Trail(step, backup, original) ==
    /\ step \notin Midway => AllInstalled
    /\ step \in {"stage", "fill", "mark"} =>
            /\ disk["dest"] = None <=> backup = None
            /\ LeadsAlike(disk["dest"], [backup |-> original], backup)
    /\ (step = "mark" /\ Managed(disk["staging"])) =>
            disk["staging"].record.backup = original
    /\ step \in {"markRemoval", "displace"} => Holders \subseteq {original}
    /\ step \in {"settle", "prune"} =>
            Managed(disk["dest"]) /\ Holders \subseteq {disk["dest"].record.backup}
    /\ step \in {"erase", "reinstate"} => disk["dest"] = None
    /\ step \in {"sweep", "clear"} => Holders = {}

Traces(c) == Trail(c.pc, c.backup, c.original)

OnTrack == \A b \in Holders : Installed(b) \/ Swapped(b) \/ Removed(b)

Traced ==
    /\ OnTrack
    /\ StagedRight
    /\ \A p \in Procs : Traces(cmd[p])

TraceInv ==
    /\ KeptApart
    /\ \A p \in Procs : Underway(cmd[p])
    /\ excused \/ Traced

-----------------------------------------------------------------------------
(* What was kept stays apart from what Memoria deletes.                    *)

(* What a deletion, complete or not, leaves of a directory.                *)
Trimmed(x) ==
    /\ OnlyAt(x)
    /\ disk'[x] # None =>
          /\ disk[x] # None /\ disk'[x].files \subseteq disk[x].files
          /\ disk'[x].record \in {disk[x].record, None}

LEMMA DeletionTrims ==
    ASSUME TypeOK, NEW x \in Places, disk[x] # None, Delete(x) \/ RemovePart(x)
    PROVE  Trimmed(x)
<1>1. OnlyAt(x)
  BY DeletionIsLocal
<1>2. CASE Delete(x)
  BY <1>1, <1>2 DEF TypeOK, Delete, Trimmed
<1>3. CASE RemovePart(x)
  <2>1. PICK d \in Remains(disk[x]) : disk' = [disk EXCEPT ![x] = d]
    BY <1>3 DEF RemovePart
  <2>2. d.files \subseteq disk[x].files /\ d.record \in {disk[x].record, None}
    BY <2>1 DEF Remains
  <2>3. QED
    BY <1>1, <2>1, <2>2 DEF TypeOK, Trimmed
<1>4. QED
  BY <1>2, <1>3

KeptMoves ==
    \/ UNCHANGED <<disk, kept>>
    \/ \E k \in BackupNames : Rename("dest", k) /\ KeepOriginal
    \/ \E from, to \in Places :
          /\ Rename(from, to) /\ UNCHANGED kept
          /\ to \in {"staging", "removing"} => Managed(disk[from])
    \/ \E x \in Places :
          /\ ~Holds(x) /\ OnlyAt(x) /\ UNCHANGED kept
          /\ disk'[x] # None =>
                disk'[x].files \subseteq (IF disk[x] = None THEN {} ELSE disk[x].files)

\* Content is where it was, in the directory that `from` names now.
LEMMA RenameKeepsApart ==
    ASSUME TypeOK, KeptApart, NEW from \in Places, NEW to \in Places, Rename(from, to),
           \/ UNCHANGED kept
           \/ kept' = kept \cup disk[from].files /\ Unmanaged(disk[from]),
           to \in {"staging", "removing"} => Managed(disk[from]) /\ UNCHANGED kept,
           moved' = moved
    PROVE  /\ KeptApart'
           /\ \A x \in Places \ {from, to} : Holds(x)' <=> Holds(x)
           /\ ~Holds(from)'
           /\ UNCHANGED kept => (Holds(to)' <=> Holds(from))
<1>1. /\ FilesIn(disk') = FilesIn(disk) /\ from # to
      /\ \A x \in Places \ {from, to} : disk'[x] = disk[x]
      /\ disk'[from] = None /\ disk'[to] = disk[from] /\ disk[from] # None
      /\ disk[to] = None
  BY RenameKeepsFiles DEF Rename
<1>2. ASSUME NEW x \in Places, NEW y \in Places, x # y, disk'[x] # None, disk'[y] # None
      PROVE  disk'[x].files \cap disk'[y].files = {}
  BY <1>1, <1>2 DEF KeptApart
<1>3. kept' \subseteq FilesIn(disk') \cup moved'
  <2>1. disk[from].files \subseteq FilesIn(disk)
    BY <1>1, InFiles
  <2>2. QED
    BY <1>1, <2>1 DEF KeptApart
<1>4. \A x \in Places \ {from, to} : Holds(x)' <=> Holds(x)
  BY <1>1 DEF Holds, KeptApart
<1>5. ~Holds(from)' /\ (UNCHANGED kept => (Holds(to)' <=> Holds(from)))
  BY <1>1 DEF Holds
<1>6. ASSUME NEW x \in Places, Holds(x)'
      PROVE  x \notin {"staging", "removing"} /\ disk'[x].record = None
  <2>1. CASE x \notin {from, to}
    BY <1>1, <1>4, <1>6, <2>1 DEF KeptApart
  <2>2. CASE x = to /\ UNCHANGED kept
    BY <1>1, <1>5, <1>6, <2>2 DEF KeptApart, Managed
  <2>3. CASE x = to /\ Unmanaged(disk[from]) /\ ~UNCHANGED kept
    BY <1>1, <2>3 DEF Unmanaged
  <2>4. QED
    BY <1>5, <1>6, <2>1, <2>2, <2>3
<1>7. QED
  BY <1>2, <1>3, <1>4, <1>5, <1>6 DEF KeptApart

LEMMA TrimKeepsApart ==
    ASSUME TypeOK, KeptApart, NEW x \in Places, ~Holds(x), OnlyAt(x), UNCHANGED kept,
           disk'[x] # None =>
                disk'[x].files \subseteq (IF disk[x] = None THEN {} ELSE disk[x].files),
           moved' = moved
    PROVE  /\ KeptApart'
           /\ \A y \in Places \ {x} : Holds(y)' <=> Holds(y)
           /\ ~Holds(x)'
<1>1. \A y \in Places \ {x} : disk'[y] = disk[y]
  BY DEF OnlyAt
<1>2. (\A y \in Places \ {x} : Holds(y)' <=> Holds(y)) /\ ~Holds(x)'
  BY <1>1 DEF Holds
<1>3. ASSUME NEW y \in Places, NEW z \in Places, y # z, disk'[y] # None, disk'[z] # None
      PROVE  disk'[y].files \cap disk'[z].files = {}
  BY <1>1, <1>3 DEF KeptApart
<1>4. ASSUME NEW c \in kept', c \notin moved' PROVE c \in FilesIn(disk')
  <2>1. PICK y \in Places : disk[y] # None /\ c \in disk[y].files
    BY <1>4, InFiles DEF KeptApart
  <2>2. y # x
    BY <1>4, <2>1 DEF Holds
  <2>3. QED
    BY <1>1, <2>1, <2>2, InFiles
<1>5. \A y \in Places : Holds(y)' => y \notin {"staging", "removing"} /\ disk'[y].record = None
  BY <1>1, <1>2 DEF KeptApart
<1>6. QED
  BY <1>2, <1>3, <1>4, <1>5 DEF KeptApart

LEMMA KeptStep ==
    ASSUME TypeOK, KeptApart, KeptMoves, moved' = moved
    PROVE  KeptApart'
<1>1. CASE UNCHANGED <<disk, kept>>
  BY <1>1 DEF KeptApart, Holds, FilesIn
<1>2. ASSUME NEW k \in BackupNames, Rename("dest", k), KeepOriginal PROVE KeptApart'
  BY <1>2, PlacesApart, RenameKeepsApart DEF KeepOriginal
<1>3. ASSUME NEW from \in Places, NEW to \in Places, Rename(from, to), UNCHANGED kept,
             to \in {"staging", "removing"} => Managed(disk[from])
      PROVE  KeptApart'
  BY <1>3, RenameKeepsApart
<1>4. ASSUME NEW x \in Places, ~Holds(x), OnlyAt(x), UNCHANGED kept,
             disk'[x] # None =>
                disk'[x].files \subseteq (IF disk[x] = None THEN {} ELSE disk[x].files)
      PROVE  KeptApart'
  BY <1>4, TrimKeepsApart
<1>5. QED
  BY <1>1, <1>2, <1>3, <1>4 DEF KeptMoves

LEMMA OwnedHoldsNothing == ASSUME NEW x, Owned(disk[x]) PROVE ~Holds(x)
BY DEF Owned, Holds

LEMMA WorkMovesKept ==
    ASSUME TypeOK, KeptApart, NEW p \in Procs, CommandOK(cmd[p]), Underway(cmd[p]),
           UnderLock(p)
    PROVE  KeptMoves
<1>0. cmd[p] \in Command
  BY DEF TypeOK
<1>1. ASSUME NEW x \in Places, disk[x] # None,
             x \in {"staging", "removing"} \/ Owned(disk[x]),
             Delete(x) \/ RemovePart(x), UNCHANGED kept
      PROVE  KeptMoves
  <2>1. ~Holds(x)
    BY <1>1, OwnedHoldsNothing DEF KeptApart
  <2>2. QED
    BY <1>1, <2>1, DeletionTrims DEF Trimmed, KeptMoves
<1> USE PlacesApart DEF At
<1>2. CASE Recover(p) \/ RedoClear(p) \/ Decide(p) \/ Mark(p)
  BY <1>2 DEF Recover, RedoClear, Decide, Mark, KeptMoves
<1>3. CASE Untxn(p) \/ Settle(p) \/ MarkRemoval(p) \/ Clear(p) \/ Return(p)
  BY <1>3 DEF Untxn, Settle, MarkRemoval, Clear, Return, KeptMoves
<1>4. CASE RedoStaged(p)
  <2>1. txn.backup # None => txn.backup \in BackupNames
    BY <1>4 DEF RedoStaged, CommandOK, Equipped, Transaction
  <2>2. QED
    BY <1>4, <2>1 DEF RedoStaged, NotRenamed, KeptMoves
<1>5. CASE RedoPlace(p) \/ Place(p)
  BY <1>5 DEF RedoPlace, Place, NotRenamed, KeptMoves
<1>6. CASE Displace(p)
  <2>1. Managed(disk["dest"])
    BY <1>6 DEF Displace, Underway, Footing
  <2>2. QED
    BY <1>6, <2>1 DEF Displace, NotRenamed, KeptMoves
<1>7. CASE RedoRemoving(p) \/ Erase(p)
  BY <1>1, <1>7 DEF RedoRemoving, Erase, KeptMoves
<1>8. CASE RedoRestore(p)
  <2>1. txn.backup # None => txn.backup \in BackupNames
    BY <1>8 DEF RedoRestore, CommandOK, Equipped, Transaction
  <2>2. QED
    BY <1>8, <2>1 DEF RedoRestore, NotRenamed, KeptMoves
<1>9. CASE Stage(p)
  <2>1. [record |-> None, whole |-> FALSE, files |-> {}] \in Directory
    BY DEF Directory
  <2>2. ASSUME disk["staging"] = None,
               disk' = [disk EXCEPT !["staging"] =
                          [record |-> None, whole |-> FALSE, files |-> {}]]
        PROVE  /\ OnlyAt("staging") /\ ~Holds("staging")
               /\ disk'["staging"].files = {}
    BY <2>1, <2>2 DEF OnlyAt, TypeOK, Holds
  <2>3. QED
    BY <1>9, <2>2 DEF Stage, KeptMoves
<1>10. CASE Fill(p)
  <2>1. ~Holds("staging")
    BY DEF KeptApart
  <2>2. ASSUME NEW record, disk["staging"] # None,
               disk' = [disk EXCEPT !["staging"].record = record, !["staging"].whole = TRUE]
        PROVE  /\ \A y \in Places \ {"staging"} : disk'[y] = disk[y]
               /\ disk'["staging"].files = disk["staging"].files
    <3>1. disk["staging"] \in Directory
      BY <2>2, DirectoryTypes
    <3>2. QED
      BY <2>2, <3>1 DEF TypeOK, Directory
  <2>3. disk' \in [Places -> Directory \cup {None}]
    BY <1>10, WorkOnDisk, GentleKeeps
  <2>4. QED
    BY <1>10, <2>1, <2>2, <2>3 DEF Fill, KeptMoves, OnlyAt
<1>11. CASE Swap(p) \/ Restore(p)
  <2>1. cmd[p].backup \in BackupNames
    BY <1>11 DEF Swap, Restore, CommandOK, Equipped
  <2>2. QED
    BY <1>11, <2>1 DEF Swap, Restore, NotRenamed, KeptMoves
<1>12. CASE Unstage(p)
  BY <1>1, <1>12 DEF Unstage, KeptMoves
<1>13. CASE Prune(p)
  <2>1. cmd[p].backup \in BackupNames
    BY <1>13 DEF Prune, CommandOK, Equipped
  <2>2. QED
    BY <1>1, <1>13, <2>1 DEF Prune, KeptMoves, Owned, Managed
<1>14. CASE Reinstate(p)
  <2>1. cmd[p].original # None => cmd[p].original \in BackupNames
    BY <1>0 DEF Command
  <2>2. QED
    BY <1>14, <2>1 DEF Reinstate, NotRenamed, KeptMoves
<1>15. CASE Sweep(p)
  <2>1. cmd[p].obsolete \subseteq BackupNames
    BY <1>0 DEF Command
  <2>2. QED
    BY <1>1, <1>15, <2>1 DEF Sweep, KeptMoves, Owned, Managed
<1>16. QED
  BY <1>2, <1>3, <1>4, <1>5, <1>6, <1>7, <1>8, <1>9, <1>10, <1>11, <1>12, <1>13,
     <1>14, <1>15 DEF Work, UnderLock

LEMMA DyingMovesKept ==
    ASSUME TypeOK, KeptApart, NEW p \in Procs, CommandOK(cmd[p]), Dying(p)
    PROVE  KeptMoves
<1>0. cmd[p] \in Command
  BY DEF TypeOK
<1>1. CASE UNCHANGED disk
  BY <1>1 DEF Dying, KeptMoves
<1>2. ASSUME NEW x \in Deleting(p), disk[x] # None, RemovePart(x),
             x \in BackupNames => Owned(disk[x])
      PROVE  KeptMoves
  <2>1. x \in Places /\ (x \in {"staging", "removing"} \/ Owned(disk[x]))
    <3>1. \/ x \in {"staging", "removing"}
          \/ x = cmd[p].backup /\ cmd[p].pc = "prune"
          \/ x \in cmd[p].obsolete
      BY <1>2 DEF Deleting, At
    <3>2. QED
      BY <1>0, <1>2, <3>1, PlacesApart DEF Command, CommandOK, Equipped
  <2>2. ~Holds(x)
    BY <2>1, OwnedHoldsNothing DEF KeptApart
  <2>3. Trimmed(x)
    BY <1>2, <2>1, DeletionTrims
  <2>4. QED
    BY <1>2, <2>1, <2>2, <2>3 DEF Dying, Trimmed, KeptMoves
<1>3. QED
  BY <1>1, <1>2 DEF Dying

(* A user writes what was nowhere before.                                  *)
LEMMA WriteKeepsApart ==
    ASSUME TypeOK, KeptApart, NEW x \in Places, NEW c \in Contents, Write(x, c)
    PROVE  KeptApart' /\ \A y \in Places : Holds(y)' <=> Holds(y)
<1>1. /\ \A y \in Places \ {x} : disk'[y] = disk[y]
      /\ disk'[x] # None
      /\ disk[x] # None => disk'[x].files = disk[x].files \cup {c}
      /\ disk[x] = None => disk'[x].files = {c}
  BY WriteAdds DEF OnlyAt
<1>2. c \notin FilesIn(disk) /\ c \notin moved /\ kept' = kept /\ moved' = moved
  BY DEF Write
<1>3. c \notin kept
  BY <1>2 DEF KeptApart
<1>4. \A y \in Places : Holds(y)' <=> Holds(y)
  BY <1>1, <1>2, <1>3 DEF Holds
<1>5. \A y \in Places : disk[y] # None => c \notin disk[y].files
  BY <1>2, InFiles
<1>6. ASSUME NEW y \in Places, NEW z \in Places, y # z, disk'[y] # None, disk'[z] # None
      PROVE  disk'[y].files \cap disk'[z].files = {}
  BY <1>1, <1>5, <1>6 DEF KeptApart
<1>7. kept' \subseteq FilesIn(disk') \cup moved'
  BY <1>2, WriteKeepsFiles DEF KeptApart
<1>8. ASSUME NEW y \in Places, Holds(y)'
      PROVE  y \notin {"staging", "removing"} /\ disk'[y].record = None
  <2>1. Holds(y)
    BY <1>4, <1>8
  <2>2. disk[x] # None => disk'[x].record = disk[x].record
    <3>1. disk[x] # None => disk[x] \in Directory
      BY DirectoryTypes
    <3>2. QED
      BY <1>1, <3>1 DEF Write, TypeOK, Directory
  <2>3. QED
    BY <1>1, <2>1, <2>2 DEF KeptApart, Holds
<1>9. QED
  BY <1>4, <1>6, <1>7, <1>8 DEF KeptApart

(* An owner moves out what he moves.                                       *)
LEMMA HeedKeepsApart ==
    ASSUME TypeOK, KeptApart, NEW x \in Places, Heed(x)
    PROVE  /\ KeptApart'
           /\ \A y \in Places \ {x} : Holds(y)' <=> Holds(y)
           /\ ~Holds(x)'
<1>1. /\ \A y \in Places \ {x} : disk'[y] = disk[y]
      /\ FilesIn(disk) \subseteq FilesIn(disk') \cup moved'
      /\ moved \subseteq moved' /\ kept' = kept
  BY HeedMoves DEF OnlyAt, Heed
<1>2. disk'[x] # None => disk'[x].files = {}
  <2>1. CASE Delete(x)
    BY <2>1 DEF Delete, TypeOK
  <2>2. CASE disk' = [disk EXCEPT ![x].files = {}]
    <3>1. disk[x] \in Directory
      BY DirectoryTypes DEF Heed
    <3>2. QED
      BY <2>2, <3>1 DEF TypeOK, Directory
  <2>3. QED
    BY <2>1, <2>2 DEF Heed
<1>3. ~Holds(x)' /\ \A y \in Places \ {x} : Holds(y)' <=> Holds(y)
  BY <1>1, <1>2 DEF Holds
<1>4. ASSUME NEW y \in Places, NEW z \in Places, y # z, disk'[y] # None, disk'[z] # None
      PROVE  disk'[y].files \cap disk'[z].files = {}
  BY <1>1, <1>2, <1>4 DEF KeptApart
<1>5. kept' \subseteq FilesIn(disk') \cup moved'
  BY <1>1 DEF KeptApart
<1>6. \A y \in Places : Holds(y)' => y \notin {"staging", "removing"} /\ disk'[y].record = None
  BY <1>1, <1>3 DEF KeptApart
<1>7. QED
  BY <1>3, <1>4, <1>5, <1>6 DEF KeptApart

-----------------------------------------------------------------------------
(* The footing of the command that works.                                  *)

LEMMA DecideChoices ==
    ASSUME TypeOK, NEW p \in Procs, Decide(p)
    PROVE  /\ cmd'[p].pc \in {"idle", "done", "markRemoval", "stage"}
           /\ cmd'[p].pc = "markRemoval" =>
                 /\ cmd[p].req.op = "uninstall" /\ Verdict(cmd[p].req, FALSE) = "apply"
                 /\ cmd'[p].original = Chain(cmd[p].req.target).original
           /\ cmd'[p].pc = "stage" =>
                 /\ cmd[p].req.op # "uninstall" /\ Verdict(cmd[p].req, FALSE) = "apply"
                 /\ cmd'[p].backup \in BackupNames \cup {None}
                 /\ cmd'[p].backup = None <=> disk["dest"] = None
                 /\ cmd'[p].original = IF cmd[p].req.op = "upgrade"
                                         THEN Chain(cmd[p].req.target).original
                                         ELSE cmd'[p].backup
<1> DEFINE c == cmd[p]
           chain == Chain(c.req.target)
           room == disk["dest"] = None \/ FreeNumbers # {}
           backup == IF disk["dest"] = None THEN None ELSE NextBackup
           verdict == IF Recoverable THEN Verdict(c.req, FALSE) ELSE "refuse"
<1>0. cmd \in [Procs -> Command] /\ c \in Command
  BY DEF TypeOK
<1>1. \/ Go(p, "done") \/ End(p)
      \/ /\ verdict = "apply" /\ c.req.op = "uninstall"
         /\ cmd' = [cmd EXCEPT ![p].pc = "markRemoval", ![p].original = chain.original,
                               ![p].obsolete = chain.obsolete]
      \/ /\ verdict = "apply" /\ c.req.op # "uninstall" /\ room
         /\ cmd' = [cmd EXCEPT ![p].pc = "stage", ![p].backup = backup,
                               ![p].original = IF c.req.op = "upgrade" THEN chain.original
                                                                     ELSE backup]
  BY DEF Decide
<1>2. room => (backup \in BackupNames \cup {None} /\ (backup = None <=> disk["dest"] = None))
  BY FirstFreeName, NoneIsNothing
<1>3. verdict = "apply" => Verdict(c.req, FALSE) = "apply"
  OBVIOUS
<1> HIDE DEF chain, room, backup, verdict
<1>4. CASE Go(p, "done") \/ End(p)
  BY <1>0, <1>4, GoFacts, EndFacts DEF Steps
<1>5. CASE /\ verdict = "apply" /\ c.req.op = "uninstall"
           /\ cmd' = [cmd EXCEPT ![p].pc = "markRemoval", ![p].original = chain.original,
                                 ![p].obsolete = chain.obsolete]
  <2>1. cmd'[p].pc = "markRemoval" /\ cmd'[p].original = chain.original
    BY <1>0, <1>5 DEF Command
  <2>2. QED
    BY <1>3, <1>5, <2>1 DEF chain
<1>6. CASE /\ verdict = "apply" /\ c.req.op # "uninstall" /\ room
           /\ cmd' = [cmd EXCEPT ![p].pc = "stage", ![p].backup = backup,
                                 ![p].original = IF c.req.op = "upgrade" THEN chain.original
                                                                       ELSE backup]
  <2> DEFINE original == IF c.req.op = "upgrade" THEN chain.original ELSE backup
  <2>1. cmd' = [cmd EXCEPT ![p].pc = "stage", ![p].backup = backup,
                           ![p].original = original]
    BY <1>6
  <2> HIDE DEF original
  <2>2. cmd'[p].pc = "stage" /\ cmd'[p].original = original /\ cmd'[p].backup = backup
    BY <1>0, <2>1 DEF Command
  <2>3. QED
    BY <1>2, <1>3, <1>6, <2>2 DEF chain, original
<1>7. QED
  BY <1>1, <1>4, <1>5, <1>6

LEMMA SweepChoices ==
    ASSUME TypeOK, NEW p \in Procs, Sweep(p)
    PROVE  cmd'[p].backup = cmd[p].backup /\ cmd'[p].original = cmd[p].original
<1>0. cmd \in [Procs -> Command] /\ cmd[p] \in Command
  BY DEF TypeOK
<1>1. CASE Go(p, "clear")
  BY <1>0, <1>1, GoFacts DEF Steps
<1>2. ASSUME NEW b \in cmd[p].obsolete, cmd' = [cmd EXCEPT ![p].obsolete = @ \ {b}]
      PROVE  cmd'[p].backup = cmd[p].backup /\ cmd'[p].original = cmd[p].original
  BY <1>0, <1>2 DEF Command
<1>3. QED
  BY <1>1, <1>2 DEF Sweep

LEMMA WorkUnderway ==
    ASSUME TypeOK, NEW p \in Procs, CommandOK(cmd[p]), Underway(cmd[p]), UnderLock(p)
    PROVE  Underway(cmd[p])'
<1>0. cmd \in [Procs -> Command] /\ cmd[p] \in Command /\ disk \in [Places -> Directory \cup {None}]
  BY DEF TypeOK
<1>1. PICK k, o : k = cmd[p].backup /\ o = cmd[p].original
  OBVIOUS
<1>2. ASSUME NEW step \in Steps, Go(p, step), Footing(step, k, o)'
      PROVE  Underway(cmd[p])'
  <2>1. cmd'[p].pc = step /\ cmd'[p].backup = k /\ cmd'[p].original = o
    BY <1>0, <1>1, <1>2, GoFacts
  <2>2. QED
    BY <1>2, <2>1 DEF Underway
<1>3. ASSUME End(p) PROVE Underway(cmd[p])'
  BY <1>0, <1>3, EndFacts DEF Underway, Footing
<1>4. ASSUME NEW x \in Places \ {"staging"}, NEW y \in Places \ {"staging"}, Rename(x, y)
      PROVE  disk'["staging"] = disk["staging"]
  BY <1>0, <1>4, PlacesApart DEF Rename
<1>5. Footing(cmd[p].pc, k, o)
  BY <1>1 DEF Underway
<1> USE <1>0, PlacesApart DEF At
<1>6. CASE Recover(p)
  <2>1. Recoverable => disk["staging"] = None \/ Managed(disk["staging"])
    BY DEF Recoverable, Strays, Owned
  <2>2. ASSUME Recoverable, txn = None, UNCHANGED <<disk, txn>>
        PROVE  Footing("decide", k, o)'
    BY <2>2 DEF Footing
  <2>3. ASSUME Recoverable, UNCHANGED <<disk, txn>> PROVE Footing("redo", k, o)'
    BY <2>1, <2>3 DEF Footing
  <2>4. QED
    BY <1>2, <1>3, <1>6, <2>2, <2>3 DEF Recover, Steps
<1>7. CASE RedoStaged(p)
  <2>1. Footing("redo", k, o) /\ txn.phase = "staged"
    BY <1>5, <1>7 DEF RedoStaged
  <2>2. Footing("redoRestore", k, o)'
    BY DEF Footing
  <2>3. txn.backup # None => txn.backup \in BackupNames
    BY <1>7 DEF RedoStaged, CommandOK, Equipped, Transaction
  <2>4. disk'["staging"] = disk["staging"] => Footing("redoPlace", k, o)'
    BY <1>7, <2>1 DEF RedoStaged, Footing
  <2>5. QED
    BY <1>2, <1>3, <1>4, <1>7, <2>2, <2>3, <2>4 DEF RedoStaged, Steps
<1>8. CASE RedoPlace(p) \/ RedoRemoving(p) \/ RedoRestore(p)
  <2>1. Footing("redoClear", k, o)' /\ Footing("redoRestore", k, o)'
    BY DEF Footing
  <2>2. QED
    BY <1>2, <1>3, <1>8, <2>1 DEF RedoPlace, RedoRemoving, RedoRestore, Steps
<1>9. CASE RedoClear(p)
  <2>1. Footing("done", k, o)' /\ (txn' = None => Footing("decide", k, o)')
    BY DEF Footing
  <2>2. QED
    BY <1>2, <1>3, <1>9, <2>1 DEF RedoClear, Steps
<1>10. CASE Decide(p)
  <2>1. txn' = None /\ disk' = disk
    BY <1>5, <1>10 DEF Decide, Footing
  <2>2. cmd'[p].pc = "markRemoval" => Managed(disk["dest"])
    BY <1>10, DecideChoices, UninstallIsOfOwn DEF Owned
  <2>3. QED
    BY <1>10, <2>1, <2>2, DecideChoices DEF Underway, Footing
<1>11. CASE Stage(p)
  <2>1. Footing("fill", k, o)'
    BY <1>5, <1>11 DEF Stage, Footing
  <2>2. QED
    BY <1>2, <1>3, <1>11, <2>1 DEF Stage, Steps
<1>12. CASE Fill(p)
  <2>1. Footing("unstage", k, o)' /\ txn' = None
    BY <1>5, <1>12 DEF Fill, Footing
  <2>2. ASSUME NEW record \in Record, disk["staging"] # None,
               disk' = [disk EXCEPT !["staging"].record = record, !["staging"].whole = TRUE]
        PROVE  Managed(disk'["staging"])
    <3>1. disk["staging"] \in Directory
      BY <2>2, DirectoryTypes
    <3>2. disk'["staging"] = [disk["staging"] EXCEPT !.record = record, !.whole = TRUE]
      BY <2>2
    <3>3. disk'["staging"] \in Directory /\ disk'["staging"].record = record
      BY <3>1, <3>2 DEF Directory
    <3>4. QED
      BY <3>3, NoneIsNothing DEF Managed
  <2>3. [target |-> cmd[p].req.target, version |-> cmd[p].req.version,
         backup |-> cmd[p].original] \in Record
    <3>1. cmd[p].req \in Requests
      BY <1>12 DEF Fill, CommandOK, Equipped
    <3>2. QED
      BY <3>1, ExecutablesAreVersions DEF Requests, Command, Record
  <2>4. Managed(disk'["staging"]) => Footing("mark", k, o)'
    BY <2>1 DEF Footing
  <2>5. QED
    BY <1>2, <1>12, <2>1, <2>2, <2>3, <2>4 DEF Fill, Steps
<1>13. CASE Mark(p)
  <2>1. Footing("unstage", k, o)'
    BY DEF Footing
  <2>2. txn' = [phase |-> "staged", backup |-> k] =>
           Footing("place", k, o)' /\ Footing("swap", k, o)'
    BY <1>5, <1>13 DEF Mark, Footing
  <2>3. QED
    BY <1>1, <1>2, <1>13, <2>1, <2>2 DEF Mark, Steps
<1>14. CASE Swap(p)
  <2>1. k \in BackupNames
    BY <1>1, <1>14 DEF Swap, CommandOK, Equipped
  <2>2. Footing("unstage", k, o)'
    BY DEF Footing
  <2>3. disk'["staging"] = disk["staging"] =>
           Footing("place", k, o)' /\ Footing("restore", k, o)'
    BY <1>5, <1>14 DEF Swap, Footing
  <2>4. QED
    BY <1>1, <1>2, <1>4, <1>14, <2>1, <2>2, <2>3 DEF Swap, Steps
<1>15. CASE Place(p)
  <2>1. Footing("unstage", k, o)' /\ Footing("settle", k, o)' /\ Footing("restore", k, o)'
    BY <1>5, <1>15 DEF Place, Footing
  <2>2. QED
    BY <1>2, <1>3, <1>15, <2>1 DEF Place, Steps
<1>16. CASE Restore(p) \/ Unstage(p) \/ Untxn(p) \/ Return(p)
  <2>1. Footing("unstage", k, o)' /\ Footing("untxn", k, o)'
    BY DEF Footing
  <2>2. QED
    BY <1>2, <1>3, <1>16, <2>1 DEF Restore, Unstage, Untxn, Return, Steps
<1>17. CASE Settle(p)
  <2>1. Footing("done", k, o)' /\ (txn' = None => Footing("prune", k, o)')
    BY DEF Footing
  <2>2. QED
    BY <1>2, <1>3, <1>17, <2>1 DEF Settle, Steps
<1>18. CASE Prune(p) \/ Clear(p)
  <2>1. Footing("done", k, o)'
    BY DEF Footing
  <2>2. QED
    BY <1>2, <1>3, <1>18, <2>1 DEF Prune, Clear, Steps
<1>19. CASE MarkRemoval(p)
  <2>1. txn' = [phase |-> "removing", backup |-> o] => Footing("displace", k, o)'
    BY <1>5, <1>19 DEF MarkRemoval, Footing
  <2>2. QED
    BY <1>1, <1>2, <1>3, <1>19, <2>1 DEF MarkRemoval, Steps
<1>20. CASE Displace(p) \/ Erase(p) \/ Reinstate(p)
  <2>1. /\ Footing("untxn", k, o)' /\ Footing("erase", k, o)' /\ Footing("reinstate", k, o)'
        /\ Footing("sweep", k, o)'
    BY <1>5, <1>20 DEF Displace, Erase, Reinstate, Footing
  <2>2. QED
    BY <1>2, <1>3, <1>20, <2>1 DEF Displace, Erase, Reinstate, Steps
<1>21. CASE Sweep(p)
  <2>1. Footing("sweep", k, o)' /\ Footing("clear", k, o)'
    BY <1>5, <1>21 DEF Sweep, Footing
  <2>2. QED
    BY <1>1, <1>21, <2>1, SweepMoves, SweepChoices DEF Underway
<1>22. QED
  BY <1>6, <1>7, <1>8, <1>9, <1>10, <1>11, <1>12, <1>13, <1>14, <1>15, <1>16, <1>17,
     <1>18, <1>19, <1>20, <1>21 DEF Work, UnderLock

-----------------------------------------------------------------------------
(* What users do, in the shapes of the directories.                        *)

Shape(x) ==
    /\ disk'[x] = None <=> disk[x] = None
    /\ disk[x] # None => disk'[x].record = disk[x].record

LEMMA WriteShapes ==
    ASSUME TypeOK, NEW x \in Places, NEW c \in Contents, Write(x, c), NEW y \in Places
    PROVE  \/ Shape(y)
           \/ /\ y = "dest" /\ disk["dest"] = None /\ Unmanaged(disk'["dest"])
              /\ excused' = (excused \/ lock # None \/ txn # None)
<1>1. CASE y # x
  BY <1>1, WriteAdds DEF OnlyAt, Shape
<1>2. CASE y = x /\ disk[x] # None
  <2>1. disk[x] \in Directory
    BY <1>2, DirectoryTypes
  <2>2. disk' = [disk EXCEPT ![x].files = @ \cup {c}]
    BY <1>2 DEF Write
  <2>3. disk'[x].record = disk[x].record
    BY <2>1, <2>2 DEF TypeOK, Directory
  <2>4. QED
    BY <1>2, <2>3, WriteAdds DEF Shape
<1>3. CASE y = x /\ disk[x] = None
  <2>1. /\ x = "dest" /\ excused' = (excused \/ lock # None \/ txn # None)
        /\ disk' = [disk EXCEPT ![x] = [record |-> None, whole |-> FALSE, files |-> {c}]]
    BY <1>3 DEF Write
  <2>2. disk'[x].record = None
    BY <2>1 DEF TypeOK
  <2>3. QED
    BY <1>3, <2>1, <2>2, WriteAdds DEF Unmanaged
<1>4. QED
  BY <1>1, <1>2, <1>3

LEMMA HeedShapes ==
    ASSUME TypeOK, NEW x \in Places, Heed(x), NEW y \in Places
    PROVE  \/ Shape(y)
           \/ /\ y = x /\ disk'[x] = None /\ x \in {"dest", "staging", "removing"}
              /\ x = "dest" => excused'
<1>1. CASE y # x
  BY <1>1, HeedMoves DEF OnlyAt, Shape
<1>2. CASE y = x /\ Blocking(x) /\ Delete(x)
  <2>1. disk'[x] = None
    BY <1>2 DEF Delete, TypeOK
  <2>2. x \in {"dest", "staging", "removing"}
    BY <1>2 DEF Blocking, Strays
  <2>3. QED
    BY <1>2, <2>1, <2>2 DEF Heed
<1>3. CASE y = x /\ disk' = [disk EXCEPT ![x].files = {}]
  <2>1. disk[x] \in Directory /\ disk[x] # None
    BY DirectoryTypes DEF Heed
  <2>2. disk'[x] = [disk[x] EXCEPT !.files = {}]
    BY <1>3 DEF TypeOK
  <2>3. disk'[x].record = disk[x].record /\ disk'[x] \in Directory
    BY <2>1, <2>2 DEF Directory
  <2>4. QED
    BY <1>3, <2>1, <2>3, NoneIsNothing DEF Shape
<1>4. QED
  BY <1>1, <1>2, <1>3 DEF Heed

LEMMA OutsideUnderway == ASSUME NEW c, ~Inside(c) PROVE Underway(c) /\ Traces(c)
BY DEF Inside, Underway, Footing, Traces, Trail, Midway

(* What was kept stays apart, and a command stays on its footing.          *)
LEMMA GroundStep ==
    ASSUME IInv, KeptApart, \A p \in Procs : Underway(cmd[p]), [Next]_vars
    PROVE  KeptApart' /\ \A p \in Procs : Underway(cmd[p])'
<1>0. TypeOK /\ LockHeld /\ \A p \in Procs : CommandOK(cmd[p])
  BY DEF IInv
<1>1. \A q \in Procs : ~Inside(cmd'[q]) => Underway(cmd[q])'
  BY DEF Inside, Underway, Footing
<1>2. ASSUME UNCHANGED <<disk, kept, moved>> PROVE KeptApart'
  BY <1>2 DEF KeptApart, Holds, FilesIn
<1>3. ASSUME NEW p \in Procs, OutsideStep(p) \/ Taking(p)
      PROVE  KeptApart' /\ \A q \in Procs : Underway(cmd[q])'
  <2>1. KeptApart' /\ UNCHANGED <<disk, txn>>
    BY <1>2, <1>3 DEF OutsideStep, Taking
  <2>2. Underway(cmd[p])'
    BY <1>1, <1>3 DEF OutsideStep, Taking, Underway, Footing
  <2>3. \A q \in Procs \ {p} : Underway(cmd[q])'
    BY <1>3, <2>1 DEF OutsideStep, Taking, Underway, Footing
  <2>4. QED
    BY <2>1, <2>2, <2>3
<1>4. ASSUME NEW p \in Procs, InsideStep(p), NEW q \in Procs \ {p} PROVE Underway(cmd[q])'
  BY <1>0, <1>1, <1>4 DEF InsideStep, LockHeld
<1>5. ASSUME NEW p \in Procs, UnderLock(p)
      PROVE  KeptApart' /\ \A q \in Procs : Underway(cmd[q])'
  BY <1>0, <1>4, <1>5, WorkMoves, WorkMovesKept, WorkOnHistory, KeptStep, WorkUnderway
<1>6. ASSUME NEW p \in Procs, Dying(p)
      PROVE  KeptApart' /\ \A q \in Procs : Underway(cmd[q])'
  <2>1. KeptApart'
    BY <1>0, <1>6, DyingMovesKept, KeptStep DEF Dying
  <2>2. Underway(cmd[p])'
    BY <1>1, <1>6, IdleType DEF Dying, Ends, Inside
  <2>3. QED
    BY <1>4, <1>6, <2>1, <2>2 DEF Dying
<1>7. ASSUME NEW x \in Places, NEW c \in Contents, Write(x, c)
      PROVE  KeptApart' /\ \A q \in Procs : Underway(cmd[q])'
  <2>1. cmd' = cmd /\ txn' = txn
    BY <1>7 DEF Write
  <2>2. Shape("staging") /\ (disk["dest"] # None => Shape("dest"))
    BY <1>0, <1>7, WriteShapes, PlacesApart
  <2>3. QED
    BY <1>0, <1>7, <2>1, <2>2, WriteKeepsApart DEF Shape, Managed, Underway, Footing
<1>8. ASSUME NEW x \in Places, Heed(x)
      PROVE  KeptApart' /\ \A q \in Procs : Underway(cmd[q])'
  <2>1. cmd' = cmd /\ \A q \in Procs : ~Inside(cmd[q])
    BY <1>0, <1>8, NoneIsNothing DEF Heed, LockHeld
  <2>2. QED
    BY <1>0, <1>1, <1>8, <2>1, HeedKeepsApart
<1>9. CASE UNCHANGED vars
  BY <1>2, <1>9 DEF vars, Underway, Footing
<1>10. QED
  BY <1>0, <1>3, <1>5, <1>6, <1>7, <1>8, <1>9, StepCases

-----------------------------------------------------------------------------
(* Where the records lead, before and after a step.                        *)

\* Nothing changed between the destination and the backups but content that
\* was not kept.
Steady ==
    /\ \A x \in {"dest"} \cup BackupNames : Shape(x)
    /\ Holders' = Holders

LEMMA SteadyLeads ==
    ASSUME Steady, NEW x \in {"dest"} \cup BackupNames, NEW b
    PROVE  LeadsBack(x, b)' <=> LeadsBack(x, b)
<1>1. \A y \in {"dest"} \cup BackupNames :
         /\ Managed(disk'[y]) <=> Managed(disk[y])
         /\ Managed(disk[y]) => disk'[y].record = disk[y].record
  BY DEF Steady, Shape, Managed
<1>2. ASSUME NEW T \in SUBSET (BackupNames \ {x}), NEW first
      PROVE  Path(T, first, b)' <=> Path(T, first, b)
  BY <1>1 DEF Path
<1>3. CASE Managed(disk[x])
  <2>1. Managed(disk'[x]) /\ disk'[x].record.backup = disk[x].record.backup
    BY <1>1, <1>3
  <2>2. PICK r : r = disk[x].record.backup
    OBVIOUS
  <2>3. \A T \in SUBSET (BackupNames \ {x}) : Path(T, r, b)' <=> Path(T, r, b)
    BY <1>2
  <2>4. QED
    BY <1>3, <2>1, <2>2, <2>3 DEF LeadsBack
<1>4. CASE ~Managed(disk[x])
  BY <1>1, <1>4 DEF LeadsBack
<1>5. QED
  BY <1>3, <1>4

LEMMA SteadyInstalled ==
    ASSUME Steady, AllInstalled
    PROVE  AllInstalled'
BY SteadyLeads DEF Steady, AllInstalled, Installed

LEMMA SteadyTracks ==
    ASSUME Steady, OnTrack, txn' = txn
    PROVE  OnTrack'
<1> SUFFICES ASSUME NEW b \in Holders' PROVE (Installed(b) \/ Swapped(b) \/ Removed(b))'
  BY DEF OnTrack
<1>1. b \in Holders
  BY DEF Steady
<1>2. disk'["dest"] = None <=> disk["dest"] = None
  BY DEF Steady, Shape
<1>3. CASE Installed(b)
  BY <1>3, SteadyLeads DEF Installed
<1>4. CASE Removed(b)
  BY <1>2, <1>4 DEF Removed, Displaced
<1>5. CASE Swapped(b)
  <2>1. PICK k \in BackupNames : k = txn.backup
    BY <1>5 DEF Swapped
  <2>2. LeadsBack(k, b)' <=> LeadsBack(k, b)
    BY SteadyLeads
  <2>3. QED
    BY <1>2, <1>5, <2>1, <2>2 DEF Swapped, Displaced
<1>6. QED
  BY <1>1, <1>3, <1>4, <1>5 DEF OnTrack

LEMMA SteadyAlike ==
    ASSUME Steady, NEW x \in {"dest"} \cup BackupNames, NEW record, NEW backup,
           LeadsAlike(disk[x], record, backup)
    PROVE  LeadsAlike(disk[x], record, backup)'
BY DEF Steady, Shape, LeadsAlike, Managed, Unmanaged

LEMMA SteadyStaged ==
    ASSUME TypeOK, Steady, StagedRight, txn' = txn,
           Managed(disk'["staging"]) =>
              /\ Managed(disk["staging"])
              /\ disk'["staging"].record = disk["staging"].record
    PROVE  StagedRight'
<1> SUFFICES ASSUME txn # None, txn.phase = "staged", Managed(disk'["staging"])
             PROVE  StagedRight'
  BY DEF StagedRight
<1>1. PICK r, k : r = disk["staging"].record /\ k = txn.backup
  OBVIOUS
<1>2. disk'["staging"].record = r /\ k \in BackupNames \cup {None}
  BY <1>1 DEF TypeOK, Transaction
<1>3. disk'["dest"] = None <=> disk["dest"] = None
  BY DEF Steady, Shape
<1>4. disk["dest"] # None => LeadsAlike(disk["dest"], r, k)'
  BY <1>1, SteadyAlike DEF StagedRight
<1>5. (disk["dest"] = None /\ k # None) => LeadsAlike(disk[k], r, k)'
  BY <1>1, <1>2, SteadyAlike DEF StagedRight
<1>6. QED
  BY <1>1, <1>2, <1>3, <1>4, <1>5 DEF StagedRight

(* Where the originals are, by where the package is.                       *)
LEMMA TrackCases ==
    ASSUME OnTrack
    PROVE  /\ disk["dest"] # None \/ txn = None => AllInstalled
           /\ (disk["dest"] = None /\ txn # None /\ txn.phase = "staged") =>
                 \A b \in Holders : Swapped(b)
           /\ (disk["dest"] = None /\ txn # None /\ txn.phase = "removing") =>
                 Holders \subseteq {txn.backup}
           /\ disk["dest"] = None /\ AllInstalled => Holders = {}
BY DEF OnTrack, AllInstalled, Installed, LeadsBack, Managed, Swapped, Removed, Displaced

LEMMA DirectInstalled ==
    ASSUME Managed(disk["dest"]), Holders \subseteq {disk["dest"].record.backup}
    PROVE  AllInstalled
<1> SUFFICES ASSUME NEW b \in Holders PROVE LeadsBack("dest", b)
  BY DEF AllInstalled, Installed
<1>1. Path({}, disk["dest"].record.backup, b)
  BY DEF Path
<1>2. QED
  BY <1>1 DEF LeadsBack

(* Displacing the package into a backup.                                   *)
LEMMA SwapTracks ==
    ASSUME TypeOK, KeptApart, AllInstalled, StagedRight, NEW k \in BackupNames,
           Rename("dest", k), KeepOriginal, txn # None, txn.phase = "staged",
           txn.backup = k, txn' = txn, moved' = moved
    PROVE  OnTrack' /\ StagedRight'
<1>0. "dest" \in Places /\ k \in Places /\ "staging" \in Places
      /\ k \notin {"dest", "staging", "removing", None}
  BY PlacesApart
<1>1. /\ \A x \in Places \ {"dest", k} : disk'[x] = disk[x]
      /\ disk'["dest"] = None /\ disk'[k] = disk["dest"]
      /\ disk["dest"] # None /\ disk[k] = None
  BY <1>0, RenameKeepsFiles DEF Rename
<1>2. \A x \in BackupNames \ {k} : Holds(x)' <=> Holds(x)
  BY <1>0, RenameKeepsApart, PlacesApart DEF KeepOriginal
<1>3. k \notin Holders
  BY <1>1 DEF Holders, Holds
<1>4. CASE Unmanaged(disk["dest"])
  <2>1. Holders = {}
    BY <1>4 DEF AllInstalled, Installed, LeadsBack, Managed, Unmanaged
  <2>2. Holders' \subseteq {k}
    BY <1>2, <2>1 DEF Holders
  <2>3. \A b \in Holders' : Swapped(b)'
    BY <1>1, <2>2 DEF Swapped, Displaced
  <2>4. StagedRight'
    <3>1. disk'["staging"] = disk["staging"]
      BY <1>0, <1>1
    <3>2. Unmanaged(disk'[k]) /\ ~Managed(disk'[k])
      BY <1>1, <1>4 DEF Unmanaged, Managed
    <3>3. QED
      BY <1>0, <1>1, <1>4, <3>1, <3>2 DEF StagedRight, LeadsAlike
  <2>5. QED
    BY <2>3, <2>4 DEF OnTrack
<1>5. CASE Managed(disk["dest"])
  <2>1. kept' = kept
    BY <1>5 DEF KeepOriginal, Managed, Unmanaged
  <2>2. ~Holds("dest")
    BY <1>0, <1>5 DEF KeptApart, Managed
  <2>3. Holders' = Holders
    <3>1. Holds(k)' <=> Holds("dest")
      BY <1>0, <2>1, RenameKeepsApart
    <3>2. QED
      BY <1>2, <1>3, <2>2, <3>1 DEF Holders
  <2>4. ASSUME NEW b \in Holders PROVE Swapped(b)'
    <3>1. PICK T \in SUBSET (BackupNames \ {"dest"}) : Path(T, disk["dest"].record.backup, b)
      BY DEF AllInstalled, Installed, LeadsBack
    <3>2. k \notin T
      BY <1>1, <3>1 DEF Path, Managed
    <3>3. \A x \in T : disk'[x] = disk[x]
      BY <1>0, <1>1, <3>2, PlacesApart
    <3>4. PICK r : r = disk["dest"].record.backup
      OBVIOUS
    <3>5. Path(T, r, b)'
      BY <3>1, <3>3, <3>4 DEF Path
    <3>6. Managed(disk'[k]) /\ disk'[k].record.backup = r
      BY <1>1, <1>5, <3>4
    <3>7. LeadsBack(k, b)'
      BY <3>2, <3>5, <3>6 DEF LeadsBack
    <3>8. QED
      BY <1>1, <3>7 DEF Swapped, Displaced
  <2>5. StagedRight'
    <3>1. disk'["staging"] = disk["staging"]
      BY <1>0, <1>1
    <3>2. Managed(disk'[k]) /\ ~Unmanaged(disk'[k])
      BY <1>1, <1>5 DEF Unmanaged, Managed
    <3>3. QED
      BY <1>0, <1>1, <1>5, <2>3, <3>1, <3>2 DEF StagedRight, LeadsAlike
  <2>6. QED
    BY <2>3, <2>4, <2>5 DEF OnTrack
<1>6. QED
  BY <1>1, <1>4, <1>5 DEF Managed, Unmanaged

(* Moving the staged package in.                                           *)
LEMMA PlaceTracks ==
    ASSUME TypeOK, KeptApart, OnTrack, StagedRight, Rename("staging", "dest"),
           Managed(disk["staging"]), txn # None, txn.phase = "staged",
           UNCHANGED <<kept, moved, txn>>
    PROVE  /\ Managed(disk'["dest"]) /\ Holders' \subseteq {disk'["dest"].record.backup}
           /\ AllInstalled' /\ StagedRight'
<1>0. {"dest", "staging"} \subseteq Places
  BY PlacesApart
<1>1. /\ \A x \in Places \ {"dest", "staging"} : disk'[x] = disk[x]
      /\ disk'["staging"] = None /\ disk'["dest"] = disk["staging"]
      /\ disk["dest"] = None
  BY <1>0, RenameKeepsFiles DEF Rename
<1>2. Holders' = Holders
  BY <1>0, RenameKeepsApart, PlacesApart DEF Holders
<1>3. \A b \in Holders : Swapped(b)
  BY <1>1, TrackCases
<1>4. ASSUME NEW b \in Holders PROVE b = disk["staging"].record.backup
  <2>1. txn.backup \in BackupNames /\ (txn.backup = b \/ LeadsBack(txn.backup, b))
    BY <1>3 DEF Swapped
  <2>2. LeadsAlike(disk[txn.backup], disk["staging"].record, txn.backup)
    BY <1>1, <2>1, NoneIsNothing DEF StagedRight
  <2>3. CASE Managed(disk[txn.backup])
    BY <2>2, <2>3 DEF LeadsAlike
  <2>4. CASE ~Managed(disk[txn.backup])
    <3>1. txn.backup = b
      BY <2>1, <2>4 DEF LeadsBack
    <3>2. Unmanaged(disk[txn.backup])
      BY <2>4, <3>1 DEF Holders, Holds, Managed, Unmanaged
    <3>3. QED
      BY <2>2, <3>1, <3>2 DEF LeadsAlike
  <2>5. QED
    BY <2>3, <2>4
<1>5. Managed(disk'["dest"]) /\ Holders' \subseteq {disk'["dest"].record.backup}
  BY <1>1, <1>2, <1>4
<1>6. AllInstalled'
  <2>1. ASSUME NEW b \in Holders' PROVE LeadsBack("dest", b)'
    <3>1. PICK r : r = disk'["dest"].record.backup
      OBVIOUS
    <3>2. Path({}, r, b)'
      BY <1>5, <2>1, <3>1 DEF Path
    <3>3. QED
      BY <1>5, <3>1, <3>2 DEF LeadsBack
  <2>2. QED
    BY <2>1 DEF AllInstalled, Installed
<1>7. StagedRight'
  BY <1>1 DEF StagedRight, Managed
<1>8. QED
  BY <1>5, <1>6, <1>7

(* Putting back what an installation displaced.                            *)
LEMMA RestoreTracks ==
    ASSUME TypeOK, KeptApart, OnTrack, StagedRight, NEW k \in BackupNames,
           Rename(k, "dest"), txn # None, txn.phase = "staged", txn.backup = k,
           UNCHANGED <<kept, moved, txn>>
    PROVE  AllInstalled' /\ StagedRight'
<1>0. "dest" \in Places /\ k \in Places /\ "staging" \in Places
      /\ k \notin {"dest", "staging", "removing", None}
  BY PlacesApart
<1>1. /\ \A x \in Places \ {"dest", k} : disk'[x] = disk[x]
      /\ disk'[k] = None /\ disk'["dest"] = disk[k]
      /\ disk["dest"] = None /\ disk[k] # None
  <2>1. disk["dest"] = None /\ disk[k] # None
    BY DEF Rename
  <2>2. QED
    BY <1>0, <2>1, RenameKeepsFiles
<1>2. Holders' = Holders \ {k}
  <2>1. ~Holds(k)' /\ \A x \in BackupNames \ {k} : Holds(x)' <=> Holds(x)
    BY <1>0, RenameKeepsApart, PlacesApart
  <2>2. QED
    BY <2>1 DEF Holders
<1>3. \A b \in Holders : Swapped(b)
  BY <1>1, TrackCases
<1>4. ASSUME NEW b \in Holders \ {k} PROVE LeadsBack("dest", b)'
  <2>1. LeadsBack(k, b)
    BY <1>3 DEF Swapped
  <2>2. PICK T \in SUBSET (BackupNames \ {k}) : Path(T, disk[k].record.backup, b)
    BY <2>1 DEF LeadsBack
  <2>3. \A x \in T : disk'[x] = disk[x]
    BY <1>0, <1>1, PlacesApart
  <2>4. PICK r : r = disk[k].record.backup
    OBVIOUS
  <2>5. Path(T, r, b)'
    BY <2>2, <2>3, <2>4 DEF Path
  <2>6. Managed(disk'["dest"]) /\ disk'["dest"].record.backup = r
    BY <1>1, <2>1, <2>4 DEF LeadsBack
  <2>7. T \in SUBSET (BackupNames \ {"dest"})
    BY PlacesApart
  <2>8. QED
    BY <2>5, <2>6, <2>7 DEF LeadsBack
<1>5. AllInstalled'
  BY <1>2, <1>4 DEF AllInstalled, Installed
<1>6. StagedRight'
  <2>1. disk'["staging"] = disk["staging"] /\ k # None
    BY <1>0, <1>1
  <2>2. Holders' \subseteq Holders
    BY <1>2
  <2>3. QED
    BY <1>1, <2>1, <2>2 DEF StagedRight, LeadsAlike
<1>7. QED
  BY <1>5, <1>6

(* Where the records lead to an original, the chain that upgrade and       *)
(* uninstall follow finds it: a package the chain must not delete stops it *)
(* with a conflict, and nothing else is at its end.                        *)
LEMMA ChainFindsIt ==
    ASSUME TypeOK, NEW b \in BackupNames, Unmanaged(disk[b]), Installed(b),
           NEW target, Chain(target).ok
    PROVE  Chain(target).original = b
<1> DEFINE first == IF Managed(disk["dest"]) THEN disk["dest"].record.backup ELSE None
           ahead(S) == ({first} \cup {disk[x].record.backup : x \in S}) \ {None}
           packages == {x \in BackupNames : Owned(disk[x]) /\ disk[x].record.target = target}
           obsolete == {x \in packages :
                           \A S \in SUBSET packages :
                               ahead(S) \cap packages \subseteq S => x \in S}
           ends == ahead(obsolete) \ obsolete
           originals == {x \in ends : Unmanaged(disk[x])}
<1>1. PICK T \in SUBSET (BackupNames \ {"dest"}) : Path(T, disk["dest"].record.backup, b)
  BY DEF Installed, LeadsBack
<1>2. /\ \A x \in T : Managed(disk[x]) /\ disk[x].record.backup \in T \cup {b}
      /\ first \in T \cup {b} /\ b \notin T
  BY <1>1 DEF Path, Installed, LeadsBack
<1>3. None \notin T \cup {b} /\ first # None
  BY <1>2, NoneIsNothing
<1>4. ~Managed(disk[b]) /\ b \notin packages
  BY DEF Unmanaged, Managed, Owned
<1>5. \A x \in packages : Managed(disk[x])
  BY DEF Owned
<1>6. Chain(target).ok = (\/ first = None
                          \/ \E x \in obsolete : disk[x].record.backup = None
                          \/ \E x \in ends : ~Managed(disk[x]))
  BY DEF Chain
<1>7. Chain(target).original = IF originals = {} THEN None
                               ELSE CHOOSE x \in originals : TRUE
  BY DEF Chain
<1>8. obsolete \subseteq T
  <2> DEFINE S == packages \cap T
  <2>1. S \in SUBSET packages
    OBVIOUS
  <2>2. ahead(S) \subseteq T \cup {b}
    BY <1>2
  <2>3. ahead(S) \cap packages \subseteq S
    BY <1>4, <2>2
  <2>4. QED
    BY <2>1, <2>3
<1>9. ends \subseteq T \cup {b}
  BY <1>2, <1>8
<1> HIDE DEF obsolete, ends, first
<1>10. ~\E x \in obsolete : disk[x].record.backup = None
  BY <1>2, <1>3, <1>8
<1>11. b \in ends
  BY <1>2, <1>3, <1>6, <1>9, <1>10
<1>12. originals = {b}
  BY <1>2, <1>9, <1>11 DEF Managed, Unmanaged
<1>13. QED
  BY <1>7, <1>12

-----------------------------------------------------------------------------
(* A command never loses the way to an original.                           *)

LEMMA CalmIsSteady == ASSUME UNCHANGED <<disk, kept>> PROVE Steady
BY DEF Steady, Shape, Holders, Holds

LEMMA AsideIsSteady ==
    ASSUME NEW x \in {"staging", "removing"}, OnlyAt(x), UNCHANGED kept
    PROVE  Steady
<1>1. \A y \in {"dest"} \cup BackupNames : disk'[y] = disk[y]
  BY PlacesApart DEF OnlyAt
<1>2. \A y \in BackupNames : Holds(y)' <=> Holds(y)
  BY <1>1 DEF Holds
<1>3. Holders' = Holders
  BY <1>2 DEF Holders
<1>4. QED
  BY <1>1, <1>3 DEF Steady, Shape

(* What an installation or an upgrade that goes ahead writes into the      *)
(* record of the new package, and what an uninstall gives back.            *)
LEMMA DecideLeads ==
    ASSUME TypeOK, KeptApart, AllInstalled, NEW req \in Requests, Verdict(req, FALSE) = "apply"
    PROVE  /\ req.op # "install" => Holders \subseteq {Chain(req.target).original}
           /\ req.op = "install" => ~Managed(disk["dest"])
           /\ req.op = "upgrade" => Managed(disk["dest"])
<1>1. req.op \in Ops
  BY DEF Requests
<1>2. req.op = "install" => StateFor(req.target, req.version) \in {"absent", "unmanaged"}
  BY DEF Verdict
<1>3. req.op # "install" => /\ StateFor(req.target, req.version) \in {"absent", "current", "outdated"}
                            /\ \/ StateFor(req.target, req.version) = "absent"
                               \/ Chain(req.target).ok
  BY <1>1 DEF Verdict, Ops
<1>4. req.op # "install" => StateFor(req.target, req.version) # "absent"
  BY <1>1 DEF Verdict, Ops
<1>5. \A b \in Holders : b \in BackupNames /\ Unmanaged(disk[b])
  BY PlacesApart DEF Holders, Holds, KeptApart, Unmanaged
<1>6. req.op # "install" => Holders \subseteq {Chain(req.target).original}
  BY <1>3, <1>4, <1>5, ChainFindsIt DEF AllInstalled
<1>7. StateFor(req.target, req.version) \in {"absent", "unmanaged"} => ~Managed(disk["dest"])
  BY DEF StateFor, Absent, Unmanaged, Managed, Owned
<1>8. StateFor(req.target, req.version) \in {"current", "outdated"} => Managed(disk["dest"])
  BY DEF StateFor, Absent, Unmanaged, Managed, Owned
<1>9. QED
  BY <1>1, <1>2, <1>3, <1>4, <1>6, <1>7, <1>8 DEF Ops

LEMMA DecideTraces ==
    ASSUME TypeOK, KeptApart, AllInstalled, NEW p \in Procs, CommandOK(cmd[p]), Decide(p)
    PROVE  Traces(cmd[p])'
<1>1. UNCHANGED <<disk, kept>>
  BY DEF Decide
<1>2. Holders' = Holders /\ AllInstalled'
  BY <1>1, CalmIsSteady, SteadyInstalled DEF Steady
<1>3. cmd[p].req \in Requests
  BY DEF Decide, At, CommandOK, Equipped
<1>4. PICK k, o, step : k = cmd'[p].backup /\ o = cmd'[p].original /\ step = cmd'[p].pc
  OBVIOUS
<1>5. step = "markRemoval" => Holders \subseteq {o}
  BY <1>3, <1>4, DecideChoices, DecideLeads
<1>6. step = "stage" => /\ disk["dest"] = None <=> k = None
                        /\ LeadsAlike(disk["dest"], [backup |-> o], k)
  <2> SUFFICES ASSUME step = "stage"
               PROVE  /\ disk["dest"] = None <=> k = None
                      /\ LeadsAlike(disk["dest"], [backup |-> o], k)
    OBVIOUS
  <2>1. /\ cmd[p].req.op # "uninstall" /\ Verdict(cmd[p].req, FALSE) = "apply"
        /\ k = None <=> disk["dest"] = None
        /\ o = IF cmd[p].req.op = "upgrade" THEN Chain(cmd[p].req.target).original ELSE k
    BY <1>4, DecideChoices
  <2>2. CASE cmd[p].req.op = "upgrade"
    BY <1>3, <2>1, <2>2, DecideLeads DEF LeadsAlike, Managed, Unmanaged
  <2>3. CASE cmd[p].req.op = "install"
    BY <1>3, <2>1, <2>3, DecideLeads DEF LeadsAlike
  <2>4. QED
    BY <1>3, <2>1, <2>2, <2>3 DEF Requests, Ops
<1>7. step \in {"idle", "done", "markRemoval", "stage"}
  BY <1>4, DecideChoices
<1>8. Trail(step, k, o)'
  BY <1>1, <1>2, <1>5, <1>6, <1>7 DEF Trail, LeadsAlike, Managed, Unmanaged
<1>9. QED
  BY <1>4, <1>8 DEF Traces

(* A package of Memoria's that is deleted holds nothing, and it leads to   *)
(* nothing where the installed package leads there directly.               *)
LEMMA TrimmedOwned ==
    ASSUME TypeOK, NEW b \in BackupNames, Owned(disk[b]), Trimmed(b), UNCHANGED kept
    PROVE  /\ Holders' = Holders
           /\ (Managed(disk["dest"]) /\ Holders \subseteq {disk["dest"].record.backup})
                 => AllInstalled'
<1>1. disk'["dest"] = disk["dest"] /\ \A y \in BackupNames \ {b} : disk'[y] = disk[y]
  BY PlacesApart DEF Trimmed, OnlyAt
<1>2. ~Holds(b) /\ ~Holds(b)' /\ \A y \in BackupNames \ {b} : Holds(y)' <=> Holds(y)
  BY <1>1 DEF Owned, Holds, Trimmed
<1>3. Holders' = Holders
  BY <1>2 DEF Holders
<1>4. ASSUME Managed(disk["dest"]), Holders \subseteq {disk["dest"].record.backup},
             NEW y \in Holders'
      PROVE  LeadsBack("dest", y)'
  <2>1. PICK r : r = disk["dest"].record.backup
    OBVIOUS
  <2>2. Path({}, r, y)'
    BY <1>3, <1>4, <2>1 DEF Path
  <2>3. QED
    BY <1>1, <1>4, <2>1, <2>2 DEF LeadsBack
<1>5. QED
  BY <1>3, <1>4 DEF AllInstalled, Installed

LEMMA WorkTraces ==
    ASSUME TypeOK, KeptApart, NEW p \in Procs, CommandOK(cmd[p]), Underway(cmd[p]),
           UnderLock(p), OnTrack, StagedRight, Traces(cmd[p])
    PROVE  excused' \/ (OnTrack' /\ StagedRight' /\ Traces(cmd[p])')
<1>0. /\ cmd \in [Procs -> Command] /\ cmd[p] \in Command
      /\ disk \in [Places -> Directory \cup {None}]
      /\ txn \in Transaction \cup {None} /\ moved' = moved
  BY WorkOnHistory DEF TypeOK
<1> DEFINE Goal == excused' \/ (OnTrack' /\ StagedRight' /\ Traces(cmd[p])')
           Tracked == OnTrack' /\ StagedRight'
<1> SUFFICES Goal
  OBVIOUS
<1>1. PICK k, o : k = cmd[p].backup /\ o = cmd[p].original
  OBVIOUS
<1>2. ASSUME NEW step \in Steps, Go(p, step), Tracked, Trail(step, k, o)'
      PROVE  Goal
  <2>1. cmd'[p].pc = step /\ cmd'[p].backup = k /\ cmd'[p].original = o
    BY <1>0, <1>1, <1>2, GoFacts
  <2>2. QED
    BY <1>2, <2>1 DEF Traces
<1>3. ASSUME End(p), Tracked PROVE Goal
  BY <1>0, <1>3, EndFacts DEF Traces, Trail, Midway
<1>4. ASSUME Steady, txn' = txn,
             Managed(disk'["staging"]) =>
                /\ Managed(disk["staging"])
                /\ disk'["staging"].record = disk["staging"].record
      PROVE  Tracked
  BY <1>4, SteadyTracks, SteadyStaged
<1>5. ASSUME UNCHANGED <<disk, kept>>
      PROVE  Steady /\ Holders' = Holders /\ (txn' = txn => Tracked)
  BY <1>4, <1>5, CalmIsSteady DEF Steady
<1>6. AllInstalled' => OnTrack'
  BY DEF AllInstalled, OnTrack
<1>7. ASSUME Steady, AllInstalled PROVE AllInstalled' /\ OnTrack'
  BY <1>6, <1>7, SteadyInstalled
<1>8. txn' = None \/ txn'.phase = "removing" => StagedRight'
  BY DEF StagedRight
<1>9. ASSUME NEW step \in Midway \ {"erase", "reinstate"} PROVE Trail(step, k, o)'
  BY <1>9 DEF Trail, Midway
<1>10. ASSUME AllInstalled',
              NEW step \in {"redoClear", "decide", "unstage", "untxn", "done", "swap"}
       PROVE  Trail(step, k, o)'
  BY <1>10 DEF Trail
<1>11. Footing(cmd[p].pc, k, o) /\ Trail(cmd[p].pc, k, o)
  BY <1>1 DEF Underway, Traces
<1>12. cmd[p].pc \in {"redo", "redoPlace", "redoRestore", "redoClear"} =>
          /\ txn # None /\ txn.phase \in {"staged", "removing"}
          /\ txn.backup \in BackupNames \cup {None}
  BY NoneIsNothing DEF CommandOK, Equipped, Transaction
<1>12a. /\ [phase |-> "staged", backup |-> k] # None
       /\ [phase |-> "removing", backup |-> o] # None
  <2>1. k \in BackupNames \cup {None} /\ o \in BackupNames \cup {None}
    BY <1>0, <1>1 DEF Command
  <2>2. /\ [phase |-> "staged", backup |-> k] \in Transaction
        /\ [phase |-> "removing", backup |-> o] \in Transaction
    BY <2>1 DEF Transaction
  <2>3. QED
    BY <2>2, NoneIsNothing
<1> USE <1>0, PlacesApart DEF At, NotRenamed
<1> HIDE DEF Goal, Tracked
<1>13. CASE Recover(p)
  <2>1. UNCHANGED <<disk, kept, txn>>
    BY <1>13 DEF Recover
  <2>2. Tracked /\ (txn = None => AllInstalled')
    BY <1>5, <1>7, <2>1, TrackCases
  <2>3. QED
    BY <1>2, <1>3, <1>9, <1>10, <1>13, <2>2 DEF Recover, Steps, Midway
<1>14. CASE RedoStaged(p)
  <2>1. txn # None /\ txn.phase = "staged" /\ txn.backup \in BackupNames \cup {None}
        /\ txn' = txn
    BY <1>12, <1>14 DEF RedoStaged
  <2>2. \/ UNCHANGED <<disk, kept>>
        \/ txn.backup # None /\ Rename("dest", txn.backup) /\ KeepOriginal
    BY <1>14 DEF RedoStaged
  <2>3. Go(p, "redoRestore") \/ Go(p, "redoPlace") \/ End(p)
    BY <1>14 DEF RedoStaged
  <2>4. Tracked
    <3>1. CASE UNCHANGED <<disk, kept>>
      BY <1>5, <2>1, <3>1
    <3>2. CASE txn.backup # None /\ Rename("dest", txn.backup) /\ KeepOriginal
      <4>1. PICK b \in BackupNames : b = txn.backup
        BY <2>1, <3>2
      <4>2. AllInstalled
        BY <3>2, TrackCases DEF Rename
      <4>3. QED
        BY <2>1, <3>2, <4>1, <4>2, SwapTracks DEF Tracked
    <3>3. QED
      BY <2>2, <3>1, <3>2
  <2>5. QED
    BY <1>2, <1>3, <1>9, <2>3, <2>4 DEF Steps, Midway
<1>15. CASE RedoPlace(p)
  <2>1. /\ txn # None /\ txn.phase = "staged" /\ UNCHANGED <<txn, kept>>
        /\ disk["staging"] = None \/ Managed(disk["staging"])
    BY <1>11, <1>12, <1>15 DEF RedoPlace, Footing
  <2>2. CASE Rename("staging", "dest")
    <3>1. AllInstalled' /\ StagedRight'
      BY <2>1, <2>2, PlaceTracks DEF Rename
    <3>2. QED
      BY <1>2, <1>3, <1>6, <1>10, <1>15, <3>1 DEF RedoPlace, Steps, Tracked
  <2>3. CASE UNCHANGED disk /\ End(p)
    BY <1>3, <1>5, <2>1, <2>3
  <2>4. QED
    BY <1>15, <2>2, <2>3 DEF RedoPlace
<1>16. CASE RedoRemoving(p)
  <2>1. txn' = txn /\ kept' = kept /\ txn.phase = "removing"
    BY <1>16 DEF RedoRemoving
  <2>2. Steady
    BY <1>16, <2>1, CalmIsSteady, AsideIsSteady, DeletionIsLocal DEF RedoRemoving
  <2>3. Tracked
    BY <1>8, <2>1, <2>2, SteadyTracks DEF Tracked
  <2>4. QED
    BY <1>2, <1>3, <1>9, <1>16, <2>3 DEF RedoRemoving, Steps, Midway
<1>17. CASE RedoRestore(p)
  <2>0. /\ txn # None /\ txn.phase \in {"staged", "removing"}
        /\ txn.backup \in BackupNames \cup {None} /\ UNCHANGED <<txn, kept>>
    BY <1>12, <1>17 DEF RedoRestore
  <2>1. CASE /\ ~(disk["dest"] = None /\ txn.backup # None /\ disk[txn.backup] # None)
             /\ UNCHANGED disk /\ Go(p, "redoClear")
    <3>1. AllInstalled
      <4>1. CASE disk["dest"] # None
        BY <4>1, TrackCases
      <4>2. CASE disk["dest"] = None
        <5>1. ASSUME NEW b \in Holders PROVE FALSE
          <6>1. txn.backup # None /\ (txn.backup = b \/ LeadsBack(txn.backup, b))
            BY <2>0, <4>2, NoneIsNothing, TrackCases DEF Swapped, Holders
          <6>2. disk[txn.backup] = None
            BY <2>1, <4>2, <6>1
          <6>3. QED
            BY <6>1, <6>2 DEF LeadsBack, Managed, Holders, Holds
        <5>2. QED
          BY <5>1 DEF AllInstalled
      <4>3. QED
        BY <4>1, <4>2
    <3>2. QED
      BY <1>2, <1>5, <1>7, <1>10, <2>0, <2>1, <3>1 DEF Steps
  <2>2. CASE /\ txn.backup # None /\ Rename(txn.backup, "dest")
             /\ Go(p, "redoClear") \/ End(p)
    <3>1. PICK b \in BackupNames : b = txn.backup
      BY <2>0, <2>2
    <3>2. AllInstalled' /\ StagedRight'
      <4>1. CASE txn.phase = "staged"
        BY <2>0, <2>2, <3>1, <4>1, RestoreTracks
      <4>2. CASE txn.phase = "removing"
        <5>1. disk["dest"] = None
          BY <2>2 DEF Rename
        <5>2. Holders \subseteq {b}
          BY <2>0, <3>1, <4>2, <5>1, TrackCases
        <5>3. Holders' = {}
          BY <2>0, <2>2, <3>1, <5>2, RenameKeepsApart DEF Holders
        <5>4. QED
          BY <1>8, <2>0, <4>2, <5>3 DEF AllInstalled
      <4>3. QED
        BY <2>0, <4>1, <4>2
    <3>3. QED
      BY <1>2, <1>3, <1>6, <1>10, <2>2, <3>2 DEF Steps, Tracked
  <2>3. CASE UNCHANGED disk /\ End(p)
    BY <1>3, <1>5, <2>0, <2>3
  <2>4. QED
    BY <1>17, <2>1, <2>2, <2>3 DEF RedoRestore
<1>18. CASE RedoClear(p)
  <2>1. UNCHANGED <<disk, kept>> /\ AllInstalled /\ txn' \in {txn, None}
    BY <1>11, <1>18 DEF RedoClear, Trail, Midway
  <2>2. Tracked /\ AllInstalled'
    BY <1>5, <1>7, <1>8, <2>1 DEF Tracked
  <2>3. QED
    BY <1>2, <1>3, <1>10, <1>18, <2>2 DEF RedoClear, Steps
<1>19. CASE Decide(p)
  <2>1. UNCHANGED <<disk, kept, txn>> /\ AllInstalled
    BY <1>11, <1>19 DEF Decide, Trail, Midway
  <2>2. QED
    BY <1>5, <1>19, <2>1, DecideTraces DEF Goal, Tracked
<1>20. CASE Stage(p)
  <2>1. /\ txn = None /\ UNCHANGED <<txn, kept>> /\ AllInstalled
        /\ disk["dest"] = None <=> k = None
        /\ LeadsAlike(disk["dest"], [backup |-> o], k)
    BY <1>11, <1>20 DEF Stage, Footing, Trail, Midway
  <2>2. \/ UNCHANGED disk /\ End(p)
        \/ /\ OnlyAt("staging")
           /\ Go(p, "fill")
    <3>1. [record |-> None, whole |-> FALSE, files |-> {}] \in Directory
      BY DEF Directory
    <3>2. QED
      BY <1>20, <3>1 DEF Stage, OnlyAt
  <2>3. Steady
    BY <2>1, <2>2, CalmIsSteady, AsideIsSteady
  <2>4. Tracked /\ AllInstalled'
    BY <1>7, <1>8, <2>1, <2>3 DEF Tracked
  <2>5. Trail("fill", k, o)'
    BY <2>1, <2>3, <2>4, SteadyAlike DEF Trail, Steady, Shape
  <2>6. QED
    BY <1>2, <1>3, <2>2, <2>4, <2>5 DEF Steps
<1>21. CASE Fill(p)
  <2>1. /\ txn = None /\ UNCHANGED <<txn, kept>> /\ AllInstalled
        /\ disk["dest"] = None <=> k = None
        /\ LeadsAlike(disk["dest"], [backup |-> o], k)
    BY <1>11, <1>21 DEF Fill, Footing, Trail, Midway
  <2>2. disk' \in [Places -> Directory \cup {None}]
    BY <1>21, WorkOnDisk, GentleKeeps
  <2>3. \/ UNCHANGED disk /\ Go(p, "unstage")
        \/ /\ OnlyAt("staging")
           /\ Managed(disk'["staging"]) => disk'["staging"].record.backup = o
           /\ Go(p, "mark")
    <3>1. ASSUME NEW record, record.backup = o, disk["staging"] # None,
                 disk' = [disk EXCEPT !["staging"].record = record,
                                      !["staging"].whole = TRUE]
          PROVE  OnlyAt("staging") /\ disk'["staging"].record.backup = o
      <4>1. disk["staging"] \in Directory
        BY <3>1, DirectoryTypes
      <4>2. disk'["staging"].record = record
        BY <3>1, <4>1 DEF Directory
      <4>3. QED
        BY <2>2, <3>1, <4>2 DEF OnlyAt
    <3>2. [target |-> cmd[p].req.target, version |-> cmd[p].req.version,
           backup |-> cmd[p].original].backup = o
      BY <1>1
    <3>3. PICK record : record = [target |-> cmd[p].req.target, version |-> cmd[p].req.version,
                                  backup |-> cmd[p].original]
      OBVIOUS
    <3>4. \/ UNCHANGED disk /\ Go(p, "unstage")
          \/ /\ disk["staging"] # None /\ Go(p, "mark")
             /\ disk' = [disk EXCEPT !["staging"].record = record,
                                     !["staging"].whole = TRUE]
      BY <1>21, <3>3 DEF Fill
    <3>5. QED
      BY <3>1, <3>2, <3>3, <3>4
  <2>4. Steady
    BY <2>1, <2>3, CalmIsSteady, AsideIsSteady
  <2>5. Tracked /\ AllInstalled'
    BY <1>7, <1>8, <2>1, <2>4 DEF Tracked
  <2>6. (Managed(disk'["staging"]) => disk'["staging"].record.backup = o)
           => Trail("mark", k, o)'
    BY <2>1, <2>4, <2>5, SteadyAlike DEF Trail, Steady, Shape
  <2>7. QED
    BY <1>2, <1>10, <2>3, <2>5, <2>6 DEF Steps
<1>22. CASE Mark(p)
  <2>1. /\ txn = None /\ UNCHANGED <<disk, kept>> /\ AllInstalled
        /\ disk["dest"] = None <=> k = None
        /\ LeadsAlike(disk["dest"], [backup |-> o], k)
        /\ Managed(disk["staging"]) => disk["staging"].record.backup = o
    BY <1>11, <1>22 DEF Mark, Footing, Trail, Midway
  <2>2. Holders' = Holders /\ AllInstalled' /\ OnTrack'
    BY <1>5, <1>7, <2>1
  <2>3. txn' \in {txn, [phase |-> "staged", backup |-> k]}
    BY <1>1, <1>22 DEF Mark
  <2>4. StagedRight'
    BY <2>1, <2>2, <2>3 DEF StagedRight, LeadsAlike
  <2>5. Trail("place", k, o)' /\ Trail("swap", k, o)' /\ Trail("unstage", k, o)'
    BY <1>9, <1>10, <2>2 DEF Midway
  <2>6. QED
    BY <1>2, <1>22, <2>2, <2>4, <2>5 DEF Mark, Steps, Tracked
<1>23. CASE Swap(p)
  <2>1. /\ txn = [phase |-> "staged", backup |-> k] /\ txn' = txn /\ AllInstalled
        /\ txn # None /\ txn.phase = "staged" /\ txn.backup = k
    BY <1>0, <1>11, <1>23, <1>12a DEF Swap, Footing, Trail, Midway
  <2>2. k \in BackupNames
    BY <1>1, <1>23 DEF Swap, CommandOK, Equipped
  <2>3. CASE Rename("dest", k) /\ KeepOriginal /\ (Go(p, "place") \/ Go(p, "restore"))
    BY <1>2, <1>9, <2>1, <2>2, <2>3, SwapTracks DEF Steps, Midway, Tracked
  <2>4. CASE UNCHANGED <<disk, kept>> /\ Go(p, "unstage")
    BY <1>2, <1>5, <1>7, <1>10, <2>1, <2>4 DEF Steps
  <2>5. QED
    BY <1>1, <1>23, <2>3, <2>4 DEF Swap
<1>24. CASE Place(p)
  <2>1. /\ txn = [phase |-> "staged", backup |-> k] /\ UNCHANGED <<txn, kept>>
        /\ txn # None /\ txn.phase = "staged" /\ txn.backup = k
        /\ disk["staging"] = None \/ Managed(disk["staging"])
    BY <1>0, <1>11, <1>24, <1>12a DEF Place, Footing
  <2>2. CASE Rename("staging", "dest") /\ (Go(p, "settle") \/ End(p))
    <3>1. /\ Managed(disk'["dest"]) /\ Holders' \subseteq {disk'["dest"].record.backup}
          /\ AllInstalled' /\ StagedRight'
      BY <2>1, <2>2, PlaceTracks DEF Rename
    <3>2. Trail("settle", k, o)'
      BY <3>1 DEF Trail
    <3>3. QED
      BY <1>2, <1>3, <1>6, <2>2, <3>1, <3>2 DEF Steps, Tracked
  <2>3. CASE UNCHANGED disk /\ Go(p, IF k = None THEN "unstage" ELSE "restore")
    <3>1. k = None => AllInstalled
      <4>1. k = None => \A b \in Holders : ~Swapped(b) /\ ~Removed(b)
        BY <2>1, NoneIsNothing DEF Swapped, Removed, Displaced
      <4>2. QED
        BY <4>1 DEF OnTrack, AllInstalled
    <3>2. k = None => AllInstalled'
      BY <1>5, <1>7, <2>1, <2>3, <3>1
    <3>3. Trail("restore", k, o)' /\ (k = None => Trail("unstage", k, o)')
      BY <1>9, <1>10, <3>2 DEF Midway
    <3>4. QED
      BY <1>2, <1>5, <2>1, <2>3, <3>3 DEF Steps
  <2>4. QED
    BY <1>1, <1>24, <2>2, <2>3 DEF Place
<1>25. CASE Restore(p)
  <2>1. /\ txn = [phase |-> "staged", backup |-> k] /\ UNCHANGED <<txn, kept>>
        /\ txn # None /\ txn.phase = "staged" /\ txn.backup = k /\ Go(p, "unstage")
    BY <1>0, <1>11, <1>25, <1>12a DEF Restore, Footing
  <2>2. k \in BackupNames
    BY <1>1, <1>25 DEF Restore, CommandOK, Equipped
  <2>3. CASE Rename(k, "dest")
    <3>1. AllInstalled' /\ StagedRight'
      BY <2>1, <2>2, <2>3, RestoreTracks
    <3>2. QED
      BY <1>2, <1>6, <1>10, <2>1, <3>1 DEF Steps, Tracked
  <2>4. CASE disk["dest"] # None /\ UNCHANGED disk
    BY <1>2, <1>5, <1>7, <1>10, <2>1, <2>4, TrackCases DEF Steps
  <2>5. CASE excused'
    BY <2>5 DEF Goal
  <2>6. QED
    BY <1>1, <1>25, <2>3, <2>4, <2>5 DEF Restore
<1>26. CASE Unstage(p)
  <2>1. AllInstalled /\ UNCHANGED <<txn, kept>> /\ Go(p, "untxn")
    BY <1>11, <1>26 DEF Unstage, Trail, Midway
  <2>2. \/ UNCHANGED disk
        \/ disk["staging"] # None /\ (Delete("staging") \/ RemovePart("staging"))
    BY <1>26 DEF Unstage
  <2>3. Steady /\ (Managed(disk'["staging"]) =>
                     /\ Managed(disk["staging"])
                     /\ disk'["staging"].record = disk["staging"].record)
    <3>1. CASE UNCHANGED disk
      BY <2>1, <3>1, CalmIsSteady
    <3>2. CASE Trimmed("staging")
      BY <2>1, <3>2, AsideIsSteady DEF Trimmed, Managed
    <3>3. QED
      BY <2>2, <3>1, <3>2, DeletionTrims
  <2>4. QED
    BY <1>2, <1>4, <1>7, <1>10, <2>1, <2>3 DEF Steps
<1>27. CASE Untxn(p)
  <2>1. AllInstalled /\ UNCHANGED <<disk, kept>> /\ txn' \in {txn, None} /\ End(p)
    BY <1>11, <1>27 DEF Untxn, Trail, Midway
  <2>2. QED
    BY <1>3, <1>5, <1>7, <1>8, <2>1 DEF Tracked
<1>28. CASE Settle(p)
  <2>1. /\ AllInstalled /\ UNCHANGED <<disk, kept>> /\ txn' \in {txn, None}
        /\ Managed(disk["dest"]) /\ Holders \subseteq {disk["dest"].record.backup}
    BY <1>11, <1>28 DEF Settle, Trail, Midway
  <2>2. Tracked /\ AllInstalled' /\ Holders' = Holders
    BY <1>5, <1>7, <1>8, <2>1 DEF Tracked
  <2>3. Trail("done", k, o)' /\ Trail("prune", k, o)'
    BY <1>10, <2>1, <2>2 DEF Trail
  <2>4. QED
    BY <1>2, <1>3, <1>28, <2>2, <2>3 DEF Settle, Steps
<1>29. CASE MarkRemoval(p)
  <2>1. /\ AllInstalled /\ UNCHANGED <<disk, kept>> /\ txn = None
        /\ txn' \in {txn, [phase |-> "removing", backup |-> o]} /\ Holders \subseteq {o}
    BY <1>1, <1>11, <1>29 DEF MarkRemoval, Footing, Trail, Midway
  <2>2. StagedRight' /\ AllInstalled' /\ OnTrack' /\ Holders' = Holders
    BY <1>5, <1>7, <1>8, <2>1
  <2>3. Trail("displace", k, o)'
    BY <2>1, <2>2 DEF Trail
  <2>4. QED
    BY <1>2, <1>3, <1>29, <2>2, <2>3 DEF MarkRemoval, Steps, Tracked
<1>30. CASE Displace(p)
  <2>1. /\ AllInstalled /\ UNCHANGED <<txn, kept>> /\ Managed(disk["dest"])
        /\ txn = [phase |-> "removing", backup |-> o] /\ Holders \subseteq {o}
        /\ txn # None
    BY <1>0, <1>11, <1>30, <1>12a DEF Displace, Footing, Trail, Midway
  <2>2. CASE Rename("dest", "removing") /\ (Go(p, "erase") \/ End(p))
    <3>1. Holders' = Holders
      BY <2>1, <2>2, RenameKeepsApart DEF Holders
    <3>2. disk'["dest"] = None
      BY <2>2, RenameKeepsFiles
    <3>3. OnTrack'
      BY <2>1, <3>1, <3>2 DEF OnTrack, Removed, Displaced
    <3>4. Trail("erase", k, o)'
      BY <3>2 DEF Trail, Midway
    <3>5. QED
      BY <1>2, <1>3, <1>8, <2>1, <2>2, <3>3, <3>4 DEF Steps, Tracked
  <2>3. CASE UNCHANGED disk /\ Go(p, "untxn")
    BY <1>2, <1>5, <1>7, <1>10, <2>1, <2>3 DEF Steps
  <2>4. QED
    BY <1>30, <2>2, <2>3 DEF Displace
<1>31. CASE Erase(p)
  <2>1. /\ disk["dest"] = None /\ UNCHANGED <<txn, kept>> /\ txn.phase = "removing"
    BY <1>11, <1>31 DEF Erase, Footing, Trail
  <2>2. Steady
    BY <1>31, <2>1, CalmIsSteady, AsideIsSteady, DeletionIsLocal DEF Erase
  <2>3. Tracked
    BY <1>8, <2>1, <2>2, SteadyTracks DEF Tracked
  <2>4. Trail("reinstate", k, o)'
    BY <2>1, <2>2 DEF Trail, Midway, Steady, Shape
  <2>5. QED
    BY <1>2, <1>3, <1>31, <2>3, <2>4 DEF Erase, Steps
<1>32. CASE Reinstate(p)
  <2>1. /\ disk["dest"] = None /\ UNCHANGED <<txn, kept>> /\ txn # None
        /\ txn.phase = "removing" /\ txn.backup = o
    BY <1>0, <1>11, <1>32, <1>12a DEF Reinstate, Footing, Trail
  <2>2. Holders \subseteq {o} /\ o \in BackupNames \cup {None}
    BY <1>1, <2>1, TrackCases DEF Command
  <2>3. ASSUME Holders' = {} PROVE Tracked /\ Trail("sweep", k, o)'
    <3>1. AllInstalled'
      BY <2>3 DEF AllInstalled
    <3>2. QED
      BY <1>6, <1>8, <2>1, <2>3, <3>1 DEF Tracked, Trail
  <2>4. CASE ~(o # None /\ disk[o] # None) /\ UNCHANGED disk /\ Go(p, "sweep")
    <3>1. Holders = {}
      BY <2>2, <2>4, NoneIsNothing DEF Holders, Holds
    <3>2. QED
      BY <1>2, <1>5, <2>1, <2>3, <2>4, <3>1 DEF Steps
  <2>5. CASE o # None /\ Rename(o, "dest") /\ (Go(p, "sweep") \/ End(p))
    <3>1. Holders' = {}
      BY <2>1, <2>2, <2>5, RenameKeepsApart DEF Holders
    <3>2. QED
      BY <1>2, <1>3, <2>3, <2>5, <3>1 DEF Steps
  <2>6. CASE UNCHANGED disk /\ End(p)
    BY <1>3, <1>5, <2>1, <2>6
  <2>7. QED
    BY <1>1, <1>32, <2>1, <2>4, <2>5, <2>6 DEF Reinstate
<1>33. CASE Prune(p)
  <2>1. /\ txn = None /\ UNCHANGED <<txn, kept>> /\ Go(p, "done")
        /\ Managed(disk["dest"]) /\ Holders \subseteq {disk["dest"].record.backup}
    BY <1>11, <1>33 DEF Prune, Footing, Trail, Midway
  <2>2. k \in BackupNames
    BY <1>1, <1>33 DEF Prune, CommandOK, Equipped
  <2>3. UNCHANGED disk \/ (Owned(disk[k]) /\ Trimmed(k))
    BY <1>1, <1>33, <2>2, DeletionTrims DEF Prune, Owned, Managed
  <2>4. AllInstalled'
    BY <1>5, <1>7, <2>1, <2>2, <2>3, DirectInstalled, TrimmedOwned
  <2>5. QED
    BY <1>2, <1>6, <1>8, <1>10, <2>1, <2>4 DEF Steps, Tracked
<1>34. CASE Sweep(p)
  <2>1. /\ Holders = {} /\ UNCHANGED <<txn, kept>>
        /\ txn = [phase |-> "removing", backup |-> o]
    BY <1>11, <1>34 DEF Sweep, Footing, Trail
  <2>2. cmd[p].obsolete \subseteq BackupNames
    BY DEF Command
  <2>3. \/ UNCHANGED disk
        \/ \E b \in BackupNames : Owned(disk[b]) /\ Trimmed(b)
    BY <1>34, <2>2, DeletionTrims DEF Sweep, Owned, Managed
  <2>4. Holders' = {}
    BY <1>5, <2>1, <2>3, TrimmedOwned
  <2>5. AllInstalled' /\ Tracked
    BY <1>6, <1>8, <2>1, <2>4 DEF AllInstalled, Tracked
  <2>6. \A step \in {"sweep", "clear"} : Trail(step, k, o)'
    BY <2>4, <2>5 DEF Trail
  <2>7. QED
    BY <1>1, <1>34, <2>5, <2>6, SweepMoves, SweepChoices DEF Goal, Tracked, Traces
<1>35. CASE Clear(p)
  <2>1. /\ AllInstalled /\ UNCHANGED <<disk, kept>> /\ txn' \in {txn, None}
        /\ Go(p, "done") \/ End(p)
    BY <1>11, <1>35 DEF Clear, Trail, Midway
  <2>2. QED
    BY <1>2, <1>3, <1>5, <1>7, <1>8, <1>10, <2>1 DEF Tracked, Steps
<1>36. CASE Return(p)
  <2>1. UNCHANGED <<disk, kept, txn>> /\ End(p)
    BY <1>36 DEF Return
  <2>2. QED
    BY <1>3, <1>5, <2>1
<1>37. QED
  BY <1>13, <1>14, <1>15, <1>16, <1>17, <1>18, <1>19, <1>20, <1>21, <1>22, <1>23,
     <1>24, <1>25, <1>26, <1>27, <1>28, <1>29, <1>30, <1>31, <1>32, <1>33, <1>34,
     <1>35, <1>36 DEF Work, UnderLock

(* A process that dies leaves its command, and the way back.               *)
LEMMA DyingTraces ==
    ASSUME TypeOK, KeptApart, NEW p \in Procs, CommandOK(cmd[p]), Underway(cmd[p]),
           Dying(p), OnTrack, StagedRight, Traces(cmd[p])
    PROVE  OnTrack' /\ StagedRight'
<1>0. cmd[p] \in Command /\ UNCHANGED <<txn, kept, moved>>
  BY DEF TypeOK, Dying
<1>1. CASE UNCHANGED disk
  BY <1>0, <1>1, CalmIsSteady, SteadyTracks, SteadyStaged
<1>2. ASSUME NEW x \in Deleting(p), disk[x] # None, RemovePart(x),
             x \in BackupNames => Owned(disk[x])
      PROVE  OnTrack' /\ StagedRight'
  <2>1. \/ x = "removing" /\ cmd[p].pc \in {"erase", "redo"} /\ txn.phase = "removing"
        \/ x = "staging"
        \/ x = cmd[p].backup /\ cmd[p].pc = "prune"
        \/ x \in cmd[p].obsolete /\ cmd[p].pc = "sweep"
    BY <1>2 DEF Deleting, At, Underway, Footing
  <2>2. x \in Places
    BY <1>0, <2>1, PlacesApart DEF Command, CommandOK, Equipped
  <2>3. Trimmed(x)
    BY <1>2, <2>2, DeletionTrims
  <2>4. CASE x = "removing" /\ txn.phase = "removing"
    <3>1. Steady
      BY <1>0, <2>3, <2>4, AsideIsSteady DEF Trimmed
    <3>2. QED
      BY <1>0, <2>4, <3>1, SteadyTracks DEF StagedRight
  <2>5. CASE x = "staging"
    <3>1. Steady
      BY <1>0, <2>3, <2>5, AsideIsSteady DEF Trimmed
    <3>2. QED
      BY <1>0, <2>3, <2>5, <3>1, SteadyTracks, SteadyStaged DEF Trimmed, Managed
  <2>6. CASE x = cmd[p].backup /\ cmd[p].pc = "prune"
    <3>1. x \in BackupNames /\ Owned(disk[x])
      BY <1>2, <2>6 DEF CommandOK, Equipped
    <3>2. Managed(disk["dest"]) /\ Holders \subseteq {disk["dest"].record.backup} /\ txn = None
      BY <2>6 DEF Traces, Trail, Underway, Footing
    <3>3. AllInstalled'
      BY <1>0, <2>3, <3>1, <3>2, TrimmedOwned
    <3>4. QED
      BY <1>0, <3>2, <3>3 DEF AllInstalled, OnTrack, StagedRight
  <2>7. CASE x \in cmd[p].obsolete /\ cmd[p].pc = "sweep"
    <3>1. x \in BackupNames /\ Owned(disk[x])
      BY <1>0, <1>2, <2>7 DEF Command
    <3>2. Holders = {} /\ txn.phase = "removing"
      BY <2>7 DEF Traces, Trail, Underway, Footing
    <3>3. Holders' = {}
      BY <1>0, <2>3, <3>1, <3>2, TrimmedOwned
    <3>4. QED
      BY <1>0, <3>2, <3>3 DEF OnTrack, StagedRight
  <2>8. QED
    BY <2>1, <2>4, <2>5, <2>6, <2>7
<1>3. QED
  BY <1>1, <1>2 DEF Dying

(* A user who writes beside the package hides no original: only a          *)
(* directory that he puts where the package was displaced does, and then   *)
(* he is the one who put it there.                                         *)
LEMMA WriteTraces ==
    ASSUME TypeOK, LockHeld, KeptApart, Traced, NEW x \in Places, NEW c \in Contents,
           Write(x, c), ~excused'
    PROVE  Traced'
<1>0. /\ OnTrack /\ StagedRight /\ \A q \in Procs : Traces(cmd[q])
      /\ UNCHANGED <<txn, lock, cmd, kept>>
  BY DEF Traced, Write
<1>1. Holders' = Holders
  BY WriteKeepsApart, PlacesApart DEF Holders
<1>2. \A y \in Places : Shape(y) \/ y = "dest"
  BY WriteShapes
<1>3. CASE Shape("dest")
  <2>1. Steady /\ Shape("staging")
    BY <1>1, <1>2, <1>3, PlacesApart DEF Steady
  <2>2. OnTrack' /\ StagedRight'
    BY <1>0, <2>1, SteadyTracks, SteadyStaged DEF Shape, Managed
  <2>3. ASSUME NEW q \in Procs PROVE Traces(cmd[q])'
    <3>1. PICK step, k, o : step = cmd[q].pc /\ k = cmd[q].backup /\ o = cmd[q].original
      OBVIOUS
    <3>2. Trail(step, k, o)
      BY <1>0, <3>1 DEF Traces
    <3>3. AllInstalled => AllInstalled'
      BY <2>1, SteadyInstalled
    <3>4. LeadsAlike(disk["dest"], [backup |-> o], k)
             => LeadsAlike(disk["dest"], [backup |-> o], k)'
      BY <2>1, SteadyAlike
    <3>5. /\ disk'["dest"] = None <=> disk["dest"] = None
          /\ Managed(disk["dest"]) => Managed(disk'["dest"])
                                      /\ disk'["dest"].record = disk["dest"].record
      BY <1>3 DEF Shape, Managed
    <3>6. Managed(disk'["staging"]) => Managed(disk["staging"])
                                      /\ disk'["staging"].record = disk["staging"].record
      BY <2>1 DEF Shape, Managed
    <3>7. Trail(step, k, o)'
      BY <1>1, <3>2, <3>3, <3>4, <3>5, <3>6 DEF Trail
    <3>8. QED
      BY <1>0, <3>1, <3>7 DEF Traces
  <2>4. QED
    BY <2>2, <2>3 DEF Traced
<1>4. CASE ~Shape("dest")
  <2>1. disk["dest"] = None /\ lock = None /\ txn = None
    BY <1>4, WriteShapes, PlacesApart
  <2>2. Holders = {}
    BY <1>0, <2>1, TrackCases
  <2>3. OnTrack' /\ StagedRight'
    BY <1>0, <1>1, <2>1, <2>2 DEF OnTrack, StagedRight
  <2>4. \A q \in Procs : ~Inside(cmd[q])
    BY <2>1, NoneIsNothing DEF LockHeld
  <2>5. \A q \in Procs : Traces(cmd[q])'
    BY <1>0, <2>4 DEF Inside, Traces, Trail, Midway
  <2>6. QED
    BY <2>3, <2>5 DEF Traced
<1>5. QED
  BY <1>3, <1>4

LEMMA HeedTraces ==
    ASSUME TypeOK, LockHeld, KeptApart, Traced, NEW x \in Places, Heed(x), ~excused'
    PROVE  Traced'
<1>0. OnTrack /\ StagedRight /\ UNCHANGED <<txn, lock, cmd, kept>>
  BY DEF Traced, Heed
<1>1. \A y \in {"dest"} \cup BackupNames : Shape(y)
  BY HeedShapes, PlacesApart
<1>2. \A y \in BackupNames : Holds(y)' <=> Holds(y)
  <2>1. CASE x \in BackupNames
    <3>1. Managed(disk[x])
      BY <2>1, PlacesApart DEF Heed, Blocking, Strays
    <3>2. ~Holds(x)
      BY <3>1 DEF KeptApart, Managed
    <3>3. QED
      BY <3>2, HeedKeepsApart, PlacesApart
  <2>2. CASE x \notin BackupNames
    BY <2>2, HeedKeepsApart, PlacesApart
  <2>3. QED
    BY <2>1, <2>2
<1>3. Steady
  BY <1>1, <1>2 DEF Steady, Holders
<1>4. Shape("staging") \/ disk'["staging"] = None
  BY HeedShapes, PlacesApart
<1>5. OnTrack' /\ StagedRight'
  BY <1>0, <1>3, <1>4, SteadyTracks, SteadyStaged DEF Shape, Managed
<1>6. \A q \in Procs : Traces(cmd[q])'
  BY <1>0, NoneIsNothing DEF Heed, LockHeld, Inside, Traces, Trail, Midway
<1>7. QED
  BY <1>5, <1>6 DEF Traced

(* Once a user was told, or came in between, that stays so.                *)
LEMMA ExcusedStays ==
    ASSUME TypeOK, LockHeld, [Next]_vars, excused
    PROVE  excused'
<1>1. ASSUME NEW p \in Procs, OutsideStep(p) \/ Taking(p) \/ Dying(p) PROVE excused'
  BY <1>1 DEF OutsideStep, Taking, Dying
<1>2. ASSUME NEW p \in Procs, UnderLock(p) PROVE excused'
  <2>1. CASE Recover(p) \/ RedoStaged(p) \/ RedoPlace(p) \/ RedoRemoving(p)
             \/ RedoRestore(p) \/ RedoClear(p) \/ Decide(p)
    BY <2>1 DEF Recover, RedoStaged, RedoPlace, RedoRemoving, RedoRestore, RedoClear, Decide
  <2>2. CASE Stage(p) \/ Fill(p) \/ Mark(p) \/ Swap(p) \/ Place(p) \/ Restore(p)
             \/ Unstage(p) \/ Untxn(p) \/ Settle(p) \/ Prune(p)
    BY <2>2 DEF Stage, Fill, Mark, Swap, Place, Restore, Unstage, Untxn, Settle, Prune
  <2>3. CASE MarkRemoval(p) \/ Displace(p) \/ Erase(p) \/ Reinstate(p) \/ Sweep(p)
             \/ Clear(p) \/ Return(p)
    BY <2>3 DEF MarkRemoval, Displace, Erase, Reinstate, Sweep, Clear, Return
  <2>4. QED
    BY <1>2, <2>1, <2>2, <2>3 DEF UnderLock, Work
<1>3. ASSUME NEW x \in Places, NEW c \in Contents, Write(x, c) PROVE excused'
  BY <1>3 DEF Write
<1>4. ASSUME NEW x \in Places, Heed(x) PROVE excused'
  BY <1>4 DEF Heed
<1>5. CASE UNCHANGED vars
  BY <1>5 DEF vars
<1>6. QED
  BY <1>1, <1>2, <1>3, <1>4, <1>5, StepCases

LEMMA TraceStep ==
    ASSUME IInv, TraceInv, [Next]_vars
    PROVE  TraceInv'
<1>0. /\ TypeOK /\ LockHeld /\ \A p \in Procs : CommandOK(cmd[p])
      /\ KeptApart /\ \A p \in Procs : Underway(cmd[p])
  BY DEF IInv, TraceInv
<1>1. KeptApart' /\ \A p \in Procs : Underway(cmd[p])'
  BY <1>0, GroundStep
<1> SUFFICES ASSUME ~excused' PROVE Traced'
  BY <1>1 DEF TraceInv
<1>2. Traced
  BY <1>0, ExcusedStays DEF TraceInv
<1>3. OnTrack /\ StagedRight /\ \A p \in Procs : Traces(cmd[p])
  BY <1>2 DEF Traced
<1>4. \A q \in Procs : ~Inside(cmd'[q]) => Traces(cmd[q])'
  BY DEF Inside, Traces, Trail, Midway
<1>5. ASSUME UNCHANGED <<disk, kept, txn>>
      PROVE  /\ OnTrack' /\ StagedRight'
             /\ \A q \in Procs : cmd'[q] = cmd[q] => Traces(cmd[q])'
  <2>1. Holders' = Holders
    BY <1>5 DEF Holders, Holds
  <2>2. Steady
    BY <1>5, CalmIsSteady
  <2>3. AllInstalled => AllInstalled'
    BY <2>2, SteadyInstalled
  <2>4. OnTrack' /\ StagedRight'
    BY <1>0, <1>3, <1>5, <2>2, SteadyTracks, SteadyStaged
  <2>5. \A q \in Procs : cmd'[q] = cmd[q] => Traces(cmd[q])'
    BY <1>3, <1>5, <2>1, <2>3 DEF Traces, Trail, LeadsAlike
  <2>6. QED
    BY <2>4, <2>5
<1>6. ASSUME NEW p \in Procs, OutsideStep(p) \/ Taking(p) PROVE Traced'
  <2>1. Traces(cmd[p])'
    BY <1>6 DEF OutsideStep, Taking, Inside, Traces, Trail, Midway
  <2>2. QED
    BY <1>5, <1>6, <2>1 DEF OutsideStep, Taking, Traced
<1>7. ASSUME NEW p \in Procs, InsideStep(p), NEW q \in Procs \ {p} PROVE Traces(cmd[q])'
  BY <1>0, <1>4, <1>7 DEF InsideStep, LockHeld
<1>8. ASSUME NEW p \in Procs, UnderLock(p) PROVE Traced'
  <2>1. OnTrack' /\ StagedRight' /\ Traces(cmd[p])'
    BY <1>0, <1>3, <1>8, WorkTraces
  <2>2. QED
    BY <1>0, <1>7, <1>8, <2>1, WorkMoves DEF Traced
<1>9. ASSUME NEW p \in Procs, Dying(p) PROVE Traced'
  <2>1. OnTrack' /\ StagedRight'
    BY <1>0, <1>3, <1>9, DyingTraces
  <2>2. Traces(cmd[p])'
    BY <1>4, <1>9, IdleType DEF Dying, Ends, Inside
  <2>3. QED
    BY <1>7, <1>9, <2>1, <2>2 DEF Dying, Traced
<1>10. ASSUME NEW x \in Places, NEW c \in Contents, Write(x, c) PROVE Traced'
  BY <1>0, <1>2, <1>10, WriteTraces
<1>11. ASSUME NEW x \in Places, Heed(x) PROVE Traced'
  BY <1>0, <1>2, <1>11, HeedTraces
<1>12. CASE UNCHANGED vars
  BY <1>5, <1>12 DEF vars, Traced
<1>13. QED
  BY <1>0, <1>6, <1>8, <1>9, <1>10, <1>11, <1>12, StepCases

LEMMA InitTraces == Init => TraceInv
<1> SUFFICES ASSUME Init PROVE TraceInv
  OBVIOUS
<1>0. /\ disk \in Origins /\ txn = None /\ \A p \in Procs : cmd[p] = Idle
      /\ kept = UNION {disk[b].files : b \in {x \in BackupNames : Unmanaged(disk[x])}}
  BY DEF Init
<1>1. \A x, y \in Places : (x # y /\ disk[x] # None /\ disk[y] # None)
                              => disk[x].files \cap disk[y].files = {}
  BY <1>0, OriginsAreInstallations
<1>2. \A c \in kept : \E b \in BackupNames : Unmanaged(disk[b]) /\ c \in disk[b].files
  BY <1>0
<1>3. ASSUME NEW x \in Places, Holds(x)
      PROVE  x \in BackupNames /\ Unmanaged(disk[x]) /\ disk[x].files # {}
  <2>1. PICK c \in kept : disk[x] # None /\ c \in disk[x].files
    BY <1>3 DEF Holds
  <2>2. PICK b \in BackupNames : Unmanaged(disk[b]) /\ c \in disk[b].files
    BY <1>2
  <2>3. b = x
    BY <1>1, <2>1, <2>2, PlacesApart DEF Unmanaged
  <2>4. QED
    BY <2>2, <2>3
<1>4. kept \subseteq FilesIn(disk)
  BY <1>2, InFiles, PlacesApart DEF Unmanaged
<1>5. KeptApart
  BY <1>1, <1>3, <1>4, PlacesApart DEF KeptApart, Unmanaged
<1>6. ASSUME NEW b \in Holders PROVE Installed(b)
  <2>1. b \in BackupNames /\ disk[b] # None /\ disk[b].record = None /\ disk[b].files # {}
    BY <1>3, PlacesApart DEF Holders, Unmanaged
  <2>2. /\ disk["dest"] # None /\ disk["dest"].record # None
        /\ \E T \in SUBSET (BackupNames \ {b}) :
              /\ disk["dest"].record.backup \in T \cup {b}
              /\ \A x \in T : /\ disk[x] # None /\ disk[x].record # None
                              /\ disk[x].record.backup \in T \cup {b}
    BY <1>0, <2>1, OriginsAreInstallations
  <2>3. PICK T \in SUBSET (BackupNames \ {b}) : Path(T, disk["dest"].record.backup, b)
    BY <2>2 DEF Path, Managed
  <2>4. T \in SUBSET (BackupNames \ {"dest"})
    BY PlacesApart
  <2>5. QED
    BY <2>2, <2>3, <2>4 DEF Installed, LeadsBack, Managed
<1>7. OnTrack /\ StagedRight
  BY <1>0, <1>6 DEF OnTrack, StagedRight
<1>8. \A p \in Procs : Underway(cmd[p]) /\ Traces(cmd[p])
  BY <1>0, IdleType, OutsideUnderway DEF Inside
<1>9. QED
  BY <1>5, <1>7, <1>8 DEF TraceInv, Traced

LEMMA TraceInvariance == Spec => []TraceInv
<1>1. IInv /\ TraceInv /\ [Next]_vars => TraceInv'
  BY TraceStep
<1>2. QED
  BY <1>1, InitTraces, Invariance, PTL DEF Spec

(* At rest, the records lead from the installed package to the directory   *)
(* that was there before the installation, and the chain that an uninstall *)
(* follows ends at it -- whatever was interrupted, failed or was recovered *)
(* in between, unless the user was told otherwise.                         *)
THEOREM OriginalFound == Spec => []OriginalReachable
<1>1. ASSUME IInv, TraceInv PROVE OriginalReachable
  <2>1. SUFFICES ASSUME lock = None, txn = None, ~excused, NEW b \in BackupNames, Holds(b)
                 PROVE  /\ Managed(disk["dest"])
                        /\ LET chain == Chain(disk["dest"].record.target)
                           IN  chain.ok => chain.original = b
    BY DEF OriginalReachable, Holds
  <2>2. TypeOK /\ KeptApart /\ OnTrack
    BY <1>1, <2>1 DEF IInv, TraceInv, Traced
  <2>3. Installed(b)
    BY <2>1, <2>2, TrackCases DEF AllInstalled, Holders
  <2>4. Unmanaged(disk[b])
    BY <2>1, <2>2, PlacesApart DEF KeptApart, Holds, Unmanaged
  <2>5. QED
    BY <2>2, <2>3, <2>4, ChainFindsIt DEF Installed, LeadsBack
<1>2. QED
  BY <1>1, Invariance, TraceInvariance, PTL

=============================================================================
