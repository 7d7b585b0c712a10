------------------------ MODULE WorkflowInstallProofs ------------------------
(***************************************************************************)
(* Theorems about the workflow installer, for any number of processes,     *)
(* files, versions and texts, and for every bound on faults and edits.     *)
(***************************************************************************)
EXTENDS WorkflowInstall, TLAPS

(***************************************************************************)
(* The inductive invariant, in parts.                                      *)
(***************************************************************************)
\* Exactly the holder of the advisory lock is past its wait for it.
Busy(c) == c.pc \notin {"idle", "lock"}

LockHeld == \A p \in Procs : Busy(cmd[p]) <=> lock = p

\* What the holder has decided, and what is then on disk.
Decided == Mutating \cup {"fail"}

OnRecord(c) ==
    /\ c.pc \in {"read", "decide"} => intent = None
    /\ c.pc \in Decided => intent = IntentOf(c)
    /\ c.pc \in {"create", "fill"} => c.op # "uninstall"
    /\ c.pc \in Mutating =>
            \/ c.saw = Nothing
            \/ \E v \in Versions : c.saw = Intended("install", v)

Named(i) == i \in kept \/ \E f \in Files : name[f] = i

\* The inode a mutation has in its hands.
OwnInode(c) ==
    /\ c.pc \in {"check", "restore"} =>
            /\ c.own \in kept
            /\ \A f \in Files : name[f] # c.own
    /\ c.pc = "unlink" =>
            /\ c.own \in Inodes
            /\ \A e \in edits : data[c.own] = Typed(e) => \E f \in Files : name[f] = c.own
            /\ held = c.own => \E f \in Files : name[f] = c.own
    /\ c.pc = "fill" =>
            /\ c.own \in Inodes \ kept
            /\ c.own # held
            /\ data[c.own] = Unwritten

\* No two names are one file, and what an editor wrote or has open has a name.
NamesApart == name["workflow"] = name["record"] => name["workflow"] = None

Reachable ==
    /\ held # None => Named(held)
    /\ \A e \in edits : \E i \in Inodes : Named(i) /\ data[i] = Typed(e)

Recording == \A p \in Procs : OnRecord(cmd[p])

Handling == NamesApart /\ Reachable /\ \A p \in Procs : OwnInode(cmd[p])

IInv == TypeOK /\ LockHeld /\ Recording /\ Handling

-----------------------------------------------------------------------------
(* The contents the store tells apart are different contents.              *)
LEMMA ContentsDiffer ==
    ASSUME NEW e
    PROVE  /\ Typed(e) # Unwritten
           /\ \A v : Typed(e) # Rendered(v) /\ Typed(e) # RecordOf(v)
           /\ \A d : Typed(d) = Typed(e) => d = e
BY DEF Typed, Unwritten, Rendered, RecordOf

LEMMA IdleType == Idle \in Command /\ Idle.pc = "idle"
<1>1. (CHOOSE v \in Versions : TRUE) \in Versions
  BY VersionsAreNumbers
<1>2. Nothing \in [Files -> Contents \cup {None}]
  BY DEF Nothing
<1>3. QED
  BY <1>1, <1>2 DEF Idle, Command, Operations, Files, Stations

LEMMA IntendedType ==
    ASSUME NEW op \in Operations, NEW v \in Versions
    PROVE  /\ Intended(op, v) \in [Files -> Contents \cup {None}]
           /\ op # "uninstall" => Intended(op, v) \in [Files -> Contents]
           /\ \A f \in Files, e \in Edits : Intended(op, v)[f] # Typed(e)
BY ContentsDiffer, EvidenceIsForeign DEF Intended, Contents, Files, Operations

LEMMA IntentType ==
    ASSUME NEW c \in Command
    PROVE  IntentOf(c) \in Transaction /\ IntentOf(c) \notin {None, Foreign}
<1>1. /\ c.op \in Operations /\ c.v \in Versions
      /\ c.saw \in [Files -> Contents \cup {None}]
  BY DEF Command
<1>2. Intended(c.op, c.v) \in [Files -> Contents \cup {None}]
  BY <1>1, IntendedType
<1>3. QED
  BY <1>1, <1>2, EvidenceIsForeign DEF IntentOf, Transaction

(* An operation goes ahead only over nothing, or over a pair whose record  *)
(* is of the workflow beside it.                                           *)
LEMMA PlanIsOwned ==
    ASSUME NEW saw \in [Files -> Contents \cup {None}], NEW op \in Operations,
           NEW v \in Versions, Plan(saw, op, v) \in {"write", "remove"}
    PROVE  saw = Nothing \/ \E w \in Versions : saw = Intended("install", w)
<1>1. State(saw, v) \in {"absent", "current", "outdated"}
  BY DEF Plan, State
<1>2. CASE saw["workflow"] = None /\ saw["record"] = None
  BY <1>2 DEF Nothing, Files
<1>3. CASE ~(saw["workflow"] = None /\ saw["record"] = None)
  <2>1. /\ saw["record"] # None /\ saw["workflow"] # None /\ Recorded(saw) # {}
        /\ \A w \in Recorded(saw) : saw["workflow"] = Rendered(w)
    BY <1>1, <1>3 DEF State
  <2>2. PICK w \in Versions : saw["record"] = RecordOf(w) /\ saw["workflow"] = Rendered(w)
    BY <2>1 DEF Recorded
  <2>3. saw = Intended("install", w)
    BY <2>2 DEF Intended, Files
  <2>4. QED
    BY <2>3
<1>4. QED
  BY <1>2, <1>3

LEMMA AtType == ASSUME TypeOK, NEW f \in Files PROVE At(f) \in Contents \cup {None}
BY DEF TypeOK, At

LEMMA FreedType ==
    ASSUME TypeOK, NEW i
    PROVE  Freed(i) \in [Inodes -> Contents] /\ Dropped(i) \in [Inodes -> Contents]
BY DEF TypeOK, Freed, Dropped, Contents

(* A command remains one when its fields get values of their types.        *)
LEMMA CommandFields ==
    ASSUME NEW c \in Command
    PROVE  /\ \A pc \in Stations : [c EXCEPT !.pc = pc] \in Command
           /\ \A pc \in Stations, f \in Files :
                 [c EXCEPT !.file = f, !.pc = pc] \in Command
           /\ \A pc \in Stations, op \in Operations, v \in Versions :
                 [c EXCEPT !.pc = pc, !.op = op, !.v = v] \in Command
           /\ \A pc \in Stations, i \in Inodes \cup {None} :
                 [c EXCEPT !.own = i, !.pc = pc] \in Command
           /\ \A pc \in Stations, f \in Files, i \in Inodes \cup {None}, b \in BOOLEAN :
                 [c EXCEPT !.file = f, !.pc = pc, !.own = i, !.mutated = b] \in Command
           /\ \A pc \in Stations, s \in [Files -> Contents \cup {None}] :
                 [c EXCEPT !.saw = s, !.pc = pc] \in Command
BY DEF Command

-----------------------------------------------------------------------------
(* What every step of one command leaves in `cmd` is commands.             *)
LEMMA CommandTypes ==
    ASSUME TypeOK, Recording, NEW p \in Procs, Work(p) \/ Crash(p)
    PROVE  cmd' \in [Procs -> Command]
<1>0. cmd[p] \in Command /\ cmd \in [Procs -> Command]
  BY DEF TypeOK
<1>1. \A c \in Command : [cmd EXCEPT ![p] = c] \in [Procs -> Command]
  BY <1>0
<1>2. \A pc \in Stations : [cmd EXCEPT ![p].pc = pc] \in [Procs -> Command]
  BY <1>0, <1>1, CommandFields
<1>3. [cmd EXCEPT ![p] = Idle] \in [Procs -> Command]
  BY <1>1, IdleType
<1>4. ASSUME NEW pc \in Stations, NEW after \in Stations, Advance(p, pc, after)
      PROVE  cmd' \in [Procs -> Command]
  <2>1. CASE cmd[p].file = "workflow"
    <3>1. [cmd[p] EXCEPT !.file = "record", !.pc = pc, !.own = None, !.mutated = TRUE]
             \in Command
      BY <1>0, CommandFields DEF Files
    <3>2. QED
      BY <1>1, <1>4, <2>1, <3>1 DEF Advance
  <2>2. CASE cmd[p].file # "workflow"
    <3>1. [cmd[p] EXCEPT !.file = "workflow", !.pc = after, !.own = None, !.mutated = TRUE]
             \in Command
      BY <1>0, CommandFields DEF Files
    <3>2. QED
      BY <1>1, <1>4, <2>2, <3>1 DEF Advance
  <2>3. QED
    BY <2>1, <2>2
<1>5. ASSUME NEW saw \in [Files -> Contents \cup {None}], NEW pc \in Stations
      PROVE  [cmd EXCEPT ![p].saw = saw, ![p].pc = pc] \in [Procs -> Command]
  BY <1>0, <1>1, <1>5, CommandFields
<1> USE DEF Goto, Return, Stations
<1>6. ASSUME NEW op \in Operations, NEW v \in Versions, Preview(p, op, v)
      PROVE  cmd' \in [Procs -> Command]
  BY <1>0, <1>1, <1>6, CommandFields DEF Preview
<1>7. CASE Look(p)
  <2>1. [cmd[p].saw EXCEPT !["workflow"] = At("workflow")] \in [Files -> Contents \cup {None}]
    BY <1>0, AtType DEF Command, Files
  <2>2. cmd' = [cmd EXCEPT
          ![p].saw = [cmd[p].saw EXCEPT !["workflow"] = At("workflow")],
          ![p].pc  = IF cmd[p].pc = "look" THEN "settle" ELSE "decide"]
    BY <1>0, <1>7 DEF Look, Command
  <2>3. QED
    BY <1>5, <2>1, <2>2
<1>8. CASE Decide(p)
  <2>1. [cmd[p].saw EXCEPT !["record"] = At("record")] \in [Files -> Contents \cup {None}]
    BY <1>0, AtType DEF Command, Files
  <2>2. \/ Return(p)
        \/ cmd' = [cmd EXCEPT ![p].saw = [cmd[p].saw EXCEPT !["record"] = At("record")],
                               ![p].pc = "displace"]
    BY <1>8, Zenon DEF Decide
  <2>3. [cmd EXCEPT ![p].saw = [cmd[p].saw EXCEPT !["record"] = At("record")],
                    ![p].pc = "displace"] \in [Procs -> Command]
    BY <1>5, <2>1
  <2>4. QED
    BY <1>3, <2>2, <2>3
<1>9. CASE Displace(p)
  <2>1. CASE cmd[p].saw[cmd[p].file] = None
    <3>1. PICK f \in Files, pc \in {"displace", "clear", "create"} :
             cmd' = [cmd EXCEPT ![p].file = f, ![p].pc = pc]
      <4>1. cmd' = [cmd EXCEPT
              ![p].file = IF cmd[p].file = "workflow" THEN "record" ELSE "workflow",
              ![p].pc = IF cmd[p].file = "workflow" THEN "displace"
                        ELSE AfterDisplacing(cmd[p])]
        BY <1>9, <2>1 DEF Displace
      <4>2. CASE cmd[p].file = "workflow"
        BY <4>1, <4>2 DEF Files
      <4>3. CASE cmd[p].file # "workflow"
        BY <4>1, <4>3 DEF Files, AfterDisplacing
      <4>4. QED
        BY <4>2, <4>3
    <3>2. [cmd[p] EXCEPT !.file = f, !.pc = pc] \in Command
      BY <1>0, CommandFields
    <3>3. QED
      BY <1>1, <3>1, <3>2
  <2>2. CASE cmd[p].saw[cmd[p].file] # None /\ name[cmd[p].file] # None
    <3>1. name[cmd[p].file] \in Inodes \cup {None}
      BY <1>0 DEF TypeOK, Command
    <3>2. [cmd EXCEPT ![p].own = name[cmd[p].file], ![p].pc = "check"] \in [Procs -> Command]
      BY <1>0, <1>1, <3>1, CommandFields
    <3>3. QED
      BY <1>2, <1>9, <2>2, <3>2 DEF Displace
  <2>3. CASE cmd[p].saw[cmd[p].file] # None /\ name[cmd[p].file] = None
    BY <1>2, <1>9, <2>3 DEF Displace
  <2>4. QED
    BY <2>1, <2>2, <2>3
<1>10. CASE Check(p)
  BY <1>2, <1>4, <1>10 DEF Check, AfterDisplacing
<1>11. CASE Create(p)
  <2>1. \/ \E i \in Inodes : cmd' = [cmd EXCEPT ![p].own = i, ![p].pc = "fill"]
        \/ Goto(p, "fail")
    <3>1. Unused \subseteq Inodes
      BY DEF Unused
    <3>2. QED
      BY <1>11, <3>1, Zenon DEF Create
  <2>2. ASSUME NEW i \in Inodes
        PROVE  [cmd EXCEPT ![p].own = i, ![p].pc = "fill"] \in [Procs -> Command]
    BY <1>0, <1>1, <2>2, CommandFields
  <2>3. CASE Goto(p, "fail")
    BY <1>2, <2>3
  <2>4. CASE \E i \in Inodes : cmd' = [cmd EXCEPT ![p].own = i, ![p].pc = "fill"]
    BY <2>2, <2>4, Zenon
  <2>5. QED
    BY <2>1, <2>3, <2>4
<1>12. CASE Fill(p)
  BY <1>2, <1>4, <1>12 DEF Fill
<1>13. CASE Lock(p) \/ Settle(p)
  BY <1>2, <1>3, <1>13 DEF Lock, Settle
<1>14. CASE Restore(p) \/ Unlink(p) \/ Clear(p) \/ Fail(p) \/ Crash(p)
  BY <1>2, <1>3, <1>14 DEF Restore, Unlink, Clear, Fail, Crash
<1>15. QED
  BY <1>6, <1>7, <1>8, <1>9, <1>10, <1>11, <1>12, <1>13, <1>14 DEF Work

(* And so do the files, the intent and the editor keep their types.        *)
LEMMA StoreTypes ==
    ASSUME TypeOK, Recording, NEW p \in Procs, Work(p) \/ Crash(p)
    PROVE  TypeOK'
<1>0. cmd' \in [Procs -> Command] /\ cmd[p] \in Command
  BY CommandTypes DEF TypeOK
<1>1. cmd[p].file \in Files /\ cmd[p].own \in Inodes \cup {None}
  BY <1>0 DEF Command
<1> USE <1>0, <1>1 DEF TypeOK, store, editor, Return, Spend, Mishap, Costs
<1>2. ASSUME NEW op \in Operations, NEW v \in Versions, Preview(p, op, v) PROVE TypeOK'
  BY <1>2 DEF Preview
<1>3. CASE Lock(p) \/ Look(p) \/ Settle(p)
  BY <1>3 DEF Lock, Look, Settle
<1>4. CASE Decide(p)
  BY <1>4, IntentType DEF Decide
<1>5. CASE Displace(p)
  BY <1>5 DEF Displace
<1>6. CASE Check(p)
  BY <1>6, FreedType DEF Check
<1>7. CASE Restore(p)
  <2>1. name' \in [Files -> Inodes \cup {None}]
    BY <1>7 DEF Restore
  <2>2. QED
    BY <1>7, <2>1 DEF Restore
<1>8. CASE Unlink(p)
  BY <1>8 DEF Unlink
<1>9. CASE Create(p)
  <2>1. /\ UNCHANGED <<kept, intent, lock, held, edits>>
        /\ UNCHANGED spent \/ Spend("fault")
        /\ \/ \E i \in Inodes : /\ name' = [name EXCEPT ![cmd[p].file] = i]
                                /\ data' = [data EXCEPT ![i] = Unwritten]
           \/ UNCHANGED <<name, data>>
    BY <1>9 DEF Create, Unused
  <2>2. Unwritten \in Contents
    BY DEF Contents
  <2>3. QED
    BY <2>1, <2>2
<1>10. CASE Fill(p)
  <2>1. Intended(cmd[p].op, cmd[p].v)[cmd[p].file] \in Contents
    <3>1. cmd[p].pc = "fill" /\ cmd[p].op \in Operations /\ cmd[p].v \in Versions
      BY <1>10 DEF Fill, Command
    <3>2. cmd[p].op # "uninstall"
      BY <3>1 DEF Recording, OnRecord
    <3>3. Intended(cmd[p].op, cmd[p].v) \in [Files -> Contents]
      BY <3>1, <3>2, IntendedType
    <3>4. QED
      BY <3>3
  <2>2. data' \in [Inodes -> Contents]
    BY <1>10, <2>1 DEF Fill
  <2>3. QED
    BY <1>10, <2>2 DEF Fill
<1>11. CASE Clear(p) \/ Fail(p) \/ Crash(p)
  BY <1>11 DEF Clear, Fail, Crash
<1>12. QED
  BY <1>2, <1>3, <1>4, <1>5, <1>6, <1>7, <1>8, <1>9, <1>10, <1>11 DEF Work

LEMMA EditorTypes == TypeOK /\ Edit => TypeOK'
<1> SUFFICES ASSUME TypeOK, Edit PROVE TypeOK'
  OBVIOUS
<1> USE DEF TypeOK, store, Spend, Costs
<1>1. ASSUME NEW f \in Files, Open(f) PROVE TypeOK'
  BY <1>1 DEF Open
<1>2. ASSUME NEW f \in Files, Delete(f) PROVE TypeOK'
  BY <1>2, FreedType DEF Delete
<1>3. ASSUME NEW f \in Files, NEW e \in Edits, Put(f, e) PROVE TypeOK'
  BY <1>3, FreedType DEF Put, Contents, Unused
<1>4. ASSUME NEW e \in Edits, Save(e) PROVE TypeOK'
  BY <1>4 DEF Save, Contents
<1>5. QED
  BY <1>1, <1>2, <1>3, <1>4 DEF Edit

(* A step of a command is of that command alone.  It takes the lock when   *)
(* it is free, drops it when the command returns, and touches the intent   *)
(* only while the command has the lock.                                    *)
OwnStep(p) ==
    /\ cmd' = [cmd EXCEPT ![p] = cmd'[p]]
    /\ intent' # intent => Busy(cmd[p])
    /\ \/ lock' = lock /\ (Busy(cmd'[p]) <=> Busy(cmd[p]))
       \/ lock = None /\ lock' = p /\ Busy(cmd'[p])
       \/ lock' = (IF lock = p THEN None ELSE lock) /\ cmd'[p] = Idle

LEMMA OneCommand ==
    ASSUME TypeOK, NEW p \in Procs, Work(p) \/ Crash(p)
    PROVE  OwnStep(p)
<1>0. cmd \in [Procs -> Command] /\ Idle.pc = "idle"
  BY IdleType DEF TypeOK
<1> USE <1>0 DEF OwnStep, Goto, Return, Busy, Command, Advance
<1>1. ASSUME NEW op \in Operations, NEW v \in Versions, Preview(p, op, v) PROVE OwnStep(p)
  BY <1>1 DEF Preview
<1>2. CASE Lock(p)
  BY <1>2 DEF Lock
<1>3. CASE Look(p)
  BY <1>3 DEF Look
<1>4. CASE Settle(p)
  BY <1>4 DEF Settle
<1>5. CASE Decide(p)
  BY <1>5 DEF Decide
<1>6. CASE Displace(p)
  BY <1>6 DEF Displace, AfterDisplacing
<1>7. CASE Check(p)
  BY <1>7 DEF Check, AfterDisplacing
<1>8. CASE Restore(p)
  BY <1>8 DEF Restore
<1>9. CASE Unlink(p)
  BY <1>9 DEF Unlink
<1>10. CASE Create(p)
  BY <1>10 DEF Create
<1>11. CASE Fill(p)
  BY <1>11 DEF Fill
<1>12. CASE Clear(p) \/ Fail(p) \/ Crash(p)
  BY <1>12 DEF Clear, Fail, Crash
<1>13. QED
  BY <1>1, <1>2, <1>3, <1>4, <1>5, <1>6, <1>7, <1>8, <1>9, <1>10, <1>11,
     <1>12 DEF Work

LEMMA LockStep == TypeOK /\ LockHeld /\ Next => LockHeld'
<1> SUFFICES ASSUME TypeOK, LockHeld, Next PROVE LockHeld'
  OBVIOUS
<1>1. ASSUME NEW p \in Procs, Work(p) \/ Crash(p) PROVE LockHeld'
  <2>1. cmd \in [Procs -> Command] /\ Idle.pc = "idle" /\ None \notin Procs
    BY IdleType, NoneIsNothing DEF TypeOK
  <2>2. OwnStep(p)
    BY <1>1, OneCommand
  <2>3. QED
    BY <2>1, <2>2 DEF OwnStep, LockHeld, Busy
<1>2. CASE Edit
  BY <1>2 DEF Edit, Open, Delete, Put, Save, LockHeld, Busy
<1>3. QED
  BY <1>1, <1>2 DEF Next

-----------------------------------------------------------------------------
(* What a mutation decided is what its intent says, until it returns.      *)
LEMMA AdvanceKeeps ==
    ASSUME NEW p \in Procs, cmd \in [Procs -> Command],
           NEW pc, NEW after, Advance(p, pc, after)
    PROVE  /\ cmd'[p].op = cmd[p].op /\ cmd'[p].v = cmd[p].v
           /\ cmd'[p].saw = cmd[p].saw /\ cmd'[p].own = None
           /\ cmd'[p].pc \in {pc, after}
BY DEF Advance, Command

(* A step of one command keeps what it decided on record.                  *)
LEMMA CommandRecords ==
    ASSUME TypeOK, LockHeld, Recording, NEW p \in Procs, Work(p) \/ Crash(p)
    PROVE  OnRecord(cmd[p])'
<1>0. cmd[p] \in Command /\ cmd \in [Procs -> Command] /\ OnRecord(cmd[p])
  BY DEF TypeOK, Recording
<1>1. Idle.pc = "idle"
  BY IdleType
<1> USE <1>0, <1>1 DEF OnRecord, Mutating, Decided, IntentOf, Goto, Return, store, editor
<1>2. ASSUME NEW op \in Operations, NEW v \in Versions, Preview(p, op, v)
      PROVE  OnRecord(cmd[p])'
  BY <1>2 DEF Preview, Command
<1>3. CASE Lock(p)
  BY <1>3 DEF Lock, Command
<1>4. CASE Look(p)
  BY <1>4 DEF Look, Command
<1>5. CASE Settle(p)
  BY <1>5 DEF Settle, Command
<1>6. CASE Decide(p)
  <2> DEFINE saw == [cmd[p].saw EXCEPT !["record"] = At("record")]
  <2>1. CASE cmd' = [cmd EXCEPT ![p] = Idle]
    BY <2>1
  <2>2. CASE Plan(saw, cmd[p].op, cmd[p].v) \in {"write", "remove"}
             /\ cmd' = [cmd EXCEPT ![p].saw = saw, ![p].pc = "displace"]
             /\ intent' = IntentOf(cmd'[p])
    <3>1. saw \in [Files -> Contents \cup {None}]
      BY AtType DEF Command, Files
    <3>2. cmd[p].op \in Operations /\ cmd[p].v \in Versions
      BY DEF Command
    <3>3. saw = Nothing \/ \E w \in Versions : saw = Intended("install", w)
      BY <2>2, <3>1, <3>2, PlanIsOwned
    <3>4. cmd'[p].saw = saw /\ cmd'[p].pc = "displace"
      BY <2>2 DEF Command
    <3>5. QED
      BY <2>2, <3>3, <3>4
  <2>3. QED
    BY <1>6, <2>1, <2>2, Zenon DEF Decide
<1>7. CASE Displace(p)
  BY <1>7 DEF Displace, AfterDisplacing, Command
<1>8. CASE Check(p)
  <2>1. cmd[p].pc = "check" /\ intent' = intent
    BY <1>8 DEF Check
  <2>2. CASE Goto(p, "restore") \/ Goto(p, "fail")
    BY <2>1, <2>2 DEF Command
  <2>3. CASE Advance(p, "displace", AfterDisplacing(cmd[p]))
    BY <2>1, <2>3, AdvanceKeeps DEF AfterDisplacing
  <2>4. QED
    BY <1>8, <2>2, <2>3 DEF Check
<1>9. CASE Restore(p) \/ Unlink(p)
  BY <1>9 DEF Restore, Unlink, Command
<1>10. CASE Create(p)
  <2>1. cmd[p].pc = "create" /\ intent' = intent
    BY <1>10 DEF Create
  <2>2. \/ \E i \in Unused : cmd' = [cmd EXCEPT ![p].own = i, ![p].pc = "fill"]
        \/ Goto(p, "fail")
    BY <1>10, Zenon DEF Create
  <2>3. /\ cmd'[p].op = cmd[p].op /\ cmd'[p].v = cmd[p].v
        /\ cmd'[p].saw = cmd[p].saw /\ cmd'[p].pc \in {"fill", "fail"}
    <3>1. CASE Goto(p, "fail")
      BY <3>1 DEF Command
    <3>2. ASSUME NEW i \in Unused, cmd' = [cmd EXCEPT ![p].own = i, ![p].pc = "fill"]
          PROVE  /\ cmd'[p].op = cmd[p].op /\ cmd'[p].v = cmd[p].v
                 /\ cmd'[p].saw = cmd[p].saw /\ cmd'[p].pc \in {"fill", "fail"}
      BY <3>2 DEF Command
    <3>3. QED
      BY <2>2, <3>1, <3>2
  <2>4. QED
    BY <2>1, <2>3
<1>11. CASE Fill(p)
  <2>1. cmd[p].pc = "fill" /\ intent' = intent
    BY <1>11 DEF Fill
  <2>2. CASE Goto(p, "fail")
    BY <2>1, <2>2 DEF Command
  <2>3. CASE Advance(p, "create", "clear")
    BY <2>1, <2>3, AdvanceKeeps
  <2>4. QED
    BY <1>11, <2>2, <2>3 DEF Fill
<1>12. CASE Clear(p) \/ Fail(p) \/ Crash(p)
  BY <1>12 DEF Clear, Fail, Crash
<1>13. QED
  BY <1>2, <1>3, <1>4, <1>5, <1>6, <1>7, <1>8, <1>9, <1>10, <1>11, <1>12 DEF Work

(* And nobody else's: without the lock nothing is decided.                 *)
LEMMA RecordStep == TypeOK /\ LockHeld /\ Recording /\ Next => Recording'
<1> SUFFICES ASSUME TypeOK, LockHeld, Recording, Next PROVE Recording'
  OBVIOUS
<1>1. ASSUME NEW p \in Procs, Work(p) \/ Crash(p) PROVE Recording'
  <2>1. OwnStep(p) /\ cmd \in [Procs -> Command]
    BY <1>1, OneCommand DEF TypeOK
  <2>2. ASSUME NEW q \in Procs, q # p PROVE OnRecord(cmd[q])'
    <3>1. cmd'[q] = cmd[q]
      BY <2>1, <2>2 DEF OwnStep
    <3>2. CASE intent' = intent
      BY <3>1, <3>2 DEF Recording, OnRecord, IntentOf
    <3>3. CASE intent' # intent
      <4>1. cmd'[q].pc \in {"idle", "lock"}
        BY <2>1, <2>2, <3>1, <3>3 DEF OwnStep, LockHeld, Busy
      <4>2. QED
        BY <4>1 DEF OnRecord, Mutating, Decided
    <3>4. QED
      BY <3>2, <3>3
  <2>3. QED
    BY <1>1, <2>2, CommandRecords DEF Recording
<1>2. CASE Edit
  BY <1>2 DEF Edit, Open, Delete, Put, Save, store, Recording, OnRecord, IntentOf
<1>3. QED
  BY <1>1, <1>2 DEF Next

-----------------------------------------------------------------------------
(* Memoria's steps: a text, and a file that is open, keep a name, however  *)
(* far the command is and wherever it stops.                               *)

LEMMA WaitingOwnsNothing ==
    ASSUME NEW q \in Procs, cmd'[q].pc \notin {"check", "restore", "unlink", "fill"}
    PROVE  OwnInode(cmd[q])'
BY DEF OwnInode

LEMMA FileTypes ==
    ASSUME TypeOK, NEW p \in Procs
    PROVE  /\ cmd[p].file \in Files /\ cmd[p].own \in Inodes \cup {None}
           /\ \A f \in Files : name[f] \in Inodes \cup {None}
           /\ None \notin Inodes
BY NoneIsNothing DEF TypeOK, Command

(* A step that leaves the files alone and has no inode in its hands after. *)
LEMMA QuietStep ==
    ASSUME TypeOK, Handling, NEW p \in Procs, OwnStep(p), UNCHANGED <<store, editor>>,
           OwnInode(cmd[p])'
    PROVE  Handling'
<1>1. ASSUME NEW q \in Procs PROVE OwnInode(cmd[q])'
  <2>1. CASE q = p
    BY <2>1
  <2>2. CASE q # p
    <3>1. cmd'[q] = cmd[q]
      BY <2>2 DEF OwnStep, TypeOK
    <3>2. QED
      BY <3>1 DEF Handling, OwnInode, store, editor
  <2>3. QED
    BY <2>1, <2>2
<1>2. NamesApart' /\ Reachable'
  BY DEF Handling, NamesApart, Reachable, Named, store, editor
<1>3. QED
  BY <1>1, <1>2 DEF Handling

(* While one command has the lock no other has an inode in its hands.      *)
LEMMA OthersEmptyHanded ==
    ASSUME TypeOK, LockHeld, NEW p \in Procs, Busy(cmd[p]), OwnStep(p),
           NEW q \in Procs, q # p
    PROVE  OwnInode(cmd[q])'
<1>1. cmd'[q] = cmd[q] /\ cmd[q].pc \in {"idle", "lock"}
  BY DEF OwnStep, TypeOK, LockHeld, Busy
<1>2. QED
  BY <1>1, WaitingOwnsNothing

LEMMA DisplaceKeeps ==
    ASSUME TypeOK, LockHeld, Handling, NEW p \in Procs, OwnStep(p), Displace(p)
    PROVE  Handling'
<1> DEFINE f == cmd[p].file
<1>0. f \in Files /\ cmd \in [Procs -> Command] /\ cmd[p].pc = "displace"
      /\ name \in [Files -> Inodes \cup {None}] /\ None \notin Inodes
      /\ kept \subseteq Inodes
  BY FileTypes DEF TypeOK, Displace
<1>1. CASE UNCHANGED <<store, editor>>
  <2>1. OwnInode(cmd[p])'
    BY <1>0, <1>1 DEF Displace, OwnInode, AfterDisplacing, Goto, Command
  <2>2. QED
    BY <1>1, <2>1, QuietStep
<1>2. CASE ~UNCHANGED <<store, editor>>
  <2>1. /\ name[f] # None /\ name' = [name EXCEPT ![f] = None]
        /\ kept' = kept \cup {name[f]}
        /\ UNCHANGED <<data, held, edits>>
    BY <1>2 DEF Displace, store, editor
  <2>2. \/ cmd' = [cmd EXCEPT ![p].own = name[f], ![p].pc = "check"]
        \/ Goto(p, "fail")
    BY <1>2 DEF Displace, store, editor
  <2>3. \A g \in Files \ {f} : name[g] # name[f] /\ name'[g] = name[g]
    BY <1>0, <2>1 DEF Handling, NamesApart, Files
  <2>4. NamesApart'
    BY <1>0, <2>1 DEF Handling, NamesApart, Files
  <2>5. \A i : Named(i) => Named(i)'
    BY <1>0, <2>1 DEF Named
  <2>6. Reachable'
    BY <2>1, <2>5 DEF Handling, Reachable
  <2>7. OwnInode(cmd[p])'
    <3>1. \A g \in Files : name'[g] # name[f]
      BY <1>0, <2>1, <2>3
    <3>2. \/ cmd'[p].own = name[f] /\ cmd'[p].pc = "check"
          \/ cmd'[p].pc = "fail"
      BY <1>0, <2>2 DEF Goto, Command
    <3>3. QED
      BY <2>1, <3>1, <3>2 DEF OwnInode
  <2>8. QED
    BY <1>0, <2>4, <2>6, <2>7, OthersEmptyHanded DEF Handling, Busy
<1>3. QED
  BY <1>1, <1>2

(* Only a copy of Memoria's own bytes that nobody has open is deleted.     *)
LEMMA CheckKeeps ==
    ASSUME TypeOK, LockHeld, Recording, Handling, NEW p \in Procs, OwnStep(p), Check(p)
    PROVE  Handling'
<1> DEFINE c == cmd[p]
<1>0. /\ c.file \in Files /\ cmd \in [Procs -> Command] /\ c.pc = "check"
      /\ c.own \in Inodes /\ kept \subseteq Inodes /\ data \in [Inodes -> Contents]
      /\ UNCHANGED <<name, held, edits>>
      /\ \A f \in Files : name[f] # c.own
  BY FileTypes DEF TypeOK, Check, editor, Handling, OwnInode
<1>1. ASSUME NEW e \in edits PROVE c.saw[c.file] # Typed(e)
  <2>1. c.op \in Operations /\ edits \subseteq Edits
    BY DEF TypeOK, Command
  <2>2. CASE c.saw = Nothing
    <3>1. c.saw[c.file] = None
      BY <1>0, <2>2 DEF Nothing
    <3>2. Typed(e) \in Contents
      BY <2>1 DEF Contents
    <3>3. QED
      BY <3>1, <3>2, EvidenceIsForeign
  <2>3. CASE \E v \in Versions : c.saw = Intended("install", v)
    BY <1>0, <2>1, <2>3, IntendedType DEF Operations
  <2>4. QED
    BY <1>0, <2>2, <2>3 DEF Recording, OnRecord, Mutating
<1>2. CASE UNCHANGED <<kept, data>>
  <2>1. cmd'[p].pc \in {"restore", "fail", "displace", "clear", "create"}
    BY <1>0, AdvanceKeeps DEF Check, Goto, AfterDisplacing, Command
  <2>2. cmd'[p].pc = "restore" => cmd'[p].own = c.own
    <3>1. CASE Goto(p, "restore") \/ Goto(p, "fail")
      BY <1>0, <3>1 DEF Goto, Command
    <3>2. CASE Advance(p, "displace", AfterDisplacing(cmd[p]))
      BY <1>0, <3>2, AdvanceKeeps DEF AfterDisplacing
    <3>3. QED
      BY <3>1, <3>2 DEF Check
  <2>3. OwnInode(cmd[p])'
    BY <1>0, <1>2, <2>1, <2>2 DEF OwnInode, Handling
  <2>4. QED
    BY <1>0, <1>2, <2>3, QuietStep DEF store, editor
<1>3. CASE ~UNCHANGED <<kept, data>>
  <2>1. /\ data[c.own] = c.saw[c.file] /\ held # c.own
        /\ kept' = kept \ {c.own} /\ data' = Freed(c.own)
        /\ Advance(p, "displace", AfterDisplacing(cmd[p]))
    BY <1>3 DEF Check
  <2>2. cmd'[p].pc \in {"displace", "clear", "create"}
    BY <1>0, <2>1, AdvanceKeeps DEF AfterDisplacing
  <2>3. NamesApart'
    BY <1>0 DEF Handling, NamesApart
  <2>4. Reachable'
    <3>1. ASSUME NEW i, i # c.own, Named(i) PROVE Named(i)'
      BY <1>0, <2>1, <3>1 DEF Named
    <3>2. ASSUME NEW e \in edits' PROVE \E i \in Inodes : Named(i)' /\ data'[i] = Typed(e)
      <4>1. PICK i \in Inodes : Named(i) /\ data[i] = Typed(e)
        BY <1>0, <3>2 DEF Handling, Reachable
      <4>2. i # c.own
        BY <1>0, <1>1, <2>1, <4>1
      <4>3. data'[i] = data[i]
        BY <1>0, <2>1, <4>2 DEF Freed
      <4>4. QED
        BY <3>1, <4>1, <4>2, <4>3
    <3>3. held' # None => Named(held)'
      BY <1>0, <2>1, <3>1 DEF Handling, Reachable
    <3>4. QED
      BY <3>2, <3>3 DEF Reachable
  <2>5. QED
    BY <1>0, <2>2, <2>3, <2>4, OthersEmptyHanded, WaitingOwnsNothing
    DEF Handling, Busy
<1>4. QED
  BY <1>2, <1>3

LEMMA RestoreKeeps ==
    ASSUME TypeOK, LockHeld, Handling, NEW p \in Procs, OwnStep(p), Restore(p)
    PROVE  Handling'
<1> DEFINE c == cmd[p]
<1>0. /\ c.file \in Files /\ cmd \in [Procs -> Command] /\ c.pc = "restore"
      /\ c.own \in kept /\ c.own \in Inodes /\ None \notin Inodes
      /\ name \in [Files -> Inodes \cup {None}]
      /\ UNCHANGED <<kept, data, held, edits>>
      /\ \A f \in Files : name[f] # c.own
  BY FileTypes DEF TypeOK, Restore, editor, Handling, OwnInode
<1>1. CASE UNCHANGED name
  <2>1. name'[c.file] # c.own
    BY <1>0, <1>1
  <2>2. Goto(p, "fail")
    BY <1>0, <2>1 DEF Restore
  <2>3. cmd'[p].pc = "fail"
    BY <1>0, <2>2 DEF Goto, Command
  <2>4. QED
    BY <1>0, <1>1, <2>3, QuietStep, WaitingOwnsNothing DEF store, editor
<1>2. CASE ~UNCHANGED name
  <2>1. /\ name[c.file] = None /\ name' = [name EXCEPT ![c.file] = c.own]
        /\ Goto(p, "unlink")
    BY <1>2 DEF Restore
  <2>2. cmd'[p].pc = "unlink" /\ cmd'[p].own = c.own /\ name'[c.file] = c.own
    BY <1>0, <2>1 DEF Goto, Command
  <2>3. NamesApart'
    BY <1>0, <2>1 DEF Handling, NamesApart, Files
  <2>4. \A i : i # None /\ Named(i) => Named(i)'
    BY <1>0, <2>1 DEF Named
  <2>5. Reachable'
    BY <1>0, <2>4 DEF Handling, Reachable
  <2>6. OwnInode(cmd[p])'
    BY <1>0, <2>2 DEF OwnInode
  <2>7. QED
    BY <1>0, <2>3, <2>5, <2>6, OthersEmptyHanded DEF Handling, Busy
<1>3. QED
  BY <1>1, <1>2

(* The second name of a restored file goes only if the first still is one  *)
(* of it, or nobody wrote or opened it.                                    *)
LEMMA UnlinkKeeps ==
    ASSUME TypeOK, LockHeld, Handling, NEW p \in Procs, OwnStep(p), Unlink(p)
    PROVE  Handling'
<1> DEFINE c == cmd[p]
<1>0. /\ c.own \in Inodes /\ cmd \in [Procs -> Command] /\ c.pc = "unlink"
      /\ UNCHANGED <<name, data, held, edits>>
      /\ kept' = kept \/ kept' = kept \ {c.own}
      /\ \A e \in edits : data[c.own] = Typed(e) => \E f \in Files : name[f] = c.own
      /\ held = c.own => \E f \in Files : name[f] = c.own
  BY DEF TypeOK, Unlink, editor, Handling, OwnInode
<1>1. cmd'[p].pc = "fail"
  BY <1>0 DEF Unlink, Goto, Command
<1>2. NamesApart'
  BY <1>0 DEF Handling, NamesApart
<1>3. ASSUME NEW i, Named(i), i # c.own \/ \E f \in Files : name[f] = c.own
      PROVE  Named(i)'
  BY <1>0, <1>3 DEF Named
<1>4. Reachable'
  BY <1>0, <1>3 DEF Handling, Reachable
<1>5. QED
  BY <1>0, <1>1, <1>2, <1>4, OthersEmptyHanded, WaitingOwnsNothing DEF Handling, Busy

LEMMA CreateKeeps ==
    ASSUME TypeOK, LockHeld, Handling, NEW p \in Procs, OwnStep(p), Create(p)
    PROVE  Handling'
<1> DEFINE c == cmd[p]
<1>0. /\ c.file \in Files /\ cmd \in [Procs -> Command] /\ c.pc = "create"
      /\ name \in [Files -> Inodes \cup {None}] /\ None \notin Inodes
      /\ data \in [Inodes -> Contents]
      /\ UNCHANGED <<kept, held, edits>>
  BY FileTypes DEF TypeOK, Create, editor
<1>1. CASE Goto(p, "fail") /\ UNCHANGED <<name, data>>
  <2>1. cmd'[p].pc = "fail"
    BY <1>0, <1>1 DEF Goto, Command
  <2>2. QED
    BY <1>0, <1>1, <2>1, QuietStep, WaitingOwnsNothing DEF store, editor
<1>2. ASSUME NEW i \in Unused, name[c.file] = None,
             name' = [name EXCEPT ![c.file] = i],
             data' = [data EXCEPT ![i] = Unwritten],
             cmd' = [cmd EXCEPT ![p].own = i, ![p].pc = "fill"]
      PROVE  Handling'
  <2>1. /\ i \in Inodes /\ i \notin kept /\ i # held
        /\ \A f \in Files : name[f] # i
    BY DEF Unused
  <2>2. cmd'[p].own = i /\ cmd'[p].pc = "fill"
    BY <1>0, <1>2 DEF Command
  <2>3. NamesApart'
    BY <1>0, <1>2, <2>1 DEF Handling, NamesApart, Files
  <2>4. \A j : j # None /\ Named(j) => Named(j)' /\ j # i
    BY <1>0, <1>2, <2>1 DEF Named
  <2>5. Reachable'
    <3>1. ASSUME NEW e \in edits' PROVE \E j \in Inodes : Named(j)' /\ data'[j] = Typed(e)
      <4>1. PICK j \in Inodes : Named(j) /\ data[j] = Typed(e)
        BY <1>0, <3>1 DEF Handling, Reachable
      <4>2. Named(j)' /\ j # i
        BY <1>0, <2>4, <4>1
      <4>3. QED
        BY <1>0, <1>2, <4>1, <4>2
    <3>2. QED
      BY <1>0, <2>4, <3>1 DEF Handling, Reachable
  <2>6. OwnInode(cmd[p])'
    BY <1>0, <1>2, <2>1, <2>2 DEF OwnInode
  <2>7. QED
    BY <1>0, <2>3, <2>5, <2>6, OthersEmptyHanded DEF Handling, Busy
<1>3. QED
  BY <1>1, <1>2 DEF Create

LEMMA FillKeeps ==
    ASSUME TypeOK, LockHeld, Handling, NEW p \in Procs, OwnStep(p), Fill(p)
    PROVE  Handling'
<1> DEFINE c == cmd[p]
<1>0. /\ cmd \in [Procs -> Command] /\ c.pc = "fill"
      /\ c.own \in Inodes /\ c.own # held /\ data[c.own] = Unwritten
      /\ data \in [Inodes -> Contents]
      /\ UNCHANGED <<name, kept, held, edits>>
  BY DEF TypeOK, Fill, editor, Handling, OwnInode
<1>1. cmd'[p].pc \in {"fail", "create", "clear"}
  BY <1>0, AdvanceKeeps DEF Fill, Goto, Command
<1>2. \A i \in Inodes : i # c.own => data'[i] = data[i]
  BY <1>0 DEF Fill
<1>3. NamesApart' /\ \A i : Named(i) => Named(i)'
  BY <1>0 DEF Handling, NamesApart, Named
<1>4. Reachable'
  <2>1. \A e \in edits : data[c.own] # Typed(e)
    BY <1>0, ContentsDiffer
  <2>2. QED
    BY <1>0, <1>2, <1>3, <2>1 DEF Handling, Reachable
<1>5. QED
  BY <1>0, <1>1, <1>3, <1>4, OthersEmptyHanded, WaitingOwnsNothing DEF Handling, Busy

LEMMA CommandKeeps ==
    ASSUME TypeOK, LockHeld, Recording, Handling, NEW p \in Procs, Work(p) \/ Crash(p)
    PROVE  Handling'
<1>0. OwnStep(p) /\ cmd \in [Procs -> Command] /\ Idle.pc = "idle"
  BY OneCommand, IdleType DEF TypeOK
<1>1. CASE UNCHANGED <<store, editor>>
           /\ cmd'[p].pc \notin {"check", "restore", "unlink", "fill"}
  BY <1>0, <1>1, QuietStep, WaitingOwnsNothing
<1> USE <1>0 DEF Goto, Return, Command
<1>2. ASSUME NEW op \in Operations, NEW v \in Versions, Preview(p, op, v) PROVE Handling'
  BY <1>1, <1>2 DEF Preview
<1>3. CASE Lock(p)
  BY <1>1, <1>3 DEF Lock
<1>4. CASE Look(p)
  BY <1>1, <1>4 DEF Look
<1>5. CASE Settle(p)
  BY <1>1, <1>5 DEF Settle
<1>6. CASE Decide(p)
  BY <1>1, <1>6 DEF Decide
<1>7. CASE Clear(p) \/ Fail(p) \/ Crash(p)
  BY <1>1, <1>7 DEF Clear, Fail, Crash
<1>8. QED
  BY <1>2, <1>3, <1>4, <1>5, <1>6, <1>7, DisplaceKeeps, CheckKeeps, RestoreKeeps,
     UnlinkKeeps, CreateKeeps, FillKeeps DEF Work

(***************************************************************************)
(* The editor's steps: it takes only its own texts away, and never opens   *)
(* or reuses the file a command has in its hands.                          *)
(***************************************************************************)
LEMMA UnusedIsFree ==
    ASSUME NEW i \in Unused
    PROVE  /\ i \in Inodes /\ ~Named(i) /\ i # held
           /\ \A p \in Procs : cmd[p].own # i
BY DEF Unused, Named

LEMMA OpenKeeps ==
    ASSUME TypeOK, Handling, NEW f \in Files, Open(f)
    PROVE  Handling'
<1>0. /\ held' = name[f] /\ name[f] # None
      /\ UNCHANGED <<name, kept, data, edits, cmd>> /\ held = None
      /\ \A p \in Procs : cmd[p].pc = "fill" => cmd[p].own # name[f]
  BY DEF Open, store, BeingWritten
<1>1. NamesApart' /\ Reachable'
  BY <1>0 DEF Handling, NamesApart, Reachable, Named
<1>2. ASSUME NEW p \in Procs PROVE OwnInode(cmd[p])'
  BY <1>0 DEF Handling, OwnInode
<1>3. QED
  BY <1>1, <1>2 DEF Handling

LEMMA SaveKeeps ==
    ASSUME TypeOK, Handling, NEW e \in Edits, Save(e)
    PROVE  Handling'
<1>0. /\ held # None /\ held \in Inodes /\ held' = None /\ e \in Fresh
      /\ data' = [data EXCEPT ![held] = Typed(e)] /\ data \in [Inodes -> Contents]
      /\ edits' = (edits \ Overwritten(held)) \cup {e} /\ edits \subseteq Edits
      /\ UNCHANGED <<name, kept, cmd>> /\ Named(held)
  BY DEF Save, TypeOK, Handling, Reachable
<1>1. NamesApart' /\ \A i : Named(i)' <=> Named(i)
  BY <1>0 DEF Handling, NamesApart, Named
<1>2. ASSUME NEW d \in edits' PROVE \E i \in Inodes : Named(i)' /\ data'[i] = Typed(d)
  <2>1. CASE d = e
    BY <1>0, <1>1, <2>1
  <2>2. CASE d # e
    <3>1. d \in edits /\ d \notin Overwritten(held)
      BY <1>0, <1>2, <2>2
    <3>2. PICK i \in Inodes : Named(i) /\ data[i] = Typed(d)
      BY <3>1 DEF Handling, Reachable
    <3>3. i # held
      BY <1>0, <3>1, <3>2 DEF Overwritten
    <3>4. QED
      BY <1>0, <1>1, <3>2, <3>3
  <2>3. QED
    BY <2>1, <2>2
<1>3. Reachable'
  BY <1>0, <1>2 DEF Reachable
<1>4. ASSUME NEW p \in Procs PROVE OwnInode(cmd[p])'
  <2>1. OwnInode(cmd[p])
    BY DEF Handling
  <2>2. CASE cmd[p].pc = "unlink"
    <3>1. cmd[p].own \in Inodes /\ (held = cmd[p].own => \E f \in Files : name[f] = cmd[p].own)
      BY <2>1, <2>2 DEF OwnInode
    <3>2. CASE held = cmd[p].own
      BY <1>0, <2>2, <3>1, <3>2 DEF OwnInode
    <3>3. CASE held # cmd[p].own
      <4>1. data'[cmd[p].own] = data[cmd[p].own]
        BY <1>0, <3>1, <3>3
      <4>2. data[cmd[p].own] # Typed(e)
        BY <1>0, <3>1 DEF Fresh
      <4>3. held' # cmd[p].own
        BY <1>0, <3>1, NoneIsNothing
      <4>4. QED
        BY <1>0, <2>1, <2>2, <3>1, <4>1, <4>2, <4>3 DEF OwnInode
    <3>4. QED
      BY <3>2, <3>3
  <2>3. CASE cmd[p].pc # "unlink"
    BY <1>0, <2>1, <2>3, NoneIsNothing DEF OwnInode
  <2>4. QED
    BY <2>2, <2>3
<1>5. QED
  BY <1>1, <1>3, <1>4 DEF Handling

(* The editor takes the name `f` away, and gives it to `new` or to nobody. *)
LEMMA TakenAway ==
    ASSUME TypeOK, Handling, NEW f \in Files,
           NEW new, new = None \/ new \in Unused,
           name' = [name EXCEPT ![f] = new],
           \A i \in Inodes : i # new /\ data'[i] # data[i] => data'[i] = Dropped(name[f])[i],
           edits' \ Overwritten(name[f]) = edits',
           \A e \in edits' : \/ e \in edits
                             \/ /\ e \in Fresh /\ new \in Inodes
                                /\ data'[new] = Typed(e),
           held' = IF held = name[f] THEN None ELSE held,
           UNCHANGED <<kept, cmd>>
    PROVE  Handling'
<1>0. /\ name \in [Files -> Inodes \cup {None}] /\ None \notin Inodes
      /\ data \in [Inodes -> Contents] /\ kept \subseteq Inodes
      /\ name'[f] = new /\ \A g \in Files : g # f => name'[g] = name[g]
  BY NoneIsNothing DEF TypeOK
<1>1. \A i \in Inodes : i # new /\ i # name[f] => data'[i] = data[i]
  BY <1>0 DEF Dropped, Freed
<1>2. NamesApart'
  BY <1>0 DEF Handling, NamesApart, Files, Unused
<1>3. \A i : Named(i) /\ i # name[f] => Named(i)'
  BY <1>0 DEF Named
<1>4. \A i \in Inodes : Named(i) => i # new
  BY <1>0, UnusedIsFree
<1>5. Reachable'
  <2>1. ASSUME NEW e \in edits' PROVE \E i \in Inodes : Named(i)' /\ data'[i] = Typed(e)
    <3>1. CASE new \in Inodes /\ data'[new] = Typed(e)
      BY <1>0, <3>1 DEF Named
    <3>2. CASE e \in edits
      <4>1. PICK i \in Inodes : Named(i) /\ data[i] = Typed(e)
        BY <3>2 DEF Handling, Reachable
      <4>2. e \in Edits /\ e \notin Overwritten(name[f])
        BY <2>1, <3>2 DEF TypeOK
      <4>3. i # name[f]
        BY <4>1, <4>2 DEF Overwritten
      <4>4. QED
        BY <1>1, <1>3, <1>4, <4>1, <4>3
    <3>3. QED
      BY <2>1, <3>1, <3>2
  <2>2. held' # None => Named(held)'
    BY <1>3 DEF Handling, Reachable
  <2>3. QED
    BY <2>1, <2>2 DEF Reachable
<1>6. ASSUME NEW p \in Procs PROVE OwnInode(cmd[p])'
  <2>1. OwnInode(cmd[p]) /\ (cmd[p].own \in Inodes => cmd[p].own # new)
    BY <1>0, UnusedIsFree DEF Handling
  <2>2. cmd[p].own \in Inodes => data'[cmd[p].own] = data[cmd[p].own]
    <3>1. cmd[p].own \in Inodes => Dropped(name[f])[cmd[p].own] = data[cmd[p].own]
      BY <1>0 DEF Dropped, Freed
    <3>2. QED
      BY <2>1, <3>1
  <2>3. CASE cmd[p].pc = "unlink"
    <3>1. /\ cmd[p].own \in Inodes
          /\ \A e \in edits : data[cmd[p].own] = Typed(e)
                                 => \E g \in Files : name[g] = cmd[p].own
          /\ held = cmd[p].own => \E g \in Files : name[g] = cmd[p].own
      BY <2>1, <2>3 DEF OwnInode
    <3>2. ASSUME NEW e \in edits', data'[cmd[p].own] = Typed(e)
          PROVE  \E g \in Files : name'[g] = cmd[p].own
      <4>1. e \notin Fresh
        BY <2>2, <3>1, <3>2 DEF Fresh
      <4>2. e \in edits /\ e \in Edits /\ e \notin Overwritten(name[f])
        BY <3>2, <4>1 DEF TypeOK
      <4>3. name[f] # cmd[p].own
        BY <2>2, <3>1, <3>2, <4>2 DEF Overwritten
      <4>4. QED
        BY <1>0, <2>2, <3>1, <3>2, <4>2, <4>3
    <3>3. held' = cmd[p].own => \E g \in Files : name'[g] = cmd[p].own
      BY <1>0, <3>1
    <3>4. QED
      BY <2>3, <3>1, <3>2, <3>3 DEF OwnInode
  <2>4. CASE cmd[p].pc = "fill"
    <3>1. cmd[p].own \in Inodes \ kept /\ cmd[p].own # held /\ data[cmd[p].own] = Unwritten
      BY <2>1, <2>4 DEF OwnInode
    <3>2. QED
      BY <1>0, <2>2, <2>4, <3>1 DEF OwnInode
  <2>5. CASE cmd[p].pc \notin {"unlink", "fill"}
    BY <1>0, <2>1, <2>5 DEF OwnInode
  <2>6. QED
    BY <2>3, <2>4, <2>5
<1>7. QED
  BY <1>2, <1>5, <1>6 DEF Handling

LEMMA EditKeeps == TypeOK /\ Handling /\ Edit => Handling'
<1> SUFFICES ASSUME TypeOK, Handling, Edit PROVE Handling'
  OBVIOUS
<1>0. /\ data \in [Inodes -> Contents] /\ None \notin Inodes
      /\ \A i : Dropped(i) \in [Inodes -> Contents]
  BY FreedType, NoneIsNothing DEF TypeOK
<1>1. ASSUME NEW f \in Files, Delete(f) PROVE Handling'
  <2>1. /\ name' = [name EXCEPT ![f] = None] /\ data' = Dropped(name[f])
        /\ edits' = edits \ Overwritten(name[f])
        /\ held' = IF held = name[f] THEN None ELSE held
        /\ UNCHANGED <<kept, cmd>>
    BY <1>1 DEF Delete
  <2>2. QED
    BY <2>1, TakenAway
<1>2. ASSUME NEW f \in Files, NEW e \in Edits, Put(f, e) PROVE Handling'
  <2>1. PICK i \in Unused : /\ name' = [name EXCEPT ![f] = i]
                            /\ data' = [Dropped(name[f]) EXCEPT ![i] = Typed(e)]
    BY <1>2 DEF Put
  <2>2. /\ e \in Fresh /\ edits' = (edits \ Overwritten(name[f])) \cup {e}
        /\ held' = IF held = name[f] THEN None ELSE held
        /\ UNCHANGED <<kept, cmd>>
    BY <1>2 DEF Put
  <2>3. i \in Inodes /\ data'[i] = Typed(e)
        /\ \A j \in Inodes : j # i => data'[j] = Dropped(name[f])[j]
    BY <1>0, <2>1, UnusedIsFree
  <2>4. e \notin Overwritten(name[f])
    BY <2>2 DEF Overwritten, Fresh
  <2>5. edits' \ Overwritten(name[f]) = edits'
    BY <2>2, <2>4
  <2>6. QED
    BY <2>1, <2>2, <2>3, <2>5, TakenAway
<1>3. ASSUME NEW f \in Files, Open(f) PROVE Handling'
  BY <1>3, OpenKeeps
<1>4. ASSUME NEW e \in Edits, Save(e) PROVE Handling'
  BY <1>4, SaveKeeps
<1>5. QED
  BY <1>1, <1>2, <1>3, <1>4 DEF Edit

-----------------------------------------------------------------------------
LEMMA InitEstablishes == Init => IInv
<1> SUFFICES ASSUME Init PROVE IInv
  OBVIOUS
<1>1. PICK pair \in FirstPairs : \E inode \in [Files -> Inodes] :
            /\ inode["workflow"] # inode["record"]
            /\ name = [f \in Files |-> IF pair[f] = None THEN None ELSE inode[f]]
            /\ data = [i \in Inodes |->
                          IF \E f \in Files : name[f] = i
                          THEN InitialContent(CHOOSE f \in Files : name[f] = i,
                                              pair[CHOOSE f \in Files : name[f] = i])
                          ELSE Unwritten]
  BY DEF Init
<1>2. PICK inode \in [Files -> Inodes] :
            /\ inode["workflow"] # inode["record"]
            /\ name = [f \in Files |-> IF pair[f] = None THEN None ELSE inode[f]]
  BY <1>1
<1>3. /\ kept = {} /\ intent \in FirstIntents /\ lock = None
      /\ cmd = [p \in Procs |-> Idle] /\ held = None /\ edits = {}
      /\ spent = [c \in Costs |-> 0]
  BY DEF Init
<1>4. data \in [Inodes -> Contents]
  <2>1. ASSUME NEW i \in Inodes, \E f \in Files : name[f] = i
        PROVE  InitialContent(CHOOSE f \in Files : name[f] = i,
                              pair[CHOOSE f \in Files : name[f] = i]) \in Contents
    <3>1. PICK f \in Files : f = CHOOSE g \in Files : name[g] = i
      BY <2>1
    <3>2. name[f] = i
      BY <2>1, <3>1
    <3>3. pair[f] \in Versions
      BY <1>1, <1>2, <3>2, NoneIsNothing, EvidenceIsForeign
    <3>4. InitialContent(f, pair[f]) \in Contents
      BY <3>3 DEF InitialContent, Contents
    <3>5. QED
      BY <3>1, <3>4
  <2>2. Unwritten \in Contents
    BY DEF Contents
  <2>3. QED
    BY <1>1, <2>1, <2>2
<1>5. TypeOK
  BY <1>2, <1>3, <1>4, IdleType, EvidenceIsForeign DEF TypeOK, Costs
<1>6. LockHeld
  BY <1>3, IdleType, NoneIsNothing DEF LockHeld, Busy
<1>7. Recording
  BY <1>3, IdleType DEF Recording, OnRecord, Decided, Mutating
<1>8. Handling
  BY <1>2, <1>3, IdleType DEF Handling, NamesApart, Reachable, OwnInode, Files
<1>9. QED
  BY <1>5, <1>6, <1>7, <1>8 DEF IInv

LEMMA StepPreserves == IInv /\ [Next]_vars => IInv'
<1> SUFFICES ASSUME IInv, [Next]_vars PROVE IInv'
  OBVIOUS
<1>1. ASSUME NEW p \in Procs, Work(p) \/ Crash(p) PROVE TypeOK' /\ Handling'
  BY <1>1, StoreTypes, CommandKeeps DEF IInv
<1>2. CASE Edit
  BY <1>2, EditorTypes, EditKeeps, LockStep, RecordStep DEF IInv, Next
<1>3. CASE \E p \in Procs : Work(p) \/ Crash(p)
  BY <1>1, <1>3, LockStep, RecordStep DEF IInv, Next
<1>4. CASE UNCHANGED vars
  BY <1>4 DEF vars, store, editor, IInv, TypeOK, LockHeld, Recording, OnRecord, Handling,
              NamesApart, Reachable, Named, OwnInode, IntentOf
<1>5. QED
  BY <1>2, <1>3, <1>4 DEF Next

LEMMA Invariance == Spec => []IInv
<1>1. QED
  BY InitEstablishes, StepPreserves, PTL DEF Spec

-----------------------------------------------------------------------------
(* Files, contents, the intent and every command keep their types.         *)
THEOREM TypeCorrect == Spec => []TypeOK
<1>1. IInv => TypeOK
  BY DEF IInv
<1>2. QED
  BY <1>1, Invariance, PTL

(* The advisory lock of FsWorkflowStore::apply alone keeps a mutation's    *)
(* intent on disk for as long as the mutation runs: nobody settles it or   *)
(* writes another.                                                         *)
THEOREM MutationsOnRecord == Spec => []MutationIsOnRecord
<1>1. IInv => MutationIsOnRecord
  BY DEF IInv, Recording, OnRecord, Decided, MutationIsOnRecord
<1>2. QED
  BY <1>1, Invariance, PTL

(* A mutation was planned over nothing, or over a pair whose record is of  *)
(* the workflow beside it: build_plan refuses everything else.             *)
THEOREM OwnedPairsChange == Spec => []OnlyOwnedPairsChange
<1>1. IInv => OnlyOwnedPairsChange
  BY DEF IInv, Recording, OnRecord, OnlyOwnedPairsChange
<1>2. QED
  BY <1>1, Invariance, PTL

(* "Both byte sequences always survive" (github_workflow.rs): wherever a   *)
(* displacement, a restoring, a creation, a crash or a failed step stops,  *)
(* a text an editor wrote has a name.                                      *)
THEOREM EditorsTextsSurvive == Spec => []EditsSurvive
<1>1. IInv => EditsSurvive
  <2>1. SUFFICES ASSUME IInv, NEW e \in edits
                 PROVE  \E i \in kept \cup {name[f] : f \in Files} :
                            i \in Inodes /\ data[i] = Typed(e)
    BY DEF EditsSurvive
  <2>2. PICK i \in Inodes : Named(i) /\ data[i] = Typed(e)
    BY <2>1 DEF IInv, Handling, Reachable
  <2>3. QED
    BY <2>2 DEF Named
<1>2. QED
  BY <1>1, Invariance, PTL

(* Beside such data no command gets past looking for it.                   *)
LEMMA ForeignStopsAll ==
    ASSUME IInv, intent = Foreign, NEW p \in Procs
    PROVE  cmd[p].pc \in {"idle", "lock", "look", "settle"}
<1>1. cmd[p] \in Command /\ OnRecord(cmd[p]) /\ IntentOf(cmd[p]) # Foreign
  BY IntentType DEF IInv, TypeOK, Recording
<1>2. cmd[p].pc \notin Decided \cup {"read", "decide"}
  BY <1>1, NoneIsNothing DEF OnRecord
<1>3. QED
  BY <1>1, <1>2 DEF Decided, Mutating, Command, Stations

(* Intent data of another release stops every mutation and is never        *)
(* cleared (FsWorkflowStore::recover).                                     *)
THEOREM ForeignEvidenceKept == Spec => EvidenceKept
<1>1. ASSUME IInv, [Next]_vars, intent = Foreign
      PROVE  /\ intent' = Foreign /\ kept' = kept
             /\ \A p \in Procs : cmd'[p].pc \notin Mutating
  <2>0. cmd \in [Procs -> Command] /\ Idle.pc = "idle"
        /\ \A q \in Procs : cmd[q].pc \in {"idle", "lock", "look", "settle"}
    BY <1>1, ForeignStopsAll, IdleType DEF IInv, TypeOK
  <2>1. ASSUME NEW p \in Procs, Work(p) \/ Crash(p)
        PROVE  /\ intent' = Foreign /\ kept' = kept
               /\ cmd' = [cmd EXCEPT ![p] = cmd'[p]] /\ cmd'[p].pc \notin Mutating
    <3>1. OwnStep(p) /\ cmd[p].pc \in {"idle", "lock", "look", "settle"}
      BY <1>1, <2>0, <2>1, OneCommand DEF IInv
    <3> USE <1>1, <2>0, <3>1, NoneIsNothing DEF OwnStep, Mutating, Goto, Return, Command,
                                                store, editor
    <3>2. CASE \E op \in Operations, v \in Versions : Preview(p, op, v)
      BY <3>2 DEF Preview
    <3>3. CASE Lock(p)
      BY <3>3 DEF Lock
    <3>4. CASE Look(p)
      BY <3>4 DEF Look
    <3>5. CASE Settle(p)
      BY <3>5 DEF Settle
    <3>6. CASE Crash(p)
      BY <3>6 DEF Crash
    <3>7. CASE \/ Decide(p) \/ Displace(p) \/ Check(p) \/ Restore(p) \/ Unlink(p)
              \/ Create(p) \/ Fill(p) \/ Clear(p) \/ Fail(p)
      BY <3>7 DEF Decide, Displace, Check, Restore, Unlink, Create, Fill, Clear, Fail
    <3>8. QED
      BY <2>1, <3>2, <3>3, <3>4, <3>5, <3>6, <3>7 DEF Work
  <2>2. CASE Edit \/ UNCHANGED vars
    BY <1>1, <2>0, <2>2
    DEF Edit, Open, Delete, Put, Save, store, editor, vars, Mutating
  <2>3. ASSUME NEW p \in Procs, Work(p) \/ Crash(p), NEW q \in Procs
        PROVE  cmd'[q].pc \notin Mutating
    BY <2>0, <2>1, <2>3 DEF Mutating
  <2>4. QED
    BY <1>1, <2>1, <2>2, <2>3 DEF Next
<1>2. QED
  BY <1>1, Invariance, PTL DEF Spec, EvidenceKept
=============================================================================
