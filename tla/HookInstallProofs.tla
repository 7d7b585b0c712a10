-------------------------- MODULE HookInstallProofs --------------------------
(***************************************************************************)
(* What the hook installer keeps, for any number of processes, executables *)
(* and groups, any first configuration, any number of outside edits and of *)
(* crashes.                                                                *)
(*                                                                         *)
(* A write is prepared from one read of the two files, and three facts     *)
(* follow it through its steps: what it writes has the user's part of what *)
(* it read (Tidy); the intent of an operation that may have changed a file *)
(* pairs configurations with the records that fit them (OnRecord); and a   *)
(* step knows, from the identities it compared, which of the two pairs it  *)
(* is at (AtItsPlace).  Nobody but the holder of the lock is past its plan *)
(* (Alone).                                                                *)
(*                                                                         *)
(* An outside edit of the user's part changes no identity Memoria owns, so *)
(* a configuration is compared by Like: by what Memoria owns in it, and as *)
(* a whole until the first edit.                                           *)
(***************************************************************************)
EXTENDS HookInstall, SequenceTheorems, WellFoundedInduction, TLAPS

-----------------------------------------------------------------------------
Waiting == {"idle", "planned"}

Alone == \A p \in Procs : cmd[p].pc \notin Waiting => lock = p

\* The steps before the intent is written, and the one that reads it.
KnowsIntent(p) == /\ cmd[p].pc \in {"decide", "read", "intend"} => intent = None
                  /\ cmd[p].pc = "recoverRecord" => intent # None

WritesTidily(p) == cmd[p].pc \in {"intend", "compare", "replace"}
                       => UserPart(cmd[p].after) = UserPart(cmd[p].before)

Tidy == \A p \in Procs : KnowsIntent(p) /\ WritesTidily(p)

\* The containers that were not there before the first installation.
FirstCreated == IF inline THEN [CreatedBy(original) EXCEPT !.file = FALSE]
                ELSE CreatedBy(original)

(***************************************************************************)
(* A configuration and the record beside it: exactly the recorded group;   *)
(* and, until somebody edits, the first configuration with that group and  *)
(* with the containers the record claims, or the first one itself.         *)
(***************************************************************************)
Fits(c, r) ==
    /\ Owned(c) = IF r = None THEN <<>> ELSE <<r.entry>>
    /\ ~touched => IF r = None THEN c = original
                   ELSE c = InsertGroup(original, r.entry) /\ r.created = FirstCreated

Like(c, d) == Owned(c) = Owned(d) /\ (~touched => c = d)

OnRecord ==
    IF intent = None THEN Fits(config, record)
    ELSE /\ Fits(intent.expected, intent.expectedRecord)
         /\ Fits(intent.desired, intent.desiredRecord)
         /\ \/ /\ record = intent.expectedRecord /\ intent.phase = "started"
               /\ Like(config, intent.expected)
            \/ /\ record \in {intent.expectedRecord, intent.desiredRecord}
               /\ Like(config, intent.desired)

\* The intent a command wrote for the write in its hands.
ItsIntent(p, phase) == intent = IntentOf(p, phase)

AtItsPlace(p) ==
    /\ At(p, "recoverRecord") =>
          IF cmd[p].landed THEN Like(config, intent.desired)
          ELSE Like(config, intent.expected) /\ intent.phase = "started"
    /\ At(p, "read") /\ cmd[p].op = "install" =>
          (cmd[p].state = "relocated") = (record # None)
    /\ At(p, "intend") =>
          /\ Fits(cmd[p].before, cmd[p].oldRecord) /\ Fits(cmd[p].after, cmd[p].newRecord)
          /\ record = cmd[p].oldRecord /\ Like(config, cmd[p].before)
    /\ cmd[p].pc \in {"compare", "replace"} =>
          /\ ItsIntent(p, "started")
          /\ record = cmd[p].oldRecord /\ Like(config, cmd[p].before)
    /\ At(p, "intendRecord") =>
          /\ ItsIntent(p, "started")
          /\ record = cmd[p].oldRecord /\ Like(config, cmd[p].after)
    /\ cmd[p].pc \in {"compareRecord", "replaceRecord"} =>
          /\ intent # None
          /\ cmd[p].oldRecord = intent.expectedRecord
          /\ cmd[p].newRecord = intent.desiredRecord
          /\ record = cmd[p].oldRecord /\ Like(config, intent.desired)
    /\ At(p, "clear") => intent # None /\ Fits(config, record)

Untouchable == ~touched /\ ~meddled => ~raced

Coherence == (~meddled /\ ~raced) => OnRecord /\ \A p \in Procs : AtItsPlace(p)

FirstIsTheUsers == original \in IF inline THEN InlineOriginals ELSE Originals

(***************************************************************************)
(* The inductive invariant.                                                *)
(***************************************************************************)
IInv ==
    /\ TypeOK /\ FirstIsTheUsers /\ Alone /\ Tidy /\ UserPartSurvives
    /\ Untouchable /\ Coherence
LEMMA CountingUp ==
    ASSUME NEW S, 0 \in S, \A n \in Nat : n \in S => n + 1 \in S
    PROVE  Nat \subseteq S
<1> SUFFICES ASSUME Nat \ S # {} PROVE FALSE
  OBVIOUS
<1>1. PICK i \in Nat \ S : \A j \in Nat \ S : ~(<<j, i>> \in OpToRel(<, Nat))
  BY WFMin, NatLessThanWellFounded
<1>2. i - 1 \in Nat /\ i # 0
  OBVIOUS
<1>3. i - 1 \in Nat \ S
  BY <1>2
<1>4. <<i - 1, i>> \in {ss \in Nat \X Nat : ss[1] < ss[2]}
  BY <1>2
<1>5. OpToRel(<, Nat) = {ss \in Nat \X Nat : ss[1] < ss[2]}
  BY DEF OpToRel
<1>6. QED
  BY <1>1, <1>3, <1>4, <1>5, Zenon

Step(s, A, g, n) ==
    IF n = 0 THEN <<>> ELSE IF s[n] \in A THEN Append(g[n - 1], s[n]) ELSE g[n - 1]

Keeps(s, A, g) == g = [n \in 0..Len(s) |-> Step(s, A, g, n)]

LEMMA OnlyIs == \A s, A : Only(s, A) = (CHOOSE g : Keeps(s, A, g))[Len(s)]
  BY DEF Only, Keeps, Step
LEMMA Kept ==
    ASSUME NEW s \in Seq(Groups), NEW A
    PROVE  \E g : Keeps(s, A, g)
<1> DEFINE Up(n, g) == g = [m \in 0..n |-> Step(s, A, g, m)]
           S == {n \in Nat : n <= Len(s) => \E g : Up(n, g)}
<1>0. Len(s) \in Nat
  OBVIOUS
<1>1. 0 \in S
  <2>1. Up(0, [m \in 0..0 |-> <<>>])
    BY DEF Step
  <2>2. QED
    BY <2>1
<1>2. ASSUME NEW n \in Nat, n \in S PROVE n + 1 \in S
  <2> SUFFICES ASSUME n + 1 <= Len(s) PROVE \E g : Up(n + 1, g)
    OBVIOUS
  <2>1. PICK g : Up(n, g)
    BY <1>2, <1>0
  <2> DEFINE h == [m \in 0..(n + 1) |-> IF m = n + 1 THEN Step(s, A, g, m) ELSE g[m]]
  <2>2. ASSUME NEW m \in 0..(n + 1) PROVE h[m] = Step(s, A, h, m)
    <3>1. CASE m = n + 1
      <4>1. m - 1 \in 0..(n + 1) /\ m - 1 # n + 1 /\ m # 0
        BY <3>1
      <4>2. h[m - 1] = g[m - 1]
        BY <4>1
      <4>3. QED
        BY <3>1, <4>2 DEF Step
    <3>2. CASE m # n + 1
      <4>1. m \in 0..n
        BY <3>2
      <4>2. g[m] = Step(s, A, g, m)
        BY <4>1, <2>1
      <4>3. m # 0 => (m - 1 \in 0..(n + 1) /\ m - 1 # n + 1)
        BY <4>1
      <4>4. m # 0 => h[m - 1] = g[m - 1]
        BY <4>3
      <4>5. QED
        BY <3>2, <4>2, <4>4 DEF Step
    <3>3. QED
      BY <3>1, <3>2
  <2>3. Up(n + 1, h)
    <3> HIDE DEF h
    <3>1. h = [m \in 0..(n + 1) |-> h[m]]
      BY DEF h
    <3>2. QED
      BY <3>1, <2>2
  <2>4. QED
    BY <2>3
<1>3. Len(s) \in S
  <2> HIDE DEF S
  <2>1. QED
    BY <1>0, <1>1, <1>2, CountingUp
<1>4. QED
  BY <1>3, <1>0 DEF Keeps

LEMMA KeptIsChosen ==
    ASSUME NEW s \in Seq(Groups), NEW A
    PROVE  \E g : Keeps(s, A, g) /\ Only(s, A) = g[Len(s)]
<1> DEFINE g == CHOOSE f : Keeps(s, A, f)
<1>1. Keeps(s, A, g)
  <2>1. \E f : Keeps(s, A, f)
    BY Kept
  <2>2. QED
    BY <2>1, Zenon
<1>2. Only(s, A) = g[Len(s)]
  BY OnlyIs, Zenon
<1>3. QED
  BY <1>1, <1>2, Zenon

LEMMA KeptAt ==
    ASSUME NEW s \in Seq(Groups), NEW A, NEW g, Keeps(s, A, g),
           NEW n \in Nat, n <= Len(s)
    PROVE  g[n] = Step(s, A, g, n)
<1>1. n \in 0..Len(s)
  OBVIOUS
<1>2. g = [m \in 0..Len(s) |-> Step(s, A, g, m)]
  BY DEF Keeps
<1>3. [m \in 0..Len(s) |-> Step(s, A, g, m)][n] = Step(s, A, g, n)
  BY <1>1
<1>4. QED
  BY <1>2, <1>3, Zenon

LEMMA OnlyOfNothing ==
    ASSUME NEW s \in Seq(Groups), NEW A, Len(s) = 0
    PROVE  Only(s, A) = <<>>
<1>1. PICK g : Keeps(s, A, g) /\ Only(s, A) = g[Len(s)]
  BY KeptIsChosen
<1>2. \A n \in Nat : n <= Len(s) => g[n] = Step(s, A, g, n)
  BY <1>1, KeptAt
<1>3. g[0] = Step(s, A, g, 0)
  BY <1>2
<1>4. QED
  BY <1>1, <1>3 DEF Step

LEMMA EmptyIsSequence == <<>> \in Seq(Groups) /\ Len(<<>>) = 0
  OBVIOUS

LEMMA AppendIsNotEmpty ==
    ASSUME NEW s \in Seq(Groups), NEW e
    PROVE  Append(s, e) # <<>>
<1>1. Len(Append(s, e)) = Len(s) + 1 /\ Len(s) \in Nat
  OBVIOUS
<1>2. Len(Append(s, e)) # 0
  BY <1>1
<1>3. QED
  BY <1>2, EmptyIsSequence, Zenon

LEMMA OnlyEmpty == \A A : Only(<<>>, A) = <<>>
  BY EmptyIsSequence, OnlyOfNothing, Zenon

LEMMA OnlyAppend ==
    ASSUME NEW s \in Seq(Groups), NEW e \in Groups, NEW A
    PROVE  Only(Append(s, e), A) = IF e \in A THEN Append(Only(s, A), e) ELSE Only(s, A)
<1> DEFINE t == Append(s, e)
<1>0. t \in Seq(Groups) /\ Len(t) = Len(s) + 1 /\ Len(s) \in Nat /\ t[Len(s) + 1] = e
  OBVIOUS
<1>00. \A n \in 1..Len(s) : t[n] = s[n]
  OBVIOUS
<1> HIDE DEF t
<1>1. PICK g : Keeps(s, A, g) /\ Only(s, A) = g[Len(s)]
  BY KeptIsChosen
<1>2. PICK h : Keeps(t, A, h) /\ Only(t, A) = h[Len(t)]
  BY <1>0, KeptIsChosen
<1> DEFINE S == {n \in Nat : n <= Len(s) => h[n] = g[n]}
<1>3. 0 \in S
  BY <1>0, <1>1, <1>2, KeptAt DEF Step
<1>4. ASSUME NEW n \in Nat, n \in S PROVE n + 1 \in S
  <2> SUFFICES ASSUME n + 1 <= Len(s) PROVE h[n + 1] = g[n + 1]
    OBVIOUS
  <2>1. h[n] = g[n] /\ t[n + 1] = s[n + 1] /\ n + 1 # 0 /\ (n + 1) - 1 = n
    BY <1>4, <1>0, <1>00
  <2>2. g[n + 1] = Step(s, A, g, n + 1)
    BY <1>1, KeptAt
  <2>3. h[n + 1] = Step(t, A, h, n + 1)
    BY <1>0, <1>2, KeptAt
  <2>4. QED
    BY <2>1, <2>2, <2>3 DEF Step
<1>5. Len(s) \in S
  <2> HIDE DEF S
  <2>1. QED
    BY <1>0, <1>3, <1>4, CountingUp
<1>6. h[Len(t)] = Step(t, A, h, Len(t))
  BY <1>0, <1>2, KeptAt
<1>7. QED
  <2>1. h[Len(s)] = g[Len(s)]
    BY <1>5, <1>0
  <2>2. Len(t) # 0 /\ Len(t) - 1 = Len(s)
    BY <1>0
  <2>3. Only(t, A) = IF e \in A THEN Append(Only(s, A), e) ELSE Only(s, A)
    BY <1>0, <1>1, <1>2, <1>6, <2>1, <2>2 DEF Step
  <2>4. QED
    BY <2>3 DEF t

LEMMA SequencesFromTheEnd ==
    ASSUME NEW P, <<>> \in P,
           \A s \in Seq(Groups), e \in Groups : s \in P => Append(s, e) \in P
    PROVE  Seq(Groups) \subseteq P
<1> DEFINE S == {n \in Nat : \A s \in Seq(Groups) : Len(s) = n => s \in P}
<1>1. 0 \in S
  OBVIOUS
<1>2. ASSUME NEW n \in Nat, n \in S PROVE n + 1 \in S
  <2> SUFFICES ASSUME NEW s \in Seq(Groups), Len(s) = n + 1 PROVE s \in P
    OBVIOUS
  <2> DEFINE front == SubSeq(s, 1, n)
  <2>1. front \in Seq(Groups) /\ Len(front) = n /\ s[n + 1] \in Groups
    OBVIOUS
  <2>2. Append(front, s[n + 1]) = s
    <3>1. Append(front, s[n + 1]) \in Seq(Groups) /\ Len(Append(front, s[n + 1])) = n + 1
      BY <2>1
    <3>2. \A i \in 1..(n + 1) : Append(front, s[n + 1])[i] = s[i]
      BY <2>1
    <3>3. QED
      BY <3>1, <3>2, SeqEqual
  <2>3. front \in P
    BY <1>2, <2>1
  <2>4. QED
    BY <2>1, <2>2, <2>3
<1>3. Nat \subseteq S
  <2> HIDE DEF S
  <2>1. QED
    BY <1>1, <1>2, CountingUp
<1>4. QED
  BY <1>3

LEMMA OnlyType ==
    ASSUME NEW s \in Seq(Groups), NEW A
    PROVE  Only(s, A) \in Seq(Groups)
<1> DEFINE P == {t \in Seq(Groups) : Only(t, A) \in Seq(Groups)}
<1>1. <<>> \in P
  <2>1. Only(<<>>, A) \in Seq(Groups)
    BY OnlyEmpty, EmptyIsSequence, Zenon
  <2>2. QED
    BY <2>1, EmptyIsSequence, Zenon
<1>2. ASSUME NEW t \in Seq(Groups), NEW e \in Groups, t \in P PROVE Append(t, e) \in P
  <2>1. Append(t, e) \in Seq(Groups)
    OBVIOUS
  <2>2. Only(t, A) \in Seq(Groups)
    BY <1>2
  <2>3. Only(Append(t, e), A) \in Seq(Groups)
    <3>1. Only(Append(t, e), A) = IF e \in A THEN Append(Only(t, A), e) ELSE Only(t, A)
      BY OnlyAppend
    <3>2. Append(Only(t, A), e) \in Seq(Groups)
      BY <2>2
    <3>3. QED
      BY <2>2, <3>1, <3>2
  <2>4. QED
    BY <2>1, <2>3
<1>3. s \in P
  <2> HIDE DEF P
  <2>1. QED
    BY <1>1, <1>2, SequencesFromTheEnd
<1>4. QED
  BY <1>3

\* Two selections are one of what both select.
LEMMA OnlyOfOnly ==
    ASSUME NEW s \in Seq(Groups), NEW A, NEW B
    PROVE  Only(Only(s, A), B) = Only(s, A \cap B)
<1> DEFINE P == {t \in Seq(Groups) : Only(Only(t, A), B) = Only(t, A \cap B)}
<1>1. <<>> \in P
  BY OnlyEmpty
<1>2. ASSUME NEW t \in Seq(Groups), NEW e \in Groups, t \in P PROVE Append(t, e) \in P
  <2>1. Append(t, e) \in Seq(Groups)
    OBVIOUS
  <2>2. Only(t, A) \in Seq(Groups) /\ Only(Only(t, A), B) = Only(t, A \cap B)
    BY <1>2, OnlyType
  <2>3. CASE e \in A
    <3>1. Only(Append(t, e), A) = Append(Only(t, A), e)
      BY <2>3, OnlyAppend
    <3>2. Only(Append(Only(t, A), e), B)
            = IF e \in B THEN Append(Only(Only(t, A), B), e) ELSE Only(Only(t, A), B)
      BY <2>2, OnlyAppend
    <3>3. Only(Append(t, e), A \cap B)
            = IF e \in A \cap B THEN Append(Only(t, A \cap B), e) ELSE Only(t, A \cap B)
      BY OnlyAppend
    <3>4. Only(Only(Append(t, e), A), B) = Only(Append(t, e), A \cap B)
      BY <2>2, <2>3, <3>1, <3>2, <3>3
    <3>5. QED
      BY <2>1, <3>4
  <2>4. CASE e \notin A
    <3>1. Only(Append(t, e), A) = Only(t, A)
      BY <2>4, OnlyAppend
    <3>2. Only(Append(t, e), A \cap B) = Only(t, A \cap B)
      BY <2>4, OnlyAppend
    <3>3. QED
      BY <2>1, <2>2, <3>1, <3>2
  <2>5. QED
    BY <2>3, <2>4
<1>3. s \in P
  <2> HIDE DEF P
  <2>1. QED
    BY <1>1, <1>2, SequencesFromTheEnd
<1>4. QED
  BY <1>3

\* Nothing is taken away when nothing of the kind is there.
LEMMA NothingToTake ==
    ASSUME NEW s \in Seq(Groups), NEW e \in Executables, Only(s, Executables) = <<>>
    PROVE  Without(s, e) = s
<1> DEFINE P == {t \in Seq(Groups) : Only(t, Executables) = <<>> => Without(t, e) = t}
<1>1. <<>> \in P
  BY OnlyEmpty DEF Without
<1>2. ASSUME NEW t \in Seq(Groups), NEW g \in Groups, t \in P PROVE Append(t, g) \in P
  <2>1. Append(t, g) \in Seq(Groups)
    OBVIOUS
  <2> SUFFICES ASSUME Only(Append(t, g), Executables) = <<>>
               PROVE  Without(Append(t, g), e) = Append(t, g)
    BY <2>1
  <2>2. Only(t, Executables) \in Seq(Groups)
    BY OnlyType
  <2>3. Append(Only(t, Executables), g) # <<>>
    BY <2>2, AppendIsNotEmpty
  <2>4. g \notin Executables /\ Only(t, Executables) = <<>>
    BY <2>3, OnlyAppend
  <2>5. Only(t, Groups \ {e}) = t
    BY <1>2, <2>4 DEF Without
  <2>6. Only(Append(t, g), Groups \ {e}) = Append(t, g)
    <3>1. g \in Groups \ {e}
      BY <2>4
    <3>2. Only(Append(t, g), Groups \ {e}) = Append(Only(t, Groups \ {e}), g)
      BY <3>1, OnlyAppend
    <3>3. QED
      BY <2>5, <3>2
  <2>7. QED
    BY <2>6 DEF Without
<1>3. s \in P
  <2> HIDE DEF P
  <2>1. QED
    BY <1>1, <1>2, SequencesFromTheEnd
<1>4. QED
  BY <1>3

-----------------------------------------------------------------------------
(***************************************************************************)
(* What the operators on configurations keep.                              *)
(***************************************************************************)
Containers(c) == /\ c.groups # <<>> => c.stop
                 /\ c.stop \/ c.events => c.hooks

LEMMA ConfigurationIs ==
    ASSUME NEW c \in Configuration
    PROVE  /\ c \in [hooks : BOOLEAN, stop : BOOLEAN, groups : Seq(Groups),
                     events : BOOLEAN, keys : BOOLEAN]
           /\ Containers(c) /\ c # None /\ GroupsOf(c) = c.groups
           /\ c.groups \in Seq(Groups)
<1>1. c # None
  BY NoneIsNothing
<1>2. QED
  BY <1>1 DEF Configuration, Containers, GroupsOf

LEMMA GroupsAre == \A c \in MaybeConfig : GroupsOf(c) \in Seq(Groups)
<1> TAKE c \in MaybeConfig
<1>1. CASE c = None
  BY <1>1, EmptyIsSequence DEF GroupsOf
<1>2. CASE c # None
  BY <1>2, ConfigurationIs DEF MaybeConfig
<1>3. QED
  BY <1>1, <1>2

\* What InsertGroup begins with.
Base(c) == IF c = None THEN EmptyObject ELSE c

LEMMA BaseIs ==
    ASSUME NEW c \in MaybeConfig
    PROVE  /\ Base(c) \in Configuration /\ Base(c).groups = GroupsOf(c)
           /\ UserPart(Base(c)) = UserPart(c) /\ Owned(Base(c)) = Owned(c)
<1>1. CASE c = None
  <2>1. EmptyObject \in Configuration
    BY EmptyIsSequence DEF Configuration, EmptyObject
  <2>2. EmptyObject # None /\ EmptyObject.groups = <<>>
    BY <2>1, ConfigurationIs DEF EmptyObject
  <2>3. Base(c) = EmptyObject /\ GroupsOf(c) = <<>> /\ GroupsOf(EmptyObject) = <<>>
    BY <1>1, <2>2 DEF Base, GroupsOf
  <2>4. UserPart(EmptyObject) = UserPart(c)
    BY <1>1, <2>2, OnlyEmpty DEF UserPart, EmptyObject
  <2>5. Owned(EmptyObject) = Owned(c)
    BY <2>3 DEF Owned
  <2>6. QED
    BY <2>1, <2>2, <2>3, <2>4, <2>5
<1>2. CASE c # None
  BY <1>2, ConfigurationIs DEF Base, MaybeConfig
<1>3. QED
  BY <1>1, <1>2

LEMMA InsertedIs ==
    ASSUME NEW c \in MaybeConfig, NEW g \in Groups
    PROVE  /\ InsertGroup(c, g) \in Configuration
           /\ InsertGroup(c, g) = [Base(c) EXCEPT !.hooks = TRUE, !.stop = TRUE,
                                                  !.groups = Append(@, g)]
           /\ g \in Executables => UserPart(InsertGroup(c, g)) = UserPart(c)
           /\ Owned(InsertGroup(c, g))
                = IF g \in Executables THEN Append(Owned(c), g) ELSE Owned(c)
<1> DEFINE b == Base(c)
           d == [b EXCEPT !.hooks = TRUE, !.stop = TRUE, !.groups = Append(@, g)]
<1>1. InsertGroup(c, g) = d
  BY DEF InsertGroup, Base
<1>2. b \in Configuration /\ b.groups = GroupsOf(c) /\ UserPart(b) = UserPart(c)
      /\ Owned(b) = Owned(c)
  BY BaseIs
<1> HIDE DEF b
<1>3. b \in [hooks : BOOLEAN, stop : BOOLEAN, groups : Seq(Groups),
             events : BOOLEAN, keys : BOOLEAN]
      /\ b.groups \in Seq(Groups) /\ b # None /\ GroupsOf(b) = b.groups
  BY <1>2, ConfigurationIs
<1>4. Append(b.groups, g) \in Seq(Groups)
  BY <1>3
<1>5. d \in Configuration
  BY <1>3, <1>4 DEF Configuration
<1>6. d.groups = Append(b.groups, g) /\ d.events = b.events /\ d.keys = b.keys
  BY <1>3
<1> HIDE DEF d
<1>7. d # None /\ GroupsOf(d) = d.groups
  BY <1>5, ConfigurationIs
<1>8. g \in Executables => UserPart(d) = UserPart(b)
  <2> SUFFICES ASSUME g \in Executables PROVE UserPart(d) = UserPart(b)
    OBVIOUS
  <2>1. g \notin Groups \ Executables
    OBVIOUS
  <2>2. Only(Append(b.groups, g), Groups \ Executables) = Only(b.groups, Groups \ Executables)
    BY <1>3, <2>1, OnlyAppend
  <2>3. QED
    BY <1>3, <1>6, <1>7, <2>2 DEF UserPart
<1>9. Owned(d) = IF g \in Executables THEN Append(Owned(b), g) ELSE Owned(b)
  BY <1>3, <1>6, <1>7, OnlyAppend DEF Owned
<1>10. QED
  BY <1>1, <1>2, <1>5, <1>8, <1>9 DEF b, d

\* A group of Memoria's less, and the rest as it was.
LEMMA WithoutOneOfOurs ==
    ASSUME NEW c \in Configuration, NEW d \in Configuration, NEW e \in Executables,
           d.groups = Without(c.groups, e), d.events = c.events, d.keys = c.keys
    PROVE  UserPart(d) = UserPart(c) /\ Owned(d) = Without(Owned(c), e)
<1>1. c # None /\ d # None /\ GroupsOf(c) = c.groups /\ GroupsOf(d) = d.groups
      /\ c.groups \in Seq(Groups)
  BY ConfigurationIs
<1>2. Only(Only(c.groups, Groups \ {e}), Groups \ Executables)
        = Only(c.groups, Groups \ Executables)
  <2>1. (Groups \ {e}) \cap (Groups \ Executables) = Groups \ Executables
    OBVIOUS
  <2>2. QED
    BY <1>1, <2>1, OnlyOfOnly
<1>3. Only(Only(c.groups, Groups \ {e}), Executables)
        = Only(Only(c.groups, Executables), Groups \ {e})
  <2>1. (Groups \ {e}) \cap Executables = Executables \cap (Groups \ {e})
    OBVIOUS
  <2>2. Only(Only(c.groups, Groups \ {e}), Executables)
          = Only(c.groups, (Groups \ {e}) \cap Executables)
    BY <1>1, OnlyOfOnly
  <2>3. Only(Only(c.groups, Executables), Groups \ {e})
          = Only(c.groups, Executables \cap (Groups \ {e}))
    BY <1>1, OnlyOfOnly
  <2>4. QED
    BY <2>1, <2>2, <2>3, Zenon
<1>4. UserPart(d) = UserPart(c)
  BY <1>1, <1>2 DEF UserPart, Without
<1>5. QED
  BY <1>1, <1>3, <1>4 DEF Owned, Without

LEMMA RemovedIs ==
    ASSUME NEW c \in Configuration, NEW e \in Executables, NEW created \in Created
    PROVE  /\ RemoveGroup(c, e, created) \in Configuration
           /\ UserPart(RemoveGroup(c, e, created)) = UserPart(c)
           /\ Owned(RemoveGroup(c, e, created)) = Without(Owned(c), e)
<1> DEFINE kept == Without(c.groups, e)
           stop == c.stop /\ ~(kept = <<>> /\ created.stop)
           hooks == c.hooks /\ (stop \/ c.events \/ ~created.hooks)
           d == [c EXCEPT !.groups = kept, !.stop = stop, !.hooks = hooks]
<1>1. RemoveGroup(c, e, created) = d
  BY DEF RemoveGroup
<1>2. c \in [hooks : BOOLEAN, stop : BOOLEAN, groups : Seq(Groups),
             events : BOOLEAN, keys : BOOLEAN]
      /\ c.groups \in Seq(Groups) /\ Containers(c)
  BY ConfigurationIs
<1>3. kept \in Seq(Groups)
  BY <1>2, OnlyType DEF Without
<1>4. c.groups = <<>> => kept = <<>>
  BY OnlyEmpty DEF Without
<1>5. created.stop \in BOOLEAN /\ created.hooks \in BOOLEAN
  BY DEF Created
<1>6. stop \in BOOLEAN /\ hooks \in BOOLEAN
  BY <1>2
<1>7. (kept # <<>> => stop) /\ (stop \/ c.events => hooks)
  BY <1>2, <1>4, <1>5 DEF Containers
<1> HIDE DEF kept, stop, hooks
<1>8. d \in [hooks : BOOLEAN, stop : BOOLEAN, groups : Seq(Groups),
             events : BOOLEAN, keys : BOOLEAN]
      /\ d.groups = kept /\ d.stop = stop /\ d.hooks = hooks
      /\ d.events = c.events /\ d.keys = c.keys
  BY <1>2, <1>3, <1>6
<1> HIDE DEF d
<1>9. d \in Configuration
  BY <1>7, <1>8 DEF Configuration
<1>10. UserPart(d) = UserPart(c) /\ Owned(d) = Without(Owned(c), e)
  BY <1>8, <1>9, WithoutOneOfOurs DEF kept
<1>11. QED
  BY <1>1, <1>9, <1>10

LEMMA RecordIs ==
    ASSUME NEW r \in MaybeRecord, r # None
    PROVE  /\ r \in Ownership /\ r.entry \in Executables /\ r.created \in Created
           /\ r = [entry |-> r.entry, created |-> r.created]
  BY DEF MaybeRecord, Ownership

\* What an installation writes is a configuration with the user's part of
\* the one it read (apply_install).
LEMMA InstalledKeeps ==
    ASSUME NEW c \in MaybeConfig, NEW r \in MaybeRecord, NEW relocated \in BOOLEAN,
           NEW exe \in Executables
    PROVE  /\ InstalledConfig(c, r, relocated, exe) \in Configuration
           /\ UserPart(InstalledConfig(c, r, relocated, exe)) = UserPart(c)
<1>0. exe \in Groups
  BY DEF Groups
<1>1. CASE c = None \/ r = None \/ ~relocated
  BY <1>0, <1>1, InsertedIs DEF InstalledConfig
<1>2. CASE ~(c = None \/ r = None \/ ~relocated)
  <2>1. c \in Configuration /\ r.entry \in Executables /\ r.created \in Created
    BY <1>2, RecordIs DEF MaybeConfig
  <2> DEFINE d == RemoveGroup(c, r.entry, r.created)
  <2>2. d \in MaybeConfig /\ UserPart(d) = UserPart(c)
    BY <2>1, RemovedIs DEF MaybeConfig
  <2>3. InstalledConfig(c, r, relocated, exe) = InsertGroup(d, exe)
    BY <1>2 DEF InstalledConfig
  <2> HIDE DEF d
  <2>4. QED
    BY <1>0, <2>2, <2>3, InsertedIs
<1>3. QED
  BY <1>1, <1>2

\* The configuration with its groups replaced by those without an entry.
LEMMA ReplacedGroups ==
    ASSUME NEW b \in Configuration, NEW e \in Executables
    PROVE  /\ [b EXCEPT !.groups = Without(b.groups, e)] \in Configuration
           /\ UserPart([b EXCEPT !.groups = Without(b.groups, e)]) = UserPart(b)
           /\ Owned([b EXCEPT !.groups = Without(b.groups, e)]) = Without(Owned(b), e)
<1> DEFINE d == [b EXCEPT !.groups = Without(b.groups, e)]
<1>1. b \in [hooks : BOOLEAN, stop : BOOLEAN, groups : Seq(Groups),
             events : BOOLEAN, keys : BOOLEAN]
      /\ b.groups \in Seq(Groups) /\ Containers(b)
  BY ConfigurationIs
<1>2. Without(b.groups, e) \in Seq(Groups)
  BY <1>1, OnlyType DEF Without
<1>3. b.groups = <<>> => Without(b.groups, e) = <<>>
  BY OnlyEmpty DEF Without
<1>4. d \in [hooks : BOOLEAN, stop : BOOLEAN, groups : Seq(Groups),
             events : BOOLEAN, keys : BOOLEAN]
      /\ d.groups = Without(b.groups, e) /\ d.stop = b.stop /\ d.hooks = b.hooks
      /\ d.events = b.events /\ d.keys = b.keys
  BY <1>1, <1>2
<1> HIDE DEF d
<1>5. d \in Configuration
  BY <1>1, <1>3, <1>4 DEF Configuration, Containers
<1>6. UserPart(d) = UserPart(b) /\ Owned(d) = Without(Owned(b), e)
  BY <1>4, <1>5, WithoutOneOfOurs
<1>7. QED
  BY <1>5, <1>6 DEF d

\* What the inline installation inserts its group into.
InlineBase(c, r) == IF r = None THEN Base(c)
                    ELSE [Base(c) EXCEPT !.groups = Without(Base(c).groups, r.entry)]

LEMMA InlineBaseIs ==
    ASSUME NEW c \in MaybeConfig, NEW r \in MaybeRecord
    PROVE  /\ InlineBase(c, r) \in Configuration
           /\ UserPart(InlineBase(c, r)) = UserPart(c)
           /\ Owned(InlineBase(c, r)) = IF r = None THEN Owned(c)
                                        ELSE Without(Owned(c), r.entry)
           /\ \A exe : InlineConfig(c, r, exe) = InsertGroup(InlineBase(c, r), exe)
<1>1. Base(c) \in Configuration /\ UserPart(Base(c)) = UserPart(c)
      /\ Owned(Base(c)) = Owned(c)
  BY BaseIs
<1>2. \A exe : InlineConfig(c, r, exe) = InsertGroup(InlineBase(c, r), exe)
  <2>1. [Base(c) EXCEPT !.groups = Base(c).groups] = Base(c)
    BY <1>1, ConfigurationIs
  <2>2. QED
    BY <2>1 DEF InlineConfig, InlineBase, Base
<1>3. CASE r = None
  BY <1>1, <1>2, <1>3 DEF InlineBase
<1>4. CASE r # None
  <2>1. r.entry \in Executables
    BY <1>4, RecordIs
  <2>2. InlineBase(c, r) = [Base(c) EXCEPT !.groups = Without(Base(c).groups, r.entry)]
    BY <1>4 DEF InlineBase
  <2>3. QED
    BY <1>1, <1>2, <1>4, <2>1, <2>2, ReplacedGroups
<1>5. QED
  BY <1>3, <1>4

LEMMA InlineKeeps ==
    ASSUME NEW c \in MaybeConfig, NEW r \in MaybeRecord, NEW exe \in Executables
    PROVE  /\ InlineConfig(c, r, exe) \in Configuration
           /\ UserPart(InlineConfig(c, r, exe)) = UserPart(c)
<1>1. exe \in Groups /\ InlineBase(c, r) \in MaybeConfig
  BY InlineBaseIs DEF Groups, MaybeConfig
<1>2. InlineConfig(c, r, exe) = InsertGroup(InlineBase(c, r), exe)
      /\ UserPart(InlineBase(c, r)) = UserPart(c)
  BY InlineBaseIs
<1>3. InsertGroup(InlineBase(c, r), exe) \in Configuration
      /\ UserPart(InsertGroup(InlineBase(c, r), exe)) = UserPart(InlineBase(c, r))
  BY <1>1, InsertedIs
<1>4. QED
  BY <1>2, <1>3

\* What a removal leaves has the user's part too, and no file goes that
\* holds anything of the user's (apply_uninstall).
LEMMA UninstalledKeeps ==
    ASSUME NEW c \in Configuration, NEW r \in Ownership
    PROVE  /\ UninstalledConfig(c, r) \in MaybeConfig
           /\ UserPart(UninstalledConfig(c, r)) = UserPart(c)
           /\ Owned(UninstalledConfig(c, r)) = Without(Owned(c), r.entry)
<1> DEFINE d == RemoveGroup(c, r.entry, r.created)
<1>1. r.entry \in Executables /\ r.created \in Created
  BY DEF Ownership
<1>2. d \in Configuration /\ UserPart(d) = UserPart(c) /\ Owned(d) = Without(Owned(c), r.entry)
  BY <1>1, RemovedIs
<1>3. UninstalledConfig(c, r) = IF ~d.hooks /\ ~d.keys /\ r.created.file THEN None ELSE d
  BY DEF UninstalledConfig
<1> HIDE DEF d
<1>4. CASE ~d.hooks /\ ~d.keys /\ r.created.file
  <2>1. d.groups = <<>> /\ d.events = FALSE /\ d.keys = FALSE
    BY <1>2, <1>4, ConfigurationIs DEF Containers
  <2>2. d # None /\ GroupsOf(d) = <<>> /\ GroupsOf(None) = <<>>
    BY <1>2, <2>1, ConfigurationIs DEF GroupsOf
  <2>3. UserPart(None) = UserPart(d) /\ Owned(None) = Owned(d)
    BY <2>1, <2>2, OnlyEmpty DEF UserPart, Owned
  <2>4. QED
    BY <1>2, <1>3, <1>4, <2>3 DEF MaybeConfig
<1>5. CASE ~(~d.hooks /\ ~d.keys /\ r.created.file)
  BY <1>2, <1>3, <1>5 DEF MaybeConfig
<1>6. QED
  BY <1>4, <1>5

LEMMA InlineUninstalledKeeps ==
    ASSUME NEW c \in MaybeConfig, NEW r \in Ownership
    PROVE  /\ InlineUninstalled(c, r) \in Configuration
           /\ UserPart(InlineUninstalled(c, r)) = UserPart(c)
           /\ Owned(InlineUninstalled(c, r)) = Without(Owned(c), r.entry)
<1> DEFINE b == Base(c)
           kept == Without(b.groups, r.entry)
           drop == b.stop /\ kept = <<>> /\ r.created.stop
           stop == b.stop /\ ~drop
           hooks == b.hooks /\ ~(drop /\ ~b.events /\ r.created.hooks)
           d == [b EXCEPT !.groups = kept, !.stop = stop, !.hooks = hooks]
<1>0. r.entry \in Executables /\ r.created \in Created
  BY DEF Ownership
<1>1. InlineUninstalled(c, r) = d
  BY DEF InlineUninstalled, Base
<1>2. b \in Configuration /\ UserPart(b) = UserPart(c) /\ Owned(b) = Owned(c)
  BY BaseIs
<1> HIDE DEF b
<1>3. b \in [hooks : BOOLEAN, stop : BOOLEAN, groups : Seq(Groups),
             events : BOOLEAN, keys : BOOLEAN]
      /\ b.groups \in Seq(Groups) /\ Containers(b)
  BY <1>2, ConfigurationIs
<1>4. kept \in Seq(Groups)
  BY <1>3, OnlyType DEF Without
<1>5. b.groups = <<>> => kept = <<>>
  BY OnlyEmpty DEF Without
<1>6. r.created.stop \in BOOLEAN /\ r.created.hooks \in BOOLEAN
  BY <1>0 DEF Created
<1>7. stop \in BOOLEAN /\ hooks \in BOOLEAN
  BY <1>3
<1>8. (kept # <<>> => stop) /\ (stop \/ b.events => hooks)
  BY <1>3, <1>5, <1>6 DEF Containers
<1> HIDE DEF kept, drop, stop, hooks
<1>9. d \in [hooks : BOOLEAN, stop : BOOLEAN, groups : Seq(Groups),
             events : BOOLEAN, keys : BOOLEAN]
      /\ d.groups = kept /\ d.stop = stop /\ d.hooks = hooks
      /\ d.events = b.events /\ d.keys = b.keys
  BY <1>3, <1>4, <1>7
<1> HIDE DEF d
<1>10. d \in Configuration
  BY <1>8, <1>9 DEF Configuration
<1>11. UserPart(d) = UserPart(b) /\ Owned(d) = Without(Owned(b), r.entry)
  BY <1>0, <1>2, <1>9, <1>10, WithoutOneOfOurs DEF kept
<1>12. QED
  BY <1>1, <1>2, <1>10, <1>11

-----------------------------------------------------------------------------
(***************************************************************************)
(* What fits before an installation or a removal fits after it.            *)
(***************************************************************************)
LEMMA OneTakenAway ==
    ASSUME NEW e \in Executables
    PROVE  /\ Without(<<e>>, e) = <<>> /\ Without(<<>>, e) = <<>>
           /\ <<e>> = Append(<<>>, e) /\ <<e>> # <<>>
<1>1. <<e>> = Append(<<>>, e)
  OBVIOUS
<1>2. e \in Groups /\ e \notin Groups \ {e}
  BY DEF Groups
<1>3. Only(Append(<<>>, e), Groups \ {e}) = Only(<<>>, Groups \ {e})
  BY <1>2, EmptyIsSequence, OnlyAppend
<1>4. Without(<<e>>, e) = <<>> /\ Without(<<>>, e) = <<>>
  BY <1>1, <1>3, OnlyEmpty DEF Without
<1>5. <<e>> # <<>>
  BY <1>1, EmptyIsSequence, AppendIsNotEmpty
<1>6. QED
  BY <1>1, <1>4, <1>5

LEMMA FileSet ==
    \A y \in Created, f \in BOOLEAN :
       [y EXCEPT !.file = f] = [file |-> f, hooks |-> y.hooks, stop |-> y.stop]
  BY DEF Created

LEMMA CreatedIs ==
    ASSUME NEW c \in MaybeConfig
    PROVE  /\ CreatedBy(c) \in Created
           /\ CreatedBy(c).hooks = ~Base(c).hooks /\ CreatedBy(c).stop = ~Base(c).stop
           /\ CreatedBy(c).file = (c = None)
           /\ \A f \in BOOLEAN : [CreatedBy(c) EXCEPT !.file = f]
                 = [file |-> f, hooks |-> CreatedBy(c).hooks, stop |-> CreatedBy(c).stop]
<1>1. Base(c).hooks \in BOOLEAN /\ Base(c).stop \in BOOLEAN
  BY BaseIs, ConfigurationIs
<1>2. CreatedBy(c) = [file |-> c = None, hooks |-> ~Base(c).hooks, stop |-> ~Base(c).stop]
  BY DEF CreatedBy, Base, EmptyObject
<1>3. CreatedBy(c) \in Created
  BY <1>1, <1>2 DEF Created
<1>4. QED
  BY <1>2, <1>3, FileSet

LEMMA FirstIs ==
    ASSUME TypeOK, FirstIsTheUsers
    PROVE  /\ original \in MaybeConfig /\ Owned(original) = <<>>
           /\ inline => original # None
           /\ Base(original) \in Configuration
           /\ FirstCreated \in Created
           /\ FirstCreated.hooks = ~Base(original).hooks
           /\ FirstCreated.stop = ~Base(original).stop
           /\ ~inline => FirstCreated = CreatedBy(original)
           /\ FirstCreated.file = (original = None)
<1>1. inline \in BOOLEAN /\ original \in MaybeConfig
  BY DEF TypeOK
<1>2. Owned(original) = <<>> /\ (inline => original \in Configuration)
  BY <1>1, OriginalsAreTheUsers DEF FirstIsTheUsers
<1>3. inline => original # None
  BY <1>2, ConfigurationIs
<1>4. Base(original) \in Configuration
  BY <1>1, BaseIs
<1>5. /\ CreatedBy(original) \in Created
      /\ CreatedBy(original).hooks = ~Base(original).hooks
      /\ CreatedBy(original).stop = ~Base(original).stop
      /\ CreatedBy(original).file = (original = None)
      /\ [CreatedBy(original) EXCEPT !.file = FALSE]
            = [file |-> FALSE, hooks |-> CreatedBy(original).hooks,
               stop |-> CreatedBy(original).stop]
  BY <1>1, CreatedIs
<1>6. Base(original).hooks \in BOOLEAN /\ Base(original).stop \in BOOLEAN
  BY <1>4, ConfigurationIs
<1>7. CASE inline
  <2>1. FirstCreated = [file |-> FALSE, hooks |-> ~Base(original).hooks,
                        stop |-> ~Base(original).stop]
    BY <1>5, <1>7 DEF FirstCreated
  <2>2. QED
    BY <1>1, <1>2, <1>3, <1>4, <1>6, <1>7, <2>1 DEF Created
<1>8. CASE ~inline
  <2>1. FirstCreated = CreatedBy(original)
    BY <1>8 DEF FirstCreated
  <2>2. QED
    BY <1>1, <1>2, <1>3, <1>4, <1>5, <1>6, <1>8, <2>1 DEF Created
<1>9. QED
  BY <1>1, <1>7, <1>8

\* The group that was inserted is the one that is taken away.
LEMMA TakenAway ==
    ASSUME NEW o \in MaybeConfig, Owned(o) = <<>>, NEW e \in Executables
    PROVE  /\ InsertGroup(o, e) \in Configuration
           /\ InsertGroup(o, e) = [Base(o) EXCEPT !.hooks = TRUE, !.stop = TRUE,
                                                  !.groups = Append(@, e)]
           /\ Without(InsertGroup(o, e).groups, e) = Base(o).groups
<1>1. e \in Groups
  BY DEF Groups
<1>2. Base(o) \in Configuration /\ Base(o).groups = GroupsOf(o)
  BY BaseIs
<1>3. InsertGroup(o, e) \in Configuration
      /\ InsertGroup(o, e) = [Base(o) EXCEPT !.hooks = TRUE, !.stop = TRUE,
                                             !.groups = Append(@, e)]
  BY <1>1, InsertedIs
<1>4. InsertGroup(o, e).groups = Append(Base(o).groups, e)
  BY <1>2, <1>3, ConfigurationIs
<1>5. Base(o).groups \in Seq(Groups) /\ Only(Base(o).groups, Executables) = <<>>
  BY <1>2, ConfigurationIs DEF Owned
<1>6. Without(Base(o).groups, e) = Base(o).groups
  BY <1>5, NothingToTake
<1>7. Only(Append(Base(o).groups, e), Groups \ {e}) = Only(Base(o).groups, Groups \ {e})
  BY <1>1, <1>5, OnlyAppend
<1>8. QED
  BY <1>3, <1>4, <1>6, <1>7 DEF Without

\* remove_group undoes insert_group, given what that one created.
LEMMA RemovalUndoes ==
    ASSUME NEW o \in MaybeConfig, Owned(o) = <<>>, NEW e \in Executables,
           NEW created \in Created,
           created.hooks = ~Base(o).hooks, created.stop = ~Base(o).stop
    PROVE  RemoveGroup(InsertGroup(o, e), e, created) = Base(o)
<1> DEFINE b == Base(o)
           c == InsertGroup(o, e)
           stop == c.stop /\ ~(b.groups = <<>> /\ created.stop)
<1>1. b \in Configuration
  BY BaseIs
<1>2. /\ c = [b EXCEPT !.hooks = TRUE, !.stop = TRUE, !.groups = Append(@, e)]
      /\ Without(c.groups, e) = b.groups
  BY TakenAway
<1> HIDE DEF b, c
<1>3. b \in [hooks : BOOLEAN, stop : BOOLEAN, groups : Seq(Groups),
             events : BOOLEAN, keys : BOOLEAN]
      /\ Containers(b)
  BY <1>1, ConfigurationIs
<1>4. c.stop = TRUE /\ c.hooks = TRUE /\ c.events = b.events
  BY <1>2, <1>3
<1>5. created.stop = ~b.stop /\ created.hooks = ~b.hooks
  BY DEF b
<1>6. stop = b.stop
  BY <1>3, <1>4, <1>5 DEF Containers
<1>7. (c.hooks /\ (stop \/ c.events \/ ~created.hooks)) = b.hooks
  BY <1>3, <1>4, <1>5, <1>6 DEF Containers
<1>8. RemoveGroup(c, e, created)
        = [c EXCEPT !.groups = b.groups, !.stop = stop,
                    !.hooks = c.hooks /\ (stop \/ c.events \/ ~created.hooks)]
  BY <1>2 DEF RemoveGroup
<1>9. RemoveGroup(c, e, created) = [c EXCEPT !.groups = b.groups, !.stop = b.stop,
                                             !.hooks = b.hooks]
  BY <1>6, <1>7, <1>8
<1>10. [c EXCEPT !.groups = b.groups, !.stop = b.stop, !.hooks = b.hooks] = b
  BY <1>2, <1>3
<1>11. QED
  BY <1>9, <1>10 DEF b, c

LEMMA InlineRemovalUndoes ==
    ASSUME NEW o \in Configuration, Owned(o) = <<>>, NEW r \in Ownership,
           r.created.hooks = ~o.hooks, r.created.stop = ~o.stop
    PROVE  InlineUninstalled(InsertGroup(o, r.entry), r) = o
<1> DEFINE c == InsertGroup(o, r.entry)
           drop == c.stop /\ o.groups = <<>> /\ r.created.stop
<1>1. Base(o) = o /\ r.entry \in Executables /\ o \in MaybeConfig
  BY ConfigurationIs DEF Base, Ownership, MaybeConfig
<1>2. /\ c = [o EXCEPT !.hooks = TRUE, !.stop = TRUE, !.groups = Append(@, r.entry)]
      /\ Without(c.groups, r.entry) = o.groups /\ c \in Configuration
  BY <1>1, TakenAway
<1> HIDE DEF c
<1>3. o \in [hooks : BOOLEAN, stop : BOOLEAN, groups : Seq(Groups),
             events : BOOLEAN, keys : BOOLEAN]
      /\ Containers(o) /\ c # None
  BY <1>2, ConfigurationIs
<1>4. c.stop = TRUE /\ c.hooks = TRUE /\ c.events = o.events
  BY <1>2, <1>3
<1>5. (c.stop /\ ~drop) = o.stop
  BY <1>3, <1>4 DEF Containers
<1>6. (c.hooks /\ ~(drop /\ ~c.events /\ r.created.hooks)) = o.hooks
  BY <1>3, <1>4, <1>5 DEF Containers
<1>7. InlineUninstalled(c, r)
        = [c EXCEPT !.groups = o.groups, !.stop = c.stop /\ ~drop,
                    !.hooks = c.hooks /\ ~(drop /\ ~c.events /\ r.created.hooks)]
  BY <1>2, <1>3 DEF InlineUninstalled
<1>8. InlineUninstalled(c, r) = [c EXCEPT !.groups = o.groups, !.stop = o.stop,
                                          !.hooks = o.hooks]
  BY <1>5, <1>6, <1>7
<1>9. [c EXCEPT !.groups = o.groups, !.stop = o.stop, !.hooks = o.hooks] = o
  BY <1>2, <1>3
<1>10. QED
  BY <1>8, <1>9 DEF c

\* What fits beside a record is a configuration, with the recorded group.
LEMMA FittingIs ==
    ASSUME NEW c \in MaybeConfig, NEW r \in MaybeRecord, r # None, Fits(c, r)
    PROVE  c \in Configuration /\ Without(Owned(c), r.entry) = <<>>
<1>1. r.entry \in Executables
  BY RecordIs
<1>2. Owned(c) = <<r.entry>>
  BY DEF Fits
<1>3. Owned(None) = <<>>
  BY OnlyEmpty DEF Owned, GroupsOf
<1>4. c # None
  BY <1>1, <1>2, <1>3, OneTakenAway
<1>5. QED
  BY <1>1, <1>2, <1>4, OneTakenAway DEF MaybeConfig

LEMMA RemovalFits ==
    ASSUME TypeOK, FirstIsTheUsers, NEW c \in MaybeConfig, NEW r \in MaybeRecord,
           r # None, Fits(c, r)
    PROVE  /\ inline => Fits(InlineUninstalled(c, r), None)
           /\ ~inline => Fits(UninstalledConfig(c, r), None)
<1>1. r \in Ownership /\ r.entry \in Executables /\ r.created \in Created
  BY RecordIs
<1>2. c \in Configuration /\ Without(Owned(c), r.entry) = <<>>
  BY FittingIs
<1>3. Owned(InlineUninstalled(c, r)) = <<>>
  BY <1>1, <1>2, InlineUninstalledKeeps
<1>4. Owned(UninstalledConfig(c, r)) = <<>>
  BY <1>1, <1>2, UninstalledKeeps
<1>5. ASSUME ~touched
      PROVE  /\ inline => InlineUninstalled(c, r) = original
             /\ ~inline => UninstalledConfig(c, r) = original
  <2>1. c = InsertGroup(original, r.entry) /\ r.created = FirstCreated
    BY <1>5 DEF Fits
  <2>2. original \in MaybeConfig /\ Owned(original) = <<>>
    BY FirstIs
  <2>3. CASE inline
    <3>1. original # None /\ original \in Configuration /\ Base(original) = original
      BY <2>3, FirstIs DEF MaybeConfig, Base
    <3>2. r.created.hooks = ~original.hooks /\ r.created.stop = ~original.stop
      BY <2>1, <3>1, FirstIs
    <3>3. InlineUninstalled(InsertGroup(original, r.entry), r) = original
      BY <1>1, <2>2, <3>1, <3>2, InlineRemovalUndoes
    <3>4. QED
      BY <2>1, <2>3, <3>3
  <2>4. CASE ~inline
    <3>1. /\ FirstCreated \in Created
          /\ FirstCreated.hooks = ~Base(original).hooks
          /\ FirstCreated.stop = ~Base(original).stop
          /\ FirstCreated.file = (original = None)
      BY FirstIs
    <3>2. RemoveGroup(InsertGroup(original, r.entry), r.entry, FirstCreated) = Base(original)
      BY <1>1, <2>2, <3>1, RemovalUndoes
    <3>3. UninstalledConfig(c, r)
            = IF ~Base(original).hooks /\ ~Base(original).keys /\ original = None
              THEN None ELSE Base(original)
      BY <2>1, <3>1, <3>2 DEF UninstalledConfig
    <3>4. UninstalledConfig(c, r) = original
      BY <3>3 DEF Base, EmptyObject
    <3>5. QED
      BY <2>4, <3>4
  <2>5. QED
    BY <2>3, <2>4
<1>6. QED
  BY <1>3, <1>4, <1>5 DEF Fits

\* What an installation claims to have created is what was not there before
\* the first one.
LEMMA ClaimedOnce ==
    ASSUME TypeOK, FirstIsTheUsers
    PROVE  /\ Both(FirstCreated, Nobody) = FirstCreated
           /\ ~inline => Both([CreatedBy(original) EXCEPT !.file = (original = None)], Nobody)
                            = FirstCreated
           /\ ~inline => Both([CreatedBy(Base(original)) EXCEPT !.file = FALSE], FirstCreated)
                            = FirstCreated
<1>1. /\ FirstCreated \in Created /\ FirstCreated.hooks = ~Base(original).hooks
      /\ FirstCreated.stop = ~Base(original).stop /\ FirstCreated.file = (original = None)
      /\ ~inline => FirstCreated = CreatedBy(original)
      /\ Base(original) \in Configuration
  BY FirstIs
<1>2. FirstCreated = [file |-> FirstCreated.file, hooks |-> FirstCreated.hooks,
                      stop |-> FirstCreated.stop]
      /\ {FirstCreated.file, FirstCreated.hooks, FirstCreated.stop} \subseteq BOOLEAN
  BY <1>1 DEF Created
<1>3. Both(FirstCreated, Nobody) = FirstCreated
  BY <1>2 DEF Both, Nobody
<1>4. ~inline => [CreatedBy(original) EXCEPT !.file = (original = None)] = FirstCreated
  BY <1>1, <1>2
<1>5. Base(original) # None
  BY <1>1, ConfigurationIs
<1>6. [CreatedBy(Base(original)) EXCEPT !.file = FALSE]
        = [file |-> FALSE, hooks |-> ~Base(original).hooks, stop |-> ~Base(original).stop]
  <2>1. Base(original) \in MaybeConfig /\ Base(Base(original)) = Base(original)
    BY <1>1, <1>5 DEF MaybeConfig, Base
  <2>2. CreatedBy(Base(original)) \in Created
        /\ CreatedBy(Base(original)).hooks = ~Base(original).hooks
        /\ CreatedBy(Base(original)).stop = ~Base(original).stop
        /\ \A f \in BOOLEAN : [CreatedBy(Base(original)) EXCEPT !.file = f]
              = [file |-> f, hooks |-> CreatedBy(Base(original)).hooks,
                 stop |-> CreatedBy(Base(original)).stop]
    BY <2>1, CreatedIs, Zenon
  <2>3. QED
    BY <2>2
<1>7. Both([CreatedBy(Base(original)) EXCEPT !.file = FALSE], FirstCreated) = FirstCreated
  BY <1>1, <1>2, <1>6 DEF Both
<1>8. QED
  BY <1>3, <1>4, <1>7

\* An installation, from what fitted: the first one, or a relocation.
LEMMA InstallationFits ==
    ASSUME TypeOK, FirstIsTheUsers, NEW c \in MaybeConfig, NEW r \in MaybeRecord,
           Fits(c, r), NEW exe \in Executables, ~inline
    PROVE  Fits(InstalledConfig(c, r, r # None, exe),
                [entry |-> exe, created |-> InstalledCreated(c, r, r # None)])
<1> DEFINE d == InstalledConfig(c, r, r # None, exe)
           new == [entry |-> exe, created |-> InstalledCreated(c, r, r # None)]
           first == IF r = None THEN c ELSE RemoveGroup(c, r.entry, r.created)
<1>1. exe \in Groups /\ new # None /\ new.entry = exe
  <2>1. new.created \in Created
    <3>1. \A x \in MaybeConfig, y \in Created :
             Both([CreatedBy(x) EXCEPT !.file = (c = None)], y) \in Created
      <4> TAKE x \in MaybeConfig, y \in Created
      <4>1. CreatedBy(x) \in Created
        BY CreatedIs
      <4>2. QED
        BY <4>1 DEF Both, Created
    <3>2. Nobody \in Created
      BY DEF Nobody, Created
    <3>3. CASE r = None
      BY <3>1, <3>2, <3>3 DEF InstalledCreated
    <3>4. CASE r # None
      <4>1. r.entry \in Executables /\ r.created \in Created /\ c \in Configuration
        BY <3>4, RecordIs, FittingIs
      <4>2. RemoveGroup(c, r.entry, r.created) \in MaybeConfig
        BY <4>1, RemovedIs DEF MaybeConfig
      <4>3. QED
        BY <3>1, <3>4, <4>1, <4>2, ConfigurationIs DEF InstalledCreated
    <3>5. QED
      BY <3>3, <3>4
  <2>2. new \in Ownership
    BY <2>1 DEF Ownership
  <2>3. QED
    BY <2>2, NoneIsNothing DEF Groups
<1>2. first \in MaybeConfig /\ Owned(first) = <<>> /\ d = InsertGroup(first, exe)
  <2>1. CASE r = None
    BY <2>1 DEF Fits, InstalledConfig
  <2>2. CASE r # None
    <3>1. r.entry \in Executables /\ r.created \in Created /\ c \in Configuration
          /\ Without(Owned(c), r.entry) = <<>>
      BY <2>2, RecordIs, FittingIs
    <3>2. c # None
      BY <3>1, ConfigurationIs
    <3>3. QED
      BY <2>2, <3>1, <3>2, RemovedIs DEF MaybeConfig, InstalledConfig
  <2>3. QED
    BY <2>1, <2>2
<1>3. Owned(d) = <<exe>>
  <2> HIDE DEF d, first, new
  <2>1. Owned(InsertGroup(first, exe)) = Append(Owned(first), exe)
    BY <1>1, <1>2, InsertedIs
  <2>2. <<exe>> = Append(<<>>, exe)
    BY OneTakenAway
  <2>3. QED
    BY <1>2, <2>1, <2>2
<1>4. ASSUME ~touched PROVE d = InsertGroup(original, exe) /\ new.created = FirstCreated
  <2>1. CASE r = None
    <3>1. c = original
      BY <1>4, <2>1 DEF Fits
    <3>2. new.created = Both([CreatedBy(original) EXCEPT !.file = (original = None)], Nobody)
      BY <2>1, <3>1 DEF InstalledCreated
    <3>3. QED
      BY <1>2, <2>1, <3>1, <3>2, ClaimedOnce
  <2>2. CASE r # None
    <3>1. r.entry \in Executables /\ c \in Configuration
      BY <2>2, RecordIs, FittingIs
    <3>2. c = InsertGroup(original, r.entry) /\ r.created = FirstCreated /\ c # None
      BY <1>4, <2>2, <3>1, ConfigurationIs DEF Fits
    <3>3. original \in MaybeConfig /\ Owned(original) = <<>> /\ FirstCreated \in Created
          /\ FirstCreated.hooks = ~Base(original).hooks
          /\ FirstCreated.stop = ~Base(original).stop
      BY FirstIs
    <3>4. first = Base(original)
      BY <2>2, <3>1, <3>2, <3>3, RemovalUndoes
    <3>5. Base(original) # None
      BY <3>3, BaseIs, ConfigurationIs
    <3>6. InsertGroup(Base(original), exe) = InsertGroup(original, exe)
      BY <3>5 DEF InsertGroup, Base
    <3>7. new.created = Both([CreatedBy(Base(original)) EXCEPT !.file = FALSE], FirstCreated)
      BY <2>2, <3>2, <3>4 DEF InstalledCreated
    <3>8. QED
      BY <1>2, <3>4, <3>6, <3>7, ClaimedOnce
  <2>3. QED
    BY <2>1, <2>2
<1>5. QED
  <2> HIDE DEF d, new
  <2>1. Fits(d, new)
    BY <1>1, <1>3, <1>4 DEF Fits
  <2>2. QED
    BY <2>1 DEF d, new

LEMMA InlineInstallationFits ==
    ASSUME TypeOK, FirstIsTheUsers, NEW c \in MaybeConfig, NEW r \in MaybeRecord,
           Fits(c, r), NEW exe \in Executables, inline
    PROVE  Fits(InlineConfig(c, r, exe), [entry |-> exe, created |-> InlineCreated(c, r)])
<1> DEFINE d == InlineConfig(c, r, exe)
           new == [entry |-> exe, created |-> InlineCreated(c, r)]
           b == InlineBase(c, r)
<1>1. exe \in Groups
  BY DEF Groups
<1>2. b \in MaybeConfig /\ d = InsertGroup(b, exe) /\ b # None
      /\ Owned(b) = IF r = None THEN Owned(c) ELSE Without(Owned(c), r.entry)
  BY InlineBaseIs, ConfigurationIs DEF MaybeConfig
<1>3. Owned(b) = <<>>
  <2>1. CASE r = None
    BY <1>2, <2>1 DEF Fits
  <2>2. CASE r # None
    BY <1>2, <2>2, FittingIs
  <2>3. QED
    BY <2>1, <2>2
<1>4. Owned(d) = <<exe>>
  <2> HIDE DEF d, b
  <2>1. Owned(InsertGroup(b, exe)) = Append(<<>>, exe)
    BY <1>1, <1>2, <1>3, InsertedIs
  <2>2. QED
    BY <1>2, <2>1, OneTakenAway
<1>5. InlineCreated(c, r) = [file |-> FALSE,
         hooks |-> CreatedBy(c).hooks \/ (r # None /\ r.created.hooks),
         stop  |-> CreatedBy(c).stop \/ (r # None /\ r.created.stop)]
  <2>1. [CreatedBy(c) EXCEPT !.file = FALSE]
          = [file |-> FALSE, hooks |-> CreatedBy(c).hooks, stop |-> CreatedBy(c).stop]
    BY CreatedIs
  <2>3. CreatedBy(c).hooks \in BOOLEAN /\ CreatedBy(c).stop \in BOOLEAN
    BY CreatedIs DEF Created
  <2>4. CASE r = None
    <3>1. [Nobody EXCEPT !.file = FALSE] = [file |-> FALSE, hooks |-> FALSE, stop |-> FALSE]
      <4>1. Nobody \in Created /\ Nobody.hooks = FALSE /\ Nobody.stop = FALSE
        BY DEF Nobody, Created
      <4>2. QED
        BY <4>1, FileSet
    <3>2. QED
      BY <2>1, <2>3, <2>4, <3>1 DEF InlineCreated, Both
  <2>5. CASE r # None
    <3>1. r.created \in Created /\ r.created.hooks \in BOOLEAN /\ r.created.stop \in BOOLEAN
      BY <2>5, RecordIs DEF Created
    <3>2. [r.created EXCEPT !.file = FALSE]
            = [file |-> FALSE, hooks |-> r.created.hooks, stop |-> r.created.stop]
      BY <3>1, FileSet
    <3>3. QED
      BY <2>1, <2>3, <2>5, <3>1, <3>2 DEF InlineCreated, Both
  <2>6. QED
    BY <2>4, <2>5
<1>6. new # None /\ new.entry = exe
  <2>1. InlineCreated(c, r) \in Created
    <3>1. CreatedBy(c).hooks \in BOOLEAN /\ CreatedBy(c).stop \in BOOLEAN
      BY CreatedIs DEF Created
    <3>2. r # None => r.created.hooks \in BOOLEAN /\ r.created.stop \in BOOLEAN
      BY RecordIs DEF Created
    <3>3. QED
      BY <1>5, <3>1, <3>2 DEF Created
  <2>2. new \in Ownership
    BY <2>1 DEF Ownership
  <2>3. QED
    BY <2>2, NoneIsNothing
<1>7. ASSUME ~touched PROVE d = InsertGroup(original, exe) /\ new.created = FirstCreated
  <2>1. /\ original \in Configuration /\ Owned(original) = <<>>
        /\ FirstCreated = [file |-> FALSE, hooks |-> ~original.hooks, stop |-> ~original.stop]
        /\ Base(original) = original
        /\ original.hooks \in BOOLEAN /\ original.stop \in BOOLEAN
    <3>1. original \in Configuration /\ original # None /\ Base(original) = original
      BY FirstIs DEF MaybeConfig, Base
    <3>2. FirstCreated \in Created /\ FirstCreated.file = FALSE
          /\ FirstCreated.hooks = ~original.hooks /\ FirstCreated.stop = ~original.stop
      BY <3>1, FirstIs
    <3>3. QED
      BY <3>1, <3>2, FirstIs, ConfigurationIs DEF Created
  <2>2. CASE r = None
    <3>1. c = original
      BY <1>7, <2>2 DEF Fits
    <3>2. b = original
      BY <2>1, <2>2, <3>1 DEF InlineBase
    <3>3. CreatedBy(c).hooks = ~original.hooks /\ CreatedBy(c).stop = ~original.stop
      BY <2>1, <3>1, CreatedIs
    <3>4. QED
      BY <1>2, <1>5, <2>1, <2>2, <3>2, <3>3
  <2>3. CASE r # None
    <3>1. r.entry \in Executables /\ c \in Configuration
      BY <2>3, RecordIs, FittingIs
    <3>2. c = InsertGroup(original, r.entry) /\ r.created = FirstCreated /\ Base(c) = c
      BY <1>7, <2>3, <3>1, ConfigurationIs DEF Fits, Base
    <3> HIDE DEF d, new, b
    <3>3. /\ c = [original EXCEPT !.hooks = TRUE, !.stop = TRUE, !.groups = Append(@, r.entry)]
          /\ Without(c.groups, r.entry) = original.groups
      <4>1. original \in MaybeConfig
        BY <2>1 DEF MaybeConfig
      <4>2. /\ InsertGroup(original, r.entry)
                 = [Base(original) EXCEPT !.hooks = TRUE, !.stop = TRUE,
                                          !.groups = Append(@, r.entry)]
            /\ Without(InsertGroup(original, r.entry).groups, r.entry)
                 = Base(original).groups
        BY <2>1, <3>1, <4>1, TakenAway
      <4>3. QED
        BY <2>1, <3>2, <4>2
    <3>4. original \in [hooks : BOOLEAN, stop : BOOLEAN, groups : Seq(Groups),
                        events : BOOLEAN, keys : BOOLEAN]
      BY <2>1, ConfigurationIs
    <3>5. b = [c EXCEPT !.groups = original.groups]
      BY <2>3, <3>2, <3>3 DEF InlineBase, b
    <3>6. b = [original EXCEPT !.hooks = TRUE, !.stop = TRUE]
      BY <3>3, <3>4, <3>5
    <3>7. InsertGroup(b, exe) = [b EXCEPT !.hooks = TRUE, !.stop = TRUE,
                                          !.groups = Append(@, exe)]
      BY <1>2 DEF InsertGroup
    <3>8. InsertGroup(original, exe) = [original EXCEPT !.hooks = TRUE, !.stop = TRUE,
                                                        !.groups = Append(@, exe)]
      BY <2>1, ConfigurationIs DEF InsertGroup
    <3>9. d = InsertGroup(original, exe)
      <4>1. [b EXCEPT !.hooks = TRUE, !.stop = TRUE, !.groups = Append(@, exe)]
              = [original EXCEPT !.hooks = TRUE, !.stop = TRUE, !.groups = Append(@, exe)]
        BY <3>4, <3>6
      <4>2. QED
        BY <1>2, <3>7, <3>8, <4>1
    <3>10. c.hooks = TRUE /\ c.stop = TRUE
      BY <3>3, <3>4
    <3>11. CreatedBy(c).hooks = FALSE /\ CreatedBy(c).stop = FALSE
      BY <3>2, <3>10, CreatedIs
    <3>12. InlineCreated(c, r) = FirstCreated
      <4>1. r.created.hooks = ~original.hooks /\ r.created.stop = ~original.stop
        BY <2>1, <3>2
      <4>2. (CreatedBy(c).hooks \/ (r # None /\ r.created.hooks)) = ~original.hooks
            /\ (CreatedBy(c).stop \/ (r # None /\ r.created.stop)) = ~original.stop
        BY <2>1, <2>3, <3>11, <4>1
      <4>3. QED
        BY <1>5, <2>1, <4>2
    <3>13. QED
      BY <3>9, <3>12 DEF new
  <2>4. QED
    BY <2>2, <2>3
<1>8. QED
  <2> HIDE DEF d, new
  <2>1. Fits(d, new)
    BY <1>4, <1>6, <1>7 DEF Fits
  <2>2. QED
    BY <2>1 DEF d, new

-----------------------------------------------------------------------------
(***************************************************************************)
(* Who moves.  A step of a command changes its own variables; a command    *)
(* past its plan holds the lock, and every other one is still waiting.     *)
(***************************************************************************)
Frame(p) == /\ cmd' \in [Procs -> Command]
            /\ \A q \in Procs \ {p} : cmd'[q] = cmd[q]

CarriesOn(p) ==
    /\ cmd'[p].op = cmd[p].op /\ cmd'[p].state = cmd[p].state
    /\ cmd'[p].landed = cmd[p].landed
    /\ cmd'[p].before = cmd[p].before /\ cmd'[p].after = cmd[p].after
    /\ cmd'[p].oldRecord = cmd[p].oldRecord /\ cmd'[p].newRecord = cmd[p].newRecord

LEMMA Rewrites ==
    ASSUME TypeOK, NEW p \in Procs, NEW c \in Command, cmd' = [cmd EXCEPT ![p] = c]
    PROVE  Frame(p) /\ cmd'[p] = c
  BY DEF TypeOK, Frame

LEMMA CommandIs ==
    ASSUME TypeOK, NEW p \in Procs
    PROVE  /\ cmd[p] \in Command /\ cmd[p].op \in {"install", "uninstall", None}
           /\ cmd[p].before \in MaybeConfig /\ cmd[p].after \in MaybeConfig
           /\ cmd[p].oldRecord \in MaybeRecord /\ cmd[p].newRecord \in MaybeRecord
           /\ cmd[p].pc \in Steps /\ (cmd[p].pc # "idle" => cmd[p].op \in {"install", "uninstall"})
  BY DEF TypeOK, Command

LEMMA GoesOn ==
    ASSUME TypeOK, NEW p \in Procs, NEW step \in Steps, Go(p, step),
           cmd[p].pc # "idle"
    PROVE  /\ Frame(p) /\ CarriesOn(p) /\ cmd'[p].pc = step /\ lock' = lock
           /\ cmd'[p].recovering = cmd[p].recovering
<1> DEFINE c == [cmd[p] EXCEPT !.pc = step]
<1>1. cmd[p] \in Command
  BY CommandIs
<1>2. c \in Command /\ c.pc = step /\ c.op = cmd[p].op /\ c.state = cmd[p].state
      /\ c.landed = cmd[p].landed /\ c.recovering = cmd[p].recovering
      /\ c.before = cmd[p].before /\ c.after = cmd[p].after
      /\ c.oldRecord = cmd[p].oldRecord /\ c.newRecord = cmd[p].newRecord
  BY <1>1 DEF Command
<1>3. cmd' = [cmd EXCEPT ![p] = c] /\ lock' = lock
  BY DEF Go
<1> HIDE DEF c
<1>4. Frame(p) /\ cmd'[p] = c
  BY <1>2, <1>3, Rewrites
<1>5. QED
  BY <1>2, <1>3, <1>4 DEF CarriesOn

LEMMA IdleIsCommand == Idle \in Command /\ Idle.pc = "idle"
  BY DEF Idle, Command, Steps, MaybeConfig, MaybeRecord, States

LEMMA Ends ==
    ASSUME TypeOK, NEW p \in Procs, End(p)
    PROVE  Frame(p) /\ cmd'[p].pc = "idle" /\ lock' = None
  BY IdleIsCommand, Rewrites DEF End

LEMMA StillWaiting ==
    ASSUME NEW p \in Procs, cmd[p].pc \in Waiting
    PROVE  KnowsIntent(p) /\ WritesTidily(p) /\ AtItsPlace(p)
  BY DEF Waiting, KnowsIntent, WritesTidily, AtItsPlace, At

LEMMA StillWaitingNext ==
    ASSUME NEW p \in Procs, cmd'[p].pc \in Waiting
    PROVE  KnowsIntent(p)' /\ WritesTidily(p)' /\ AtItsPlace(p)'
  BY DEF Waiting, KnowsIntent, WritesTidily, AtItsPlace, At

\* What the files and the history say is said again when they stay.
LEMMA NothingWritten ==
    ASSUME UNCHANGED <<inline, files, history>>
    PROVE  /\ FirstIsTheUsers => FirstIsTheUsers'
           /\ UserPartSurvives => UserPartSurvives'
           /\ Untouchable => Untouchable'
           /\ OnRecord => OnRecord'
           /\ FirstCreated' = FirstCreated
<1>1. FirstCreated' = FirstCreated
  BY DEF FirstCreated, history
<1>2. FirstIsTheUsers => FirstIsTheUsers'
  BY DEF FirstIsTheUsers, history
<1>3. UserPartSurvives => UserPartSurvives'
  BY DEF UserPartSurvives, history, files
<1>4. Untouchable => Untouchable'
  BY DEF Untouchable, history
<1>5. OnRecord => OnRecord'
  BY <1>1 DEF OnRecord, Fits, Like, history, files
<1>6. QED
  BY <1>1, <1>2, <1>3, <1>4, <1>5

\* The step of a command that holds the lock, before or after it.
LEMMA HolderMoves ==
    ASSUME IInv, NEW p \in Procs, lock = p, Frame(p),
           lock' = p \/ (lock' = None /\ cmd'[p].pc \in Waiting),
           TypeOK', FirstIsTheUsers', UserPartSurvives', Untouchable',
           KnowsIntent(p)', WritesTidily(p)',
           (~meddled' /\ ~raced') => OnRecord' /\ AtItsPlace(p)'
    PROVE  IInv'
<1>1. \A q \in Procs \ {p} : cmd'[q].pc \in Waiting
  <2> TAKE q \in Procs \ {p}
  <2>1. cmd[q].pc \in Waiting
    BY DEF IInv, Alone
  <2>2. QED
    BY <2>1 DEF Frame
<1>2. Alone'
  BY <1>1 DEF Alone
<1>3. \A q \in Procs \ {p} : KnowsIntent(q)' /\ WritesTidily(q)' /\ AtItsPlace(q)'
  BY <1>1, StillWaitingNext
<1>4. Tidy'
  BY <1>3 DEF Tidy
<1>5. Coherence'
  BY <1>3 DEF Coherence
<1>6. QED
  BY <1>2, <1>4, <1>5 DEF IInv

LEMMA HolderLooks ==
    ASSUME IInv, NEW p \in Procs, lock = p, Frame(p),
           lock' = p \/ (lock' = None /\ cmd'[p].pc \in Waiting),
           UNCHANGED <<inline, files, history, edits>>, crashes' \in Nat,
           KnowsIntent(p)', WritesTidily(p)',
           (~meddled /\ ~raced /\ OnRecord /\ AtItsPlace(p)) => AtItsPlace(p)'
    PROVE  IInv'
<1>1. TypeOK'
  <2>1. lock' \in Procs \cup {None}
    OBVIOUS
  <2>2. QED
    BY <2>1 DEF IInv, TypeOK, Frame, files, history
<1>2. FirstIsTheUsers' /\ UserPartSurvives' /\ Untouchable' /\ (OnRecord => OnRecord')
  BY NothingWritten DEF IInv
<1>3. (~meddled' /\ ~raced') => OnRecord' /\ AtItsPlace(p)'
  BY <1>2 DEF IInv, Coherence, history
<1>4. QED
  BY <1>1, <1>2, <1>3, HolderMoves

\* A step of a command that waits before and after it.
LEMMA BystanderMoves ==
    ASSUME IInv, NEW p \in Procs, cmd[p].pc \in Waiting, Frame(p), cmd'[p].pc \in Waiting,
           UNCHANGED <<inline, files, history, edits, crashes, lock>>
    PROVE  IInv'
<1>1. TypeOK'
  BY DEF IInv, TypeOK, Frame, files, history
<1>2. FirstIsTheUsers' /\ UserPartSurvives' /\ Untouchable' /\ (OnRecord => OnRecord')
      /\ FirstCreated' = FirstCreated
  BY NothingWritten DEF IInv
<1>3. Alone'
  BY DEF IInv, Alone, Frame
<1>4. ASSUME NEW q \in Procs
      PROVE  KnowsIntent(q)' /\ WritesTidily(q)' /\ (AtItsPlace(q) => AtItsPlace(q)')
  <2>1. CASE q = p
    BY <2>1, StillWaitingNext
  <2>2. CASE q # p
    <3>1. cmd'[q] = cmd[q]
      BY <2>2 DEF Frame
    <3>2. KnowsIntent(q)' /\ WritesTidily(q)'
      BY <3>1 DEF IInv, Tidy, KnowsIntent, WritesTidily, files
    <3>3. AtItsPlace(q) => AtItsPlace(q)'
      BY <1>2, <3>1 DEF AtItsPlace, At, Fits, Like, ItsIntent, IntentOf, files, history
    <3>4. QED
      BY <3>2, <3>3
  <2>3. QED
    BY <2>1, <2>2
<1>5. Tidy' /\ Coherence'
  BY <1>2, <1>4 DEF IInv, Tidy, Coherence, history
<1>6. QED
  BY <1>1, <1>2, <1>3, <1>5 DEF IInv

-----------------------------------------------------------------------------
(***************************************************************************)
(* The steps, one after the other.                                         *)
(***************************************************************************)
LEMMA PlanKeeps ==
    ASSUME IInv, NEW p \in Procs, NEW op \in {"install", "uninstall"}, Plan(p, op)
    PROVE  IInv'
<1> DEFINE state == StateFor(ExeOf[p])
           c == [Idle EXCEPT !.pc = "planned", !.op = op, !.state = state,
                             !.seen = config, !.recovery = intent # None]
<1>1. TypeOK
  BY DEF IInv
<1>2. state \in States
  BY DEF StateFor, States
<1> HIDE DEF state
<1>3. c \in Command /\ c.pc = "planned"
  BY <1>1, <1>2, IdleIsCommand DEF Command, TypeOK, Steps
<1>4. cmd' = [cmd EXCEPT ![p] = c]
  BY DEF Plan, state
<1> HIDE DEF c
<1>5. Frame(p) /\ cmd'[p].pc = "planned"
  BY <1>1, <1>3, <1>4, Rewrites
<1>6. cmd[p].pc \in Waiting /\ cmd'[p].pc \in Waiting
  BY <1>5 DEF Plan, At, Waiting
<1>7. UNCHANGED <<inline, files, history, edits, crashes, lock>>
  BY DEF Plan, Quiet
<1>8. QED
  BY <1>5, <1>6, <1>7, BystanderMoves

LEMMA Holds ==
    ASSUME IInv, NEW p \in Procs, cmd[p].pc \notin Waiting
    PROVE  lock = p
  BY DEF IInv, Alone

LEMMA LockKeeps ==
    ASSUME IInv, NEW p \in Procs, Lock(p)
    PROVE  IInv'
<1>1. TypeOK /\ cmd[p].pc \in Waiting /\ UNCHANGED <<inline, files, history, edits, crashes>>
  BY DEF IInv, Lock, At, Quiet, Waiting
<1>2. CASE lock = None /\ lock' = p /\ cmd' = [cmd EXCEPT ![p].pc = "recover"]
  <2> DEFINE c == [cmd[p] EXCEPT !.pc = "recover"]
  <2>0. cmd[p] \in Command /\ cmd[p].op \in {"install", "uninstall"}
    BY <1>1, CommandIs DEF Lock, At
  <2>1. c \in Command /\ c.pc = "recover"
    BY <2>0 DEF Command, Steps
  <2>2. cmd' = [cmd EXCEPT ![p] = c]
    BY <1>2
  <2> HIDE DEF c
  <2>3. Frame(p) /\ cmd'[p].pc = "recover"
    BY <1>1, <2>1, <2>2, Rewrites
  <2>4. KnowsIntent(p)' /\ WritesTidily(p)' /\ AtItsPlace(p)'
    BY <2>3 DEF KnowsIntent, WritesTidily, AtItsPlace, At
  <2>5. \A q \in Procs : cmd[q].pc \in Waiting
    BY <1>2, NoneIsNothing DEF IInv, Alone
  <2>6. \A q \in Procs \ {p} : cmd'[q].pc \in Waiting
    BY <2>3, <2>5 DEF Frame
  <2>7. \A q \in Procs : KnowsIntent(q)' /\ WritesTidily(q)' /\ AtItsPlace(q)'
    BY <2>4, <2>6, StillWaitingNext
  <2>8. Alone'
    BY <1>2, <2>6 DEF Alone
  <2>9. TypeOK'
    BY <1>1, <1>2, <2>3 DEF TypeOK, Frame, files, history
  <2>10. FirstIsTheUsers' /\ UserPartSurvives' /\ Untouchable' /\ (OnRecord => OnRecord')
    BY <1>1, NothingWritten DEF IInv
  <2>11. Tidy' /\ Coherence'
    BY <1>1, <2>7, <2>10 DEF IInv, Tidy, Coherence, history
  <2>12. QED
    BY <2>8, <2>9, <2>10, <2>11 DEF IInv
<1>3. CASE lock # None /\ cmd' = [cmd EXCEPT ![p] = Idle] /\ UNCHANGED lock
  <2>1. Frame(p) /\ cmd'[p].pc \in Waiting
    BY <1>1, <1>3, IdleIsCommand, Rewrites DEF Waiting
  <2>2. QED
    BY <1>1, <1>3, <2>1, BystanderMoves
<1>4. QED
  BY <1>2, <1>3 DEF Lock

\* A command that returns or dies leaves the files as they are.
LEMMA EndKeeps ==
    ASSUME IInv, NEW p \in Procs, lock = p, End(p),
           UNCHANGED <<inline, files, history, edits>>, crashes' \in Nat
    PROVE  IInv'
<1>1. Frame(p) /\ cmd'[p].pc = "idle" /\ lock' = None
  BY Ends DEF IInv
<1>2. cmd'[p].pc \in Waiting
  BY <1>1 DEF Waiting
<1>3. KnowsIntent(p)' /\ WritesTidily(p)' /\ AtItsPlace(p)'
  BY <1>2, StillWaitingNext
<1>4. QED
  BY <1>1, <1>2, <1>3, HolderLooks

LEMMA CrashKeeps ==
    ASSUME IInv, NEW p \in Procs, Crash(p)
    PROVE  IInv'
<1>1. crashes' \in Nat
  BY DEF IInv, TypeOK, Crash
<1>2. QED
  BY <1>1, EndKeeps DEF Crash

LEMMA ReturnKeeps ==
    ASSUME IInv, NEW p \in Procs, Return(p)
    PROVE  IInv'
<1>1. lock = p
  BY Holds DEF Return, At, Waiting
<1>2. crashes' \in Nat /\ UNCHANGED <<inline, files, history, edits>>
  BY DEF IInv, TypeOK, Return, Quiet
<1>3. QED
  BY <1>1, <1>2, EndKeeps DEF Return

LEMMA RecoverKeeps ==
    ASSUME IInv, NEW p \in Procs, Recover(p)
    PROVE  IInv'
<1>1. TypeOK /\ cmd[p].pc = "recover" /\ UNCHANGED <<inline, files, history, edits>>
      /\ crashes' \in Nat
  BY DEF IInv, TypeOK, Recover, At, Quiet
<1>2. lock = p
  BY <1>1, Holds DEF Waiting
<1>3. CASE intent = None /\ Go(p, "decide")
  <2>1. Frame(p) /\ cmd'[p].pc = "decide" /\ lock' = lock
    BY <1>1, <1>3, GoesOn DEF Steps
  <2>2. KnowsIntent(p)' /\ WritesTidily(p)' /\ AtItsPlace(p)'
    BY <1>1, <1>3, <2>1 DEF KnowsIntent, WritesTidily, AtItsPlace, At, files
  <2>3. QED
    BY <1>1, <1>2, <2>1, <2>2, HolderLooks
<1>4. CASE /\ intent # None
           /\ Landed \/ (intent.phase = "started" /\ Untouched)
           /\ cmd' = [cmd EXCEPT ![p].pc = "recoverRecord", ![p].landed = Landed]
           /\ UNCHANGED lock
  <2> DEFINE c == [cmd[p] EXCEPT !.pc = "recoverRecord", !.landed = Landed]
  <2>1. Landed \in BOOLEAN
    BY DEF Landed
  <2>0. cmd[p] \in Command /\ cmd[p].op \in {"install", "uninstall"}
    BY <1>1, CommandIs
  <2>2. c \in Command /\ c.pc = "recoverRecord" /\ c.landed = Landed
    BY <2>1, <2>0 DEF Command, Steps
  <2>3. cmd' = [cmd EXCEPT ![p] = c]
    BY <1>4
  <2> HIDE DEF c
  <2>4. Frame(p) /\ cmd'[p].pc = "recoverRecord" /\ cmd'[p].landed = Landed
    BY <1>1, <2>2, <2>3, Rewrites
  <2>5. KnowsIntent(p)' /\ WritesTidily(p)'
    BY <1>1, <1>4, <2>4 DEF KnowsIntent, WritesTidily, files
  <2>6. IF Landed THEN Like(config, intent.desired)
        ELSE Like(config, intent.expected) /\ intent.phase = "started"
    BY <1>4 DEF Landed, Untouched, Like
  <2>7. AtItsPlace(p)'
    BY <1>1, <2>4, <2>6 DEF AtItsPlace, At, Like, files, history
  <2>8. QED
    BY <1>1, <1>2, <1>4, <2>4, <2>5, <2>7, HolderLooks
<1>5. CASE End(p)
  BY <1>1, <1>2, <1>5, EndKeeps
<1>6. QED
  BY <1>3, <1>4, <1>5 DEF Recover

LEMMA RecoverRecordKeeps ==
    ASSUME IInv, NEW p \in Procs, RecoverRecord(p)
    PROVE  IInv'
<1>1. TypeOK /\ cmd[p].pc = "recoverRecord" /\ UNCHANGED <<inline, files, history, edits>>
      /\ crashes' \in Nat
  BY DEF IInv, TypeOK, RecoverRecord, At, Quiet
<1>2. lock = p
  BY <1>1, Holds DEF Waiting
<1>3. intent # None /\ intent \in Intent
  BY <1>1 DEF IInv, Tidy, KnowsIntent, TypeOK
<1> DEFINE expected == record = intent.expectedRecord
           desired  == record = intent.desiredRecord
           known    == expected \/ (intent.phase = "configuration-written" /\ desired)
<1>4. CASE ~known /\ End(p)
  BY <1>1, <1>2, <1>4, EndKeeps
<1>5. CASE /\ known /\ (cmd[p].landed /\ ~desired)
           /\ cmd' = [cmd EXCEPT ![p].recovering = TRUE,
                                 ![p].oldRecord  = intent.expectedRecord,
                                 ![p].newRecord  = intent.desiredRecord,
                                 ![p].pc         = "compareRecord"]
           /\ UNCHANGED lock
  <2> DEFINE c == [cmd[p] EXCEPT !.recovering = TRUE, !.oldRecord = intent.expectedRecord,
                                 !.newRecord = intent.desiredRecord, !.pc = "compareRecord"]
  <2>1. intent.expectedRecord \in MaybeRecord /\ intent.desiredRecord \in MaybeRecord
    BY <1>3 DEF Intent
  <2>0. cmd[p] \in Command /\ cmd[p].op \in {"install", "uninstall"}
    BY <1>1, CommandIs
  <2>2. c \in Command /\ c.pc = "compareRecord" /\ c.oldRecord = intent.expectedRecord
        /\ c.newRecord = intent.desiredRecord
    BY <2>1, <2>0 DEF Command, Steps
  <2>3. cmd' = [cmd EXCEPT ![p] = c]
    BY <1>5
  <2> HIDE DEF c
  <2>4. Frame(p) /\ cmd'[p] = c
    BY <1>1, <2>2, <2>3, Rewrites
  <2>5. KnowsIntent(p)' /\ WritesTidily(p)'
    BY <2>2, <2>4 DEF KnowsIntent, WritesTidily
  <2>6. ASSUME AtItsPlace(p) PROVE Like(config, intent.desired) /\ record = intent.expectedRecord
    BY <1>1, <1>5, <2>6 DEF AtItsPlace, At
  <2>7. AtItsPlace(p) => AtItsPlace(p)'
    BY <1>1, <1>3, <2>2, <2>4, <2>6 DEF AtItsPlace, At, Like, files, history
  <2>8. QED
    BY <1>1, <1>2, <1>5, <2>4, <2>5, <2>7, HolderLooks
<1>6. CASE /\ known /\ ~(cmd[p].landed /\ ~desired)
           /\ cmd' = [cmd EXCEPT ![p].recovering = TRUE, ![p].pc = "clear"]
           /\ UNCHANGED lock
  <2> DEFINE c == [cmd[p] EXCEPT !.recovering = TRUE, !.pc = "clear"]
  <2>0. cmd[p] \in Command /\ cmd[p].op \in {"install", "uninstall"}
    BY <1>1, CommandIs
  <2>1. c \in Command /\ c.pc = "clear"
    BY <2>0 DEF Command, Steps
  <2>2. cmd' = [cmd EXCEPT ![p] = c]
    BY <1>6
  <2> HIDE DEF c
  <2>3. Frame(p) /\ cmd'[p].pc = "clear"
    BY <1>1, <2>1, <2>2, Rewrites
  <2>4. KnowsIntent(p)' /\ WritesTidily(p)'
    BY <2>3 DEF KnowsIntent, WritesTidily
  <2>5. ASSUME OnRecord, AtItsPlace(p) PROVE Fits(config, record)
    <3>1. Fits(intent.expected, intent.expectedRecord) /\ Fits(intent.desired, intent.desiredRecord)
      BY <1>3, <2>5 DEF OnRecord
    <3>2. CASE cmd[p].landed
      <4>1. Like(config, intent.desired) /\ record = intent.desiredRecord
        BY <1>1, <1>6, <2>5, <3>2 DEF AtItsPlace, At
      <4>2. QED
        BY <3>1, <4>1 DEF Fits, Like
    <3>3. CASE ~cmd[p].landed
      <4>1. Like(config, intent.expected) /\ intent.phase = "started"
        BY <1>1, <2>5, <3>3 DEF AtItsPlace, At
      <4>2. record = intent.expectedRecord
        BY <1>6, <4>1
      <4>3. QED
        BY <3>1, <4>1, <4>2 DEF Fits, Like
    <3>4. QED
      BY <3>2, <3>3
  <2>6. FirstCreated' = FirstCreated
    BY <1>1, NothingWritten
  <2>7. OnRecord /\ AtItsPlace(p) => AtItsPlace(p)'
    BY <1>1, <1>3, <2>3, <2>5, <2>6 DEF AtItsPlace, At, Fits, files, history
  <2>8. QED
    BY <1>1, <1>2, <1>6, <2>3, <2>4, <2>7, HolderLooks
<1>7. QED
  BY <1>4, <1>5, <1>6 DEF RecoverRecord

LEMMA DecideKeeps ==
    ASSUME IInv, NEW p \in Procs, Decide(p)
    PROVE  IInv'
<1>1. TypeOK /\ cmd[p].pc = "decide" /\ UNCHANGED <<inline, files, history, edits>>
      /\ crashes' \in Nat
  BY DEF IInv, TypeOK, Decide, At, Quiet
<1>2. lock = p /\ intent = None
  BY <1>1, Holds DEF Waiting, IInv, Tidy, KnowsIntent
<1> DEFINE state == StateFor(ExeOf[p])
           same  == cmd[p].op = "install" /\ NoChange(cmd[p].op, state)
<1>3. CASE End(p)
  BY <1>1, <1>2, <1>3, EndKeeps
<1>4. CASE Go(p, "done")
  <2>1. Frame(p) /\ cmd'[p].pc = "done" /\ lock' = lock
    BY <1>1, <1>4, GoesOn DEF Steps
  <2>2. KnowsIntent(p)' /\ WritesTidily(p)' /\ AtItsPlace(p)'
    BY <2>1 DEF KnowsIntent, WritesTidily, AtItsPlace, At
  <2>3. QED
    BY <1>1, <1>2, <2>1, <2>2, HolderLooks
<1>5. CASE /\ Gate(cmd[p].op, state) /\ ~same
           /\ cmd' = [cmd EXCEPT ![p].pc = "read", ![p].state = state,
                                 ![p].seen = None, ![p].recovery = FALSE]
           /\ UNCHANGED lock
  <2> DEFINE c == [cmd[p] EXCEPT !.pc = "read", !.state = state,
                                 !.seen = None, !.recovery = FALSE]
  <2>1. state \in States
    BY DEF StateFor, States
  <2>2. cmd[p].op = "install" => (state = "relocated") = (record # None)
    BY <1>2, <1>5 DEF StateFor, Gate, NoChange
  <2>3. cmd' = [cmd EXCEPT ![p] = c]
    BY <1>5
  <2> HIDE DEF state, same
  <2>0. cmd[p] \in Command /\ cmd[p].op \in {"install", "uninstall"}
    BY <1>1, CommandIs
  <2>4. c \in Command /\ c.pc = "read" /\ c.op = cmd[p].op /\ c.state = state
    BY <2>1, <2>0 DEF Command, Steps, MaybeConfig
  <2> HIDE DEF c
  <2>5. Frame(p) /\ cmd'[p] = c
    BY <1>1, <2>3, <2>4, Rewrites
  <2>6. KnowsIntent(p)' /\ WritesTidily(p)' /\ AtItsPlace(p)'
    BY <1>1, <1>2, <2>2, <2>4, <2>5 DEF KnowsIntent, WritesTidily, AtItsPlace, At, files
  <2>7. QED
    BY <1>1, <1>2, <1>5, <2>5, <2>6, HolderLooks
<1>6. QED
  BY <1>3, <1>4, <1>5 DEF Decide

LEMMA ClaimsAreRecords ==
    ASSUME NEW c \in MaybeConfig, NEW r \in MaybeRecord, NEW relocated \in BOOLEAN,
           NEW exe \in Executables
    PROVE  /\ [entry |-> exe, created |-> InstalledCreated(c, r, relocated)] \in MaybeRecord
           /\ [entry |-> exe, created |-> InlineCreated(c, r)] \in MaybeRecord
<1>1. \A x \in MaybeConfig, y \in Created, f \in BOOLEAN :
         Both([CreatedBy(x) EXCEPT !.file = f], y) \in Created
  <2> TAKE x \in MaybeConfig, y \in Created, f \in BOOLEAN
  <2>1. CreatedBy(x) \in Created
    BY CreatedIs
  <2>2. QED
    BY <2>1 DEF Both, Created
<1> DEFINE old == IF r = None THEN Nobody ELSE r.created
<1>2. old \in Created
  BY RecordIs DEF Nobody, Created
<1>3. [old EXCEPT !.file = FALSE] \in Created
  BY <1>2 DEF Created
<1>4. InlineCreated(c, r) \in Created
  <2> HIDE DEF old
  <2>1. Both([CreatedBy(c) EXCEPT !.file = FALSE], [old EXCEPT !.file = FALSE]) \in Created
    BY <1>1, <1>3
  <2>2. QED
    BY <2>1 DEF InlineCreated, old
<1> DEFINE base == IF c # None /\ r # None /\ relocated
                   THEN RemoveGroup(c, r.entry, r.created) ELSE c
<1>5. base \in MaybeConfig
  <2>1. CASE c # None /\ r # None /\ relocated
    <3>1. c \in Configuration /\ r.entry \in Executables /\ r.created \in Created
      BY <2>1, RecordIs DEF MaybeConfig
    <3>2. QED
      BY <2>1, <3>1, RemovedIs DEF MaybeConfig
  <2>2. CASE ~(c # None /\ r # None /\ relocated)
    BY <2>2
  <2>3. QED
    BY <2>1, <2>2
<1>6. InstalledCreated(c, r, relocated) \in Created
  <2>1. (c = None) \in BOOLEAN
    OBVIOUS
  <2>2. InstalledCreated(c, r, relocated)
          = Both([CreatedBy(base) EXCEPT !.file = (c = None)], old)
    BY DEF InstalledCreated
  <2> HIDE DEF base, old
  <2>3. QED
    BY <1>1, <1>2, <1>5, <2>1, <2>2
<1>7. QED
  BY <1>4, <1>6 DEF MaybeRecord, Ownership

LEMMA PrepareKeeps ==
    ASSUME IInv, NEW p \in Procs, cmd[p].pc = "read",
           NEW config2 \in MaybeConfig, NEW record2 \in MaybeRecord,
           Prepare(p, config2, record2), UNCHANGED files, Quiet,
           UserPart(config2) = UserPart(config),
           (OnRecord /\ AtItsPlace(p)) => Fits(config2, record2)
    PROVE  IInv'
<1>1. TypeOK /\ UNCHANGED <<inline, files, history, edits>> /\ crashes' \in Nat
  BY DEF IInv, TypeOK, Quiet
<1>2. lock = p /\ intent = None
  BY Holds DEF Waiting, IInv, Tidy, KnowsIntent
<1> DEFINE c == [cmd[p] EXCEPT !.pc        = "intend",
                               !.before    = config,  !.after     = config2,
                               !.oldRecord = record,  !.newRecord = record2]
<1>3. c \in Command /\ c.pc = "intend" /\ c.before = config /\ c.after = config2
      /\ c.oldRecord = record /\ c.newRecord = record2
  <2>1. cmd[p] \in Command /\ cmd[p].op \in {"install", "uninstall"}
    BY <1>1, CommandIs
  <2>2. QED
    BY <1>1, <2>1 DEF Command, Steps, TypeOK
<1>4. cmd' = [cmd EXCEPT ![p] = c] /\ lock' = lock
  BY DEF Prepare
<1> HIDE DEF c
<1>5. Frame(p) /\ cmd'[p] = c
  BY <1>1, <1>3, <1>4, Rewrites
<1>6. KnowsIntent(p)' /\ WritesTidily(p)'
  BY <1>1, <1>2, <1>3, <1>5 DEF KnowsIntent, WritesTidily, files
<1>7. FirstCreated' = FirstCreated
  BY <1>1, NothingWritten
<1>8. (OnRecord /\ AtItsPlace(p)) => AtItsPlace(p)'
  <2> SUFFICES ASSUME OnRecord, AtItsPlace(p) PROVE AtItsPlace(p)'
    OBVIOUS
  <2>1. Fits(config, record) /\ Fits(config2, record2)
    BY <1>2 DEF OnRecord
  <2>2. QED
    BY <1>1, <1>3, <1>5, <1>7, <2>1 DEF AtItsPlace, At, Fits, Like, files, history
<1>9. QED
  BY <1>1, <1>2, <1>4, <1>5, <1>6, <1>8, HolderLooks

\* The steps that go on to the end without writing anything.
LEMMA GoneToDone ==
    ASSUME IInv, NEW p \in Procs, cmd[p].pc \notin Waiting, Go(p, "done"),
           UNCHANGED <<inline, files, history, edits>>, crashes' \in Nat
    PROVE  IInv'
<1>1. TypeOK /\ lock = p
  BY Holds DEF IInv
<1>2. Frame(p) /\ cmd'[p].pc = "done" /\ lock' = lock
  BY <1>1, GoesOn DEF Steps, Waiting
<1>3. KnowsIntent(p)' /\ WritesTidily(p)' /\ AtItsPlace(p)'
  BY <1>2 DEF KnowsIntent, WritesTidily, AtItsPlace, At
<1>4. QED
  BY <1>1, <1>2, <1>3, HolderLooks

LEMMA ReadForInstallKeeps ==
    ASSUME IInv, NEW p \in Procs, ReadForInstall(p)
    PROVE  IInv'
<1> DEFINE exe       == ExeOf[p]
           relocated == cmd[p].state = "relocated"
<1>1. TypeOK /\ cmd[p].pc = "read" /\ cmd[p].op = "install" /\ UNCHANGED files /\ Quiet
  BY DEF IInv, ReadForInstall, At
<1>2. FirstIsTheUsers /\ config \in MaybeConfig /\ record \in MaybeRecord /\ intent = None
  BY <1>1 DEF IInv, TypeOK, Tidy, KnowsIntent
<1>3. exe \in Executables /\ relocated \in BOOLEAN
  BY EveryProcessRuns
<1>4. (OnRecord /\ AtItsPlace(p)) => Fits(config, record) /\ relocated = (record # None)
  BY <1>1, <1>2 DEF OnRecord, AtItsPlace, At
<1>5. \/ Go(p, "done")
      \/ /\ ~inline
         /\ Prepare(p, InstalledConfig(config, record, relocated, exe),
                    [entry   |-> exe,
                     created |-> InstalledCreated(config, record, relocated)])
      \/ /\ inline
         /\ Prepare(p, InlineConfig(config, record, exe),
                    [entry   |-> exe, created |-> InlineCreated(config, record)])
  BY DEF ReadForInstall
<1> HIDE DEF exe, relocated
<1>6. CASE Go(p, "done")
  <2>1. UNCHANGED <<inline, files, history, edits>> /\ crashes' \in Nat
    BY <1>1 DEF Quiet, TypeOK
  <2>2. QED
    BY <1>1, <1>6, <2>1, GoneToDone DEF Waiting
<1>7. CASE /\ ~inline
           /\ Prepare(p, InstalledConfig(config, record, relocated, exe),
                      [entry   |-> exe,
                       created |-> InstalledCreated(config, record, relocated)])
  <2> DEFINE config2 == InstalledConfig(config, record, relocated, exe)
             record2 == [entry   |-> exe,
                         created |-> InstalledCreated(config, record, relocated)]
  <2>1. config2 \in MaybeConfig /\ UserPart(config2) = UserPart(config)
    BY <1>2, <1>3, InstalledKeeps DEF MaybeConfig
  <2>2. record2 \in MaybeRecord
    BY <1>2, <1>3, ClaimsAreRecords
  <2>3. (OnRecord /\ AtItsPlace(p)) => Fits(config2, record2)
    <3> SUFFICES ASSUME OnRecord, AtItsPlace(p) PROVE Fits(config2, record2)
      OBVIOUS
    <3>1. Fits(config, record) /\ relocated = (record # None)
      BY <1>4
    <3>2. Fits(InstalledConfig(config, record, record # None, exe),
               [entry |-> exe, created |-> InstalledCreated(config, record, record # None)])
      BY <1>1, <1>2, <1>3, <1>7, <3>1, InstallationFits
    <3>3. QED
      BY <3>1, <3>2
  <2>4. Prepare(p, config2, record2)
    BY <1>7
  <2> HIDE DEF config2, record2
  <2>5. QED
    BY <1>1, <2>1, <2>2, <2>3, <2>4, PrepareKeeps
<1>8. CASE /\ inline
           /\ Prepare(p, InlineConfig(config, record, exe),
                      [entry   |-> exe, created |-> InlineCreated(config, record)])
  <2> DEFINE config2 == InlineConfig(config, record, exe)
             record2 == [entry |-> exe, created |-> InlineCreated(config, record)]
  <2>1. config2 \in MaybeConfig /\ UserPart(config2) = UserPart(config)
    BY <1>2, <1>3, InlineKeeps DEF MaybeConfig
  <2>2. record2 \in MaybeRecord
    BY <1>2, <1>3, ClaimsAreRecords
  <2>3. (OnRecord /\ AtItsPlace(p)) => Fits(config2, record2)
    BY <1>1, <1>2, <1>3, <1>4, <1>8, InlineInstallationFits
  <2>4. Prepare(p, config2, record2)
    BY <1>8
  <2> HIDE DEF config2, record2
  <2>5. QED
    BY <1>1, <2>1, <2>2, <2>3, <2>4, PrepareKeeps
<1>9. QED
  BY <1>5, <1>6, <1>7, <1>8

LEMMA ReadForUninstallKeeps ==
    ASSUME IInv, NEW p \in Procs, ReadForUninstall(p)
    PROVE  IInv'
<1>1. TypeOK /\ cmd[p].pc = "read" /\ UNCHANGED files /\ Quiet
      /\ UNCHANGED <<inline, files, history, edits>> /\ crashes' \in Nat
  BY DEF IInv, ReadForUninstall, At, Quiet, TypeOK
<1>2. FirstIsTheUsers /\ config \in MaybeConfig /\ record \in MaybeRecord /\ intent = None
  BY <1>1 DEF IInv, TypeOK, Tidy, KnowsIntent
<1>3. (OnRecord /\ AtItsPlace(p)) => Fits(config, record)
  BY <1>2 DEF OnRecord
<1>4. None \in MaybeRecord
  BY DEF MaybeRecord
<1>5. CASE record = None /\ Go(p, "done")
  BY <1>1, <1>5, GoneToDone DEF Waiting
<1>6. CASE record # None /\ inline /\ Prepare(p, InlineUninstalled(config, record), None)
  <2> DEFINE config2 == InlineUninstalled(config, record)
  <2>1. record \in Ownership
    BY <1>2, <1>6, RecordIs
  <2>2. config2 \in MaybeConfig /\ UserPart(config2) = UserPart(config)
    BY <1>2, <2>1, InlineUninstalledKeeps DEF MaybeConfig
  <2>3. (OnRecord /\ AtItsPlace(p)) => Fits(config2, None)
    BY <1>1, <1>2, <1>3, <1>6, RemovalFits
  <2>4. Prepare(p, config2, None)
    BY <1>6
  <2> HIDE DEF config2
  <2>5. QED
    BY <1>1, <1>4, <2>2, <2>3, <2>4, PrepareKeeps
<1>7. CASE record # None /\ ~inline /\ config # None
           /\ Prepare(p, UninstalledConfig(config, record), None)
  <2> DEFINE config2 == UninstalledConfig(config, record)
  <2>1. record \in Ownership /\ config \in Configuration
    BY <1>2, <1>7, RecordIs DEF MaybeConfig
  <2>2. config2 \in MaybeConfig /\ UserPart(config2) = UserPart(config)
    BY <2>1, UninstalledKeeps
  <2>3. (OnRecord /\ AtItsPlace(p)) => Fits(config2, None)
    BY <1>1, <1>2, <1>3, <1>7, RemovalFits
  <2>4. Prepare(p, config2, None)
    BY <1>7
  <2> HIDE DEF config2
  <2>5. QED
    BY <1>1, <1>4, <2>2, <2>3, <2>4, PrepareKeeps
<1>8. CASE /\ record # None /\ ~inline /\ config = None
           /\ cmd' = [cmd EXCEPT ![p].pc = "compareRecord", ![p].oldRecord = record]
           /\ UNCHANGED lock
  <2> DEFINE c == [cmd[p] EXCEPT !.pc = "compareRecord", !.oldRecord = record]
  <2>0. cmd[p] \in Command /\ cmd[p].op \in {"install", "uninstall"}
    BY <1>1, CommandIs
  <2>1. c \in Command /\ c.pc = "compareRecord"
    BY <1>2, <2>0 DEF Command, Steps
  <2>2. cmd' = [cmd EXCEPT ![p] = c]
    BY <1>8
  <2> HIDE DEF c
  <2>3. Frame(p) /\ cmd'[p] = c
    BY <1>1, <2>1, <2>2, Rewrites
  <2>4. KnowsIntent(p)' /\ WritesTidily(p)'
    BY <2>1, <2>3 DEF KnowsIntent, WritesTidily
  <2>5. ~Fits(config, record)
    BY <1>2, <1>8, FittingIs, ConfigurationIs
  <2>6. lock = p
    BY <1>1, Holds DEF Waiting
  <2>7. QED
    BY <1>1, <1>3, <1>8, <2>3, <2>4, <2>5, <2>6, HolderLooks
<1>9. QED
  BY <1>5, <1>6, <1>7, <1>8 DEF ReadForUninstall

LEMMA IntentIs ==
    ASSUME TypeOK, NEW p \in Procs, cmd[p].op \in {"install", "uninstall"},
           NEW phase \in {"started", "configuration-written"}
    PROVE  /\ IntentOf(p, phase) \in Intent /\ IntentOf(p, phase) # None
           /\ IntentOf(p, phase).expected = cmd[p].before
           /\ IntentOf(p, phase).desired = cmd[p].after
           /\ IntentOf(p, phase).expectedRecord = cmd[p].oldRecord
           /\ IntentOf(p, phase).desiredRecord = cmd[p].newRecord
           /\ IntentOf(p, phase).phase = phase
<1>1. IntentOf(p, phase) \in Intent
  BY CommandIs DEF IntentOf, Intent
<1>2. QED
  BY <1>1, NoneIsNothing DEF IntentOf

LEMMA IntendKeeps ==
    ASSUME IInv, NEW p \in Procs, Intend(p)
    PROVE  IInv'
<1>1. TypeOK /\ cmd[p].pc = "intend" /\ UNCHANGED <<inline, config, record, history, edits, crashes>>
      /\ intent' = IntentOf(p, "started") /\ Go(p, "compare")
  BY DEF IInv, Intend, At, Quiet
<1>2. lock = p /\ cmd[p].op \in {"install", "uninstall"} /\ WritesTidily(p)
  BY <1>1, Holds, CommandIs DEF Waiting, IInv, Tidy
<1>3. Frame(p) /\ CarriesOn(p) /\ cmd'[p].pc = "compare" /\ lock' = lock
  BY <1>1, GoesOn DEF Steps
<1>4. /\ intent' \in Intent /\ intent' # None
      /\ intent'.expected = cmd[p].before /\ intent'.desired = cmd[p].after
      /\ intent'.expectedRecord = cmd[p].oldRecord
      /\ intent'.desiredRecord = cmd[p].newRecord /\ intent'.phase = "started"
  BY <1>1, <1>2, IntentIs
<1>5. TypeOK'
  BY <1>1, <1>3, <1>4 DEF TypeOK, Frame, history
<1>6. FirstIsTheUsers' /\ UserPartSurvives' /\ Untouchable' /\ FirstCreated' = FirstCreated
  BY <1>1 DEF IInv, FirstIsTheUsers, UserPartSurvives, Untouchable, FirstCreated, history
<1>7. KnowsIntent(p)' /\ WritesTidily(p)'
  BY <1>1, <1>2, <1>3 DEF KnowsIntent, WritesTidily, CarriesOn
<1>8. ASSUME ~meddled', ~raced' PROVE OnRecord' /\ AtItsPlace(p)'
  <2>1. AtItsPlace(p)
    BY <1>1, <1>8 DEF IInv, Coherence, history
  <2>2. Fits(cmd[p].before, cmd[p].oldRecord) /\ Fits(cmd[p].after, cmd[p].newRecord)
        /\ record = cmd[p].oldRecord /\ Like(config, cmd[p].before)
    BY <1>1, <2>1 DEF AtItsPlace, At
  <2>3. OnRecord'
    BY <1>1, <1>4, <1>6, <2>2 DEF OnRecord, Fits, Like, history
  <2>4. ItsIntent(p, "started")'
    BY <1>1, <1>3 DEF ItsIntent, IntentOf, CarriesOn
  <2>5. AtItsPlace(p)'
    BY <1>1, <1>3, <2>2, <2>4 DEF AtItsPlace, At, Like, CarriesOn, history
  <2>6. QED
    BY <2>3, <2>5
<1>9. QED
  BY <1>2, <1>3, <1>5, <1>6, <1>7, <1>8, HolderMoves

LEMMA CompareKeeps ==
    ASSUME IInv, NEW p \in Procs, Compare(p)
    PROVE  IInv'
<1>1. TypeOK /\ cmd[p].pc = "compare" /\ UNCHANGED <<inline, files, history, edits>>
      /\ crashes' \in Nat
  BY DEF IInv, TypeOK, Compare, At, Quiet
<1>2. lock = p /\ WritesTidily(p)
  BY <1>1, Holds DEF Waiting, IInv, Tidy
<1>3. CASE Go(p, "replace")
  <2>1. Frame(p) /\ CarriesOn(p) /\ cmd'[p].pc = "replace" /\ lock' = lock
    BY <1>1, <1>3, GoesOn DEF Steps
  <2>2. KnowsIntent(p)' /\ WritesTidily(p)'
    BY <1>1, <1>2, <2>1 DEF KnowsIntent, WritesTidily, CarriesOn
  <2>3. AtItsPlace(p) => AtItsPlace(p)'
    BY <1>1, <2>1 DEF AtItsPlace, At, Like, ItsIntent, IntentOf, CarriesOn, files, history
  <2>4. QED
    BY <1>1, <1>2, <2>1, <2>2, <2>3, HolderLooks
<1>4. CASE End(p)
  BY <1>1, <1>2, <1>4, EndKeeps
<1>5. QED
  BY <1>3, <1>4 DEF Compare

\* The rename of the configuration.  What was compared is there, or the step
\* knows it raced.
LEMMA ReplaceKeeps ==
    ASSUME IInv, NEW p \in Procs, Replace(p)
    PROVE  IInv'
<1>1. /\ TypeOK /\ cmd[p].pc = "replace" /\ config' = cmd[p].after
      /\ raced' = (raced \/ config # cmd[p].before) /\ Go(p, "intendRecord")
      /\ UNCHANGED <<inline, record, intent, mine, touched, meddled, original,
                     edits, crashes>>
  BY DEF IInv, Replace, At
<1>2. lock = p /\ WritesTidily(p)
  BY <1>1, Holds DEF Waiting, IInv, Tidy
<1>3. Frame(p) /\ CarriesOn(p) /\ cmd'[p].pc = "intendRecord" /\ lock' = lock
  BY <1>1, GoesOn DEF Steps
<1>4. TypeOK'
  <2>1. config' \in MaybeConfig /\ raced' \in BOOLEAN
    BY <1>1, CommandIs DEF TypeOK
  <2>2. QED
    BY <1>1, <1>3, <2>1 DEF TypeOK, Frame
<1>5. UserPartSurvives'
  <2> SUFFICES ASSUME ~raced' PROVE UserPart(config') = mine'
    BY DEF UserPartSurvives
  <2>1. ~raced /\ config = cmd[p].before
    BY <1>1
  <2>2. UserPart(cmd[p].after) = UserPart(cmd[p].before)
    BY <1>1, <1>2 DEF WritesTidily
  <2>3. QED
    BY <1>1, <2>1, <2>2 DEF IInv, UserPartSurvives
<1>6. FirstIsTheUsers' /\ FirstCreated' = FirstCreated
  BY <1>1 DEF IInv, FirstIsTheUsers, FirstCreated
<1>7. Untouchable'
  <2> SUFFICES ASSUME ~touched, ~meddled PROVE ~raced'
    BY <1>1 DEF Untouchable
  <2>1. ~raced /\ AtItsPlace(p)
    BY DEF IInv, Untouchable, Coherence
  <2>2. config = cmd[p].before
    BY <1>1, <2>1 DEF AtItsPlace, At, Like
  <2>3. QED
    BY <1>1, <2>1, <2>2
<1>8. KnowsIntent(p)' /\ WritesTidily(p)'
  BY <1>3 DEF KnowsIntent, WritesTidily
<1>9. ASSUME ~meddled', ~raced' PROVE OnRecord' /\ AtItsPlace(p)'
  <2>1. OnRecord /\ AtItsPlace(p)
    BY <1>1, <1>9 DEF IInv, Coherence
  <2>2. intent = IntentOf(p, "started") /\ record = cmd[p].oldRecord
    BY <1>1, <2>1 DEF AtItsPlace, At, ItsIntent
  <2>3. intent # None
    BY <1>1, <2>2, IntentIs, CommandIs
  <2>4. /\ intent.desired = cmd[p].after /\ intent.expectedRecord = cmd[p].oldRecord
    BY <2>2 DEF IntentOf
  <2>5. OnRecord'
    BY <1>1, <1>6, <2>1, <2>2, <2>3, <2>4 DEF OnRecord, Fits, Like
  <2>6. AtItsPlace(p)'
    BY <1>1, <1>3, <2>2 DEF AtItsPlace, At, Like, ItsIntent, IntentOf, CarriesOn
  <2>7. QED
    BY <2>5, <2>6
<1>10. QED
  BY <1>2, <1>3, <1>4, <1>5, <1>6, <1>7, <1>8, <1>9, HolderMoves

LEMMA IntendRecordKeeps ==
    ASSUME IInv, NEW p \in Procs, IntendRecord(p)
    PROVE  IInv'
<1>1. TypeOK /\ cmd[p].pc = "intendRecord"
      /\ UNCHANGED <<inline, config, record, history, edits, crashes>>
      /\ intent' = IntentOf(p, "configuration-written") /\ Go(p, "compareRecord")
  BY DEF IInv, IntendRecord, At, Quiet
<1>2. lock = p /\ cmd[p].op \in {"install", "uninstall"}
  BY <1>1, Holds, CommandIs DEF Waiting, IInv, Tidy
<1>3. Frame(p) /\ CarriesOn(p) /\ cmd'[p].pc = "compareRecord" /\ lock' = lock
  BY <1>1, GoesOn DEF Steps
<1>4. /\ intent' \in Intent /\ intent' # None
      /\ intent'.expected = cmd[p].before /\ intent'.desired = cmd[p].after
      /\ intent'.expectedRecord = cmd[p].oldRecord
      /\ intent'.desiredRecord = cmd[p].newRecord
  BY <1>1, <1>2, IntentIs
<1>5. TypeOK'
  BY <1>1, <1>3, <1>4 DEF TypeOK, Frame, history
<1>6. FirstIsTheUsers' /\ UserPartSurvives' /\ Untouchable' /\ FirstCreated' = FirstCreated
  BY <1>1 DEF IInv, FirstIsTheUsers, UserPartSurvives, Untouchable, FirstCreated, history
<1>7. KnowsIntent(p)' /\ WritesTidily(p)'
  BY <1>3 DEF KnowsIntent, WritesTidily
<1>8. ASSUME ~meddled', ~raced' PROVE OnRecord' /\ AtItsPlace(p)'
  <2>1. OnRecord /\ AtItsPlace(p)
    BY <1>1, <1>8 DEF IInv, Coherence, history
  <2>2. intent = IntentOf(p, "started") /\ record = cmd[p].oldRecord
        /\ Like(config, cmd[p].after)
    BY <1>1, <2>1 DEF AtItsPlace, At, ItsIntent
  <2>3. /\ intent # None
        /\ intent.expected = cmd[p].before /\ intent.desired = cmd[p].after
        /\ intent.expectedRecord = cmd[p].oldRecord
        /\ intent.desiredRecord = cmd[p].newRecord
    BY <1>1, <1>2, <2>2, IntentIs
  <2>4. Fits(cmd[p].before, cmd[p].oldRecord) /\ Fits(cmd[p].after, cmd[p].newRecord)
    BY <2>1, <2>3 DEF OnRecord
  <2>5. OnRecord'
    BY <1>1, <1>4, <1>6, <2>2, <2>4 DEF OnRecord, Fits, Like, history
  <2>6. AtItsPlace(p)'
    BY <1>1, <1>3, <1>4, <2>2 DEF AtItsPlace, At, Like, CarriesOn, history
  <2>7. QED
    BY <2>5, <2>6
<1>9. QED
  BY <1>2, <1>3, <1>5, <1>6, <1>7, <1>8, HolderMoves

LEMMA CompareRecordKeeps ==
    ASSUME IInv, NEW p \in Procs, CompareRecord(p)
    PROVE  IInv'
<1>1. TypeOK /\ cmd[p].pc = "compareRecord" /\ UNCHANGED <<inline, files, history, edits>>
      /\ crashes' \in Nat
  BY DEF IInv, TypeOK, CompareRecord, At, Quiet
<1>2. lock = p
  BY <1>1, Holds DEF Waiting
<1>3. CASE Go(p, "replaceRecord")
  <2>1. Frame(p) /\ CarriesOn(p) /\ cmd'[p].pc = "replaceRecord" /\ lock' = lock
    BY <1>1, <1>3, GoesOn DEF Steps
  <2>2. KnowsIntent(p)' /\ WritesTidily(p)'
    BY <2>1 DEF KnowsIntent, WritesTidily
  <2>3. AtItsPlace(p) => AtItsPlace(p)'
    BY <1>1, <2>1 DEF AtItsPlace, At, Like, CarriesOn, files, history
  <2>4. QED
    BY <1>1, <1>2, <2>1, <2>2, <2>3, HolderLooks
<1>4. CASE End(p)
  BY <1>1, <1>2, <1>4, EndKeeps
<1>5. QED
  BY <1>3, <1>4 DEF CompareRecord

LEMMA ReplaceRecordKeeps ==
    ASSUME IInv, NEW p \in Procs, ReplaceRecord(p)
    PROVE  IInv'
<1>1. /\ TypeOK /\ cmd[p].pc = "replaceRecord" /\ record' = cmd[p].newRecord
      /\ raced' = (raced \/ record # cmd[p].oldRecord) /\ Go(p, "clear")
      /\ UNCHANGED <<inline, config, intent, mine, touched, meddled, original,
                     edits, crashes>>
  BY DEF IInv, ReplaceRecord, At
<1>2. lock = p
  BY <1>1, Holds DEF Waiting
<1>3. Frame(p) /\ CarriesOn(p) /\ cmd'[p].pc = "clear" /\ lock' = lock
  BY <1>1, GoesOn DEF Steps
<1>4. TypeOK'
  <2>1. record' \in MaybeRecord /\ raced' \in BOOLEAN
    BY <1>1, CommandIs DEF TypeOK
  <2>2. QED
    BY <1>1, <1>3, <2>1 DEF TypeOK, Frame
<1>5. UserPartSurvives' /\ FirstIsTheUsers' /\ FirstCreated' = FirstCreated
  BY <1>1 DEF IInv, UserPartSurvives, FirstIsTheUsers, FirstCreated
<1>6. Untouchable'
  <2> SUFFICES ASSUME ~touched, ~meddled PROVE ~raced'
    BY <1>1 DEF Untouchable
  <2>1. ~raced /\ AtItsPlace(p)
    BY DEF IInv, Untouchable, Coherence
  <2>2. record = cmd[p].oldRecord
    BY <1>1, <2>1 DEF AtItsPlace, At
  <2>3. QED
    BY <1>1, <2>1, <2>2
<1>7. KnowsIntent(p)' /\ WritesTidily(p)'
  BY <1>3 DEF KnowsIntent, WritesTidily
<1>8. ASSUME ~meddled', ~raced' PROVE OnRecord' /\ AtItsPlace(p)'
  <2>1. OnRecord /\ AtItsPlace(p)
    BY <1>1, <1>8 DEF IInv, Coherence
  <2>2. intent # None /\ cmd[p].newRecord = intent.desiredRecord
        /\ Like(config, intent.desired)
    BY <1>1, <2>1 DEF AtItsPlace, At
  <2>3. Fits(intent.expected, intent.expectedRecord) /\ Fits(intent.desired, intent.desiredRecord)
    BY <2>1, <2>2 DEF OnRecord
  <2>4. Fits(config, record')
    BY <1>1, <2>2, <2>3 DEF Fits, Like
  <2>5. OnRecord'
    BY <1>1, <1>5, <2>2, <2>3 DEF OnRecord, Fits, Like
  <2>6. AtItsPlace(p)'
    BY <1>1, <1>3, <1>5, <2>2, <2>4 DEF AtItsPlace, At, Fits
  <2>7. QED
    BY <2>5, <2>6
<1>9. QED
  BY <1>2, <1>3, <1>4, <1>5, <1>6, <1>7, <1>8, HolderMoves

LEMMA ClearKeeps ==
    ASSUME IInv, NEW p \in Procs, Clear(p)
    PROVE  IInv'
<1>1. TypeOK /\ cmd[p].pc = "clear" /\ intent' = None
      /\ UNCHANGED <<inline, config, record, history, edits, crashes>>
  BY DEF IInv, Clear, At, Quiet
<1>2. lock = p
  BY <1>1, Holds DEF Waiting
<1>3. Frame(p) /\ lock' = lock /\ cmd'[p].pc \in {"decide", "done"}
  <2>1. CASE Go(p, "done")
    BY <1>1, <2>1, GoesOn DEF Steps
  <2>2. CASE /\ cmd' = [cmd EXCEPT ![p].pc = "decide", ![p].recovering = FALSE,
                                   ![p].landed = FALSE, ![p].oldRecord = None,
                                   ![p].newRecord = None]
             /\ UNCHANGED lock
    <3> DEFINE c == [cmd[p] EXCEPT !.pc = "decide", !.recovering = FALSE, !.landed = FALSE,
                                   !.oldRecord = None, !.newRecord = None]
    <3>0. cmd[p] \in Command /\ cmd[p].op \in {"install", "uninstall"}
      BY <1>1, CommandIs
    <3>1. c \in Command /\ c.pc = "decide"
      BY <3>0 DEF Command, Steps, MaybeRecord
    <3>2. cmd' = [cmd EXCEPT ![p] = c]
      BY <2>2
    <3> HIDE DEF c
    <3>3. QED
      BY <1>1, <2>2, <3>1, <3>2, Rewrites
  <2>3. QED
    BY <2>1, <2>2 DEF Clear
<1>4. TypeOK'
  BY <1>1, <1>3 DEF TypeOK, Frame, history
<1>5. FirstIsTheUsers' /\ UserPartSurvives' /\ Untouchable' /\ FirstCreated' = FirstCreated
  BY <1>1 DEF IInv, FirstIsTheUsers, UserPartSurvives, Untouchable, FirstCreated, history
<1>6. KnowsIntent(p)' /\ WritesTidily(p)'
  BY <1>1, <1>3 DEF KnowsIntent, WritesTidily
<1>7. ASSUME ~meddled', ~raced' PROVE OnRecord' /\ AtItsPlace(p)'
  <2>1. AtItsPlace(p)
    BY <1>1, <1>7 DEF IInv, Coherence, history
  <2>2. Fits(config, record)
    BY <1>1, <2>1 DEF AtItsPlace, At
  <2>3. OnRecord'
    BY <1>1, <1>5, <2>2 DEF OnRecord, Fits, history
  <2>4. AtItsPlace(p)'
    BY <1>3 DEF AtItsPlace, At
  <2>5. QED
    BY <2>3, <2>4
<1>8. QED
  BY <1>2, <1>3, <1>4, <1>5, <1>6, <1>7, HolderMoves

-----------------------------------------------------------------------------
(***************************************************************************)
(* The edits from outside.  One that leaves Memoria's groups alone changes *)
(* nothing a command compares by Like; one that does not is meddling.      *)
(***************************************************************************)
LEMMA EditKeeps ==
    ASSUME IInv, NEW c \in MaybeConfig, NEW owned \in BOOLEAN, Edited(c, owned),
           ~owned => Owned(c) = Owned(config)
    PROVE  IInv'
<1>1. /\ config' = c /\ mine' = UserPart(c) /\ touched' = TRUE
      /\ meddled' = (meddled \/ owned)
      /\ UNCHANGED <<inline, record, intent, lock, cmd, raced, original, crashes>>
  BY DEF Edited
<1>2. TypeOK'
  <2>1. edits' \in Nat
    BY DEF IInv, TypeOK, Edited
  <2>2. QED
    BY <1>1, <2>1 DEF IInv, TypeOK
<1>3. FirstIsTheUsers' /\ Alone' /\ UserPartSurvives' /\ Untouchable'
      /\ FirstCreated' = FirstCreated
  BY <1>1 DEF IInv, FirstIsTheUsers, Alone, UserPartSurvives, Untouchable, FirstCreated
<1>4. Tidy'
  BY <1>1 DEF IInv, Tidy, KnowsIntent, WritesTidily
<1>5. ASSUME ~meddled', ~raced' PROVE OnRecord' /\ \A p \in Procs : AtItsPlace(p)'
  <2>1. Owned(config') = Owned(config) /\ ~meddled /\ ~raced
    BY <1>1, <1>5
  <2>2. OnRecord /\ \A p \in Procs : AtItsPlace(p)
    BY <2>1 DEF IInv, Coherence
  <2>3. \A d, r : Fits(d, r) => Fits(d, r)'
    BY <1>1 DEF Fits
  <2>4. \A d : Like(config, d) => Like(config, d)'
    BY <1>1, <2>1 DEF Like
  <2>5. Fits(config, record) => Fits(config, record)'
    BY <1>1, <2>1 DEF Fits
  <2>6. OnRecord'
    BY <1>1, <2>1, <2>2 DEF OnRecord, Fits, Like
  <2>7. ASSUME NEW p \in Procs PROVE AtItsPlace(p)'
    <3>1. AtItsPlace(p)
      BY <2>2
    <3>2. QED
      BY <1>1, <2>1, <3>1 DEF AtItsPlace, At, Fits, Like, ItsIntent, IntentOf
  <2>8. QED
    BY <2>6, <2>7
<1>6. Coherence'
  BY <1>5 DEF Coherence
<1>7. QED
  BY <1>2, <1>3, <1>4, <1>6 DEF IInv

\* A configuration with other groups keeps its containers.
LEMMA OtherGroups ==
    ASSUME NEW c \in Configuration, NEW g
    PROVE  [c EXCEPT !.groups = Without(@, g)] \in Configuration
<1> DEFINE kept == Without(c.groups, g)
           d == [c EXCEPT !.groups = kept]
<1>1. c \in [hooks : BOOLEAN, stop : BOOLEAN, groups : Seq(Groups),
             events : BOOLEAN, keys : BOOLEAN]
      /\ c.groups \in Seq(Groups) /\ Containers(c)
  BY ConfigurationIs
<1>2. kept \in Seq(Groups)
  BY <1>1, OnlyType DEF Without
<1>3. c.groups = <<>> => kept = <<>>
  BY OnlyEmpty DEF Without
<1> HIDE DEF kept
<1>4. d \in [hooks : BOOLEAN, stop : BOOLEAN, groups : Seq(Groups),
             events : BOOLEAN, keys : BOOLEAN]
      /\ d.groups = kept /\ d.stop = c.stop /\ d.hooks = c.hooks /\ d.events = c.events
  BY <1>1, <1>2
<1>5. d \in Configuration
  BY <1>1, <1>3, <1>4 DEF Configuration, Containers
<1>6. QED
  BY <1>5 DEF kept

LEMMA AddGroupKeeps ==
    ASSUME IInv, NEW g \in Groups, AddGroup(g)
    PROVE  IInv'
<1>1. config \in MaybeConfig
  BY DEF IInv, TypeOK
<1>2. InsertGroup(config, g) \in MaybeConfig
      /\ (g \notin Executables => Owned(InsertGroup(config, g)) = Owned(config))
  BY <1>1, InsertedIs DEF MaybeConfig
<1> DEFINE owned == g \in Executables
<1>3. owned \in BOOLEAN /\ Edited(InsertGroup(config, g), owned)
      /\ (~owned => g \notin Executables)
  BY DEF AddGroup
<1> HIDE DEF owned
<1>4. QED
  BY <1>2, <1>3, EditKeeps

LEMMA DropGroupKeeps ==
    ASSUME IInv, NEW g \in Groups, DropGroup(g)
    PROVE  IInv'
<1> DEFINE d == [config EXCEPT !.groups = Without(@, g)]
<1>1. config \in MaybeConfig /\ Edited(d, g \in Executables)
  BY DEF IInv, TypeOK, DropGroup
<1>2. config \in Configuration
  <2>1. ASSUME config = None PROVE FALSE
    <3>1. Only(GroupsOf(config), {g}) = <<>>
      BY <2>1, OnlyEmpty DEF GroupsOf
    <3>2. Count(GroupsOf(config), g) = 0
      BY <3>1, EmptyIsSequence DEF Count
    <3>3. QED
      BY <3>2 DEF DropGroup
  <2>2. QED
    BY <1>1, <2>1 DEF MaybeConfig
<1>3. d \in Configuration
  BY <1>2, OtherGroups
<1>4. ASSUME g \notin Executables PROVE Owned(d) = Owned(config)
  <2>1. config \in [hooks : BOOLEAN, stop : BOOLEAN, groups : Seq(Groups),
                    events : BOOLEAN, keys : BOOLEAN]
        /\ GroupsOf(config) = config.groups /\ config.groups \in Seq(Groups)
    BY <1>2, ConfigurationIs
  <2>2. GroupsOf(d) = d.groups
    BY <1>3, ConfigurationIs
  <2>3. d.groups = Without(config.groups, g)
    BY <2>1
  <2>4. (Groups \ {g}) \cap Executables = Executables
    BY <1>4 DEF Groups
  <2>5. Only(Only(config.groups, Groups \ {g}), Executables)
          = Only(config.groups, (Groups \ {g}) \cap Executables)
    BY <2>1, OnlyOfOnly
  <2> HIDE DEF d
  <2>6. QED
    BY <2>1, <2>2, <2>3, <2>4, <2>5 DEF Owned, Without
<1> HIDE DEF d
<1>5. d \in MaybeConfig
  BY <1>3 DEF MaybeConfig
<1> DEFINE owned == g \in Executables
<1>6. owned \in BOOLEAN /\ Edited(d, owned) /\ (~owned => g \notin Executables)
  BY <1>1
<1> HIDE DEF owned
<1>7. QED
  BY <1>4, <1>5, <1>6, EditKeeps

LEMMA AddKeyKeeps ==
    ASSUME IInv, AddKey
    PROVE  IInv'
<1> DEFINE d == [config EXCEPT !.keys = TRUE]
<1>1. config \in Configuration /\ Edited(d, FALSE)
  BY DEF IInv, TypeOK, AddKey, MaybeConfig
<1>2. config \in [hooks : BOOLEAN, stop : BOOLEAN, groups : Seq(Groups),
                  events : BOOLEAN, keys : BOOLEAN]
      /\ Containers(config) /\ GroupsOf(config) = config.groups
  BY <1>1, ConfigurationIs
<1>3. d \in [hooks : BOOLEAN, stop : BOOLEAN, groups : Seq(Groups),
             events : BOOLEAN, keys : BOOLEAN]
      /\ d.groups = config.groups /\ d.stop = config.stop /\ d.hooks = config.hooks
      /\ d.events = config.events
  BY <1>2
<1> HIDE DEF d
<1>4. d \in Configuration
  BY <1>2, <1>3 DEF Configuration, Containers
<1>5. Owned(d) = Owned(config)
  BY <1>2, <1>3, <1>4, ConfigurationIs DEF Owned
<1>6. QED
  BY <1>1, <1>4, <1>5, EditKeeps DEF MaybeConfig

LEMMA DropFileKeeps ==
    ASSUME IInv, DropFile
    PROVE  IInv'
<1>1. None \in MaybeConfig /\ Edited(None, TRUE)
  BY DEF DropFile, MaybeConfig
<1>2. QED
  BY <1>1, EditKeeps

\* Whoever removes a file of Memoria's own meddles, and says nothing of the rest.
LEMMA DropRecordKeeps ==
    ASSUME IInv, DropRecord
    PROVE  IInv'
<1>1. /\ record' = None /\ meddled' = TRUE
      /\ UNCHANGED <<inline, config, intent, lock, cmd, mine, touched, raced,
                     original, crashes>>
  BY DEF DropRecord
<1>2. TypeOK'
  <2>1. edits' \in Nat /\ record' \in MaybeRecord
    BY <1>1 DEF IInv, TypeOK, DropRecord, MaybeRecord
  <2>2. QED
    BY <1>1, <2>1 DEF IInv, TypeOK
<1>3. FirstIsTheUsers' /\ Alone' /\ UserPartSurvives' /\ Untouchable' /\ Coherence'
  BY <1>1 DEF IInv, FirstIsTheUsers, Alone, UserPartSurvives, Untouchable, Coherence
<1>4. Tidy'
  BY <1>1 DEF IInv, Tidy, KnowsIntent, WritesTidily
<1>5. QED
  BY <1>2, <1>3, <1>4 DEF IInv

LEMMA RemoveIntentKeeps ==
    ASSUME IInv, RemoveIntent
    PROVE  IInv'
<1>1. /\ intent' = None /\ meddled' = TRUE /\ lock = None
      /\ UNCHANGED <<inline, config, record, lock, cmd, mine, touched, raced,
                     original, edits, crashes>>
  BY DEF RemoveIntent
<1>2. TypeOK'
  BY <1>1 DEF IInv, TypeOK
<1>3. FirstIsTheUsers' /\ Alone' /\ UserPartSurvives' /\ Untouchable' /\ Coherence'
  BY <1>1 DEF IInv, FirstIsTheUsers, Alone, UserPartSurvives, Untouchable, Coherence
<1>4. \A p \in Procs : cmd'[p].pc \in Waiting
  BY <1>1, NoneIsNothing DEF IInv, Alone
<1>5. Tidy'
  BY <1>4, StillWaitingNext DEF Tidy
<1>6. QED
  BY <1>2, <1>3, <1>5 DEF IInv

-----------------------------------------------------------------------------
(***************************************************************************)
(* The invariant holds at first, and every step keeps it.                  *)
(***************************************************************************)
LEMMA InitHolds == Init => IInv
<1> SUFFICES ASSUME Init PROVE IInv
  OBVIOUS
<1>1. config \in MaybeConfig /\ Owned(config) = <<>>
  BY OriginalsAreTheUsers DEF Init, MaybeConfig
<1>2. \A p \in Procs : cmd[p] = Idle /\ cmd[p].pc \in Waiting
  BY IdleIsCommand DEF Init, Waiting
<1>3. TypeOK
  BY <1>1, IdleIsCommand, BoundsAreNatural DEF Init, TypeOK, MaybeRecord
<1>4. FirstIsTheUsers /\ UserPartSurvives /\ Untouchable
  BY DEF Init, FirstIsTheUsers, UserPartSurvives, Untouchable
<1>5. Alone /\ Tidy
  BY <1>2, StillWaiting DEF Alone, Tidy
<1>6. OnRecord
  BY <1>1 DEF Init, OnRecord, Fits
<1>7. Coherence
  BY <1>2, <1>6, StillWaiting DEF Coherence
<1>8. QED
  BY <1>3, <1>4, <1>5, <1>7 DEF IInv

LEMMA StutterKeeps ==
    ASSUME IInv, UNCHANGED vars
    PROVE  IInv'
<1>1. UNCHANGED <<inline, files, history, lock, cmd, edits, crashes>>
  BY DEF vars
<1>2. FirstIsTheUsers' /\ UserPartSurvives' /\ Untouchable' /\ (OnRecord => OnRecord')
      /\ FirstCreated' = FirstCreated
  BY <1>1, NothingWritten DEF IInv
<1>3. TypeOK' /\ Alone' /\ Tidy'
  BY <1>1 DEF IInv, TypeOK, Alone, Tidy, KnowsIntent, WritesTidily, files, history
<1>4. \A p \in Procs : AtItsPlace(p) => AtItsPlace(p)'
  BY <1>1, <1>2 DEF AtItsPlace, At, Fits, Like, ItsIntent, IntentOf, files, history
<1>5. Coherence'
  BY <1>1, <1>2, <1>4 DEF IInv, Coherence, history
<1>6. QED
  BY <1>2, <1>3, <1>5 DEF IInv

LEMMA NextKeeps ==
    ASSUME IInv, [Next]_vars
    PROVE  IInv'
<1>1. CASE SomePlan
  BY <1>1, PlanKeeps DEF SomePlan
<1>2. ASSUME NEW p \in Procs, Work(p) PROVE IInv'
  BY <1>2, LockKeeps, RecoverKeeps, RecoverRecordKeeps, DecideKeeps, ReadForInstallKeeps,
     ReadForUninstallKeeps, IntendKeeps, CompareKeeps, ReplaceKeeps, IntendRecordKeeps,
     CompareRecordKeeps, ReplaceRecordKeeps, ClearKeeps, ReturnKeeps DEF Work
<1>3. ASSUME NEW p \in Procs, Crash(p) PROVE IInv'
  BY <1>3, CrashKeeps
<1>4. ASSUME NEW g \in Groups, AddGroup(g) \/ DropGroup(g) PROVE IInv'
  BY <1>4, AddGroupKeeps, DropGroupKeeps
<1>5. CASE AddKey \/ DropFile \/ DropRecord \/ RemoveIntent
  BY <1>5, AddKeyKeeps, DropFileKeeps, DropRecordKeeps, RemoveIntentKeeps
<1>6. CASE UNCHANGED vars
  BY <1>6, StutterKeeps
<1>7. QED
  BY <1>1, <1>2, <1>3, <1>4, <1>5, <1>6 DEF Next

LEMMA Invariant == Spec => []IInv
  BY InitHolds, NextKeeps, PTL DEF Spec

-----------------------------------------------------------------------------
(***************************************************************************)
(* In every reachable state the variables have their types: what the       *)
(* installer writes is a configuration with its groups in the Stop array   *)
(* and the array in its container, and a record of one of Memoria's own    *)
(* executables (hook_config.rs).                                           *)
(***************************************************************************)
THEOREM TypeCorrect == Spec => []TypeOK
<1>1. IInv => TypeOK
  BY DEF IInv
<1>2. QED
  BY <1>1, Invariant, PTL

(***************************************************************************)
(* The user's groups, in their order, events and keys are as the last      *)
(* outside edit left them, whatever the installer writes and wherever it   *)
(* is interrupted, unless that edit fell between the comparison and the    *)
(* rename of a replacement (hooks.rs, apply_install and apply_uninstall).  *)
(***************************************************************************)
THEOREM UserPartKept == Spec => []UserPartSurvives
<1>1. IInv => UserPartSurvives
  BY DEF IInv
<1>2. QED
  BY <1>1, Invariant, PTL

(***************************************************************************)
(* At rest the record and the configuration agree: exactly the recorded    *)
(* group, or none at all -- whichever steps were interrupted, unless       *)
(* somebody edited what Memoria owns (hooks.rs, recover).                  *)
(***************************************************************************)
THEOREM OwnershipKept == Spec => []OwnershipCoherent
<1>1. IInv => OwnershipCoherent
  BY DEF IInv, OwnershipCoherent, AtRest, Coherence, OnRecord, Fits
<1>2. QED
  BY <1>1, Invariant, PTL

(***************************************************************************)
(* A configuration nobody else touched is, whenever no record is left and  *)
(* nothing is pending, the very one of before the first installation: what *)
(* any sequence of installations, relocations, crashes and recoveries      *)
(* created is what the last uninstallation removes (remove_group).         *)
(***************************************************************************)
THEOREM NoTraceLeft == Spec => []UninstallLeavesNoTrace
<1>1. IInv => UninstallLeavesNoTrace
  BY DEF IInv, UninstallLeavesNoTrace, AtRest, Untouchable, Coherence, OnRecord, Fits
<1>2. QED
  BY <1>1, Invariant, PTL

(***************************************************************************)
(* The one state in which recovery refuses although nobody but Memoria     *)
(* wrote anything: both files are as desired, and the intent still says    *)
(* `started`, because recovery finishes the record step without saying so  *)
(* and was itself interrupted (hooks.rs:1330).                             *)
(***************************************************************************)
RefusesOnlyWhatIsDone ==
    Refused /\ ~touched /\ ~meddled =>
        /\ config = intent.desired /\ record = intent.desiredRecord
        /\ record # intent.expectedRecord /\ intent.phase = "started"

(***************************************************************************)
(* An interrupted operation on files nobody else edited is settled by the  *)
(* next command, with that single exception -- and there the files are     *)
(* what the operation wanted, so that removing the intent by hand loses    *)
(* nothing.                                                                *)
(***************************************************************************)
THEOREM RefusalExplained == Spec => []RefusesOnlyWhatIsDone
<1>1. ASSUME IInv, Refused, ~touched, ~meddled
      PROVE  /\ config = intent.desired /\ record = intent.desiredRecord
             /\ record # intent.expectedRecord /\ intent.phase = "started"
  <2>1. OnRecord /\ intent # None
    BY <1>1 DEF IInv, Untouchable, Coherence, Refused
  <2>2. intent.phase \in {"started", "configuration-written"}
    BY <1>1, <2>1 DEF IInv, TypeOK, Intent
  <2>3. \/ /\ record = intent.expectedRecord /\ intent.phase = "started"
           /\ config = intent.expected
        \/ /\ record \in {intent.expectedRecord, intent.desiredRecord}
           /\ config = intent.desired
    BY <1>1, <2>1 DEF OnRecord, Like
  <2>4. QED
    BY <1>1, <2>2, <2>3 DEF Refused, Landed, Untouched
<1>2. IInv => RefusesOnlyWhatIsDone
  BY <1>1 DEF RefusesOnlyWhatIsDone
<1>3. QED
  BY <1>2, Invariant, PTL
=============================================================================
