---------------------------- MODULE HistoryProofs ----------------------------
(***************************************************************************)
(* The searches of local history tell the truth, for any manifest, any     *)
(* commits and trees, any budgets and any trouble on the way; and so does  *)
(* the advice that is built on them, for any two projects.                 *)
(*                                                                         *)
(* A search forgets what it read and keeps three flags.  The argument is   *)
(* what an unset flag still means: as long as no budget ran out and no     *)
(* read failed (Clear), whatever was passed over does not hold the bytes.  *)
(***************************************************************************)
EXTENDS ReviewAdvice, ImportsProofs

\* One search, of anything that can be searched.
Spec ==
    /\ \E wanted : Searchable(wanted) /\ InitSearch(wanted)
    /\ [][Searching]_searchVars

Clear == ~history.exhausted /\ ~history.failed

Inputs == DOMAIN search.entries

HoldsInput(commit, i) == Holds(commit, search.entries[i])

\* What the reason given for a miss promises.
Verdict(why, i, flags, left) ==
    CASE why = "no_base_commit" ->
            search.base = None /\ \A c \in Reachable : ~HoldsInput(c, i)
      [] why \in {"blob_unavailable", "reviewed_bytes_mismatch"} ->
            search.base # None /\ \A c \in Reachable : ~HoldsInput(c, i)
      [] why = "git_read_failed" -> left < Troubles
      [] OTHER -> flags.exhausted \/ flags.truncated

WellPosed == Searchable(search)

Flags == [reads : Nat, remaining : Nat, candidates : Seq(Reachable) \cup {None},
          truncated : BOOLEAN, exhausted : BOOLEAN, failed : BOOLEAN]

Typed ==
    /\ WellPosed
    /\ history \in Flags
    /\ trouble \in Nat /\ trouble <= Troubles
    /\ item \in Nat \ {0} /\ place \in Nat /\ round \in Nat
    /\ commits \in Seq(Reachable) /\ hits \subseteq Inputs
    /\ reads \in [Inputs -> Nat]

\* What the flags say.
Flagged ==
    /\ history.failed => trouble < Troubles
    /\ history.candidates = None => ~history.truncated
    /\ (history.candidates # None /\ Clear /\ ~history.truncated) =>
          ToSet(search.recent) \subseteq ToSet(history.candidates)

OfLookup ==
    /\ pc \in {"lookup", "list", "walk", "done"}
    /\ pc \in {"list", "walk"} => item \in Inputs
    /\ pc = "walk" => history.candidates # None
    /\ (pc \in {"list", "walk"} /\ Clear /\ search.base # None) =>
          ~HoldsInput(search.base, item)
    /\ (pc = "walk" /\ Clear) => \A c \in ToSet(commits) : ~HoldsInput(c, item)

Started == IF search.base # None THEN <<search.base>> ELSE <<>>

OfCoverage ==
    /\ pc \in {"coverage", "done"} /\ item \in Inputs
    /\ pc = "coverage" =>
          /\ answer = None
          /\ place \in 1..(Len(commits) + 1)
          /\ place <= Len(commits) => \A i \in hits : HoldsInput(commits[place], i)
          /\ place > Len(commits) => hits = {} /\ item = 1
          /\ Clear => \A k \in 1..(place - 1) : ~HoldsAll(commits[k])
          /\ (Clear /\ place <= Len(commits)) =>
                \A i \in 1..(item - 1) : i \in hits \/ ~HoldsInput(commits[place], i)
          /\ history.candidates = None => commits = Started
          /\ history.candidates # None =>
                ToSet(Started) \cup ToSet(history.candidates) \subseteq ToSet(commits)

OfCover ==
    /\ pc \in {"cover", "done"}
    /\ \A i \in hits : HoldsInput(search.base, i)
    /\ \A i \in Inputs : reads[i] <= 2
    /\ pc = "cover" =>
          /\ answer = None /\ ~history.exhausted
          /\ round = 0 => history.reads = 0 /\ history.remaining = ByteLimit
          /\ item \in 1..(Len(search.entries) + 1)
          /\ \A i \in Inputs : i > item => reads[i] = 0
          /\ item \in Inputs => reads[item] <= 1 /\ (reads[item] = 1 => round = 0)
          /\ ~history.failed =>
                \A i \in 1..(item - 1) : i \in hits \/ ~HoldsInput(search.base, i)

(***************************************************************************)
(* The inductive invariant.                                                *)
(***************************************************************************)
IInv ==
    /\ Typed /\ Flagged /\ SearchesTellTheTruth
    /\ search.kind = "lookup"   => OfLookup
    /\ search.kind = "coverage" => OfCoverage
    /\ search.kind = "cover"    => OfCover

-----------------------------------------------------------------------------
(***************************************************************************)
(* A search's commits and inputs.                                          *)
(***************************************************************************)
LEMMA SearchableIs ==
    ASSUME Typed
    PROVE  /\ search.recent \in Seq(Reachable) /\ None \notin Reachable
           /\ "uncovered" \notin Reachable /\ None \notin Seq(Reachable)
           /\ Len(search.entries) \in Nat /\ Inputs = 1..Len(search.entries)
           /\ search.kind \in {"lookup", "coverage", "cover"}
           /\ search.kind # "lookup" => 1 \in Inputs
           /\ search.kind = "cover" => search.base \in Reachable
           /\ search.base # None => search.base \in Reachable
           /\ \A i \in Inputs : search.entries[i].expected # None
           /\ \A i \in Inputs, c \in Reachable :
                 LET content == search.trees[c][search.entries[i].path]
                 IN  content # None => content.size \in Nat
<1>1. Reachable = ToSet(search.recent) \cup ({search.base} \ {None})
  BY DEF Reachable
<1>2. /\ search.recent \in Seq(Reachable) /\ Reachable \cap {None, "uncovered"} = {}
      /\ search.entries \in Seq({search.entries[i] : i \in DOMAIN search.entries})
      /\ search.kind # "lookup" => search.entries # <<>>
      /\ search.kind = "cover" => search.base # None
      /\ search.kind \in {"lookup", "coverage", "cover"}
      /\ None \notin Seq(Reachable)
  BY <1>1 DEF Typed, WellPosed, Searchable
<1>3. Len(search.entries) \in Nat /\ Inputs = 1..Len(search.entries)
  BY <1>2 DEF Inputs
<1>4. search.kind # "lookup" => 1 \in Inputs
  BY <1>2, <1>3
<1>5. /\ \A i \in Inputs : search.entries[i].expected # None
      /\ \A i \in Inputs, c \in Reachable :
            LET content == search.trees[c][search.entries[i].path]
            IN  content # None => content.size \in Nat
  BY <1>1 DEF Typed, WellPosed, Searchable, Inputs
<1>6. QED
  BY <1>1, <1>2, <1>3, <1>4, <1>5

\* What one read gives, and what it does to the budgets and the flags (read, at).
Reads(out, commit, i, event) ==
    LET content == search.trees[commit][search.entries[i].path]
    IN  /\ out.history \in Flags
        /\ out.history.candidates = history.candidates
        /\ out.history.truncated = history.truncated
        /\ history.exhausted => out.history.exhausted
        /\ history.failed => out.history.failed
        /\ out.history.failed => history.failed \/ event # "none"
        /\ out.value = search.entries[i].expected => HoldsInput(commit, i)
        /\ (~out.history.exhausted /\ ~out.history.failed
              /\ out.value # search.entries[i].expected) => ~HoldsInput(commit, i)
        /\ (out.history.exhausted /\ ~history.exhausted /\ event = "none") =>
              \/ history.reads >= ReadLimit
              \/ content # None /\ content.size > history.remaining

LEMMA OutcomeIs ==
    ASSUME Typed, NEW commit \in Reachable, NEW i \in Inputs, NEW event \in Events
    PROVE  Reads(Outcome(commit, search.entries[i], event), commit, i, event)
<1> DEFINE entry == search.entries[i]
           content == search.trees[commit][entry.path]
           counted == [history EXCEPT !.reads = @ + 1]
           over == \/ history.exhausted \/ history.reads >= ReadLimit \/ event = "deadline"
           tooMuch == content # None /\ content.size > history.remaining
           out == Outcome(commit, entry, event)
<1>1. history \in Flags /\ entry.expected # None /\ (content # None => content.size \in Nat)
  BY SearchableIs DEF Typed
<1>2. event \in {"none", "failure", "deadline"} /\ ReadLimit \in Nat
  BY LimitsAreNumbers DEF Events
<1>3. HoldsInput(commit, i) <=> content # None /\ Body(content, entry.export) = entry.expected
  BY DEF HoldsInput, Holds
<1>4. out = CASE over ->
               [value |-> None, history |-> [history EXCEPT !.exhausted = TRUE]]
          [] ~over /\ event = "failure" ->
               [value |-> None, history |-> [counted EXCEPT !.failed = TRUE]]
          [] ~over /\ event = "none" /\ tooMuch ->
               [value |-> None, history |-> [counted EXCEPT !.exhausted = TRUE]]
          [] ~over /\ event = "none" /\ content = None ->
               [value |-> None, history |-> counted]
          [] OTHER ->
               [value   |-> Body(content, entry.export),
                history |-> [counted EXCEPT !.remaining = @ - content.size]]
  BY Zenon DEF Outcome
<1>5. counted \in Flags /\ counted.candidates = history.candidates
      /\ counted.truncated = history.truncated /\ counted.exhausted = history.exhausted
      /\ counted.failed = history.failed /\ counted.remaining = history.remaining
  BY <1>1 DEF Flags
<1> SUFFICES Reads(out, commit, i, event)
  OBVIOUS
<1>0. Reads(out, commit, i, event) <=>
        /\ out.history \in Flags
        /\ out.history.candidates = history.candidates
        /\ out.history.truncated = history.truncated
        /\ history.exhausted => out.history.exhausted
        /\ history.failed => out.history.failed
        /\ out.history.failed => history.failed \/ event # "none"
        /\ out.value = entry.expected => HoldsInput(commit, i)
        /\ (~out.history.exhausted /\ ~out.history.failed
              /\ out.value # entry.expected) => ~HoldsInput(commit, i)
        /\ (out.history.exhausted /\ ~history.exhausted /\ event = "none") =>
              history.reads >= ReadLimit \/ tooMuch
  BY DEF Reads
<1> HIDE DEF entry, content, out, counted
<1>6. CASE over
  <2>1. out = [value |-> None, history |-> [history EXCEPT !.exhausted = TRUE]]
    BY <1>4, <1>6
  <2>2. QED
    BY <1>0, <1>1, <1>2, <1>6, <2>1 DEF Flags
<1>7. CASE ~over /\ event = "failure"
  <2>1. out = [value |-> None, history |-> [counted EXCEPT !.failed = TRUE]]
    BY <1>4, <1>7
  <2>2. QED
    BY <1>0, <1>1, <1>2, <1>5, <1>7, <2>1 DEF Flags
<1>8. CASE ~over /\ event = "none" /\ tooMuch
  <2>1. out = [value |-> None, history |-> [counted EXCEPT !.exhausted = TRUE]]
    BY <1>4, <1>8
  <2>2. QED
    BY <1>0, <1>1, <1>2, <1>5, <1>8, <2>1 DEF Flags
<1>9. CASE ~over /\ event = "none" /\ ~tooMuch /\ content = None
  <2>1. out = [value |-> None, history |-> counted]
    BY <1>4, <1>9
  <2>2. QED
    BY <1>0, <1>1, <1>2, <1>3, <1>5, <1>9, <2>1
<1>10. CASE ~over /\ event = "none" /\ ~tooMuch /\ content # None
  <2>1. out = [value   |-> Body(content, entry.export),
               history |-> [counted EXCEPT !.remaining = @ - content.size]]
    BY <1>4, <1>10
  <2>2. content.size \in Nat /\ counted.remaining - content.size \in Nat
    BY <1>1, <1>5, <1>10 DEF Flags
  <2>3. out.history \in Flags /\ out.history.candidates = counted.candidates
        /\ out.history.truncated = counted.truncated /\ out.history.exhausted = counted.exhausted
        /\ out.history.failed = counted.failed /\ out.value = Body(content, entry.export)
    BY <1>5, <2>1, <2>2 DEF Flags
  <2>4. QED
    BY <1>0, <1>1, <1>2, <1>3, <1>5, <1>10, <2>3
<1>11. QED
  BY <1>2, <1>6, <1>7, <1>8, <1>9, <1>10

\* The recent commits are listed once; what is left out of them is flagged.
ListEvents == IF history.candidates = None THEN Events ELSE {"none"}

LEMMA ListedIs ==
    ASSUME Typed, Flagged, NEW event \in ListEvents
    PROVE  LET listed == Listed(event)
           IN  /\ listed \in Flags /\ listed.candidates \in Seq(Reachable)
               /\ history.exhausted => listed.exhausted
               /\ history.failed => listed.failed
               /\ history.truncated => listed.truncated
               /\ listed.failed => history.failed \/ event # "none"
               /\ (~listed.exhausted /\ ~listed.failed /\ ~listed.truncated) =>
                     ToSet(search.recent) \subseteq ToSet(listed.candidates)
<1> DEFINE listed == Listed(event)
           room == IF Len(search.recent) > Candidates THEN Candidates ELSE Len(search.recent)
<1>1. history \in Flags /\ event \in {"none", "failure", "deadline"} /\ Candidates \in Nat
      /\ search.recent \in Seq(Reachable) /\ None \notin Seq(Reachable)
  BY SearchableIs, LimitsAreNumbers DEF Typed, ListEvents, Events
<1>2. CASE history.candidates # None
  <2>1. listed = history /\ event = "none"
    BY <1>2 DEF Listed, ListEvents
  <2>2. QED
    BY <1>1, <1>2, <2>1 DEF Flags, Flagged, Clear
<1>3. CASE history.candidates = None /\ event = "none"
  <2>1. listed = [history EXCEPT !.candidates = SubSeq(search.recent, 1, room),
                                 !.truncated  = Len(search.recent) > Candidates]
    BY <1>3 DEF Listed
  <2>2. Len(search.recent) \in Nat /\ room \in 0..Len(search.recent)
    BY <1>1
  <2>3. SubSeq(search.recent, 1, room) \in Seq(Reachable)
    BY <1>1, <2>2
  <2> DEFINE many == Len(search.recent) > Candidates
             some == SubSeq(search.recent, 1, room)
  <2>4. many \in BOOLEAN /\ (~many => room = Len(search.recent))
    BY <1>1, <2>2
  <2>5. listed = [history EXCEPT !.candidates = some, !.truncated = many]
    BY <2>1
  <2> HIDE DEF room, many, some
  <2>6. /\ listed \in Flags /\ listed.candidates = some /\ listed.truncated = many
        /\ listed.exhausted = history.exhausted /\ listed.failed = history.failed
    <3>1. some \in Seq(Reachable)
      BY <2>3 DEF some
    <3> HIDE DEF listed
    <3>2. QED
      BY <1>1, <2>4, <2>5, <3>1 DEF Flags
  <2>7. ASSUME ~listed.truncated
        PROVE  ToSet(search.recent) \subseteq ToSet(listed.candidates)
    <3>1. room = Len(search.recent)
      BY <2>4, <2>6, <2>7
    <3>2. SubSeq(search.recent, 1, Len(search.recent)) = search.recent
      BY <1>1
    <3>3. QED
      BY <2>6, <3>1, <3>2 DEF some
  <2> HIDE DEF listed
  <2>8. QED
    BY <1>3, <2>3, <2>6, <2>7 DEF Flagged, listed, some
<1>4. CASE history.candidates = None /\ event = "deadline"
  <2>1. listed = [history EXCEPT !.candidates = <<>>, !.exhausted = TRUE]
    BY <1>4 DEF Listed
  <2>2. <<>> \in Seq(Reachable)
    OBVIOUS
  <2>3. QED
    BY <1>1, <1>4, <2>1, <2>2 DEF Flags
<1>5. CASE history.candidates = None /\ event = "failure"
  <2>1. listed = [history EXCEPT !.candidates = <<>>, !.failed = TRUE]
    BY <1>5 DEF Listed
  <2>2. <<>> \in Seq(Reachable)
    OBVIOUS
  <2>3. QED
    BY <1>1, <1>5, <2>1, <2>2 DEF Flags
<1>6. QED
  BY <1>1, <1>2, <1>3, <1>4, <1>5

-----------------------------------------------------------------------------
(***************************************************************************)
(* What Joined computes, by induction over a set of numbers.               *)
(***************************************************************************)
LEMMA CountingUp ==
    ASSUME NEW S, 0 \in S, \A n \in Nat : n \in S => n + 1 \in S
    PROVE  Nat \subseteq S
<1> DEFINE T == S \cap Nat
<1>1. T \in SUBSET Nat /\ 0 \in T /\ \A n \in T : n + 1 \in T
  OBVIOUS
<1> HIDE DEF T
<1>2. T = Nat
  BY <1>1, Counting
<1>3. QED
  BY <1>2 DEF T

Step(k, s, g, n) ==
    IF n = 0 THEN k ELSE IF s[n] \in ToSet(g[n - 1]) THEN g[n - 1] ELSE Append(g[n - 1], s[n])

Joins(k, s, g) == g = [n \in 0..Len(s) |-> Step(k, s, g, n)]

LEMMA JoinedChosen == \A k, s : Joined(k, s) = (CHOOSE g : Joins(k, s, g))[Len(s)]
  BY DEF Joined, Joins, Step

LEMMA Joinable ==
    ASSUME NEW k, NEW T, NEW s \in Seq(T)
    PROVE  \E g : Joins(k, s, g)
<1> DEFINE Up(n, g) == g = [m \in 0..n |-> Step(k, s, g, m)]
           S == {n \in Nat : n <= Len(s) => \E g : Up(n, g)}
<1>0. Len(s) \in Nat
  OBVIOUS
<1>1. 0 \in S
  <2>1. Up(0, [m \in 0..0 |-> k])
    BY DEF Step
  <2>2. QED
    BY <2>1
<1>2. ASSUME NEW n \in Nat, n \in S PROVE n + 1 \in S
  <2> SUFFICES ASSUME n + 1 <= Len(s) PROVE \E g : Up(n + 1, g)
    OBVIOUS
  <2>1. PICK g : Up(n, g)
    BY <1>2, <1>0
  <2> DEFINE h == [m \in 0..(n + 1) |-> IF m = n + 1 THEN Step(k, s, g, m) ELSE g[m]]
  <2>2. ASSUME NEW m \in 0..(n + 1) PROVE h[m] = Step(k, s, h, m)
    <3>1. CASE m = n + 1
      <4>1. m - 1 \in 0..(n + 1) /\ m - 1 # n + 1 /\ m # 0
        BY <3>1
      <4>2. h[m - 1] = g[m - 1]
        BY <4>1
      <4>3. QED
        BY <3>1, <4>2 DEF Step
    <3>2. CASE m # n + 1
      <4>1. m \in 0..n
        BY <3>2
      <4>2. g[m] = Step(k, s, g, m)
        BY <4>1, <2>1
      <4>3. m # 0 => (m - 1 \in 0..(n + 1) /\ m - 1 # n + 1)
        BY <4>1
      <4>4. m # 0 => h[m - 1] = g[m - 1]
        BY <4>3
      <4>5. QED
        BY <3>2, <4>2, <4>4 DEF Step
    <3>3. QED
      BY <3>1, <3>2
  <2>3. Up(n + 1, h)
    <3> HIDE DEF h
    <3>1. h = [m \in 0..(n + 1) |-> h[m]]
      BY DEF h
    <3>2. QED
      BY <3>1, <2>2
  <2>4. QED
    BY <2>3
<1>3. Len(s) \in S
  <2> HIDE DEF S
  <2>1. QED
    BY <1>0, <1>1, <1>2, CountingUp
<1>4. QED
  BY <1>3, <1>0 DEF Joins

\* The candidates of coverage: those known, then the other listed ones.
LEMMA JoinedIs ==
    ASSUME NEW T, NEW k \in Seq(T), NEW s \in Seq(T)
    PROVE  /\ Joined(k, s) \in Seq(T) /\ Len(Joined(k, s)) >= Len(k)
           /\ \A i \in 1..Len(k) : Joined(k, s)[i] = k[i]
           /\ ToSet(k) \cup ToSet(s) \subseteq ToSet(Joined(k, s))
           /\ Len(Joined(k, s)) = Len(k) => ToSet(s) \subseteq ToSet(k)
<1> DEFINE g == CHOOSE f : Joins(k, s, f)
           After(n) == /\ g[n] \in Seq(T) /\ Len(g[n]) >= Len(k)
                       /\ \A i \in 1..Len(k) : g[n][i] = k[i]
                       /\ \A i \in 1..n : s[i] \in ToSet(g[n])
           S == {n \in Nat : n <= Len(s) => After(n)}
<1>1. Joins(k, s, g)
  <2>1. \E f : Joins(k, s, f)
    BY Joinable
  <2>2. QED
    BY <2>1, Zenon
<1>2. Joined(k, s) = g[Len(s)]
  BY JoinedChosen, Zenon
<1> HIDE DEF g
<1>3. Len(s) \in Nat /\ Len(k) \in Nat
  OBVIOUS
<1>4. ASSUME NEW n \in 0..Len(s) PROVE g[n] = Step(k, s, g, n)
  <2>1. g = [m \in 0..Len(s) |-> Step(k, s, g, m)]
    BY <1>1 DEF Joins
  <2>2. [m \in 0..Len(s) |-> Step(k, s, g, m)][n] = Step(k, s, g, n)
    OBVIOUS
  <2>3. QED
    BY <2>1, <2>2, Zenon
<1>5. 0 \in S
  <2>1. g[0] = k
    BY <1>3, <1>4 DEF Step
  <2>2. QED
    BY <1>3, <2>1
<1>6. ASSUME NEW n \in Nat, n \in S PROVE n + 1 \in S
  <2> SUFFICES ASSUME n + 1 <= Len(s) PROVE After(n + 1)
    OBVIOUS
  <2>1. After(n)
    BY <1>3, <1>6
  <2>2. g[n + 1] = IF s[n + 1] \in ToSet(g[n]) THEN g[n] ELSE Append(g[n], s[n + 1])
    <3>1. n + 1 \in 0..Len(s) /\ n + 1 # 0 /\ (n + 1) - 1 = n
      BY <1>3
    <3>2. g[n + 1] = Step(k, s, g, n + 1)
      BY <1>4, <3>1
    <3>3. QED
      BY <3>1, <3>2 DEF Step
  <2>3. s[n + 1] \in T
    BY <1>3
  <2> DEFINE a == g[n]
             e == s[n + 1]
  <2>4. a \in Seq(T) /\ Len(a) >= Len(k) /\ (\A i \in 1..Len(k) : a[i] = k[i])
        /\ \A i \in 1..n : s[i] \in ToSet(a)
    BY <2>1
  <2>5. CASE e \in ToSet(a)
    <3>1. g[n + 1] = a
      BY <2>2, <2>5
    <3>2. \A i \in 1..(n + 1) : i \in 1..n \/ i = n + 1
      OBVIOUS
    <3> HIDE DEF a
    <3>3. \A i \in 1..(n + 1) : s[i] \in ToSet(a)
      BY <2>4, <2>5, <3>2
    <3>4. QED
      BY <2>4, <3>1, <3>3
  <2>6. CASE e \notin ToSet(a)
    <3>1. g[n + 1] = Append(a, e)
      BY <2>2, <2>6
    <3>2. \A i \in 1..(n + 1) : i \in 1..n \/ i = n + 1
      OBVIOUS
    <3> HIDE DEF a, e
    <3>3. /\ Append(a, e) \in Seq(T) /\ Len(Append(a, e)) = Len(a) + 1
          /\ \A i \in 1..Len(a) : Append(a, e)[i] = a[i]
          /\ Append(a, e)[Len(a) + 1] = e /\ Len(a) \in Nat
      BY <2>3, <2>4 DEF e
    <3>4. ToSet(a) \subseteq ToSet(Append(a, e)) /\ e \in ToSet(Append(a, e))
      <4>1. DOMAIN a = 1..Len(a) /\ DOMAIN Append(a, e) = 1..(Len(a) + 1)
        BY <2>4, <3>3
      <4>2. \A i \in DOMAIN a : i \in DOMAIN Append(a, e) /\ Append(a, e)[i] = a[i]
        BY <3>3, <4>1
      <4>3. Len(a) + 1 \in DOMAIN Append(a, e)
        BY <3>3, <4>1
      <4>4. QED
        BY <3>3, <4>2, <4>3, Zenon DEF ToSet
    <3>5. \A i \in 1..(n + 1) : s[i] \in ToSet(Append(a, e))
      BY <2>4, <3>2, <3>4 DEF e
    <3>6. \A i \in 1..Len(k) : i \in 1..Len(a) /\ Append(a, e)[i] = k[i]
      BY <1>3, <2>4, <3>3
    <3>7. QED
      BY <1>3, <2>4, <3>1, <3>3, <3>5, <3>6
  <2>7. QED
    BY <2>5, <2>6
<1>7. After(Len(s))
  <2> HIDE DEF After
  <2>1. Nat \subseteq S
    <3> HIDE DEF S
    <3>1. QED
      BY <1>5, <1>6, CountingUp
  <2>2. QED
    BY <1>3, <2>1
<1> DEFINE j == g[Len(s)]
<1>8. /\ j \in Seq(T) /\ Len(j) >= Len(k) /\ Len(j) \in Nat
      /\ \A i \in 1..Len(k) : j[i] = k[i]
      /\ \A i \in 1..Len(s) : s[i] \in ToSet(j)
  BY <1>7
<1> HIDE DEF j
<1>9. ToSet(s) \subseteq ToSet(j)
  BY <1>8 DEF ToSet
<1>10. DOMAIN k = 1..Len(k) /\ DOMAIN j = 1..Len(j)
  BY <1>8
<1>11. ToSet(k) \subseteq ToSet(j)
  <2>1. \A i \in DOMAIN k : i \in DOMAIN j /\ j[i] = k[i]
    BY <1>3, <1>8, <1>10
  <2>2. QED
    BY <2>1, Zenon DEF ToSet
<1>12. Len(j) = Len(k) => ToSet(j) \subseteq ToSet(k)
  <2>1. ASSUME Len(j) = Len(k) PROVE \A i \in DOMAIN j : i \in DOMAIN k /\ j[i] = k[i]
    BY <1>3, <1>8, <1>10, <2>1
  <2>2. QED
    BY <2>1, Zenon DEF ToSet
<1>13. QED
  BY <1>2, <1>8, <1>9, <1>11, <1>12 DEF j

-----------------------------------------------------------------------------
(***************************************************************************)
(* A step keeps the search, and never resets a flag of a lookup.           *)
(***************************************************************************)
LEMMA SameSearch ==
    ASSUME search' = search
    PROVE  /\ Inputs' = Inputs /\ Reachable' = Reachable /\ Started' = Started
           /\ Flags' = Flags
           /\ WellPosed' = WellPosed
           /\ \A c, i : HoldsInput(c, i)' = HoldsInput(c, i)
           /\ \A c : HoldsAll(c)' = HoldsAll(c)
           /\ \A w, i, f, t : Verdict(w, i, f, t)' = Verdict(w, i, f, t)
<1>1. Inputs' = Inputs /\ Reachable' = Reachable /\ Started' = Started
      /\ WellPosed' = WellPosed
  BY DEF Inputs, Reachable, Started, WellPosed
<1>2. Flags' = Flags
  BY <1>1, Zenon DEF Flags
<1>3. \A c, i : HoldsInput(c, i)' = HoldsInput(c, i)
  BY DEF HoldsInput, Holds
<1>4. \A c : HoldsAll(c)' = HoldsAll(c)
  BY DEF HoldsAll, Holds
<1>5. \A w, i, f, t : Verdict(w, i, f, t)' = Verdict(w, i, f, t)
  BY <1>1, <1>3, Zenon DEF Verdict
<1>6. QED
  BY <1>1, <1>2, <1>3, <1>4, <1>5

\* All the entries of a commit are its inputs.
LEMMA AllIs == \A c : HoldsAll(c) <=> \A i \in Inputs : HoldsInput(c, i)
  BY DEF HoldsAll, Inputs, HoldsInput

LEMMA LookupTruthIs ==
    LookupsTellTheTruth <=>
        /\ \A i \in hits : \E c \in Reachable : HoldsInput(c, i)
        /\ \A i \in DOMAIN misses : Verdict(misses[i], i, history, trouble)
  BY Zenon DEF LookupsTellTheTruth, Verdict, HoldsInput

\* What a search that ends a step with longer hits and misses must show.
LEMMA LookupTruthKept ==
    ASSUME Typed, LookupsTellTheTruth, search' = search, trouble' \in Nat, trouble' <= trouble,
           history.exhausted => history'.exhausted, history.truncated => history'.truncated,
           \A i \in hits' : i \in hits \/ \E c \in Reachable : HoldsInput(c, i),
           \A i \in DOMAIN misses' : \/ i \in DOMAIN misses /\ misses'[i] = misses[i]
                                     \/ Verdict(misses'[i], i, history', trouble')
    PROVE  LookupsTellTheTruth'
<1>1. /\ Reachable' = Reachable /\ \A c, i : HoldsInput(c, i)' = HoldsInput(c, i)
      /\ \A w, i, f, t : Verdict(w, i, f, t)' = Verdict(w, i, f, t)
  BY SameSearch
<1>2. \A i \in hits' : \E c \in Reachable : HoldsInput(c, i)
  BY LookupTruthIs
<1>3. ASSUME NEW w, NEW i, Verdict(w, i, history, trouble)
      PROVE  Verdict(w, i, history', trouble')
  <2>1. trouble \in Nat /\ Troubles \in Nat
    BY LimitsAreNumbers DEF Typed
  <2>2. trouble < Troubles => trouble' < Troubles
    BY <2>1
  <2>3. QED
    BY <1>3, <2>2, Zenon DEF Verdict
<1>4. \A i \in DOMAIN misses' : Verdict(misses'[i], i, history', trouble')
  BY <1>3, LookupTruthIs
<1>5. LookupsTellTheTruth' <=>
        /\ \A i \in hits' : \E c \in Reachable' : HoldsInput(c, i)'
        /\ \A i \in DOMAIN misses' :
              CASE misses'[i] = "no_base_commit" ->
                      search'.base = None /\ \A c \in Reachable' : ~HoldsInput(c, i)'
                [] misses'[i] \in {"blob_unavailable", "reviewed_bytes_mismatch"} ->
                      search'.base # None /\ \A c \in Reachable' : ~HoldsInput(c, i)'
                [] misses'[i] = "git_read_failed" -> trouble' < Troubles
                [] OTHER -> history'.exhausted \/ history'.truncated
  BY Zenon DEF LookupsTellTheTruth, HoldsInput
<1>6. \A i \in DOMAIN misses' :
          CASE misses'[i] = "no_base_commit" ->
                  search.base = None /\ \A c \in Reachable : ~HoldsInput(c, i)
            [] misses'[i] \in {"blob_unavailable", "reviewed_bytes_mismatch"} ->
                  search.base # None /\ \A c \in Reachable : ~HoldsInput(c, i)
            [] misses'[i] = "git_read_failed" -> trouble' < Troubles
            [] OTHER -> history'.exhausted \/ history'.truncated
  BY <1>4, Zenon DEF Verdict
<1>7. QED
  BY <1>1, <1>2, <1>5, <1>6

\* A miss that is told changes nothing else that was told.
LEMMA MissesIs ==
    ASSUME NEW found \in BOOLEAN, NEW why, NextItem(found, why)
    PROVE  \A i \in DOMAIN misses' : \/ i \in DOMAIN misses /\ misses'[i] = misses[i]
                                     \/ ~found /\ i = item /\ misses'[i] = why
  BY DEF NextItem, Missed

(***************************************************************************)
(* One read: it may cost a budget and raise a flag, and the value it gives *)
(* is the one the commit holds as long as no flag is raised.               *)
(***************************************************************************)
LEMMA AfterRead ==
    ASSUME Typed, Flagged, NEW commit \in Reachable, item \in Inputs, NEW event \in Events,
           NEW out, out = Outcome(commit, Entry, event), Read(event), history' = out.history,
           search' = search
    PROVE  /\ Reads(out, commit, item, event)
           /\ history' \in Flags /\ Flagged'
           /\ trouble' \in Nat /\ trouble' <= trouble /\ trouble' <= Troubles
           /\ event # "none" => trouble' < Troubles
           /\ reads' \in [Inputs -> Nat] /\ reads'[item] = reads[item] + 1
           /\ \A i \in Inputs : i # item => reads'[i] = reads[i]
           /\ Clear' => Clear
<1>1. Reads(out, commit, item, event)
  BY OutcomeIs DEF Entry
<1>2. trouble \in Nat /\ trouble <= Troubles /\ Troubles \in Nat /\ history \in Flags
      /\ reads \in [Inputs -> Nat]
  BY LimitsAreNumbers DEF Typed
<1>3. /\ trouble' = IF event = "none" THEN trouble ELSE trouble - 1
      /\ reads' = [reads EXCEPT ![item] = @ + 1]
  BY DEF Read, Happens
<1>4. event # "none" => trouble > 0
  BY DEF Events
<1>5. trouble' \in Nat /\ trouble' <= trouble /\ trouble' <= Troubles
      /\ (event # "none" => trouble' < Troubles)
  BY <1>2, <1>3, <1>4
<1>6. reads' \in [Inputs -> Nat] /\ reads'[item] = reads[item] + 1
      /\ \A i \in Inputs : i # item => reads'[i] = reads[i]
  BY <1>2, <1>3
<1>7. Clear' => Clear
  BY <1>1 DEF Clear, Reads
<1>8. Flagged'
  <2>1. history'.failed => trouble' < Troubles
    BY <1>1, <1>2, <1>5 DEF Flagged, Reads
  <2>2. history'.candidates = history.candidates /\ history'.truncated = history.truncated
    BY <1>1 DEF Reads
  <2>3. QED
    BY <1>7, <2>1, <2>2 DEF Flagged
<1>9. QED
  BY <1>1, <1>5, <1>6, <1>7, <1>8 DEF Reads

\* What a step must keep to stay well formed.
LEMMA StillTyped ==
    ASSUME Typed, search' = search, history' \in Flags, trouble' \in Nat, trouble' <= Troubles,
           item' \in Nat \ {0}, place' \in Nat, round' \in Nat, commits' \in Seq(Reachable),
           hits' \subseteq Inputs, reads' \in [Inputs -> Nat]
    PROVE  Typed'
<1>1. Inputs' = Inputs /\ Reachable' = Reachable
  BY SameSearch
<1>2. WellPosed'
  BY SameSearch DEF Typed
<1>3. reads' \in [Inputs' -> Nat] /\ hits' \subseteq Inputs' /\ history' \in Flags'
  BY <1>1, SameSearch, Zenon
<1>4. commits' \in Seq(Reachable')
  BY <1>1, Zenon
<1>5. QED
  BY <1>2, <1>3, <1>4, Zenon DEF Typed

\* The flags mean the same as long as nothing touches them.
LEMMA StillFlagged ==
    ASSUME Flagged, search' = search, history' = history, trouble' = trouble
    PROVE  Flagged'
BY DEF Flagged, Clear

-----------------------------------------------------------------------------
(***************************************************************************)
(* Looking one input after another up.                                     *)
(***************************************************************************)
LEMMA InLookup ==
    ASSUME IInv, pc \in {"lookup", "list", "walk"}
    PROVE  search.kind = "lookup" /\ Typed /\ Flagged /\ LookupsTellTheTruth /\ OfLookup
<1>1. search.kind = "lookup"
  BY SearchableIs DEF IInv, OfCoverage, OfCover
<1>2. QED
  BY <1>1 DEF IInv, SearchesTellTheTruth

LEMMA StillLookup ==
    ASSUME search' = search, search.kind = "lookup", Typed', Flagged', OfLookup',
           LookupsTellTheTruth'
    PROVE  IInv'
BY DEF IInv, SearchesTellTheTruth

\* What the next entry starts from.
LEMMA NextItemKeeps ==
    ASSUME Typed, OfLookup, item \in Inputs, search' = search, NEW found \in BOOLEAN, NEW why,
           NextItem(found, why), history' \in Flags, Flagged', LookupsTellTheTruth,
           trouble' \in Nat, trouble' <= trouble, trouble' <= Troubles,
           reads' \in [Inputs -> Nat], commits' \in Seq(Reachable), round' = round,
           history.exhausted => history'.exhausted, history.truncated => history'.truncated,
           found => \E c \in Reachable : HoldsInput(c, item),
           ~found => Verdict(why, item, history', trouble'),
           search.kind = "lookup"
    PROVE  IInv'
<1>1. Inputs' = Inputs /\ Reachable' = Reachable /\ WellPosed'
  BY SameSearch DEF Typed
<1>2. /\ hits' = IF found THEN hits \cup {item} ELSE hits
      /\ item' = item + 1 /\ place' = 0 /\ pc' = "lookup"
  BY DEF NextItem
<1>3. item \in Nat /\ hits \subseteq Inputs /\ round \in Nat
  BY DEF Typed
<1>4. Typed'
  <2>1. item' \in Nat \ {0} /\ place' \in Nat /\ hits' \subseteq Inputs
    BY <1>2, <1>3
  <2>2. QED
    BY <1>3, <2>1, StillTyped
<1>5. OfLookup'
  BY <1>2 DEF OfLookup
<1>6. \A i \in hits' : i \in hits \/ \E c \in Reachable : HoldsInput(c, i)
  BY <1>2
<1>7. \A i \in DOMAIN misses' : \/ i \in DOMAIN misses /\ misses'[i] = misses[i]
                                \/ Verdict(misses'[i], i, history', trouble')
  BY MissesIs
<1>8. LookupsTellTheTruth'
  BY <1>6, <1>7, LookupTruthKept
<1>9. QED
  BY <1>4, <1>5, <1>8, StillLookup

LEMMA EndLookupsKeeps ==
    ASSUME IInv, EndLookups
    PROVE  IInv'
<1>1. pc = "lookup" /\ pc' = "done"
      /\ UNCHANGED <<search, history, item, place, commits, hits, misses, round, trouble, reads>>
  BY DEF EndLookups
<1>2. search.kind = "lookup" /\ Typed /\ Flagged /\ LookupsTellTheTruth
  BY <1>1, InLookup
<1>3. Typed' /\ Flagged'
  BY <1>1, <1>2, StillTyped, StillFlagged DEF Typed
<1>4. LookupsTellTheTruth'
  BY <1>1, <1>2, LookupTruthKept DEF Typed
<1>5. OfLookup'
  BY <1>1 DEF OfLookup
<1>6. QED
  BY <1>1, <1>2, <1>3, <1>4, <1>5, StillLookup

LEMMA LookReferenceKeeps ==
    ASSUME IInv, LookReference
    PROVE  IInv'
<1>1. pc = "lookup" /\ item <= Len(search.entries) /\ UNCHANGED <<search, commits, round>>
  BY DEF LookReference
<1>2. search.kind = "lookup" /\ Typed /\ Flagged /\ LookupsTellTheTruth /\ OfLookup
  BY <1>1, InLookup
<1>3. item \in Inputs
  BY <1>1, <1>2, SearchableIs DEF Typed
<1>4. /\ Inputs' = Inputs /\ Reachable' = Reachable /\ WellPosed'
      /\ \A c, i : HoldsInput(c, i)' = HoldsInput(c, i)
  BY <1>1, <1>2, SameSearch DEF Typed
<1>5. CASE /\ search.base = None
           /\ pc' = "list" /\ place' = 0
           /\ UNCHANGED <<history, item, hits, misses, answer, trouble, reads>>
  <2>1. Typed' /\ Flagged'
    BY <1>1, <1>2, <1>5, StillTyped, StillFlagged DEF Typed
  <2>2. LookupsTellTheTruth'
    BY <1>1, <1>2, <1>5, LookupTruthKept DEF Typed
  <2>3. OfLookup'
    BY <1>1, <1>3, <1>4, <1>5 DEF OfLookup
  <2>4. QED
    BY <1>1, <1>2, <2>1, <2>2, <2>3, StillLookup
<1>6. ASSUME search.base # None, NEW event \in Events, NEW out,
             out = Outcome(search.base, Entry, event), Read(event), history' = out.history,
             \/ out.value = Entry.expected /\ NextItem(TRUE, None)
             \/ /\ out.value # Entry.expected /\ pc' = "list"
                /\ place' = IF out.value = None THEN 0 ELSE 1
                /\ UNCHANGED <<item, hits, misses, answer>>
      PROVE  IInv'
  <2>1. search.base \in Reachable
    BY <1>2, <1>6, SearchableIs
  <2>2. /\ Reads(out, search.base, item, event) /\ history' \in Flags /\ Flagged'
        /\ trouble' \in Nat /\ trouble' <= trouble /\ trouble' <= Troubles
        /\ reads' \in [Inputs -> Nat] /\ (Clear' => Clear)
    BY <1>1, <1>2, <1>3, <1>6, <2>1, AfterRead
  <2>3. /\ history.exhausted => history'.exhausted
        /\ history.truncated => history'.truncated
        /\ out.value = Entry.expected => HoldsInput(search.base, item)
        /\ (Clear' /\ out.value # Entry.expected) => ~HoldsInput(search.base, item)
    BY <1>6, <2>2 DEF Reads, Entry, Clear
  <2>4. CASE out.value = Entry.expected /\ NextItem(TRUE, None)
    <3>1. commits' \in Seq(Reachable) /\ round' = round
      BY <1>1, <1>2 DEF Typed
    <3>2. \E c \in Reachable : HoldsInput(c, item)
      BY <2>1, <2>3, <2>4
    <3>3. QED
      BY <1>1, <1>2, <1>3, <2>2, <2>3, <2>4, <3>1, <3>2, NextItemKeeps
  <2>5. CASE /\ out.value # Entry.expected /\ pc' = "list"
             /\ place' = IF out.value = None THEN 0 ELSE 1
             /\ UNCHANGED <<item, hits, misses, answer>>
    <3>1. Typed'
      <4>1. place' \in Nat
        BY <2>5
      <4>2. QED
        BY <1>1, <1>2, <2>2, <2>5, <4>1, StillTyped DEF Typed
    <3>2. LookupsTellTheTruth'
      BY <1>1, <1>2, <2>2, <2>3, <2>5, LookupTruthKept
    <3>3. OfLookup'
      BY <1>1, <1>3, <1>4, <2>3, <2>5 DEF OfLookup
    <3>4. QED
      BY <1>1, <1>2, <2>2, <3>1, <3>2, <3>3, StillLookup
  <2>6. QED
    BY <1>6, <2>4, <2>5
<1>7. QED
  BY <1>5, <1>6 DEF LookReference

LEMMA AfterList ==
    ASSUME Typed, Flagged, search' = search, NEW event \in ListEvents,
           history' = Listed(event), Happens(event)
    PROVE  /\ history' \in Flags /\ Flagged'
           /\ trouble' \in Nat /\ trouble' <= trouble /\ trouble' <= Troubles
           /\ history.exhausted => history'.exhausted
           /\ history.truncated => history'.truncated
           /\ Clear' => Clear
           /\ history'.candidates \in Seq(Reachable) /\ history'.candidates # None
<1>1. /\ history' \in Flags /\ history'.candidates \in Seq(Reachable)
      /\ history.exhausted => history'.exhausted
      /\ history.failed => history'.failed
      /\ history.truncated => history'.truncated
      /\ history'.failed => history.failed \/ event # "none"
      /\ (~history'.exhausted /\ ~history'.failed /\ ~history'.truncated) =>
            ToSet(search.recent) \subseteq ToSet(history'.candidates)
  BY ListedIs
<1>2. history'.candidates # None
  BY <1>1, SearchableIs
<1>3. trouble \in Nat /\ trouble <= Troubles /\ Troubles \in Nat
  BY LimitsAreNumbers DEF Typed
<1>4. event # "none" => trouble > 0
  BY DEF ListEvents, Events
<1>5. trouble' \in Nat /\ trouble' <= trouble /\ trouble' <= Troubles
      /\ (event # "none" => trouble' < Troubles)
  BY <1>3, <1>4 DEF Happens
<1>6. history.failed => trouble' < Troubles
  BY <1>3, <1>5 DEF Flagged
<1>7. Flagged'
  BY <1>1, <1>2, <1>5, <1>6 DEF Flagged, Clear
<1>8. QED
  BY <1>1, <1>2, <1>5, <1>7 DEF Clear

LEMMA ListCandidatesKeeps ==
    ASSUME IInv, ListCandidates
    PROVE  IInv'
<1>1. /\ pc = "list" /\ pc' = "walk" /\ commits' = <<>>
      /\ UNCHANGED <<search, item, place, hits, misses, round, answer, reads>>
  BY DEF ListCandidates
<1>2. search.kind = "lookup" /\ Typed /\ Flagged /\ LookupsTellTheTruth /\ OfLookup
  BY <1>1, InLookup
<1>3. PICK event \in ListEvents : history' = Listed(event) /\ Happens(event)
  BY DEF ListCandidates, ListEvents
<1>4. /\ history' \in Flags /\ Flagged'
      /\ trouble' \in Nat /\ trouble' <= trouble /\ trouble' <= Troubles
      /\ history.exhausted => history'.exhausted
      /\ history.truncated => history'.truncated
      /\ Clear' => Clear
      /\ history'.candidates # None
  BY <1>1, <1>2, <1>3, AfterList
<1>5. Typed'
  <2>1. commits' \in Seq(Reachable)
    BY <1>1
  <2>2. QED
    BY <1>1, <1>2, <1>4, <2>1, StillTyped DEF Typed
<1>6. LookupsTellTheTruth'
  BY <1>1, <1>2, <1>4, LookupTruthKept
<1>7. OfLookup'
  <2>1. Inputs' = Inputs /\ \A c, i : HoldsInput(c, i)' = HoldsInput(c, i)
    BY <1>1, SameSearch
  <2>2. ToSet(commits') = {}
    BY <1>1 DEF ToSet
  <2>3. QED
    BY <1>1, <1>2, <1>4, <2>1, <2>2 DEF OfLookup
<1>8. QED
  BY <1>1, <1>2, <1>4, <1>5, <1>6, <1>7, StillLookup

\* All that was listed was tried, and a clear search tried all there is.
LEMMA AllTried ==
    ASSUME Typed, Flagged, OfLookup, pc = "walk", Untried = {}, Clear, ~history.truncated
    PROVE  \A c \in Reachable : ~HoldsInput(c, item)
<1>1. history.candidates # None /\ history.candidates \in Seq(Reachable)
  BY DEF OfLookup, Typed, Flags
<1>2. ToSet(search.recent) \subseteq ToSet(history.candidates)
  BY <1>1 DEF Flagged
<1>3. \A c \in ToSet(history.candidates) : c = search.base \/ c \in ToSet(commits)
  BY Zenon DEF Untried, ToSet
<1>4. ASSUME NEW c \in Reachable PROVE ~HoldsInput(c, item)
  <2>1. c \in ToSet(history.candidates) \/ (c = search.base /\ search.base # None)
    BY <1>2 DEF Reachable
  <2>2. c # None
    BY SearchableIs
  <2>3. (c = search.base /\ search.base # None) \/ c \in ToSet(commits)
    BY <1>3, <2>1, <2>2
  <2>4. QED
    BY <2>3 DEF OfLookup
<1>5. QED
  BY <1>4

LEMMA WhyIsTrue ==
    ASSUME Typed, Flagged, OfLookup, pc = "walk", Untried = {}
    PROVE  Verdict(Why, item, history, trouble)
<1>1. CASE history.exhausted \/ history.truncated
  <2>1. Why = "history_limit_exceeded"
    BY <1>1, Zenon DEF Why
  <2>2. QED
    BY <1>1, <2>1 DEF Verdict
<1>2. CASE ~history.exhausted /\ ~history.truncated /\ history.failed
  <2>1. Why = "git_read_failed"
    BY <1>2, Zenon DEF Why
  <2>2. QED
    BY <1>2, <2>1 DEF Verdict, Flagged
<1>3. CASE ~history.exhausted /\ ~history.truncated /\ ~history.failed
  <2>1. Why = IF search.base = None THEN "no_base_commit"
              ELSE IF place = 1 THEN "reviewed_bytes_mismatch" ELSE "blob_unavailable"
    BY <1>3, Zenon DEF Why
  <2>2. \A c \in Reachable : ~HoldsInput(c, item)
    BY <1>3, AllTried DEF Clear
  <2>3. QED
    BY <2>1, <2>2 DEF Verdict
<1>4. QED
  BY <1>1, <1>2, <1>3

LEMMA LookCandidateKeeps ==
    ASSUME IInv, LookCandidate
    PROVE  IInv'
<1>1. pc = "walk" /\ UNCHANGED <<search, round>>
  BY DEF LookCandidate
<1>2. search.kind = "lookup" /\ Typed /\ Flagged /\ LookupsTellTheTruth /\ OfLookup
  BY <1>1, InLookup
<1>3. item \in Inputs /\ history.candidates \in Seq(Reachable)
  BY <1>1, <1>2 DEF OfLookup, Typed, Flags
<1>4. /\ Inputs' = Inputs /\ Reachable' = Reachable
      /\ \A c, i : HoldsInput(c, i)' = HoldsInput(c, i)
  BY <1>1, SameSearch
<1>5. CASE /\ Untried = {} /\ NextItem(FALSE, Why)
           /\ UNCHANGED <<history, commits, trouble, reads>>
  <2>1. Verdict(Why, item, history', trouble')
    BY <1>1, <1>2, <1>5, WhyIsTrue
  <2>2. /\ history' \in Flags /\ Flagged' /\ trouble' \in Nat /\ trouble' <= trouble
        /\ trouble' <= Troubles /\ reads' \in [Inputs -> Nat] /\ commits' \in Seq(Reachable)
    BY <1>1, <1>2, <1>5, StillFlagged DEF Typed
  <2>3. QED
    BY <1>1, <1>2, <1>3, <1>5, <2>1, <2>2, NextItemKeeps
<1>6. ASSUME NEW i \in Untried, NEW event \in Events, NEW commit, NEW out,
             commit = history.candidates[i], out = Outcome(commit, Entry, event),
             Read(event), history' = out.history, commits' = Append(commits, commit),
             \/ /\ out.value = Entry.expected
                /\ NextItem(TRUE, None)
             \/ /\ out.value # Entry.expected /\ out.history.exhausted
                /\ NextItem(FALSE, "history_limit_exceeded")
             \/ /\ out.value # Entry.expected /\ ~out.history.exhausted
                /\ UNCHANGED <<pc, item, place, hits, misses, answer>>
      PROVE  IInv'
  <2>1. commit \in Reachable
    BY <1>3, <1>6 DEF Untried
  <2>2. /\ Reads(out, commit, item, event) /\ history' \in Flags /\ Flagged'
        /\ trouble' \in Nat /\ trouble' <= trouble /\ trouble' <= Troubles
        /\ reads' \in [Inputs -> Nat] /\ (Clear' => Clear)
    BY <1>1, <1>2, <1>3, <1>6, <2>1, AfterRead
  <2>3. /\ history.exhausted => history'.exhausted
        /\ history.truncated => history'.truncated
        /\ history'.candidates = history.candidates
        /\ out.value = Entry.expected => HoldsInput(commit, item)
        /\ (Clear' /\ out.value # Entry.expected) => ~HoldsInput(commit, item)
    BY <1>6, <2>2 DEF Reads, Entry, Clear
  <2>4. commits \in Seq(Reachable) /\ commits' \in Seq(Reachable)
        /\ ToSet(commits') \subseteq ToSet(commits) \cup {commit}
    <3>1. commits \in Seq(Reachable)
      BY <1>2 DEF Typed
    <3>2. /\ commits' \in Seq(Reachable) /\ DOMAIN commits' = 1..(Len(commits) + 1)
          /\ DOMAIN commits = 1..Len(commits) /\ Len(commits) \in Nat
          /\ \A k \in 1..Len(commits) : commits'[k] = commits[k]
          /\ commits'[Len(commits) + 1] = commit
      BY <1>6, <2>1, <3>1
    <3>3. \A k \in DOMAIN commits' : (k \in DOMAIN commits /\ commits'[k] = commits[k])
                                     \/ commits'[k] = commit
      BY <3>2
    <3>4. QED
      BY <3>1, <3>2, <3>3, Zenon DEF ToSet
  <2>5. CASE out.value = Entry.expected /\ NextItem(TRUE, None)
    <3>1. \E c \in Reachable : HoldsInput(c, item)
      BY <2>1, <2>3, <2>5
    <3>2. QED
      BY <1>1, <1>2, <1>3, <2>2, <2>3, <2>4, <2>5, <3>1, NextItemKeeps
  <2>6. CASE out.history.exhausted /\ NextItem(FALSE, "history_limit_exceeded")
    <3>1. Verdict("history_limit_exceeded", item, history', trouble')
      BY <1>6, <2>6 DEF Verdict
    <3>2. QED
      BY <1>1, <1>2, <1>3, <2>2, <2>3, <2>4, <2>6, <3>1, NextItemKeeps
  <2>7. CASE /\ out.value # Entry.expected
             /\ UNCHANGED <<pc, item, place, hits, misses, answer>>
    <3>1. Typed'
      BY <1>1, <1>2, <2>2, <2>4, <2>7, StillTyped DEF Typed
    <3>2. LookupsTellTheTruth'
      BY <1>1, <1>2, <2>2, <2>3, <2>7, LookupTruthKept
    <3>3. OfLookup'
      <4>1. Clear' => \A c \in ToSet(commits') : ~HoldsInput(c, item)
        BY <1>1, <1>2, <2>2, <2>3, <2>4, <2>7 DEF OfLookup
      <4>2. QED
        BY <1>1, <1>2, <1>3, <1>4, <2>2, <2>3, <2>7, <4>1 DEF OfLookup
    <3>4. QED
      BY <1>1, <1>2, <2>2, <3>1, <3>2, <3>3, StillLookup
  <2>8. QED
    BY <1>6, <2>5, <2>6, <2>7
<1>7. QED
  BY <1>5, <1>6 DEF LookCandidate

-----------------------------------------------------------------------------
(***************************************************************************)
(* One commit that covers a manifest.                                      *)
(***************************************************************************)
LEMMA InCoverage ==
    ASSUME IInv, pc = "coverage"
    PROVE  search.kind = "coverage" /\ Typed /\ Flagged /\ OfCoverage
BY SearchableIs DEF IInv, OfLookup, OfCover

LEMMA StillCoverage ==
    ASSUME search' = search, search.kind = "coverage", Typed', Flagged', OfCoverage',
           answer' # None => CoverageTellsTheTruth'
    PROVE  IInv'
BY DEF IInv, SearchesTellTheTruth

\* A search that gives up has looked into every commit, or says that it has not.
LEMMA GivingUp ==
    ASSUME search' = search, Typed, Typed', Flagged', search.kind = "coverage", item \in Inputs,
           item' = item, pc' = "done", answer' = "uncovered",
           (Clear' /\ ~history'.truncated) =>
               \A c \in Reachable : ~HoldsAll(c)
    PROVE  IInv'
<1>1. Reachable' = Reachable /\ Inputs' = Inputs /\ \A c : HoldsAll(c)' = HoldsAll(c)
  BY SameSearch
<1>2. OfCoverage'
  BY <1>1 DEF OfCoverage
<1>3. CoverageTellsTheTruth'
  BY <1>1 DEF CoverageTellsTheTruth, Clear
<1>4. QED
  BY <1>2, <1>3, StillCoverage

\* The recorded commit and the listed ones are all there are.
LEMMA AllListed ==
    ASSUME Typed, Flagged, history.candidates # None, Clear, ~history.truncated,
           NEW tried, ToSet(Started) \cup ToSet(history.candidates) \subseteq tried
    PROVE  Reachable \subseteq tried
<1>1. ToSet(search.recent) \subseteq tried
  BY DEF Flagged
<1>2. search.base # None => search.base \in ToSet(Started)
  BY DEF Started, ToSet
<1>3. QED
  BY <1>1, <1>2 DEF Reachable

LEMMA NextCommitKeeps ==
    ASSUME IInv, NextCommit
    PROVE  IInv'
<1>1. pc = "coverage" /\ place > Len(commits)
      /\ UNCHANGED <<search, item, place, hits, misses, round, reads>>
  BY DEF NextCommit
<1>2. search.kind = "coverage" /\ Typed /\ Flagged /\ OfCoverage
  BY <1>1, InCoverage
<1>3. commits \in Seq(Reachable) /\ Len(commits) \in Nat /\ DOMAIN commits = 1..Len(commits)
  BY <1>2 DEF Typed
<1>4. /\ place = Len(commits) + 1 /\ hits = {} /\ item = 1 /\ answer = None /\ item \in Inputs
      /\ Clear => \A k \in 1..Len(commits) : ~HoldsAll(commits[k])
      /\ history.candidates = None => commits = Started
      /\ history.candidates # None =>
            ToSet(Started) \cup ToSet(history.candidates) \subseteq ToSet(commits)
  BY <1>1, <1>2, <1>3 DEF OfCoverage
<1>5. Clear => \A c \in ToSet(commits) : ~HoldsAll(c)
  BY <1>3, <1>4 DEF ToSet
<1>6. CASE place > 2 /\ pc' = "done" /\ answer' = "uncovered"
           /\ UNCHANGED <<history, commits, trouble>>
  <2>1. history.candidates # None
    <3>1. Len(Started) <= 1
      BY DEF Started
    <3>2. QED
      BY <1>3, <1>4, <1>6, <3>1
  <2>2. Typed' /\ Flagged'
    BY <1>1, <1>2, <1>6, StillTyped, StillFlagged DEF Typed
  <2>3. (Clear /\ ~history.truncated) => \A c \in Reachable : ~HoldsAll(c)
    BY <1>2, <1>4, <1>5, <2>1, AllListed
  <2>4. QED
    BY <1>1, <1>2, <1>4, <1>6, <2>2, <2>3, GivingUp DEF Clear
<1>7. ASSUME NEW event \in ListEvents, history' = Listed(event), Happens(event),
             commits' = Joined(commits, Listed(event).candidates),
             \/ /\ Len(commits') = Len(commits)
                /\ pc' = "done" /\ answer' = "uncovered"
             \/ Len(commits') # Len(commits) /\ UNCHANGED <<pc, answer>>
      PROVE  IInv'
  <2>1. /\ history' \in Flags /\ Flagged'
        /\ trouble' \in Nat /\ trouble' <= trouble /\ trouble' <= Troubles
        /\ Clear' => Clear
        /\ history'.candidates \in Seq(Reachable) /\ history'.candidates # None
    BY <1>1, <1>2, <1>7, AfterList
  <2>2. /\ commits' \in Seq(Reachable) /\ Len(commits') >= Len(commits)
        /\ \A i \in 1..Len(commits) : commits'[i] = commits[i]
        /\ ToSet(commits) \cup ToSet(history'.candidates) \subseteq ToSet(commits')
        /\ Len(commits') = Len(commits) =>
              ToSet(history'.candidates) \subseteq ToSet(commits)
    BY <1>3, <1>7, <2>1, JoinedIs
  <2>3. Typed'
    BY <1>1, <1>2, <2>1, <2>2, StillTyped DEF Typed
  <2>4. ToSet(Started) \subseteq ToSet(commits)
    BY <1>4
  <2>5. /\ Inputs' = Inputs /\ Reachable' = Reachable /\ Started' = Started
        /\ \A c : HoldsAll(c)' = HoldsAll(c)
        /\ \A c, i : HoldsInput(c, i)' = HoldsInput(c, i)
    BY <1>1, SameSearch
  <2>6. CASE Len(commits') = Len(commits) /\ pc' = "done" /\ answer' = "uncovered"
    <3>1. ASSUME Clear', ~history'.truncated PROVE \A c \in Reachable : ~HoldsAll(c)
      <4>1. ToSet(search.recent) \subseteq ToSet(history'.candidates)
        BY <1>1, <2>1, <3>1 DEF Flagged
      <4>2. search.base # None => search.base \in ToSet(Started)
        BY DEF Started, ToSet
      <4>3. Reachable \subseteq ToSet(commits)
        BY <2>2, <2>4, <2>6, <4>1, <4>2 DEF Reachable
      <4>4. QED
        BY <1>5, <2>1, <3>1, <4>3
    <3>2. QED
      BY <1>1, <1>2, <1>4, <2>1, <2>3, <2>6, <3>1, GivingUp
  <2>7. CASE Len(commits') # Len(commits) /\ UNCHANGED <<pc, answer>>
    <3>1. Len(commits') \in Nat /\ place <= Len(commits')
      BY <1>3, <1>4, <2>2, <2>7
    <3>2. Clear' => \A k \in 1..(place - 1) : ~HoldsAll(commits'[k])
      BY <1>3, <1>4, <2>1, <2>2
    <3>3. ToSet(Started) \cup ToSet(history'.candidates) \subseteq ToSet(commits')
      BY <2>2, <2>4
    <3>4. Clear' => \A k \in 1..(place' - 1) : ~HoldsAll(commits[k])'
      BY <1>1, <2>5, <3>2
    <3>5. OfCoverage'
      BY <1>1, <1>2, <1>3, <1>4, <2>1, <2>5, <2>7, <3>1, <3>3, <3>4 DEF OfCoverage
    <3>6. QED
      BY <1>1, <1>2, <1>4, <2>1, <2>3, <2>7, <3>5, StillCoverage
  <2>8. QED
    BY <1>7, <2>6, <2>7
<1>8. QED
  BY <1>6, <1>7 DEF NextCommit, ListEvents

LEMMA ReadCoveredKeeps ==
    ASSUME IInv, ReadCovered
    PROVE  IInv'
<1>1. pc = "coverage" /\ place <= Len(commits) /\ UNCHANGED <<search, commits, misses, round>>
  BY DEF ReadCovered
<1>2. search.kind = "coverage" /\ Typed /\ Flagged /\ OfCoverage
  BY <1>1, InCoverage
<1>3. commits \in Seq(Reachable) /\ Len(commits) \in Nat /\ place \in 1..Len(commits)
      /\ hits \subseteq Inputs /\ round \in Nat /\ answer = None /\ item \in Inputs
  BY <1>1, <1>2 DEF Typed, OfCoverage
<1> DEFINE commit == commits[place]
<1>4. commit \in Reachable
  BY <1>3
<1>5. /\ Inputs' = Inputs /\ Reachable' = Reachable /\ Started' = Started
      /\ \A c : HoldsAll(c)' = HoldsAll(c)
      /\ \A c, i : HoldsInput(c, i)' = HoldsInput(c, i)
  BY <1>1, SameSearch
<1>6. Inputs = 1..Len(search.entries) /\ Len(search.entries) \in Nat /\ 1 \in Inputs
      /\ "uncovered" \notin Reachable
  BY <1>2, SearchableIs
<1>7. PICK event \in Events :
          LET out  == Outcome(commit, Entry, event)
              now  == IF Matches(out.value) THEN hits \cup {item} ELSE hits
              last == \/ item = Len(search.entries)
                      \/ out.history.exhausted
                      \/ place > 1 /\ now = {}
          IN  /\ Read(event) /\ history' = out.history
              /\ \/ /\ ~last
                    /\ item' = item + 1 /\ hits' = now
                    /\ UNCHANGED <<pc, place, answer>>
                 \/ /\ last /\ now = Inputs
                    /\ pc' = "done" /\ answer' = commit /\ hits' = now
                    /\ UNCHANGED <<item, place>>
                 \/ /\ last /\ now # Inputs /\ out.history.exhausted
                    /\ pc' = "done" /\ answer' = "uncovered" /\ hits' = now
                    /\ UNCHANGED <<item, place>>
                 \/ /\ last /\ now # Inputs /\ ~out.history.exhausted
                    /\ item' = 1 /\ place' = place + 1 /\ hits' = {}
                    /\ UNCHANGED <<pc, answer>>
  BY DEF ReadCovered, Inputs
<1> DEFINE out  == Outcome(commit, Entry, event)
           now  == IF Matches(out.value) THEN hits \cup {item} ELSE hits
           last == \/ item = Len(search.entries)
                   \/ out.history.exhausted
                   \/ place > 1 /\ now = {}
<1>8. Read(event) /\ history' = out.history
  BY <1>7
<1> HIDE DEF commit, out
<1>9. /\ Reads(out, commit, item, event) /\ history' \in Flags /\ Flagged'
      /\ trouble' \in Nat /\ trouble' <= trouble /\ trouble' <= Troubles
      /\ reads' \in [Inputs -> Nat] /\ (Clear' => Clear)
  BY <1>1, <1>2, <1>3, <1>4, <1>8, AfterRead DEF out
<1>10. /\ history'.candidates = history.candidates
       /\ out.value = Entry.expected => HoldsInput(commit, item)
       /\ (Clear' /\ out.value # Entry.expected) => ~HoldsInput(commit, item)
  BY <1>8, <1>9 DEF Reads, Entry, Clear
<1>11. now \subseteq Inputs /\ \A i \in now : HoldsInput(commit, i)
  BY <1>1, <1>2, <1>3, <1>10 DEF OfCoverage, Matches, commit
<1>12. Clear' => \A i \in 1..item : i \in now \/ ~HoldsInput(commit, i)
  <2>1. Clear => \A i \in 1..(item - 1) : i \in hits \/ ~HoldsInput(commit, i)
    BY <1>1, <1>2 DEF OfCoverage, commit
  <2>2. \A i \in 1..item : i \in 1..(item - 1) \/ i = item
    BY <1>3, <1>6
  <2>3. Clear' => (item \in now \/ ~HoldsInput(commit, item))
    BY <1>10 DEF Matches
  <2>4. QED
    BY <1>9, <2>1, <2>2, <2>3
<1>13. Clear => \A k \in 1..(place - 1) : ~HoldsAll(commits[k])
  BY <1>1, <1>2 DEF OfCoverage
<1> HIDE DEF now
<1>14. /\ history'.candidates = None => commits' = Started
       /\ history'.candidates # None =>
             ToSet(Started) \cup ToSet(history'.candidates) \subseteq ToSet(commits')
  BY <1>1, <1>2, <1>10 DEF OfCoverage
<1>15. CASE ~last /\ item' = item + 1 /\ hits' = now /\ UNCHANGED <<pc, place, answer>>
  <2>1. item + 1 \in Inputs /\ item' \in Nat \ {0}
    BY <1>3, <1>6, <1>15
  <2>2. Typed'
    BY <1>1, <1>2, <1>9, <1>11, <1>15, <2>1, StillTyped DEF Typed
  <2>3. \A i \in hits' : HoldsInput(commits[place], i)
    BY <1>11, <1>15 DEF commit
  <2>4. Clear' => \A i \in 1..(item' - 1) : i \in hits' \/ ~HoldsInput(commits[place], i)
    BY <1>3, <1>6, <1>12, <1>15 DEF commit
  <2>5. /\ \A i \in hits' : HoldsInput(commits[place], i)'
        /\ Clear' => \A i \in 1..(item' - 1) : i \in hits' \/ ~HoldsInput(commits[place], i)'
        /\ Clear' => \A k \in 1..(place - 1) : ~HoldsAll(commits[k])'
    BY <1>1, <1>5, <1>9, <1>13, <1>15, <2>3, <2>4
  <2>6. OfCoverage'
    BY <1>1, <1>3, <1>5, <1>9, <1>14, <1>15, <2>1, <2>5 DEF OfCoverage
  <2>7. QED
    BY <1>1, <1>2, <1>3, <1>9, <1>15, <2>2, <2>6, StillCoverage
<1>16. CASE now = Inputs /\ pc' = "done" /\ answer' = commit /\ hits' = now
            /\ UNCHANGED <<item, place>>
  <2>1. Typed'
    BY <1>1, <1>2, <1>9, <1>11, <1>16, StillTyped DEF Typed
  <2>2. OfCoverage'
    BY <1>3, <1>5, <1>16 DEF OfCoverage
  <2>3. HoldsAll(commit)
    BY <1>11, <1>16, AllIs
  <2>4. CoverageTellsTheTruth'
    BY <1>4, <1>5, <1>6, <1>16, <2>3 DEF CoverageTellsTheTruth
  <2>5. QED
    BY <1>1, <1>2, <1>9, <2>1, <2>2, <2>4, StillCoverage
<1>17. CASE out.history.exhausted /\ pc' = "done" /\ answer' = "uncovered" /\ hits' = now
            /\ UNCHANGED <<item, place>>
  <2>1. Typed'
    BY <1>1, <1>2, <1>9, <1>11, <1>17, StillTyped DEF Typed
  <2>2. ~Clear'
    BY <1>8, <1>17 DEF Clear
  <2>3. QED
    BY <1>1, <1>2, <1>3, <1>9, <1>17, <2>1, <2>2, GivingUp
<1>18. CASE last /\ now # Inputs /\ ~out.history.exhausted
            /\ item' = 1 /\ place' = place + 1 /\ hits' = {} /\ UNCHANGED <<pc, answer>>
  <2>1. Clear' => ~HoldsAll(commit)
    <3>1. CASE item = Len(search.entries)
      BY <1>6, <1>11, <1>12, <1>18, <3>1, AllIs
    <3>2. CASE now = {}
      BY <1>3, <1>6, <1>12, <3>2, AllIs
    <3>3. QED
      BY <1>18, <3>1, <3>2
  <2>2. Typed'
    BY <1>1, <1>2, <1>3, <1>9, <1>18, StillTyped DEF Typed
  <2>3. Clear' => \A k \in 1..place : ~HoldsAll(commits[k])
    BY <1>3, <1>9, <1>13, <2>1 DEF commit
  <2>4. Clear' => \A k \in 1..(place' - 1) : ~HoldsAll(commits[k])'
    BY <1>1, <1>3, <1>5, <1>18, <2>3
  <2>5. OfCoverage'
    BY <1>1, <1>3, <1>5, <1>6, <1>14, <1>18, <2>4 DEF OfCoverage
  <2>6. QED
    BY <1>1, <1>2, <1>3, <1>9, <1>18, <2>2, <2>5, StillCoverage
<1>19. QED
  BY <1>7, <1>15, <1>16, <1>17, <1>18 DEF out, now

-----------------------------------------------------------------------------
(***************************************************************************)
(* Every input at one commit, in rounds.                                   *)
(***************************************************************************)
LEMMA InCover ==
    ASSUME IInv, pc = "cover"
    PROVE  search.kind = "cover" /\ Typed /\ Flagged /\ OfCover
BY SearchableIs DEF IInv, OfLookup, OfCoverage

LEMMA StillCover ==
    ASSUME search' = search, search.kind = "cover", Typed', Flagged', OfCover',
           CoverTellsTheTruth'
    PROVE  IInv'
BY DEF IInv, SearchesTellTheTruth

\* A check that goes on says nothing yet.
LEMMA StillCovering ==
    ASSUME search' = search, search.kind = "cover", Typed', Flagged', OfCover', answer' = None
    PROVE  IInv'
<1>1. DOMAIN reads' = Inputs'
  BY DEF Typed
<1>2. CoverTellsTheTruth'
  BY <1>1, NoneIsNoAnswer DEF CoverTellsTheTruth, OfCover
<1>3. QED
  BY <1>2, StillCover

LEMMA EndCoverKeeps ==
    ASSUME IInv, EndCover
    PROVE  IInv'
<1>1. /\ pc = "cover" /\ item > Len(search.entries) /\ pc' = "done"
      /\ answer' = IF hits = Inputs THEN "complete" ELSE "incomplete"
      /\ UNCHANGED <<search, history, item, place, commits, hits, misses, round, trouble, reads>>
  BY DEF EndCover, Inputs
<1>2. search.kind = "cover" /\ Typed /\ Flagged /\ OfCover
  BY <1>1, InCover
<1>3. /\ Inputs' = Inputs /\ \A c : HoldsAll(c)' = HoldsAll(c)
      /\ \A c, i : HoldsInput(c, i)' = HoldsInput(c, i)
  BY <1>1, SameSearch
<1>4. Typed' /\ Flagged'
  BY <1>1, <1>2, StillTyped, StillFlagged DEF Typed
<1>5. item = Len(search.entries) + 1 /\ Inputs = 1..Len(search.entries)
      /\ Len(search.entries) \in Nat
  BY <1>1, <1>2, SearchableIs DEF OfCover
<1>6. hits = Inputs => HoldsAll(search.base)
  BY <1>2, AllIs DEF OfCover
<1>7. (hits # Inputs /\ ~history.failed) => ~HoldsAll(search.base)
  <2>1. ~history.failed => \A i \in Inputs : i \in hits \/ ~HoldsInput(search.base, i)
    BY <1>1, <1>2, <1>5 DEF OfCover
  <2>2. hits \subseteq Inputs
    BY <1>2 DEF Typed
  <2>3. QED
    BY <2>1, <2>2, AllIs
<1>8. OfCover'
  BY <1>1, <1>2, <1>3 DEF OfCover
<1>9. DOMAIN reads = Inputs /\ \A i \in Inputs : reads[i] <= 2
  BY <1>2 DEF Typed, OfCover
<1>10. HoldsAll(search.base)' = HoldsAll(search.base)
  BY <1>1, <1>3
<1>11. CoverTellsTheTruth'
  BY <1>1, <1>6, <1>7, <1>9, <1>10 DEF CoverTellsTheTruth
<1>12. QED
  BY <1>1, <1>2, <1>4, <1>8, <1>11, StillCover

LEMMA ReadCoverKeeps ==
    ASSUME IInv, ReadCover
    PROVE  IInv'
<1>1. pc = "cover" /\ item <= Len(search.entries) /\ UNCHANGED <<search, place, commits>>
  BY DEF ReadCover
<1>2. search.kind = "cover" /\ Typed /\ Flagged /\ OfCover
  BY <1>1, InCover
<1>3. /\ Inputs = 1..Len(search.entries) /\ Len(search.entries) \in Nat /\ item \in Inputs
      /\ hits \subseteq Inputs /\ round \in Nat /\ item \in Nat /\ search.base \in Reachable
      /\ place \in Nat /\ commits \in Seq(Reachable) /\ history \in Flags
      /\ reads \in [Inputs -> Nat]
  BY <1>1, <1>2, SearchableIs DEF Typed
<1>4. /\ answer = None /\ ~history.exhausted
      /\ round = 0 => history.reads = 0 /\ history.remaining = ByteLimit
      /\ \A i \in Inputs : i > item => reads[i] = 0
      /\ reads[item] <= 1 /\ (reads[item] = 1 => round = 0)
      /\ ~history.failed => \A i \in 1..(item - 1) : i \in hits \/ ~HoldsInput(search.base, i)
      /\ \A i \in hits : HoldsInput(search.base, i)
      /\ \A i \in Inputs : reads[i] <= 2
  BY <1>1, <1>2, <1>3 DEF OfCover
<1>5. /\ Inputs' = Inputs /\ Reachable' = Reachable
      /\ \A c, i : HoldsInput(c, i)' = HoldsInput(c, i)
  BY <1>1, SameSearch
<1>6. ReadLimit \in Nat /\ ByteLimit \in Nat /\ Troubles \in Nat
  BY LimitsAreNumbers
<1>7. ASSUME NEW event \in Events, NEW out, out = Outcome(search.base, Entry, event),
             Read(event), history' = out.history, ~out.history.exhausted,
             round' = round + 1, item' = item + 1,
             hits' = IF Matches(out.value) THEN hits \cup {item} ELSE hits,
             UNCHANGED <<pc, answer>>
      PROVE  IInv'
  <2>1. /\ Reads(out, search.base, item, event) /\ history' \in Flags /\ Flagged'
        /\ trouble' \in Nat /\ trouble' <= Troubles
        /\ reads' \in [Inputs -> Nat] /\ reads'[item] = reads[item] + 1
        /\ \A i \in Inputs : i # item => reads'[i] = reads[i]
    BY <1>1, <1>2, <1>3, <1>7, AfterRead
  <2>2. /\ history.failed => history'.failed
        /\ out.value = Entry.expected => HoldsInput(search.base, item)
        /\ (~history'.failed /\ out.value # Entry.expected) => ~HoldsInput(search.base, item)
    BY <1>7, <2>1 DEF Reads, Entry
  <2>3. Typed'
    <3>1. hits' \subseteq Inputs /\ item' \in Nat \ {0} /\ round' \in Nat
      BY <1>3, <1>7
    <3>2. QED
      BY <1>1, <1>2, <1>3, <2>1, <3>1, StillTyped
  <2>4. \A i \in hits' : HoldsInput(search.base, i)
    BY <1>4, <1>7, <2>2 DEF Matches
  <2>5. ~history'.failed =>
            \A i \in 1..(item' - 1) : i \in hits' \/ ~HoldsInput(search.base, i)
    <3>1. \A i \in 1..(item' - 1) : i \in 1..(item - 1) \/ i = item
      BY <1>3, <1>7
    <3>2. QED
      BY <1>4, <1>7, <2>2, <3>1 DEF Matches
  <2>6. /\ \A i \in Inputs : reads'[i] <= 2
        /\ \A i \in Inputs : i > item' => reads'[i] = 0
        /\ item' \in Inputs => reads'[item'] = 0
        /\ item' \in 1..(Len(search.entries) + 1) /\ round' # 0
    <3>1. \A i \in Inputs : reads'[i] <= 2
      <4>1. reads[item] + 1 <= 2
        BY <1>3, <1>4
      <4>2. QED
        BY <1>4, <2>1, <4>1
    <3>2. \A i \in Inputs : i > item => reads'[i] = 0
      BY <1>3, <1>4, <2>1
    <3>3. \A i \in Inputs : i >= item' => i > item
      BY <1>3, <1>7
    <3>4. item' \in 1..(Len(search.entries) + 1) /\ round' # 0
      BY <1>3, <1>7
    <3>5. item' >= item'
      BY <3>4
    <3>6. \A i \in Inputs : i > item' => i >= item'
      BY <1>3, <3>4
    <3>7. QED
      BY <3>1, <3>2, <3>3, <3>4, <3>5, <3>6
  <2>7. /\ \A i \in hits' : HoldsInput(search.base, i)'
        /\ ~history'.failed =>
              \A i \in 1..(item' - 1) : i \in hits' \/ ~HoldsInput(search.base, i)'
    BY <1>1, <1>5, <2>4, <2>5
  <2>8. OfCover'
    BY <1>1, <1>4, <1>5, <1>7, <2>6, <2>7 DEF OfCover
  <2>9. QED
    BY <1>1, <1>2, <1>4, <1>7, <2>1, <2>3, <2>8, StillCovering
<1>8. ASSUME NEW event \in Events, NEW out, out = Outcome(search.base, Entry, event),
             Read(event), out.history.exhausted, NextRound(out.history)
      PROVE  IInv'
  <2>1. /\ round' = 0 /\ UNCHANGED <<item, hits, misses>>
        /\ \/ round = 0 /\ pc' = "done" /\ answer' = "exhausted" /\ history' = out.history
           \/ /\ round > 0 /\ UNCHANGED <<pc, answer>>
              /\ history' = [NewHistory EXCEPT !.failed = out.history.failed]
    BY <1>8 DEF NextRound
  <2>2. /\ Reads(out, search.base, item, event)
        /\ trouble' \in Nat /\ trouble' <= Troubles /\ (event # "none" => trouble' < Troubles)
        /\ reads' \in [Inputs -> Nat] /\ reads'[item] = reads[item] + 1
        /\ \A i \in Inputs : i # item => reads'[i] = reads[i]
    <3>1. trouble \in Nat /\ trouble <= Troubles /\ (event # "none" => trouble > 0)
      BY <1>2, <1>8 DEF Typed, Events
    <3>2. /\ trouble' = IF event = "none" THEN trouble ELSE trouble - 1
          /\ reads' = [reads EXCEPT ![item] = @ + 1]
      BY <1>8 DEF Read, Happens
    <3>3. Reads(out, search.base, item, event)
      BY <1>2, <1>3, <1>8, OutcomeIs DEF Entry
    <3>4. QED
      BY <1>3, <1>6, <3>1, <3>2, <3>3
  <2>3. \A i \in Inputs : reads'[i] <= 2 /\ (i > item => reads'[i] = 0)
    BY <1>3, <1>4, <2>2
  <2>4. \A i \in hits' : HoldsInput(search.base, i)'
    BY <1>1, <1>4, <1>5, <2>1
  <2>5. /\ history.failed => out.history.failed
        /\ out.history.failed => trouble' < Troubles
    <3>1. history.failed => trouble' < Troubles
      BY <1>2, <1>6, <1>8, <2>2 DEF Flagged, Typed, Read, Happens
    <3>2. QED
      BY <2>2, <3>1 DEF Reads
  <2>6. CASE round = 0 /\ pc' = "done" /\ answer' = "exhausted" /\ history' = out.history
    <3>1. history' \in Flags /\ Flagged'
      BY <1>1, <1>2, <1>3, <1>8, <2>6, AfterRead
    <3>2. Typed'
      BY <1>1, <1>2, <1>3, <2>1, <2>2, <3>1, StillTyped DEF Typed
    <3>3. OfCover'
      BY <1>5, <2>1, <2>3, <2>4, <2>6 DEF OfCover
    <3>4. ASSUME trouble' = Troubles
          PROVE  LET content == search.trees[search.base][Entry.path]
                 IN  ReadLimit = 0 \/ (content # None /\ content.size > ByteLimit)
      <4>1. event = "none"
        BY <1>6, <2>2, <3>4
      <4>2. \/ history.reads >= ReadLimit
            \/ /\ search.trees[search.base][Entry.path] # None
               /\ search.trees[search.base][Entry.path].size > history.remaining
        BY <1>4, <1>8, <2>2, <4>1 DEF Reads, Entry
      <4>3. QED
        BY <1>4, <1>6, <2>6, <4>2
    <3>5. Entry' = Entry
      BY <1>1, <2>1 DEF Entry
    <3>6. DOMAIN reads' = Inputs
      BY <2>2
    <3>7. CoverTellsTheTruth'
      BY <1>1, <2>3, <2>6, <3>4, <3>5, <3>6 DEF CoverTellsTheTruth
    <3>8. QED
      BY <1>1, <1>2, <3>1, <3>2, <3>3, <3>7, StillCover
  <2>7. CASE /\ round > 0 /\ UNCHANGED <<pc, answer>>
             /\ history' = [NewHistory EXCEPT !.failed = out.history.failed]
    <3>1. out.history.failed \in BOOLEAN
      BY <2>2 DEF Reads, Flags
    <3>2. /\ history' \in Flags /\ history'.failed = out.history.failed /\ ~history'.exhausted
          /\ history'.reads = 0 /\ history'.remaining = ByteLimit
          /\ history'.candidates = None /\ ~history'.truncated
      BY <1>6, <2>7, <3>1 DEF NewHistory, Flags
    <3>3. Flagged'
      BY <2>5, <3>2 DEF Flagged
    <3>4. Typed'
      BY <1>1, <1>2, <1>3, <2>1, <2>2, <3>2, StillTyped DEF Typed
    <3>5. reads'[item] = 1 /\ item \in 1..(Len(search.entries) + 1)
      <4>1. reads[item] \in Nat /\ reads[item] # 1
        BY <1>3, <1>4, <2>7
      <4>2. QED
        BY <1>3, <1>4, <2>2, <4>1
    <3>6. ~history'.failed =>
              \A i \in 1..(item' - 1) : i \in hits' \/ ~HoldsInput(search.base, i)'
      BY <1>1, <1>4, <1>5, <2>1, <2>5, <3>2
    <3>7. OfCover'
      BY <1>1, <1>4, <1>5, <2>1, <2>3, <2>4, <2>7, <3>2, <3>5, <3>6 DEF OfCover
    <3>8. QED
      BY <1>1, <1>2, <1>4, <2>7, <3>3, <3>4, <3>7, StillCovering
  <2>8. QED
    BY <2>1, <2>6, <2>7
<1>9. QED
  BY <1>7, <1>8 DEF ReadCover

-----------------------------------------------------------------------------
LEMMA SearchStarts ==
    ASSUME NEW wanted, Searchable(wanted), InitSearch(wanted)
    PROVE  IInv
<1>1. /\ search = wanted /\ history = NewHistory
      /\ pc = search.kind /\ item = 1 /\ round = 0
      /\ place = IF search.kind = "coverage" THEN 1 ELSE 0
      /\ commits = IF search.kind = "coverage" THEN Started ELSE <<>>
      /\ hits = {} /\ misses = <<>> /\ answer = None /\ trouble = Troubles
      /\ reads = [i \in Inputs |-> 0]
  BY DEF InitSearch, Started, Inputs
<1>2. Typed
  <2>1. WellPosed /\ Troubles \in Nat /\ ByteLimit \in Nat
    BY <1>1, LimitsAreNumbers DEF WellPosed
  <2>2. history \in Flags
    BY <1>1, <2>1 DEF NewHistory, Flags
  <2>3. commits \in Seq(Reachable)
    <3>1. search.base # None => search.base \in Reachable
      BY DEF Reachable
    <3>2. Started \in Seq(Reachable)
      BY <3>1 DEF Started
    <3>3. QED
      BY <1>1, <3>2
  <2>4. reads \in [Inputs -> Nat] /\ hits \subseteq Inputs /\ place \in Nat
    BY <1>1
  <2>5. QED
    BY <1>1, <2>1, <2>2, <2>3, <2>4 DEF Typed
<1>3. Flagged /\ Clear /\ history.candidates = None /\ history.reads = 0
      /\ history.remaining = ByteLimit
  BY <1>1 DEF Flagged, Clear, NewHistory
<1>4. /\ Inputs = 1..Len(search.entries) /\ Len(search.entries) \in Nat
      /\ search.kind \in {"lookup", "coverage", "cover"}
      /\ search.kind # "lookup" => 1 \in Inputs
  BY <1>2, SearchableIs
<1>5. search.kind = "lookup" => OfLookup /\ SearchesTellTheTruth
  <2>1. DOMAIN misses = {}
    BY <1>1
  <2>2. LookupsTellTheTruth
    BY <1>1, <2>1 DEF LookupsTellTheTruth
  <2>3. QED
    BY <1>1, <2>2 DEF OfLookup, SearchesTellTheTruth
<1>6. search.kind = "coverage" => OfCoverage /\ SearchesTellTheTruth
  <2>1. Len(Started) \in {0, 1}
    BY DEF Started
  <2>2. SUFFICES ASSUME search.kind = "coverage" PROVE OfCoverage /\ SearchesTellTheTruth
    OBVIOUS
  <2>3. OfCoverage
    BY <1>1, <1>3, <1>4, <2>1, <2>2 DEF OfCoverage
  <2>4. QED
    BY <1>1, <2>2, <2>3 DEF SearchesTellTheTruth
<1>7. search.kind = "cover" => OfCover /\ SearchesTellTheTruth
  <2>1. SUFFICES ASSUME search.kind = "cover" PROVE OfCover /\ SearchesTellTheTruth
    OBVIOUS
  <2>2. \A i \in Inputs : reads[i] = 0
    BY <1>1
  <2>3. item \in 1..(Len(search.entries) + 1) /\ (\A i \in 1..(item - 1) : FALSE)
        /\ ~history.exhausted /\ answer = None /\ hits = {} /\ pc = "cover"
    BY <1>1, <1>3, <1>4, <2>1 DEF Clear
  <2>4. OfCover
    BY <1>1, <1>3, <2>2, <2>3 DEF OfCover
  <2>5. CoverTellsTheTruth
    BY <1>1, <2>2, NoneIsNoAnswer DEF CoverTellsTheTruth
  <2>6. QED
    BY <2>1, <2>4, <2>5 DEF SearchesTellTheTruth
<1>8. QED
  BY <1>2, <1>3, <1>4, <1>5, <1>6, <1>7 DEF IInv

LEMMA SearchRests ==
    ASSUME IInv, UNCHANGED searchVars
    PROVE  IInv'
<1>1. UNCHANGED <<search, history, pc, item, place, commits, hits, misses, round, answer,
                  trouble, reads>>
  BY DEF searchVars
<1>2. Typed' /\ Flagged'
  BY <1>1, StillTyped, StillFlagged DEF IInv, Typed
<1>3. /\ Inputs' = Inputs /\ Reachable' = Reachable /\ Started' = Started
      /\ \A c : HoldsAll(c)' = HoldsAll(c)
      /\ \A c, i : HoldsInput(c, i)' = HoldsInput(c, i)
  BY <1>1, SameSearch
<1>4. OfLookup' = OfLookup /\ OfCoverage' = OfCoverage /\ OfCover' = OfCover
  BY <1>1 DEF OfLookup, OfCoverage, OfCover, Inputs, HoldsInput, Holds, HoldsAll, Clear, Started
<1>5. SearchesTellTheTruth' = SearchesTellTheTruth
  BY <1>1 DEF SearchesTellTheTruth, LookupsTellTheTruth, CoverageTellsTheTruth,
              CoverTellsTheTruth, Holds, HoldsAll, Reachable, Entry
<1>6. QED
  BY <1>1, <1>2, <1>4, <1>5 DEF IInv

\* A search tells the truth, whatever budget runs out and whatever read fails on
\* the way: what it found is in Git, what it misses without naming a limit or a
\* failure is in no commit it may look into, and a check of one commit calls it
\* complete or incomplete rightly and reads no input more than twice (lookup,
\* coverage, cover_at).
THEOREM TruthTold == Spec => []SearchesTellTheTruth
<1>1. ASSUME NEW wanted, Searchable(wanted), InitSearch(wanted) PROVE IInv
  BY <1>1, SearchStarts
<1>2. ASSUME IInv, [Searching]_searchVars PROVE IInv'
  BY <1>2, EndLookupsKeeps, LookReferenceKeeps, ListCandidatesKeeps, LookCandidateKeeps,
     NextCommitKeeps, ReadCoveredKeeps, ReadCoverKeeps, EndCoverKeeps, SearchRests
     DEF Searching, Lookup, Coverage, CoverAt
<1>3. (\E wanted : Searchable(wanted) /\ InitSearch(wanted)) => IInv
  BY <1>1
<1>4. IInv => SearchesTellTheTruth
  BY DEF IInv
<1>5. QED
  BY <1>2, <1>3, <1>4, PTL DEF Spec

-----------------------------------------------------------------------------
(***************************************************************************)
(* The advice.  A review looks every body up that its comparison needs,    *)
(* and advises when all lookups are over.                                  *)
(***************************************************************************)
AdviceSpec ==
    /\ \E wanted : Reviewable(wanted) /\ InitAdvice(wanted)
    /\ [][Evidence]_<<searchVars, adviceVars>>

\* A lookup leaves no entry behind: each one is found or missed.
LookedUp ==
    /\ search.kind = "lookup" /\ item \in Nat \ {0}
    /\ Len(search.entries) \in Nat /\ Inputs = 1 .. Len(search.entries)
    /\ pc \in {"lookup", "list", "walk", "done"}
    /\ pc \in {"list", "walk"} => item \in Inputs
    /\ \A i \in Inputs : i < item => i \in hits \cup DOMAIN misses
    /\ pc = "done" => item > Len(search.entries)

\* What is compared with what.
Compared ==
    /\ IsProject(review.then) /\ IsProject(review.now)
    /\ review.release \in {"never", "0.6", "0.7", "current"}
    /\ HandedOff(review.then) # None
    /\ review.release = "never" => review.record = None
    /\ review.release # "never" =>
          \E revision, cleared :
              review.record = Recorded(review.release, revision, cleared, review.then)
    /\ review.record # None => search.entries = Needed(review.record, review.now)

Advised == advice # None => pc = "done" /\ advice = Advice(review.record, review.now)

AInv == LookedUp /\ Compared /\ Advised

LEMMA NextItemLooks ==
    ASSUME LookedUp, item \in Inputs, search' = search, NEW found \in BOOLEAN, NEW why,
           NextItem(found, why)
    PROVE  LookedUp'
<1>1. Inputs' = Inputs
  BY DEF Inputs
<1>2. /\ item \in Nat /\ Inputs = 1 .. Len(search.entries) /\ Len(search.entries) \in Nat
      /\ item' = item + 1 /\ pc' = "lookup" /\ search.kind = "lookup"
  BY DEF LookedUp, NextItem
<1>3. /\ hits \subseteq hits' /\ DOMAIN misses \subseteq DOMAIN misses'
      /\ item \in hits' \cup DOMAIN misses'
  BY DEF NextItem, Missed
<1>4. ASSUME NEW i \in Inputs, i < item'
      PROVE  i \in hits' \cup DOMAIN misses'
  <2>1. i = item \/ i < item
    BY <1>2, <1>4
  <2> QED BY <1>3, <2>1 DEF LookedUp
<1> QED BY <1>1, <1>2, <1>4 DEF LookedUp

LEMMA LookingOn ==
    ASSUME LookedUp, Searching
    PROVE  LookedUp' /\ search' = search /\ pc # "done"
<1>1. /\ Inputs = 1 .. Len(search.entries) /\ Len(search.entries) \in Nat
      /\ item \in Nat \ {0} /\ pc \in {"lookup", "list", "walk", "done"}
      /\ pc \in {"list", "walk"} => item \in Inputs
  BY DEF LookedUp
<1>2. CASE EndLookups
  <2>1. search' = search /\ Inputs' = Inputs
    BY <1>2 DEF EndLookups, Inputs
  <2> QED BY <1>2, <2>1 DEF EndLookups, LookedUp
<1>3. CASE LookReference
  <2>1. /\ pc = "lookup" /\ item \in Inputs /\ search' = search /\ Inputs' = Inputs
        /\ \/ pc' = "list" /\ UNCHANGED <<item, hits, misses>>
           \/ NextItem(TRUE, None)
    <3>1. pc = "lookup" /\ item <= Len(search.entries) /\ search' = search
      BY <1>3 DEF LookReference
    <3>2. item \in Inputs /\ Inputs' = Inputs
      BY <1>1, <3>1 DEF Inputs
    <3>3. \/ pc' = "list" /\ UNCHANGED <<item, hits, misses>>
          \/ NextItem(TRUE, None)
      BY <1>3, Zenon DEF LookReference
    <3> QED BY <3>1, <3>2, <3>3
  <2>2. CASE pc' = "list" /\ UNCHANGED <<item, hits, misses>>
    BY <2>1, <2>2 DEF LookedUp
  <2>3. CASE NextItem(TRUE, None)
    BY <2>1, <2>3, NextItemLooks
  <2> QED BY <2>1, <2>2, <2>3
<1>4. CASE ListCandidates
  <2>1. /\ pc = "list" /\ pc' = "walk" /\ UNCHANGED <<search, item, hits, misses>>
        /\ Inputs' = Inputs
    BY <1>4 DEF ListCandidates, Inputs
  <2> QED BY <2>1 DEF LookedUp
<1>5. CASE LookCandidate
  <2>1. /\ pc = "walk" /\ search' = search /\ Inputs' = Inputs
        /\ \/ UNCHANGED <<pc, item, hits, misses>>
           \/ NextItem(TRUE, None)
           \/ NextItem(FALSE, "history_limit_exceeded")
           \/ NextItem(FALSE, Why)
    BY <1>5 DEF LookCandidate, Inputs
  <2>2. CASE UNCHANGED <<pc, item, hits, misses>>
    BY <2>1, <2>2 DEF LookedUp
  <2>3. CASE NextItem(TRUE, None) \/ NextItem(FALSE, "history_limit_exceeded") \/ NextItem(FALSE, Why)
    BY <1>1, <2>1, <2>3, NextItemLooks
  <2> QED BY <2>1, <2>2, <2>3
<1> QED
  BY <1>1, <1>2, <1>3, <1>4, <1>5
     DEF Searching, Lookup, Coverage, CoverAt, NextCommit, ReadCovered, ReadCover, EndCover

-----------------------------------------------------------------------------
(***************************************************************************)
(* The sequences of the advice.                                            *)
(***************************************************************************)
\* What is picked out of a sequence is all of it that is in the set.
LEMMA PickedIs ==
    ASSUME NEW E, NEW seq \in Seq(E), NEW S
    PROVE  Picked(seq, S) \in Seq(E) /\ ToSet(Picked(seq, S)) = ToSet(seq) \cap S
<1> DEFINE N == Len(seq)
           B(n, s) == IF seq[n] \in S THEN Append(s, seq[n]) ELSE s
           Is(f) == f = [n \in 0 .. N |-> IF n = 0 THEN <<>> ELSE B(n, f[n - 1])]
           picked == CHOOSE f : Is(f)
<1>1. N \in Nat /\ \A n \in 1 .. N : seq[n] \in E
  OBVIOUS
<1>2. Picked(seq, S) = picked[N]
  BY DEF Picked
<1>3. Is(picked)
  <2> DEFINE Good == Seq(E)
             next == [q \in (1 .. N) \X Good |-> B(q[1], q[2])]
  <2>1. \A n \in 1 .. N : \A s \in Good : B(n, s) \in Good
    BY <1>1
  <2>2. <<>> \in Good /\ N \in Nat
    BY <1>1
  <2> HIDE DEF B, N, Good
  <2>3. IsRound(next, N, Good)
    BY <2>1 DEF IsRound
  <2>4. \A n \in 1 .. N : \A s \in Good : next[<<n, s>>] = B(n, s)
    OBVIOUS
  <2> HIDE DEF next
  <2>5. PICK f : Values(f, N, Good, <<>>, next)
    BY <2>2, <2>3, Loop
  <2>6. \A n \in 1 .. N : f[n - 1] \in Good
    BY <2>2, <2>5 DEF Values
  <2>7. \A n \in 1 .. N : f[n] = B(n, f[n - 1])
    BY <2>4, <2>5, <2>6 DEF Values
  <2>8. Is(f)
    BY <2>2, <2>5, <2>7 DEF Values
  <2> HIDE DEF Is
  <2> QED BY <2>8
<1> HIDE DEF picked
<1>4. picked[0] = <<>> /\ \A n \in 1 .. N : picked[n] = B(n, picked[n - 1])
  <2> HIDE DEF B
  <2> QED BY <1>1, <1>3
<1> DEFINE Before(n) == {seq[i] : i \in 1 .. n}
           T == {n \in 0 .. N : picked[n] \in Seq(E) /\ ToSet(picked[n]) = Before(n) \cap S}
<1>5. 0 \in T
  <2>1. Before(0) = {} /\ <<>> \in Seq(E) /\ 0 \in 0 .. N
    BY <1>1
  <2> HIDE DEF Before, N
  <2>2. picked[0] \in Seq(E) /\ ToSet(picked[0]) = Before(0) \cap S
    BY <1>4, <2>1, NothingIn
  <2> QED BY <2>1, <2>2
<1>6. ASSUME NEW n \in 0 .. N - 1, n \in T
      PROVE  n + 1 \in T
  <2>1. n + 1 \in 1 .. N /\ n + 1 \in 0 .. N /\ (n + 1) - 1 = n /\ seq[n + 1] \in E
    BY <1>1
  <2>2. Before(n + 1) = Before(n) \cup {seq[n + 1]}
    <3>1. 1 .. n + 1 = (1 .. n) \cup {n + 1}
      BY <1>1
    <3> QED BY <3>1
  <2>3. picked[n] \in Seq(E) /\ ToSet(picked[n]) = Before(n) \cap S
    BY <1>6
  <2>4. picked[n + 1] = B(n + 1, picked[n])
    <3> HIDE DEF B
    <3> QED BY <1>4, <2>1
  <2> HIDE DEF Before, T, N
  <2>5. CASE seq[n + 1] \in S
    <3>1. picked[n + 1] = Append(picked[n], seq[n + 1])
      BY <2>4, <2>5
    <3>2. /\ Append(picked[n], seq[n + 1]) \in Seq(E)
          /\ ToSet(Append(picked[n], seq[n + 1])) = ToSet(picked[n]) \cup {seq[n + 1]}
      BY <2>1, <2>3, Appending
    <3>3. ToSet(picked[n + 1]) = Before(n + 1) \cap S
      BY <2>2, <2>3, <2>5, <3>1, <3>2
    <3>4. picked[n + 1] \in Seq(E)
      BY <3>1, <3>2
    <3> QED BY <2>1, <3>3, <3>4 DEF T
  <2>6. CASE seq[n + 1] \notin S
    <3>1. picked[n + 1] = picked[n]
      BY <2>4, <2>6
    <3>2. ToSet(picked[n + 1]) = Before(n + 1) \cap S
      BY <2>2, <2>3, <2>6, <3>1
    <3>3. picked[n + 1] \in Seq(E)
      BY <2>3, <3>1
    <3> QED BY <2>1, <3>2, <3>3 DEF T
  <2> QED BY <2>5, <2>6
<1>7. N \in T
  <2> HIDE DEF T
  <2> QED BY <1>1, <1>5, <1>6, CountingTo
<1>8. Before(N) = ToSet(seq)
  BY DEF ToSet
<1> QED BY <1>2, <1>7, <1>8

\* A sequence is one of its own elements, and of any set that holds them.
LEMMA Elementwise ==
    ASSUME NEW N \in Nat, NEW s, DOMAIN s = 1 .. N, s = [i \in 1 .. N |-> s[i]],
           NEW T, \A i \in 1 .. N : s[i] \in T
    PROVE  s \in Seq(T) /\ Len(s) = N
<1>1. s \in [1 .. N -> T]
  OBVIOUS
<1> QED BY <1>1

-----------------------------------------------------------------------------
(***************************************************************************)
(* Manifests, and what their comparison tells.                             *)
(***************************************************************************)
LEMMA SequenceIs ==
    ASSUME NEW S, NEW q \in Seq(S)
    PROVE  /\ Len(q) \in Nat /\ DOMAIN q = 1 .. Len(q)
           /\ \A i \in 1 .. Len(q) : q[i] \in S
           /\ ToSet(q) \subseteq S
BY DEF ToSet

LEMMA SourcesAreOf == \A project : SourcesOf(project) \subseteq DOMAIN project.sources
BY DEF SourcesOf, ScopeOf

LEMMA ManifestIs ==
    ASSUME NEW project, IsProject(project), NEW scope, scope \subseteq DOMAIN project.sources
    PROVE  LET m == ManifestOver(project, scope)
           IN  /\ m.policy = project.policy /\ m.document = project.docs[Subject]
               /\ m.files \in Seq(ToSet(m.files)) /\ m.imports \in Seq(ToSet(m.imports))
               /\ InOrder(scope) \in Seq(Paths) /\ ToSet(InOrder(scope)) = scope
               /\ Len(m.files) = Len(InOrder(scope))
               /\ \A i \in 1 .. Len(m.files) :
                     /\ m.files[i].key = InOrder(scope)[i]
                     /\ m.files[i].hash = project.sources[m.files[i].key]
<1> DEFINE files == InOrder(scope)
           doc == project.docs[Subject]
           keys == {[document |-> doc.imports[i].provider,
                     export   |-> doc.imports[i].export] : i \in DOMAIN doc.imports}
           imports == InImportOrder(keys)
           rows == [i \in DOMAIN files |-> [key |-> files[i], hash |-> project.sources[files[i]]]]
           bodies == [i \in DOMAIN imports |->
                         [key  |-> imports[i],
                          hash |-> Body(project.docs[imports[i].document], imports[i].export)]]
           m == ManifestOver(project, scope)
<1>1. m = [policy |-> project.policy, document |-> doc, files |-> rows, imports |-> bodies]
  BY DEF ManifestOver
<1>2. /\ files \in Seq(Paths) /\ ToSet(files) = scope
      /\ Len(files) \in Nat /\ DOMAIN files = 1 .. Len(files)
  <2>1. scope \cap Paths = scope
    BY DEF IsProject
  <2>2. files \in Seq(Paths) /\ ToSet(files) = scope
    BY <2>1, InOrderIs
  <2> HIDE DEF files
  <2> QED BY <2>2
<1>3. Len(imports) \in Nat /\ DOMAIN imports = 1 .. Len(imports)
  <2>1. doc.imports \in Seq([provider : Paths, export : Nat])
    BY DEF IsProject
  <2>2. /\ Len(doc.imports) \in Nat /\ DOMAIN doc.imports = 1 .. Len(doc.imports)
        /\ \A i \in 1 .. Len(doc.imports) : doc.imports[i] \in [provider : Paths, export : Nat]
    <3> HIDE DEF doc
    <3> QED BY <2>1, SequenceIs
  <2>3. keys \in SUBSET ImportKey
    BY <2>2 DEF ImportKey
  <2>4. IsFiniteSet(keys)
    <3>1. IsFiniteSet(1 .. Len(doc.imports))
      BY <2>2, FS_Interval
    <3>2. IsFiniteSet(DOMAIN doc.imports)
      BY <2>2, <3>1
    <3> DEFINE key(i) == [document |-> doc.imports[i].provider, export |-> doc.imports[i].export]
               f == [i \in DOMAIN doc.imports |-> key(i)]
    <3>3. keys = {f[i] : i \in DOMAIN doc.imports}
      OBVIOUS
    <3>4. f \in [DOMAIN doc.imports -> keys] /\ \A k \in keys : \E i \in DOMAIN doc.imports : f[i] = k
      OBVIOUS
    <3> HIDE DEF f, keys, doc
    <3>5. f \in Surjection(DOMAIN doc.imports, keys)
      BY <3>4 DEF Surjection
    <3> QED BY <3>2, <3>5, FS_Surjection
  <2> HIDE DEF keys
  <2>5. imports \in Seq(keys)
    BY <2>3, <2>4, InImportOrderIs
  <2> HIDE DEF imports
  <2> QED BY <2>5
<1> HIDE DEF files, imports, doc
<1>4. m.files = rows /\ m.imports = bodies
  BY <1>1
<1>5. rows \in Seq(ToSet(rows)) /\ Len(rows) = Len(files)
      /\ \A i \in 1 .. Len(files) : /\ rows[i].key = files[i]
                                    /\ rows[i].hash = project.sources[rows[i].key]
  <2>1. DOMAIN rows = 1 .. Len(files) /\ rows = [i \in 1 .. Len(files) |-> rows[i]]
    BY <1>2
  <2>2. \A i \in 1 .. Len(files) : rows[i] \in ToSet(rows)
    BY <2>1 DEF ToSet
  <2>3. \A i \in 1 .. Len(files) : /\ rows[i].key = files[i]
                                   /\ rows[i].hash = project.sources[rows[i].key]
    BY <1>2
  <2> HIDE DEF rows
  <2>4. rows \in Seq(ToSet(rows)) /\ Len(rows) = Len(files)
    BY <1>2, <2>1, <2>2, Elementwise
  <2> QED BY <2>3, <2>4
<1>6. bodies \in Seq(ToSet(bodies))
  <2>1. DOMAIN bodies = 1 .. Len(imports) /\ bodies = [i \in 1 .. Len(imports) |-> bodies[i]]
    BY <1>3
  <2>2. \A i \in 1 .. Len(imports) : bodies[i] \in ToSet(bodies)
    BY <2>1 DEF ToSet
  <2> HIDE DEF bodies
  <2> QED BY <1>3, <2>1, <2>2, Elementwise
<1>7. m.policy = project.policy /\ m.document = doc
  BY <1>1
<1> HIDE DEF m, rows, bodies
<1> QED BY <1>2, <1>4, <1>5, <1>6, <1>7 DEF m, files, doc

\* Two sequences are over the elements of both.
LEMMA Joint ==
    ASSUME NEW s, NEW t, s \in Seq(ToSet(s)), t \in Seq(ToSet(t))
    PROVE  s \in Seq(ToSet(s) \cup ToSet(t)) /\ t \in Seq(ToSet(s) \cup ToSet(t))
<1>1. \A S, T : \A q \in Seq(S) : S \subseteq T => q \in Seq(T)
  <2> TAKE S, T
  <2> TAKE q \in Seq(S)
  <2> HAVE S \subseteq T
  <2>1. q \in [1 .. Len(q) -> T] /\ Len(q) \in Nat
    OBVIOUS
  <2> QED BY <2>1
<1>2. ToSet(s) \subseteq ToSet(s) \cup ToSet(t) /\ ToSet(t) \subseteq ToSet(s) \cup ToSet(t)
  OBVIOUS
<1> QED BY <1>1, <1>2

\* If neither list has a source that the other lacks, both have the same ones,
\* and the changed are told; and what is removed or added was there or is.
LEMMA FilesTell ==
    ASSUME NEW then, NEW now, IsProject(then), IsProject(now),
           NEW scope, scope \subseteq DOMAIN then.sources,
           NEW record, record.manifest = ManifestOver(then, scope)
    PROVE  LET changes == FileChanges(record, now)
           IN  /\ KeysOf(changes, {"removed"}) \subseteq scope
               /\ KeysOf(changes, {"added"}) \subseteq SourcesOf(now)
               /\ (KeysOf(changes, {"removed"}) = {} /\ KeysOf(changes, {"added"}) = {}) =>
                     /\ scope = SourcesOf(now)
                     /\ \A s \in scope : then.sources[s] # now.sources[s] =>
                                            s \in KeysOf(changes, {"changed"})
<1> DEFINE old == ManifestOver(then, scope).files
           new == ManifestOf(now).files
           before == PathsBefore(old, new)
           out == DiffSorted(old, new, before)
           E == ToSet(old) \cup ToSet(new)
           were == InOrder(scope)
           are == InOrder(SourcesOf(now))
<1>1. FileChanges(record, now) = ToSet(out)
  BY DEF FileChanges
<1>2. /\ old \in Seq(ToSet(old)) /\ were \in Seq(Paths) /\ ToSet(were) = scope
      /\ Len(old) = Len(were)
      /\ \A i \in 1 .. Len(old) : old[i].key = were[i] /\ old[i].hash = then.sources[old[i].key]
  BY ManifestIs
<1>3. /\ new \in Seq(ToSet(new)) /\ are \in Seq(Paths) /\ ToSet(are) = SourcesOf(now)
      /\ Len(new) = Len(are)
      /\ \A i \in 1 .. Len(new) : new[i].key = are[i] /\ new[i].hash = now.sources[new[i].key]
  BY ManifestIs, SourcesAreOf DEF ManifestOf
<1> HIDE DEF old, new, were, are
<1>4. old \in Seq(E) /\ new \in Seq(E)
  BY <1>2, <1>3, Joint
<1> HIDE DEF E, before
<1>5. /\ out \in Seq(Changes(old, new))
      /\ \A c \in ToSet(out) :
            /\ c.change = "removed" => c.key \in {old[i].key : i \in DOMAIN old}
            /\ c.change = "added" => c.key \in {new[j].key : j \in DOMAIN new}
      /\ Changed(out) =>
            /\ Len(old) = Len(new)
            /\ \A k \in 1 .. Len(old) : Aligned(k, out, old, new, before)
  BY <1>4, DiffTells
<1> HIDE DEF out
<1>6. /\ Len(old) \in Nat /\ DOMAIN old = 1 .. Len(old) /\ Len(new) \in Nat
      /\ DOMAIN new = 1 .. Len(new) /\ DOMAIN were = 1 .. Len(old) /\ DOMAIN are = 1 .. Len(new)
  BY <1>2, <1>3
<1>7. \A i \in 1 .. Len(old) : old[i].key \in scope /\ old[i].key \in Paths
  BY <1>2, <1>6 DEF ToSet
<1>8. \A i \in 1 .. Len(new) : new[i].key \in SourcesOf(now) /\ new[i].key \in Paths
  BY <1>3, <1>6 DEF ToSet
<1>9. KeysOf(ToSet(out), {"removed"}) \subseteq scope
  <2>1. {old[i].key : i \in DOMAIN old} \subseteq scope
    BY <1>6, <1>7
  <2>2. \A c \in ToSet(out) : c.change = "removed" => c.key \in scope
    BY <1>5, <2>1
  <2> QED BY <2>2 DEF KeysOf
<1>10. KeysOf(ToSet(out), {"added"}) \subseteq SourcesOf(now)
  <2>1. {new[j].key : j \in DOMAIN new} \subseteq SourcesOf(now)
    BY <1>6, <1>8
  <2>2. \A c \in ToSet(out) : c.change = "added" => c.key \in SourcesOf(now)
    BY <1>5, <2>1
  <2> QED BY <2>2 DEF KeysOf
<1>11. ASSUME KeysOf(ToSet(out), {"removed"}) = {}, KeysOf(ToSet(out), {"added"}) = {}
       PROVE  /\ scope = SourcesOf(now)
              /\ \A s \in scope : then.sources[s] # now.sources[s] =>
                                     s \in KeysOf(ToSet(out), {"changed"})
  <2>1. \A c \in ToSet(out) : c.change \in {"removed", "added", "changed"}
    <3>1. ToSet(out) \subseteq Changes(old, new)
      BY <1>5, SequenceIs
    <3> QED BY <3>1 DEF Changes
  <2>2. Changed(out)
    BY <1>11, <2>1 DEF Changed, KeysOf
  <2>3. Len(old) = Len(new) /\ \A k \in 1 .. Len(old) : Aligned(k, out, old, new, before)
    BY <1>5, <2>2
  <2>4. ASSUME NEW k \in 1 .. Len(old)
        PROVE  old[k].key = new[k].key
    <3>1. <<old[k].key, new[k].key>> \notin before /\ <<new[k].key, old[k].key>> \notin before
      BY <2>3 DEF Aligned
    <3>2. old[k].key \in Keys(old, new) /\ new[k].key \in Keys(old, new)
      BY <1>6, <2>3 DEF Keys
    <3> DEFINE a == old[k].key
               b == new[k].key
    <3>3. a \in Paths /\ b \in Paths
      BY <1>7, <1>8, <2>3
    <3>4. ~(Rank(a) < Rank(b)) /\ ~(Rank(b) < Rank(a))
      BY <3>1, <3>2 DEF before, PathsBefore
    <3> HIDE DEF a, b
    <3>5. Rank(a) \in Nat /\ Rank(b) \in Nat /\ PathOrder[Rank(a)] = a /\ PathOrder[Rank(b)] = b
      BY <3>3, Ranks
    <3>6. Rank(a) = Rank(b)
      BY <3>4, <3>5
    <3>7. a = b
      BY <3>5, <3>6
    <3> QED BY <3>7 DEF a, b
  <2>5. scope = SourcesOf(now)
    <3>1. \A k \in 1 .. Len(old) : were[k] = are[k]
      BY <1>2, <1>3, <2>3, <2>4
    <3>2. ToSet(were) = ToSet(are)
      BY <1>6, <2>3, <3>1 DEF ToSet
    <3> QED BY <1>2, <1>3, <3>2
  <2>6. ASSUME NEW s \in scope, then.sources[s] # now.sources[s]
        PROVE  s \in KeysOf(ToSet(out), {"changed"})
    <3>1. PICK k \in 1 .. Len(old) : were[k] = s
      BY <1>2, <1>6 DEF ToSet
    <3>2. old[k].key = s /\ new[k].key = s
      BY <1>2, <2>4, <3>1
    <3>3. old[k].hash # new[k].hash
      BY <1>2, <1>3, <2>3, <2>6, <3>2
    <3>4. Change("changed", s) \in ToSet(out)
      BY <2>3, <3>2, <3>3 DEF Aligned
    <3> QED BY <3>4 DEF KeysOf, Change
  <2> QED BY <2>5, <2>6
<1> QED BY <1>1, <1>9, <1>10, <1>11

LEMMA ImportsTell ==
    ASSUME NEW then, NEW now, IsProject(then), IsProject(now),
           NEW scope, scope \subseteq DOMAIN then.sources,
           NEW record, record.manifest = ManifestOver(then, scope),
           ImportChanges(record, now) = {}
    PROVE  ManifestOver(then, scope).imports = ManifestOf(now).imports
<1> DEFINE old == ManifestOver(then, scope).imports
           new == ManifestOf(now).imports
           before == ImportsBefore(old, new)
           out == DiffSorted(old, new, before)
           E == ToSet(old) \cup ToSet(new)
<1>1. ToSet(out) = {}
  BY DEF ImportChanges
<1>2. old \in Seq(ToSet(old)) /\ new \in Seq(ToSet(new))
  BY ManifestIs, SourcesAreOf DEF ManifestOf
<1> HIDE DEF old, new
<1>3. old \in Seq(E) /\ new \in Seq(E)
  BY <1>2, Joint
<1> HIDE DEF E, before
<1>4. out \in Seq(Changes(old, new))
  BY <1>3, DiffTells
<1> HIDE DEF out
<1>5. out = <<>>
  BY <1>1, <1>4 DEF ToSet
<1>6. old = new
  BY <1>3, <1>5, NoDifference DEF out
<1> QED BY <1>6 DEF old, new

-----------------------------------------------------------------------------
(***************************************************************************)
(* What a record says of the review that stored it.                        *)
(***************************************************************************)
LEMMA ReviewedIs ==
    \A release, project : ReviewedScope(release, project) \subseteq DOMAIN project.sources
BY SourcesAreOf DEF ReviewedScope

LEMMA RecordedIs ==
    ASSUME NEW release, NEW revision, NEW cleared, NEW then, NEW record,
           record = Recorded(release, revision, cleared, then)
    PROVE  /\ record.manifest = ManifestOver(then, ReviewedScope(release, then))
           /\ record.guidance = then.guidance
           /\ record.coverage = (IF release = "current" THEN HandedOff(then) ELSE None)
           /\ record.revision = revision /\ record.cleared = cleared
BY DEF Recorded

LEMMA WhenIs == \A condition, code : When(condition, code) = {} <=> ~condition
BY DEF When

\* The document comes first among the entries of a manifest.
LEMMA EntriesAre ==
    ASSUME NEW m, m.files \in Seq(ToSet(m.files)), m.imports \in Seq(ToSet(m.imports))
    PROVE  \E E : /\ Entries(m) \in Seq(E)
                  /\ [path |-> Subject, export |-> None, expected |-> m.document]
                        \in ToSet(Entries(m))
<1> DEFINE first == [path |-> Subject, export |-> None, expected |-> m.document]
           file(f)   == [path |-> f.key, export |-> None, expected |-> f.hash]
           import(f) == [path |-> f.key.document, export |-> f.key.export, expected |-> f.hash]
           files == [i \in DOMAIN m.files |-> file(m.files[i])]
           imports == [i \in DOMAIN m.imports |-> import(m.imports[i])]
           E == {first} \cup {file(m.files[i]) : i \in DOMAIN m.files}
                        \cup {import(m.imports[i]) : i \in DOMAIN m.imports}
<1>1. Entries(m) = (<<first>> \o files) \o imports
  BY DEF Entries
<1>2. files \in Seq(E)
  <2>1. Len(m.files) \in Nat /\ DOMAIN m.files = 1 .. Len(m.files)
    BY SequenceIs
  <2>2. files \in [1 .. Len(m.files) -> E]
    BY <2>1
  <2> HIDE DEF files, E
  <2> QED BY <2>1, <2>2
<1>3. imports \in Seq(E)
  <2>1. Len(m.imports) \in Nat /\ DOMAIN m.imports = 1 .. Len(m.imports)
    BY SequenceIs
  <2>2. imports \in [1 .. Len(m.imports) -> E]
    BY <2>1
  <2> HIDE DEF imports, E
  <2> QED BY <2>1, <2>2
<1>4. first \in E
  OBVIOUS
<1> HIDE DEF first, files, imports, E
<1>5. /\ (<<first>> \o files) \o imports \in Seq(E)
      /\ ((<<first>> \o files) \o imports)[1] = first
      /\ 1 \in 1 .. Len((<<first>> \o files) \o imports)
  BY <1>2, <1>3, <1>4
<1>6. first \in ToSet(Entries(m))
  <2> DEFINE all == (<<first>> \o files) \o imports
  <2>1. all[1] = first /\ 1 \in DOMAIN all
    BY <1>5, SequenceIs
  <2> HIDE DEF all
  <2>2. first \in ToSet(all)
    BY <2>1 DEF ToSet
  <2> QED BY <1>1, <2>2 DEF all
<1> QED BY <1>1, <1>5, <1>6 DEF first

\* When nothing is missed, the text of the review is at hand.
LEMMA TextIsFound ==
    ASSUME LookedUp, Compared, pc = "done", review.record # None, Verified
    PROVE  Previous(review.record, review.now) = review.then.docs[Subject]
<1> DEFINE record == review.record
           then == review.then
           now == review.now
           m == record.manifest
           entry == [path |-> Subject, export |-> None, expected |-> m.document]
<1>1. PICK revision, cleared : record = Recorded(review.release, revision, cleared, then)
  BY DEF Compared
<1>2. m = ManifestOver(then, ReviewedScope(review.release, then))
  BY <1>1, RecordedIs
<1>3. /\ m.document = then.docs[Subject]
      /\ m.files \in Seq(ToSet(m.files)) /\ m.imports \in Seq(ToSet(m.imports))
  BY <1>2, ManifestIs, ReviewedIs DEF Compared
<1>4. CASE m.document = now.docs[Subject]
  BY <1>3, <1>4 DEF Previous
<1>5. CASE m.document # now.docs[Subject]
  <2> DEFINE gone == KeysOf(FileChanges(record, now), {"changed", "removed"})
             lost == KeysOf(ImportChanges(record, now), {"changed", "removed"})
             needed(e) == \/ /\ e.path = Subject /\ e.export = None
                             /\ record.manifest.document # now.docs[Subject]
                          \/ e.path # Subject /\ e.export = None /\ e.path \in gone
                          \/ /\ e.export # None
                             /\ [document |-> e.path, export |-> e.export] \in lost
             S == {e \in ToSet(Entries(m)) : needed(e)}
  <2>1. PICK E : Entries(m) \in Seq(E) /\ entry \in ToSet(Entries(m))
    BY <1>3, EntriesAre
  <2>2. search.entries = Picked(Entries(m), S)
    BY DEF Compared, Needed
  <2>3. entry \in S
    BY <1>5, <2>1
  <2> HIDE DEF S, entry, m
  <2>4. entry \in ToSet(search.entries)
    BY <2>1, <2>2, <2>3, PickedIs
  <2>5. PICK i \in DOMAIN search.entries : search.entries[i] = entry
    BY <2>4 DEF ToSet
  <2>6. i \in hits
    <3>1. i \in Inputs /\ i < item
      BY <2>5 DEF LookedUp, Inputs
    <3>2. DOMAIN misses = {}
      BY DEF Verified
    <3> QED BY <3>1, <3>2 DEF LookedUp
  <2>7. search.entries[i].path = Subject /\ search.entries[i].export = None
    BY <2>5 DEF entry
  <2>8. Previous(record, now) = m.document
    BY <1>5, <2>6, <2>7 DEF Previous, m
  <2> QED BY <1>3, <2>8 DEF m
<1> QED BY <1>4, <1>5

\* What focused advice says of the two projects.
LEMMA FocusedIs ==
    ASSUME LookedUp, Compared, Advised, advice # None, advice.mode = "focused"
    PROVE  FocusedReadingIsSound
<1> DEFINE record == review.record
           then == review.then
           now == review.now
           read == ReviewedScope(review.release, then)
           old == then.docs[Subject]
           files == FileChanges(record, now)
           previous == Previous(record, now)
<1>1. pc = "done" /\ advice = Advice(record, now)
  BY DEF Advised
<1>2. Reasons(record, now) = {}
  BY <1>1 DEF Advice
<1>3. record # None /\ review.release # "never"
  <2>1. record # None
    BY <1>2, WhenIs DEF Reasons
  <2> QED BY <2>1 DEF Compared
<1>4. /\ MapOf(now).kind # "invalid" /\ record.guidance = now.guidance
      /\ now.invalidations = {} /\ ReasonsFromRecord(record, now) = {}
      /\ \A x \in KeysOf(files, {"changed"}) : SectionsFor(MapOf(now), x) # {}
  <2>1. /\ When(MapOf(now).kind = "invalid", "mapping_invalid") = {}
        /\ When(record # None /\ record.guidance # now.guidance, "guidance_changed") = {}
        /\ When(now.invalidations # {}, "semantic_invalidation") = {}
        /\ ReasonsFromRecord(record, now) = {}
        /\ {Reason("unmapped_change", s) :
               s \in {x \in KeysOf(files, {"changed"}) : SectionsFor(MapOf(now), x) = {}}} = {}
    BY <1>2, <1>3 DEF Reasons
  <2> HIDE DEF record, now, files
  <2> QED BY <1>3, <2>1, WhenIs
<1>5. /\ Verified /\ record.manifest.policy = now.policy
      /\ KeysOf(files, {"added"}) = {} /\ KeysOf(files, {"removed"}) = {}
      /\ ImportChanges(record, now) = {}
      /\ previous # None => Identity(SectionMap(previous, SourcesOf(now))) = Identity(MapOf(now))
  <2>1. /\ When(~Verified, "baseline_unavailable") = {}
        /\ When(record.manifest.policy # now.policy, "policy_changed") = {}
        /\ {Reason(ReasonAdded(s, record, previous, now), s) : s \in KeysOf(files, {"added"})} = {}
        /\ {Reason(ReasonRemoved(s, now), s) : s \in KeysOf(files, {"removed"})} = {}
        /\ When(ImportChanges(record, now) # {}, "imports_changed") = {}
        /\ When(/\ previous # None
                /\ Identity(SectionMap(previous, SourcesOf(now))) # Identity(MapOf(now)),
                "mapping_changed") = {}
    BY <1>4 DEF ReasonsFromRecord
  <2> HIDE DEF record, now, files, previous
  <2> QED BY <2>1, WhenIs
<1>6. PICK revision, cleared : record = Recorded(review.release, revision, cleared, then)
  BY <1>3 DEF Compared
<1>7. record.manifest = ManifestOver(then, read) /\ record.guidance = then.guidance
  BY <1>6, RecordedIs
<1>8. IsProject(then) /\ IsProject(now) /\ read \subseteq DOMAIN then.sources
  BY ReviewedIs DEF Compared
<1>9. record.manifest.policy = then.policy
  BY <1>7, <1>8, ManifestIs
<1>10. /\ read = SourcesOf(now)
       /\ \A s \in read : then.sources[s] # now.sources[s] => s \in KeysOf(files, {"changed"})
  BY <1>5, <1>7, <1>8, FilesTell
<1>11. ManifestOf(then).imports = ManifestOf(now).imports
  <2>1. ManifestOver(then, read).imports = ManifestOf(now).imports
    BY <1>5, <1>7, <1>8, ImportsTell
  <2>2. ManifestOver(then, read).imports = ManifestOver(then, SourcesOf(then)).imports
    BY DEF ManifestOver
  <2> QED BY <2>1, <2>2 DEF ManifestOf
<1>12. Identity(SectionMap(old, read)) = Identity(MapOf(now))
  <2>1. previous = old
    BY <1>1, <1>3, <1>5, TextIsFound
  <2>2. old # None
    BY <1>8 DEF IsProject
  <2> QED BY <1>5, <1>10, <2>1, <2>2
<1>13. ASSUME NEW s \in KeysOf(files, {"changed"})
       PROVE  /\ s \in advice.read
              /\ \E section \in MapOf(now).sections :
                    section.id \in advice.sections /\ s \in section.sources
  <2>1. /\ KeysOf(files, {"added", "changed"}) \subseteq advice.read
        /\ advice.sections = {x.id : x \in Suggested(record, now)}
    BY <1>1, <1>2, <1>3 DEF Advice
  <2>2. s \in KeysOf(files, {"added", "changed"})
    BY <1>13 DEF KeysOf
  <2>3. PICK section \in SectionsFor(MapOf(now), s) : TRUE
    BY <1>4, <1>13
  <2>4. section \in Suggested(record, now)
    BY <1>13, <2>3 DEF Suggested
  <2> QED BY <2>1, <2>2, <2>3, <2>4 DEF SectionsFor
<1> HIDE DEF files
<1> QED
  BY <1>3, <1>4, <1>5, <1>7, <1>9, <1>10, <1>11, <1>12, <1>13 DEF FocusedReadingIsSound

-----------------------------------------------------------------------------
(***************************************************************************)
(* What the last review left out: recorded, or proven by its token.        *)
(***************************************************************************)
LEMMA TokenIs ==
    /\ \A r, m, b, c, v : Token(r, m, b, c, v).context = c
    /\ \A h, m, p, g, a : Context(h, m, p, g, a).layout = 2 /\ Context(h, m, p, g, a).handoffs = h
    /\ \A d, m, p, g, a : /\ LegacyContext(d, m, p, g, a).layout = 1
                          /\ LegacyContext(d, m, p, g, a).descendants = d
BY DEF Token, Context, LegacyContext

\* The handoffs and the context that the token of a record binds.
Handed(then) == {h \in HandoffsIn(then) : h.parent = Subject}

BoundBy(release, then, manifest) ==
    LET mapping == Identity(SectionMap(then.docs[Subject], ReviewedScope(release, then)))
    IN  IF release = "0.6"
          THEN LegacyContext(Boundaries(then), manifest, mapping, then.guidance, then.around)
          ELSE Context(Handed(then), manifest, mapping,
                       then.guidance, then.around)

LEMMA BoundIs ==
    ASSUME NEW release, NEW revision, NEW cleared, NEW then, NEW record,
           record = Recorded(release, revision, cleared, then)
    PROVE  record.token.context = BoundBy(release, then, record.manifest)
BY TokenIs DEF Recorded, BoundBy, Handed

\* What reproduces a token is what it bound.
LEMMA OnlyOneProof ==
    ASSUME NEW release, NEW then, NEW record,
           record.token.context = BoundBy(release, then, record.manifest)
    PROVE  /\ \A S, mapping, around :
                 record.token = FirstToken(record,
                       Context(S, record.manifest, mapping, record.guidance, around)) =>
                     release # "0.6" /\ S = Handed(then)
           /\ \A S, mapping, around :
                 record.token = FirstToken(record,
                       LegacyContext(S, record.manifest, mapping, record.guidance, around)) =>
                     release = "0.6" /\ S = Boundaries(then)
<1>1. \A c : record.token = FirstToken(record, c) => record.token.context = c
  BY TokenIs DEF FirstToken
<1>2. /\ release = "0.6" => record.token.context.layout = 1
                            /\ record.token.context.descendants = Boundaries(then)
      /\ release # "0.6" => /\ record.token.context.layout = 2
                            /\ record.token.context.handoffs
                                  = Handed(then)
  BY TokenIs DEF BoundBy
<1>3. ASSUME NEW S, NEW mapping, NEW around,
             record.token = FirstToken(record,
                 Context(S, record.manifest, mapping, record.guidance, around))
      PROVE  release # "0.6" /\ S = Handed(then)
  <2>1. record.token.context = Context(S, record.manifest, mapping, record.guidance, around)
    BY <1>1, <1>3
  <2>2. record.token.context.layout = 2 /\ record.token.context.handoffs = S
    BY <2>1, TokenIs
  <2> QED BY <1>2, <2>2
<1>4. ASSUME NEW S, NEW mapping, NEW around,
             record.token = FirstToken(record,
                 LegacyContext(S, record.manifest, mapping, record.guidance, around))
      PROVE  release = "0.6" /\ S = Boundaries(then)
  <2>1. record.token.context = LegacyContext(S, record.manifest, mapping, record.guidance, around)
    BY <1>1, <1>4
  <2>2. record.token.context.layout = 1 /\ record.token.context.descendants = S
    BY <2>1, TokenIs
  <2> QED BY <1>2, <2>2
<1> QED BY <1>3, <1>4

LEMMA ProofIs ==
    ASSUME NEW release, NEW then, NEW record, NEW previous, NEW project,
           record.token.context = BoundBy(release, then, record.manifest),
           Proof(record, previous, project).why \in {"recorded", "proven"}
    PROVE  Proof(record, previous, project).folders = Folders(release, then)
<1> DEFINE mapping   == Identity(SectionMap(previous, ScopePaths(record.manifest)))
           handoffs  == {h \in {[parent |-> Subject, subtree |-> Directory(t), target |-> t] :
                                  t \in Targets(previous)} :
                            Below(h.subtree) /\ LeftOut(h.subtree, record)}
           readmes   == {d \in DOMAIN project.docs :
                            /\ IsReadme(d) /\ d # Subject
                            /\ Below(Directory(d)) /\ LeftOut(Directory(d), record)}
           proven(S) == record.token = FirstToken(record,
                           Context(S, record.manifest, mapping, record.guidance,
                                   project.around))
           proven06(S) == record.token = FirstToken(record,
                           LegacyContext(S, record.manifest, mapping, record.guidance,
                                         project.around))
           sets(S)   == IF Cardinality(S) <= ProofLimit THEN SUBSET S ELSE {}
           in07      == {x \in sets(handoffs) : proven(x)}
           in06      == {x \in sets(readmes) : proven06(x)}
           found     == {{h.subtree : h \in S} : S \in in07}
                        \cup {{Directory(d) : d \in S} : S \in in06}
           proof     == Proof(record, previous, project)
<1>1. found # {} /\ proof.folders = CHOOSE f \in found : TRUE
  <2>1. proof = IF record.revision # 1
                  THEN [folders |-> {}, why |-> "revision_not_first"]
                ELSE IF record.cleared # {}
                  THEN [folders |-> {}, why |-> "acknowledged_invalidations"]
                ELSE IF previous = None
                  THEN [folders |-> {}, why |-> "previous_text_unavailable"]
                ELSE IF found # {}
                  THEN [folders |-> CHOOSE f \in found : TRUE, why |-> "proven"]
                ELSE [folders |-> {},
                      why |-> IF Cardinality(handoffs) > ProofLimit
                                    \/ Cardinality(readmes) > ProofLimit
                                THEN "candidate_limit" ELSE "no_matching_reconstruction"]
    BY DEF Proof
  <2> HIDE DEF found, handoffs, readmes, proof
  <2>2. proof.why \in {"recorded", "proven"}
    BY DEF proof
  <2> QED BY <2>1, <2>2
<1>2. ASSUME NEW S \in in07
      PROVE  release # "0.6" /\ S = Handed(then)
  <2>1. record.token = FirstToken(record,
            Context(S, record.manifest, mapping, record.guidance, project.around))
    BY <1>2
  <2> HIDE DEF in07, mapping
  <2> QED BY <2>1, OnlyOneProof
<1>3. ASSUME NEW S \in in06
      PROVE  release = "0.6" /\ S = Boundaries(then)
  <2>1. record.token = FirstToken(record,
            LegacyContext(S, record.manifest, mapping, record.guidance, project.around))
    BY <1>3
  <2> HIDE DEF in06, mapping
  <2> QED BY <2>1, OnlyOneProof
<1> HIDE DEF in06, in07
<1>4. \A f \in found : f = Folders(release, then)
  <2> TAKE f \in found
  <2>1. CASE f \in {{h.subtree : h \in S} : S \in in07}
    <3>1. PICK S \in in07 : f = {h.subtree : h \in S}
      BY <2>1
    <3> QED BY <1>2, <3>1 DEF Folders, HandedOff, SubtreesOf, Handed
  <2>2. CASE f \in {{Directory(d) : d \in S} : S \in in06}
    <3>1. PICK S \in in06 : f = {Directory(d) : d \in S}
      BY <2>2
    <3> QED BY <1>3, <3>1 DEF Folders
  <2> QED BY <2>1, <2>2
<1> HIDE DEF found, proof
<1>5. proof.folders \in found
  BY <1>1
<1> QED BY <1>4, <1>5 DEF proof

LEMMA FormerIs ==
    ASSUME NEW release, NEW revision, NEW cleared, NEW then, NEW record,
           NEW previous, NEW project, HandedOff(then) # None,
           record = Recorded(release, revision, cleared, then)
    PROVE  LET former == Former(record, previous, project)
           IN  /\ former.why \in {"recorded", "proven"} => former.folders = Folders(release, then)
               /\ release = "current" => former.why = "recorded"
<1>1. /\ record.coverage = (IF release = "current" THEN HandedOff(then) ELSE None)
      /\ record.token.context = BoundBy(release, then, record.manifest)
  BY RecordedIs, BoundIs
<1>2. CASE release = "current"
  <2>1. Former(record, previous, project) = [folders |-> HandedOff(then), why |-> "recorded"]
    BY <1>1, <1>2 DEF Former
  <2> QED BY <1>2, <2>1 DEF Folders
<1>3. CASE release # "current"
  <2>1. Former(record, previous, project) = Proof(record, previous, project)
    BY <1>1, <1>3 DEF Former
  <2> QED BY <1>1, <1>3, <2>1, ProofIs
<1> QED BY <1>2, <1>3

\* A source that entered the scope has one reason, that of what was added.
LEMMA CameFor ==
    ASSUME NEW record, NEW project, NEW s,
           NEW code \in {"handoff_changed", "path_set_changed", "coverage_unrecorded"},
           Reason(code, s) \in Reasons(record, project), record # None,
           s \notin KeysOf(FileChanges(record, project), {"removed"})
    PROVE  code = ReasonAdded(s, record, Previous(record, project), project)
<1> DEFINE files == FileChanges(record, project)
           previous == Previous(record, project)
<1>1. /\ \A c, condition, other : Reason(c, s) \in When(condition, other) => c = other
      /\ \A c, d, x, y : Reason(c, x) = Reason(d, y) => c = d /\ x = y
  BY DEF When, Reason
<1>2. Reason(code, s) \in ReasonsFromRecord(record, project)
  <2>1. \/ Reason(code, s) \in When(MapOf(project).kind = "invalid", "mapping_invalid")
        \/ Reason(code, s) \in When(record # None /\ record.guidance # project.guidance,
                                    "guidance_changed")
        \/ Reason(code, s) \in When(project.invalidations # {}, "semantic_invalidation")
        \/ Reason(code, s) \in ReasonsFromRecord(record, project)
        \/ Reason(code, s) \in {Reason("unmapped_change", x) :
              x \in {y \in KeysOf(files, {"changed"}) : SectionsFor(MapOf(project), y) = {}}}
    BY DEF Reasons
  <2> HIDE DEF files
  <2> QED BY <1>1, <2>1
<1>3. \/ Reason(code, s) \in When(~Verified, "baseline_unavailable")
      \/ Reason(code, s) \in When(record.manifest.policy # project.policy, "policy_changed")
      \/ Reason(code, s) \in {Reason(ReasonAdded(x, record, previous, project), x) :
                                 x \in KeysOf(files, {"added"})}
      \/ Reason(code, s) \in {Reason(ReasonRemoved(x, project), x) :
                                 x \in KeysOf(files, {"removed"})}
      \/ Reason(code, s) \in When(ImportChanges(record, project) # {}, "imports_changed")
      \/ Reason(code, s) \in
            When(/\ previous # None
                 /\ Identity(SectionMap(previous, SourcesOf(project))) # Identity(MapOf(project)),
                 "mapping_changed")
  BY <1>2 DEF ReasonsFromRecord
<1>4. \/ Reason(code, s) \in {Reason(ReasonAdded(x, record, previous, project), x) :
                                 x \in KeysOf(files, {"added"})}
      \/ Reason(code, s) \in {Reason(ReasonRemoved(x, project), x) :
                                 x \in KeysOf(files, {"removed"})}
  <2> HIDE DEF files, previous
  <2> QED BY <1>1, <1>3
<1> HIDE DEF files, previous
<1>5. s \notin KeysOf(files, {"removed"})
  BY DEF files
<1>6. code = ReasonAdded(s, record, previous, project)
  BY <1>1, <1>4, <1>5
<1> QED BY <1>6 DEF previous

LEMMA HandoffsAreTold ==
    ASSUME LookedUp, Compared, Advised
    PROVE  HandoffsToldTruly
<1> DEFINE record == review.record
           then == review.then
           now == review.now
           previous == Previous(record, now)
           left == Folders(review.release, then)
           scope == ReviewedScope(review.release, then)
<1> SUFFICES ASSUME advice # None, record # None, NEW s \in SourcesOf(now) \ scope
             PROVE  /\ Reason("handoff_changed", s) \in advice.reasons => Within(s, left)
                    /\ Reason("path_set_changed", s) \in advice.reasons => ~Within(s, left)
                    /\ Reason("coverage_unrecorded", s) \in advice.reasons =>
                          review.release # "current"
  BY DEF HandoffsToldTruly
<1>1. advice.reasons = Reasons(record, now)
  BY DEF Advised, Advice
<1>2. PICK revision, cleared : record = Recorded(review.release, revision, cleared, then)
  BY DEF Compared
<1>3. s \notin KeysOf(FileChanges(record, now), {"removed"})
  <2>1. record.manifest = ManifestOver(then, scope)
    BY <1>2, RecordedIs
  <2>2. IsProject(then) /\ IsProject(now) /\ scope \subseteq DOMAIN then.sources
    BY ReviewedIs DEF Compared
  <2>3. KeysOf(FileChanges(record, now), {"removed"}) \subseteq scope
    BY <2>1, <2>2, FilesTell
  <2> QED BY <2>3
<1> DEFINE former == Former(record, previous, now)
<1>4. /\ former.why \in {"recorded", "proven"} => former.folders = left
      /\ review.release = "current" => former.why = "recorded"
  BY <1>2, FormerIs DEF Compared
<1>5. ReasonAdded(s, record, previous, now) =
         CASE s \in now.reviewed  -> "document_classification_changed"
           [] s \notin now.reviewed /\ former.why \notin {"recorded", "proven"} ->
                 "coverage_unrecorded"
           [] OTHER -> IF Within(s, former.folders) THEN "handoff_changed"
                                                    ELSE "path_set_changed"
  BY Zenon DEF ReasonAdded
<1>6. \A code \in {"handoff_changed", "path_set_changed", "coverage_unrecorded"} :
          Reason(code, s) \in advice.reasons => code = ReasonAdded(s, record, previous, now)
  BY <1>1, <1>3, CameFor
<1> HIDE DEF former, left, previous, record, now
<1>7. CASE s \in now.reviewed
  BY <1>5, <1>6, <1>7
<1>8. CASE s \notin now.reviewed /\ former.why \notin {"recorded", "proven"}
  BY <1>4, <1>5, <1>6, <1>8
<1>9. CASE s \notin now.reviewed /\ former.why \in {"recorded", "proven"}
  <2>1. ReasonAdded(s, record, previous, now) = IF Within(s, left) THEN "handoff_changed"
                                                                   ELSE "path_set_changed"
    BY <1>4, <1>5, <1>9
  <2> QED BY <1>6, <2>1
<1> QED BY <1>7, <1>8, <1>9

-----------------------------------------------------------------------------
LEMMA AdviceStarts ==
    ASSUME NEW wanted, Reviewable(wanted), InitAdvice(wanted)
    PROVE  AInv
<1> DEFINE record == IF wanted.release = "never" THEN None
                     ELSE Recorded(wanted.release, wanted.revision, wanted.cleared, wanted.then)
           needed == IF record = None THEN <<>> ELSE Needed(record, wanted.now)
<1>1. /\ review = [then |-> wanted.then, release |-> wanted.release, record |-> record,
                   now |-> wanted.now]
      /\ search = [kind |-> "lookup", entries |-> needed, base |-> wanted.git.base,
                   recent |-> wanted.git.recent, trees |-> wanted.git.trees]
      /\ pc = search.kind /\ item = 1 /\ advice = None
  BY DEF InitAdvice, InitSearch
<1>2. /\ review.then = wanted.then /\ review.release = wanted.release
      /\ review.record = record /\ review.now = wanted.now
      /\ search.kind = "lookup" /\ search.entries = needed
  <2> HIDE DEF record, needed
  <2> QED BY <1>1
<1>3. Compared
  BY <1>2 DEF Compared, Reviewable
<1>4. Len(needed) \in Nat /\ DOMAIN needed = 1 .. Len(needed)
  <2>1. CASE record = None
    BY <2>1
  <2>2. CASE record # None
    <3>1. /\ record.manifest = ManifestOver(wanted.then, ReviewedScope(wanted.release, wanted.then))
          /\ IsProject(wanted.then)
      BY <2>2, RecordedIs DEF Reviewable
    <3>2. /\ record.manifest.files \in Seq(ToSet(record.manifest.files))
          /\ record.manifest.imports \in Seq(ToSet(record.manifest.imports))
      BY <3>1, ManifestIs, ReviewedIs
    <3>3. PICK E : Entries(record.manifest) \in Seq(E)
      BY <3>2, EntriesAre
    <3>4. needed \in Seq(E)
      BY <2>2, <3>3, PickedIs DEF Needed
    <3> HIDE DEF needed
    <3> QED BY <3>4
  <2> QED BY <2>1, <2>2
<1> HIDE DEF record, needed
<1>5. LookedUp
  BY <1>1, <1>2, <1>4 DEF LookedUp, Inputs
<1>6. Advised
  BY <1>1 DEF Advised
<1> QED BY <1>3, <1>5, <1>6 DEF AInv

LEMMA AdviceGoesOn ==
    ASSUME AInv, [Evidence]_<<searchVars, adviceVars>>
    PROVE  AInv'
<1>1. CASE Searching /\ UNCHANGED adviceVars
  <2>1. LookedUp' /\ search' = search /\ pc # "done"
    BY <1>1, LookingOn DEF AInv
  <2>2. review' = review /\ advice' = advice
    BY <1>1 DEF adviceVars
  <2>3. Compared'
    BY <2>1, <2>2 DEF AInv, Compared
  <2>4. Advised'
    BY <2>1, <2>2 DEF AInv, Advised
  <2> QED BY <2>1, <2>3, <2>4 DEF AInv
<1>2. CASE Advise
  <2>1. /\ UNCHANGED <<search, history, pc, item, place, commits, hits, misses, round, answer,
                       trouble, reads>>
        /\ review' = review /\ pc = "done" /\ advice' = Advice(review.record, review.now)
    BY <1>2 DEF Advise, searchVars
  <2>2. LookedUp' /\ Compared'
    BY <2>1 DEF AInv, LookedUp, Compared, Inputs
  <2>3. Advice(review.record, review.now)' = Advice(review.record, review.now)
    BY <2>1 DEF Advice, Reasons, ReasonsFromRecord, Previous, Verified
  <2>4. Advised'
    BY <2>1, <2>3 DEF Advised
  <2> QED BY <2>2, <2>4 DEF AInv
<1>3. CASE UNCHANGED <<searchVars, adviceVars>>
  <2>1. UNCHANGED <<search, history, pc, item, place, commits, hits, misses, round, answer,
                    trouble, reads, review, advice>>
    BY <1>3 DEF searchVars, adviceVars
  <2>2. LookedUp' /\ Compared'
    BY <2>1 DEF AInv, LookedUp, Compared, Inputs
  <2>3. Advice(review.record, review.now)' = Advice(review.record, review.now)
    BY <2>1 DEF Advice, Reasons, ReasonsFromRecord, Previous, Verified
  <2>4. Advised'
    BY <2>1, <2>3 DEF AInv, Advised
  <2> QED BY <2>2, <2>4 DEF AInv
<1> QED BY <1>1, <1>2, <1>3 DEF Evidence

\* Whatever Git gave back and whatever release wrote the record, a reader who
\* follows focused advice reads every changed source and a section about it, and
\* nothing else that a review depends on changed (requirements.rs:228, build).
THEOREM FocusedIsSound == AdviceSpec => []FocusedReadingIsSound
<1>1. ASSUME NEW wanted, Reviewable(wanted), InitAdvice(wanted) PROVE AInv
  BY <1>1, AdviceStarts
<1>2. (\E wanted : Reviewable(wanted) /\ InitAdvice(wanted)) => AInv
  BY <1>1
<1>3. AInv /\ [Evidence]_<<searchVars, adviceVars>> => AInv'
  BY AdviceGoesOn
<1>4. AInv => FocusedReadingIsSound
  <2> SUFFICES ASSUME AInv, advice # None, advice.mode = "focused"
               PROVE  FocusedReadingIsSound
    BY DEF FocusedReadingIsSound
  <2> QED BY FocusedIs DEF AInv
<1> QED BY <1>2, <1>3, <1>4, PTL DEF AdviceSpec

\* A source that entered a scope is called the end of a handoff only when the last
\* review left its folder out, and a new path only when it did not, for records
\* that say so and for those whose token proves it (proven_former_exclusions).
THEOREM HandoffsTold == AdviceSpec => []HandoffsToldTruly
<1>1. ASSUME NEW wanted, Reviewable(wanted), InitAdvice(wanted) PROVE AInv
  BY <1>1, AdviceStarts
<1>2. (\E wanted : Reviewable(wanted) /\ InitAdvice(wanted)) => AInv
  BY <1>1
<1>3. AInv /\ [Evidence]_<<searchVars, adviceVars>> => AInv'
  BY AdviceGoesOn
<1>4. AInv => HandoffsToldTruly
  BY HandoffsAreTold DEF AInv
<1> QED BY <1>2, <1>3, <1>4, PTL DEF AdviceSpec
=============================================================================
