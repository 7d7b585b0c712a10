--------------------------- MODULE ImportsProofs ----------------------------
(***************************************************************************)
(* What the loops over paths, manifests and the import graph compute, for  *)
(* every set of paths and every graph: the order of paths, the merge of    *)
(* two manifests, the search for cycles, the order of documents and the    *)
(* one pass of the scheduler.                                              *)
(***************************************************************************)
EXTENDS Imports, FiniteSetTheorems, TLAPS

-----------------------------------------------------------------------------
(***************************************************************************)
(* Counting and least elements.                                            *)
(***************************************************************************)
\* A set of numbers that is not empty has a least one.
LEMMA LeastNumber ==
    ASSUME NEW T \in SUBSET Nat, T # {}
    PROVE  \E x \in T : \A y \in T : x <= y
<1> DEFINE R == {ss \in Nat \X Nat : ss[1] < ss[2]}
<1>1. IsWellFoundedOn(R, Nat)
  BY NatLessThanWellFounded DEF OpToRel
<1>2. \E x \in T : \A y \in T : <<y, x>> \notin R
  <2> HIDE DEF R
  <2> QED BY <1>1, WFMin
<1>3. \A x, y \in Nat : <<y, x>> \notin R => x <= y
  OBVIOUS
<1> HIDE DEF R
<1> QED BY <1>2, <1>3

\* What holds of 0 and of the next number after any that it holds of.
LEMMA Counting ==
    ASSUME NEW T \in SUBSET Nat, 0 \in T, \A n \in T : n + 1 \in T
    PROVE  T = Nat
<1> SUFFICES ASSUME Nat \ T # {} PROVE FALSE
  OBVIOUS
<1>1. PICK x \in Nat \ T : \A y \in Nat \ T : x <= y
  BY LeastNumber
<1>2. x - 1 \in T
  BY <1>1
<1> QED BY <1>1, <1>2

\* The same up to a bound: what a loop keeps holds to its end.
LEMMA CountingTo ==
    ASSUME NEW N \in Nat, NEW T, 0 \in T, \A n \in 0 .. N - 1 : n \in T => n + 1 \in T
    PROVE  N \in T /\ \A n \in 0 .. N : n \in T
<1> DEFINE S == {n \in Nat : n <= N => n \in T}
<1>1. 0 \in S /\ S \in SUBSET Nat
  OBVIOUS
<1>2. \A n \in S : n + 1 \in S
  OBVIOUS
<1>3. S = Nat
  <2> HIDE DEF S
  <2> QED BY <1>1, <1>2, Counting
<1> QED BY <1>3

\* A loop of N rounds over the values `Good` has its values one after another.
IsRound(next, N, Good) == next \in [(1 .. N) \X Good -> Good]

Values(f, N, Good, start, next) ==
    /\ f \in [0 .. N -> Good]
    /\ f[0] = start
    /\ \A n \in 1 .. N : f[n] = next[<<n, f[n - 1]>>]

LEMMA Loop ==
    ASSUME NEW N \in Nat, NEW Good, NEW start \in Good, NEW next, IsRound(next, N, Good)
    PROVE  \E f : Values(f, N, Good, start, next)
<1> DEFINE Runs(n, f) == /\ f \in [0 .. n -> Good] /\ f[0] = start
                         /\ \A m \in 1 .. n : f[m] = next[<<m, f[m - 1]>>]
           Ran(n) == \E f : Runs(n, f)
           T == {n \in 0 .. N : Ran(n)}
<1>0. next \in [(1 .. N) \X Good -> Good]
  BY DEF IsRound
<1>1. Ran(0)
  <2>1. Runs(0, [m \in 0 .. 0 |-> start])
    OBVIOUS
  <2> HIDE DEF Runs
  <2> QED BY <2>1
<1>2. ASSUME NEW n \in 0 .. N - 1, Ran(n)
      PROVE  Ran(n + 1)
  <2>1. PICK f : Runs(n, f)
    BY <1>2
  <2> DEFINE g == [m \in 0 .. n + 1 |-> IF m = n + 1 THEN next[<<n + 1, f[n]>>] ELSE f[m]]
  <2>2. next[<<n + 1, f[n]>>] \in Good
    <3>1. <<n + 1, f[n]>> \in (1 .. N) \X Good
      BY <2>1
    <3> QED BY <3>1, <1>0
  <2>3. g \in [0 .. n + 1 -> Good] /\ g[0] = start
    BY <2>1, <2>2
  <2>4. ASSUME NEW m \in 1 .. n + 1
        PROVE  g[m] = next[<<m, g[m - 1]>>]
    <3>1. m - 1 \in 0 .. n /\ g[m - 1] = f[m - 1]
      OBVIOUS
    <3>2. CASE m = n + 1
      <4>1. g[n + 1] = next[<<n + 1, f[n]>>] /\ (n + 1) - 1 = n
        OBVIOUS
      <4> HIDE DEF g
      <4> QED BY <3>1, <3>2, <4>1
    <3>3. CASE m \in 1 .. n
      <4>1. g[m] = f[m]
        BY <3>3
      <4> HIDE DEF g
      <4> QED BY <3>1, <3>3, <4>1, <2>1
    <3> QED BY <3>2, <3>3
  <2>5. Runs(n + 1, g)
    <3> HIDE DEF g
    <3> QED BY <2>3, <2>4
  <2> HIDE DEF Runs
  <2> QED BY <2>5
<1> HIDE DEF Ran
<1>3. 0 \in T /\ \A n \in 0 .. N - 1 : n \in T => n + 1 \in T
  BY <1>1, <1>2
<1>4. N \in T
  <2> HIDE DEF T
  <2> QED BY <1>3, CountingTo
<1> QED BY <1>4 DEF Ran, Values

LEMMA Ranks ==
    ASSUME NEW p \in Paths
    PROVE  Rank(p) \in Nat /\ Rank(p) \in DOMAIN PathOrder /\ PathOrder[Rank(p)] = p
<1>1. \E i \in DOMAIN PathOrder : PathOrder[i] = p
  BY DEF Paths
<1>2. Rank(p) \in DOMAIN PathOrder /\ PathOrder[Rank(p)] = p
  BY <1>1 DEF Rank
<1> QED BY <1>2, OrderIsSequence

\* The least of some paths is one of them, and none comes before it.
LEMMA LeastIsOne ==
    ASSUME NEW S \in SUBSET Paths, S # {}
    PROVE  Least(S) \in S /\ \A q \in S : Rank(Least(S)) <= Rank(q)
<1> DEFINE T == {Rank(p) : p \in S}
<1>1. T \in SUBSET Nat /\ T # {}
  BY Ranks
<1>2. PICK x \in T : \A y \in T : x <= y
  <2> HIDE DEF T
  <2> QED BY <1>1, LeastNumber
<1>3. \E p \in S : \A q \in S : Rank(p) <= Rank(q)
  BY <1>2
<1> QED BY <1>3 DEF Least

\* Among some paths there is a shortest one.
LEMMA Shortest ==
    ASSUME NEW S \in SUBSET Paths, S # {}
    PROVE  {x \in S : \A y \in S : Len(x) <= Len(y)} # {}
<1> DEFINE T == {Len(p) : p \in S}
<1>1. \A p \in S : Len(p) \in Nat
  <2> TAKE p \in S
  <2>1. p \in Seq(STRING)
    BY PathsAreNamed
  <2> QED BY <2>1
<1>2. T \in SUBSET Nat /\ T # {}
  BY <1>1
<1>3. PICK x \in T : \A y \in T : x <= y
  <2> HIDE DEF T
  <2> QED BY <1>2, LeastNumber
<1>4. PICK p \in S : Len(p) = x
  OBVIOUS
<1>5. \A y \in S : Len(p) <= Len(y)
  BY <1>3, <1>4
<1> QED BY <1>5

LEMMA PathsAreFinite == IsFiniteSet(Paths) /\ \A S \in SUBSET Paths : IsFiniteSet(S)
<1>1. PathOrder \in Surjection(1 .. Len(PathOrder), Paths)
  BY OrderIsSequence DEF Surjection, Paths
<1>2. IsFiniteSet(1 .. Len(PathOrder))
  BY OrderIsSequence, FS_Interval
<1>3. IsFiniteSet(Paths)
  BY <1>1, <1>2, FS_Surjection
<1> QED BY <1>3, FS_Subset

\* One more element at the end of a sequence.
LEMMA Appending ==
    ASSUME NEW T, NEW s \in Seq(T), NEW x \in T
    PROVE  /\ Append(s, x) \in Seq(T) /\ Len(Append(s, x)) = Len(s) + 1
           /\ \A i \in 1 .. Len(s) : Append(s, x)[i] = s[i]
           /\ Append(s, x)[Len(s) + 1] = x
           /\ ToSet(Append(s, x)) = ToSet(s) \cup {x}
<1>1. /\ Append(s, x) \in Seq(T) /\ Len(Append(s, x)) = Len(s) + 1
      /\ \A i \in 1 .. Len(s) : Append(s, x)[i] = s[i]
      /\ Append(s, x)[Len(s) + 1] = x
  OBVIOUS
<1>2. DOMAIN Append(s, x) = 1 .. Len(s) + 1 /\ DOMAIN s = 1 .. Len(s) /\ Len(s) \in Nat
  BY <1>1
<1>3. ToSet(Append(s, x)) = ToSet(s) \cup {x}
  <2>1. \A i \in 1 .. Len(s) + 1 : i \in 1 .. Len(s) \/ i = Len(s) + 1
    BY <1>2
  <2>2. Len(s) + 1 \in 1 .. Len(s) + 1 /\ \A i \in 1 .. Len(s) : i \in 1 .. Len(s) + 1
    BY <1>2
  <2> HIDE DEF Append
  <2>3. \A y \in ToSet(Append(s, x)) : y \in ToSet(s) \cup {x}
    BY <1>1, <1>2, <2>1 DEF ToSet
  <2>4. \A y \in ToSet(s) \cup {x} : y \in ToSet(Append(s, x))
    BY <1>1, <1>2, <2>2 DEF ToSet
  <2> QED BY <2>3, <2>4
<1> QED BY <1>1, <1>3

-----------------------------------------------------------------------------
(***************************************************************************)
(* Paths in byte order.                                                    *)
(***************************************************************************)
LEMMA InOrderIs ==
    ASSUME NEW S
    PROVE  InOrder(S) \in Seq(Paths) /\ ToSet(InOrder(S)) = S \cap Paths
<1> DEFINE N == Len(PathOrder)
           B(n, s) == IF PathOrder[n] \in S THEN Append(s, PathOrder[n]) ELSE s
           Is(f) == f = [n \in 0 .. N |-> IF n = 0 THEN <<>> ELSE B(n, f[n - 1])]
           kept == CHOOSE f : Is(f)
<1>1. N \in Nat /\ \A n \in 1 .. N : PathOrder[n] \in Paths
  BY OrderIsSequence
<1>2. InOrder(S) = kept[N]
  BY DEF InOrder
<1>3. Is(kept)
  <2> DEFINE Good == Seq(Paths)
             next == [q \in (1 .. N) \X Good |-> B(q[1], q[2])]
  <2>1. \A n \in 1 .. N : \A s \in Good : B(n, s) \in Good
    BY <1>1
  <2>2. <<>> \in Good /\ N \in Nat
    BY <1>1
  <2> HIDE DEF B, N, Good
  <2>3. IsRound(next, N, Good)
    BY <2>1 DEF IsRound
  <2>4. \A n \in 1 .. N : \A s \in Good : next[<<n, s>>] = B(n, s)
    OBVIOUS
  <2> HIDE DEF next
  <2>5. PICK f : Values(f, N, Good, <<>>, next)
    BY <2>2, <2>3, Loop
  <2>6. \A n \in 1 .. N : f[n - 1] \in Good
    BY <2>2, <2>5 DEF Values
  <2>7. \A n \in 1 .. N : f[n] = B(n, f[n - 1])
    BY <2>4, <2>5, <2>6 DEF Values
  <2>8. Is(f)
    BY <2>2, <2>5, <2>7 DEF Values
  <2> HIDE DEF Is
  <2> QED BY <2>8
<1> HIDE DEF kept
<1>4. kept[0] = <<>> /\ \A n \in 1 .. N : kept[n] = B(n, kept[n - 1])
  <2> HIDE DEF B, N
  <2> QED BY <1>1, <1>3
<1> DEFINE P(n) == /\ kept[n] \in Seq(Paths)
                   /\ ToSet(kept[n]) = S \cap {PathOrder[i] : i \in 1 .. n}
           T == {n \in 0 .. N : P(n)}
<1>5. P(0)
  <2>1. ToSet(<<>>) = {} /\ {PathOrder[i] : i \in 1 .. 0} = {}
    BY DEF ToSet
  <2> QED BY <2>1, <1>4
<1>6. ASSUME NEW n \in 0 .. N - 1, P(n)
      PROVE  P(n + 1)
  <2>1. kept[n + 1] = B(n + 1, kept[n]) /\ n + 1 \in 1 .. N
    <3> HIDE DEF B
    <3>1. n + 1 \in 1 .. N /\ (n + 1) - 1 = n
      BY <1>1
    <3> QED BY <1>4, <3>1
  <2>2. {PathOrder[i] : i \in 1 .. n + 1} = {PathOrder[i] : i \in 1 .. n} \cup {PathOrder[n + 1]}
    <3>1. 1 .. n + 1 = (1 .. n) \cup {n + 1}
      BY <1>1
    <3> QED BY <3>1
  <2>3. CASE PathOrder[n + 1] \in S
    <3>1. kept[n + 1] = Append(kept[n], PathOrder[n + 1])
      BY <2>1, <2>3
    <3>2. /\ Append(kept[n], PathOrder[n + 1]) \in Seq(Paths)
          /\ ToSet(Append(kept[n], PathOrder[n + 1])) = ToSet(kept[n]) \cup {PathOrder[n + 1]}
      BY <1>1, <1>6, <2>1, Appending
    <3> QED BY <3>1, <3>2, <2>2, <2>3, <1>6
  <2>4. CASE PathOrder[n + 1] \notin S
    BY <2>1, <2>2, <2>4, <1>6
  <2> QED BY <2>3, <2>4
<1>7. P(N)
  <2> HIDE DEF P, N
  <2>1. 0 \in T /\ \A n \in 0 .. N - 1 : n \in T => n + 1 \in T
    BY <1>1, <1>5, <1>6
  <2> HIDE DEF T
  <2>2. N \in T
    BY <2>1, <1>1, CountingTo
  <2> QED BY <2>2 DEF T
<1> QED BY <1>1, <1>2, <1>7, OrderIsSequence DEF Paths

-----------------------------------------------------------------------------
(***************************************************************************)
(* The merge of two manifests.                                             *)
(***************************************************************************)
Changes(old, new) ==
    [change : {"removed", "added", "changed"}, key : Keys(old, new)]

Merging(old, new) ==
    [i : 1 .. Len(old) + 1, j : 1 .. Len(new) + 1, out : Seq(Changes(old, new))]

Change(kind, key) == [change |-> kind, key |-> key]

Drops(m, old, new, before) ==
    /\ m.i <= Len(old)
    /\ Merge(m, old, new, before) =
          [i |-> m.i + 1, j |-> m.j, out |-> Append(m.out, Change("removed", old[m.i].key))]

Takes(m, old, new, before) ==
    /\ m.j <= Len(new)
    /\ Merge(m, old, new, before) =
          [i |-> m.i, j |-> m.j + 1, out |-> Append(m.out, Change("added", new[m.j].key))]

Pairs(m, old, new, before) ==
    /\ m.i <= Len(old) /\ m.j <= Len(new)
    /\ <<old[m.i].key, new[m.j].key>> \notin before
    /\ <<new[m.j].key, old[m.i].key>> \notin before
    /\ \/ /\ old[m.i] = new[m.j]
          /\ Merge(m, old, new, before) = [i |-> m.i + 1, j |-> m.j + 1, out |-> m.out]
       \/ /\ old[m.i] # new[m.j]
          /\ Merge(m, old, new, before) =
                [i |-> m.i + 1, j |-> m.j + 1,
                 out |-> Append(m.out, Change("changed", old[m.i].key))]

Merged(m, old, new, before) ==
    m.i > Len(old) /\ m.j > Len(new) /\ Merge(m, old, new, before) = m

\* One step of the merge.
LEMMA MergeSteps ==
    ASSUME NEW E, NEW old \in Seq(E), NEW new \in Seq(E), NEW before,
           NEW m \in Merging(old, new)
    PROVE  \/ Drops(m, old, new, before) \/ Takes(m, old, new, before)
           \/ Pairs(m, old, new, before) \/ Merged(m, old, new, before)
<1>1. /\ m.i \in Nat /\ m.j \in Nat /\ Len(old) \in Nat /\ Len(new) \in Nat
      /\ m.i <= Len(old) \/ m.i > Len(old)
      /\ m.j <= Len(new) \/ m.j > Len(new)
  BY DEF Merging
<1> DEFINE gone  == m.i <= Len(old) /\ (m.j <= Len(new) => <<old[m.i].key, new[m.j].key>> \in before)
           fresh == m.j <= Len(new) /\ (m.i <= Len(old) => <<new[m.j].key, old[m.i].key>> \in before)
           same  == m.i <= Len(old) /\ m.j <= Len(new)
<1>2. CASE gone
  BY <1>2 DEF Merge, Drops, Change
<1>3. CASE ~gone /\ fresh
  BY <1>3 DEF Merge, Takes, Change
<1>4. CASE ~gone /\ ~fresh /\ same
  BY <1>4 DEF Merge, Pairs, Change
<1>5. CASE ~gone /\ ~fresh /\ ~same
  BY <1>1, <1>5 DEF Merge, Merged
<1> QED BY <1>2, <1>3, <1>4, <1>5

LEMMA KeysAre ==
    ASSUME NEW E, NEW old \in Seq(E), NEW new \in Seq(E)
    PROVE  /\ \A i \in 1 .. Len(old) : old[i].key \in Keys(old, new)
           /\ \A j \in 1 .. Len(new) : new[j].key \in Keys(old, new)
BY DEF Keys

\* What a merge has found so far, and how far it has come after n steps.
FromOld(m, old) ==
    \A c \in ToSet(m.out) : c.change = "removed" => c.key \in {old[i].key : i \in DOMAIN old}

FromNew(m, new) ==
    \A c \in ToSet(m.out) : c.change = "added" => c.key \in {new[j].key : j \in DOMAIN new}

Changed(out) == \A c \in ToSet(out) : c.change = "changed"

Aligned(k, out, old, new, before) ==
    /\ <<old[k].key, new[k].key>> \notin before
    /\ <<new[k].key, old[k].key>> \notin before
    /\ old[k] = new[k] \/ Change("changed", old[k].key) \in ToSet(out)

MergeInv(m, n, old, new, before) ==
    /\ m \in Merging(old, new)
    /\ FromOld(m, old) /\ FromNew(m, new)
    /\ Changed(m.out) => /\ m.i = m.j
                         /\ \A k \in 1 .. m.i - 1 : Aligned(k, m.out, old, new, before)
    /\ m.i + m.j >= n + 2 \/ (m.i > Len(old) /\ m.j > Len(new))

LEMMA MergeKeeps ==
    ASSUME NEW E, NEW old \in Seq(E), NEW new \in Seq(E), NEW before,
           NEW n \in Nat, NEW m, MergeInv(m, n, old, new, before)
    PROVE  MergeInv(Merge(m, old, new, before), n + 1, old, new, before)
<1> DEFINE next == Merge(m, old, new, before)
           Ch == Changes(old, new)
<1>1. /\ m \in Merging(old, new) /\ m.i \in 1 .. Len(old) + 1 /\ m.j \in 1 .. Len(new) + 1
      /\ m.out \in Seq(Ch)
      /\ Len(old) \in Nat /\ Len(new) \in Nat
      /\ DOMAIN old = 1 .. Len(old) /\ DOMAIN new = 1 .. Len(new)
  BY DEF MergeInv, Merging
<1>2. CASE Drops(m, old, new, before)
  <2> DEFINE c == Change("removed", old[m.i].key)
  <2>1. next = [i |-> m.i + 1, j |-> m.j, out |-> Append(m.out, c)] /\ m.i \in 1 .. Len(old)
    BY <1>1, <1>2 DEF Drops
  <2>2. c \in Ch /\ c.change = "removed" /\ c.key = old[m.i].key
    BY <2>1, KeysAre DEF Changes, Change
  <2> HIDE DEF Ch, next, c
  <2>3. Append(m.out, c) \in Seq(Ch) /\ ToSet(Append(m.out, c)) = ToSet(m.out) \cup {c}
    BY <1>1, <2>2, Appending
  <2>4. next.i = m.i + 1 /\ next.j = m.j /\ next.out = Append(m.out, c)
    BY <2>1
  <2>5. next \in Merging(old, new)
    BY <1>1, <2>1, <2>3 DEF Merging, Ch
  <2>6. FromOld(next, old) /\ FromNew(next, new) /\ ~Changed(next.out)
    BY <1>1, <2>1, <2>2, <2>3, <2>4 DEF MergeInv, FromOld, FromNew, Changed
  <2> QED BY <1>1, <2>4, <2>5, <2>6 DEF MergeInv, next
<1>3. CASE Takes(m, old, new, before)
  <2> DEFINE c == Change("added", new[m.j].key)
  <2>1. next = [i |-> m.i, j |-> m.j + 1, out |-> Append(m.out, c)] /\ m.j \in 1 .. Len(new)
    BY <1>1, <1>3 DEF Takes
  <2>2. c \in Ch /\ c.change = "added" /\ c.key = new[m.j].key
    BY <2>1, KeysAre DEF Changes, Change
  <2> HIDE DEF Ch, next, c
  <2>3. Append(m.out, c) \in Seq(Ch) /\ ToSet(Append(m.out, c)) = ToSet(m.out) \cup {c}
    BY <1>1, <2>2, Appending
  <2>4. next.i = m.i /\ next.j = m.j + 1 /\ next.out = Append(m.out, c)
    BY <2>1
  <2>5. next \in Merging(old, new)
    BY <1>1, <2>1, <2>3 DEF Merging, Ch
  <2>6. FromOld(next, old) /\ FromNew(next, new) /\ ~Changed(next.out)
    BY <1>1, <2>1, <2>2, <2>3, <2>4 DEF MergeInv, FromOld, FromNew, Changed
  <2> QED BY <1>1, <2>4, <2>5, <2>6 DEF MergeInv, next
<1>4. CASE Pairs(m, old, new, before)
  <2>1. m.i \in 1 .. Len(old) /\ m.j \in 1 .. Len(new)
    BY <1>1, <1>4 DEF Pairs
  <2>2. CASE old[m.i] = new[m.j]
    <3>1. next = [i |-> m.i + 1, j |-> m.j + 1, out |-> m.out]
      BY <1>4, <2>2 DEF Pairs
    <3> HIDE DEF Ch, next
    <3>2. next.i = m.i + 1 /\ next.j = m.j + 1 /\ next.out = m.out
      BY <3>1
    <3>3. next \in Merging(old, new)
      BY <1>1, <2>1, <3>1 DEF Merging, Ch
    <3>4. Changed(next.out) => /\ next.i = next.j
                               /\ \A k \in 1 .. next.i - 1 : Aligned(k, next.out, old, new, before)
      <4> SUFFICES ASSUME Changed(next.out), NEW k \in 1 .. next.i - 1
                   PROVE  next.i = next.j /\ Aligned(k, next.out, old, new, before)
        BY <1>1, <2>1, <3>2 DEF MergeInv
      <4>1. m.i = m.j /\ \A kk \in 1 .. m.i - 1 : Aligned(kk, m.out, old, new, before)
        BY <3>2 DEF MergeInv
      <4>2. k \in 1 .. m.i - 1 \/ k = m.i
        BY <1>1, <3>2
      <4>3. Aligned(m.i, m.out, old, new, before)
        BY <1>4, <2>2, <4>1 DEF Pairs, Aligned
      <4> QED BY <3>2, <4>1, <4>2, <4>3
    <3> QED BY <1>1, <3>2, <3>3, <3>4 DEF MergeInv, FromOld, FromNew, next
  <2>3. CASE old[m.i] # new[m.j]
    <3> DEFINE c == Change("changed", old[m.i].key)
    <3>1. next = [i |-> m.i + 1, j |-> m.j + 1, out |-> Append(m.out, c)]
      BY <1>4, <2>3 DEF Pairs
    <3>2. c \in Ch /\ c.change = "changed"
      BY <2>1, KeysAre DEF Changes, Change
    <3>3. c = Change("changed", old[m.i].key)
      OBVIOUS
    <3> HIDE DEF Ch, next, c
    <3>4. Append(m.out, c) \in Seq(Ch) /\ ToSet(Append(m.out, c)) = ToSet(m.out) \cup {c}
      BY <1>1, <3>2, Appending
    <3>5. next.i = m.i + 1 /\ next.j = m.j + 1 /\ next.out = Append(m.out, c)
      BY <3>1
    <3>6. next \in Merging(old, new)
      BY <1>1, <2>1, <3>1, <3>4 DEF Merging, Ch
    <3>7. FromOld(next, old) /\ FromNew(next, new) /\ (Changed(next.out) => Changed(m.out))
      BY <3>2, <3>4, <3>5 DEF MergeInv, FromOld, FromNew, Changed
    <3>8. Changed(next.out) => /\ next.i = next.j
                               /\ \A k \in 1 .. next.i - 1 : Aligned(k, next.out, old, new, before)
      <4> SUFFICES ASSUME Changed(next.out), NEW k \in 1 .. next.i - 1
                   PROVE  next.i = next.j /\ Aligned(k, next.out, old, new, before)
        BY <1>1, <2>1, <3>5, <3>7 DEF MergeInv
      <4>1. m.i = m.j /\ \A kk \in 1 .. m.i - 1 : Aligned(kk, m.out, old, new, before)
        BY <3>7 DEF MergeInv
      <4>2. k \in 1 .. m.i - 1 \/ k = m.i
        BY <1>1, <3>5
      <4>3. Aligned(m.i, next.out, old, new, before)
        BY <1>4, <3>3, <3>4, <3>5, <4>1 DEF Pairs, Aligned
      <4>4. k \in 1 .. m.i - 1 => Aligned(k, next.out, old, new, before)
        BY <3>4, <3>5, <4>1 DEF Aligned
      <4> QED BY <3>5, <4>1, <4>2, <4>3, <4>4
    <3> QED BY <1>1, <3>5, <3>6, <3>7, <3>8 DEF MergeInv, next
  <2> QED BY <2>2, <2>3
<1>5. CASE Merged(m, old, new, before)
  BY <1>1, <1>5 DEF Merged, MergeInv
<1> QED BY <1>1, <1>2, <1>3, <1>4, <1>5, MergeSteps

\* What the merge has come to after its last step.
LEMMA MergeEnds ==
    ASSUME NEW E, NEW old \in Seq(E), NEW new \in Seq(E), NEW before
    PROVE  \E m : /\ MergeInv(m, Len(old) + Len(new), old, new, before)
                  /\ DiffSorted(old, new, before) = m.out
<1> DEFINE N == Len(old) + Len(new)
           first == [i |-> 1, j |-> 1, out |-> <<>>]
           Is(f) == f = [n \in 0 .. N |->
                           IF n = 0 THEN first ELSE Merge(f[n - 1], old, new, before)]
           merge == CHOOSE f : Is(f)
           Good == Merging(old, new)
<1>1. DiffSorted(old, new, before) = merge[N].out
  BY DEF DiffSorted
<1>2. N \in Nat
  OBVIOUS
<1>3. first \in Good /\ MergeInv(first, 0, old, new, before)
  <2>1. first \in Good /\ first.i = 1 /\ first.j = 1 /\ first.out = <<>> /\ ToSet(<<>>) = {}
    BY DEF Merging, ToSet
  <2> QED BY <2>1 DEF MergeInv, FromOld, FromNew
<1>4. \A m \in Good : Merge(m, old, new, before) \in Good
  <2> TAKE m \in Good
  <2>1. /\ m.i \in 1 .. Len(old) + 1 /\ m.j \in 1 .. Len(new) + 1 /\ m.out \in Seq(Changes(old, new))
        /\ DOMAIN old = 1 .. Len(old) /\ DOMAIN new = 1 .. Len(new)
        /\ Len(old) \in Nat /\ Len(new) \in Nat
    BY DEF Merging
  <2>2. /\ m.i <= Len(old) => /\ Change("removed", old[m.i].key) \in Changes(old, new)
                              /\ Change("changed", old[m.i].key) \in Changes(old, new)
        /\ m.j <= Len(new) => Change("added", new[m.j].key) \in Changes(old, new)
    BY <2>1, KeysAre DEF Changes, Change
  <2>3. \A c \in Changes(old, new) : Append(m.out, c) \in Seq(Changes(old, new))
    BY <2>1, Appending
  <2>4. CASE Drops(m, old, new, before)
    BY <2>1, <2>2, <2>3, <2>4 DEF Drops, Merging
  <2>5. CASE Takes(m, old, new, before)
    BY <2>1, <2>2, <2>3, <2>5 DEF Takes, Merging
  <2>6. CASE Pairs(m, old, new, before)
    <3>1. m.i \in 1 .. Len(old) /\ m.j \in 1 .. Len(new)
      BY <2>1, <2>6 DEF Pairs
    <3>2. CASE old[m.i] = new[m.j]
      BY <2>1, <2>6, <3>1, <3>2 DEF Pairs, Merging
    <3>3. CASE old[m.i] # new[m.j]
      <4>1. Append(m.out, Change("changed", old[m.i].key)) \in Seq(Changes(old, new))
        BY <2>2, <2>3, <3>1
      <4>2. Merge(m, old, new, before)
               = [i |-> m.i + 1, j |-> m.j + 1,
                  out |-> Append(m.out, Change("changed", old[m.i].key))]
        BY <2>6, <3>3 DEF Pairs
      <4> QED BY <2>1, <3>1, <4>1, <4>2 DEF Merging
    <3> QED BY <3>2, <3>3
  <2>7. CASE Merged(m, old, new, before)
    BY <2>7 DEF Merged
  <2> QED BY <2>4, <2>5, <2>6, <2>7, MergeSteps
<1> HIDE DEF N, first, Good
<1>5. Is(merge)
  <2> DEFINE next == [q \in (1 .. N) \X Good |-> Merge(q[2], old, new, before)]
  <2>1. IsRound(next, N, Good)
    BY <1>4 DEF IsRound
  <2>2. \A n \in 1 .. N : \A m \in Good : next[<<n, m>>] = Merge(m, old, new, before)
    OBVIOUS
  <2> HIDE DEF next
  <2>3. PICK f : Values(f, N, Good, first, next)
    BY <1>2, <1>3, <2>1, Loop
  <2>4. \A n \in 1 .. N : f[n - 1] \in Good
    BY <1>2, <2>3 DEF Values
  <2>5. \A n \in 1 .. N : f[n] = Merge(f[n - 1], old, new, before)
    BY <2>2, <2>3, <2>4 DEF Values
  <2>6. Is(f)
    BY <1>2, <2>3, <2>5 DEF Values
  <2> HIDE DEF Is
  <2> QED BY <2>6
<1> HIDE DEF merge
<1>6. merge[0] = first /\ \A n \in 1 .. N : merge[n] = Merge(merge[n - 1], old, new, before)
  BY <1>2, <1>5
<1> DEFINE P(n) == MergeInv(merge[n], n, old, new, before)
           T == {n \in 0 .. N : P(n)}
<1>7. ASSUME NEW n \in 0 .. N - 1, P(n)
      PROVE  P(n + 1)
  <2>1. n + 1 \in 1 .. N /\ (n + 1) - 1 = n /\ n \in Nat
    BY <1>2
  <2>2. merge[n + 1] = Merge(merge[n], old, new, before)
    BY <1>6, <2>1
  <2> QED BY <1>7, <2>1, <2>2, MergeKeeps
<1>8. P(N)
  <2>1. P(0)
    BY <1>3, <1>6
  <2> HIDE DEF P
  <2>2. 0 \in T /\ \A n \in 0 .. N - 1 : n \in T => n + 1 \in T
    BY <1>2, <1>7, <2>1
  <2> HIDE DEF T
  <2>3. N \in T
    BY <1>2, <2>2, CountingTo
  <2> QED BY <2>3 DEF T
<1> QED BY <1>1, <1>8 DEF N

\* What the comparison says was removed was there, what it says was added is,
\* and if it says neither, the keys are the same and it tells every change.
LEMMA DiffTells ==
    ASSUME NEW E, NEW old \in Seq(E), NEW new \in Seq(E), NEW before
    PROVE  LET out == DiffSorted(old, new, before)
           IN  /\ out \in Seq(Changes(old, new))
               /\ \A c \in ToSet(out) :
                     /\ c.change = "removed" => c.key \in {old[i].key : i \in DOMAIN old}
                     /\ c.change = "added" => c.key \in {new[j].key : j \in DOMAIN new}
               /\ Changed(out) =>
                     /\ Len(old) = Len(new)
                     /\ \A k \in 1 .. Len(old) : Aligned(k, out, old, new, before)
<1>1. PICK m : /\ MergeInv(m, Len(old) + Len(new), old, new, before)
               /\ DiffSorted(old, new, before) = m.out
  BY MergeEnds
<1>2. /\ m.i \in 1 .. Len(old) + 1 /\ m.j \in 1 .. Len(new) + 1
      /\ m.out \in Seq(Changes(old, new)) /\ Len(old) \in Nat /\ Len(new) \in Nat
  BY <1>1 DEF MergeInv, Merging
<1>3. m.i = Len(old) + 1 /\ m.j = Len(new) + 1
  BY <1>1, <1>2 DEF MergeInv
<1> QED BY <1>1, <1>2, <1>3 DEF MergeInv, FromOld, FromNew

LEMMA NothingIn == ToSet(<<>>) = {}
BY DEF ToSet

\* The comparison finds nothing only between equal manifests.
LEMMA NoDifference ==
    ASSUME NEW E, NEW old \in Seq(E), NEW new \in Seq(E), NEW before,
           DiffSorted(old, new, before) = <<>>
    PROVE  old = new
<1>1. Changed(DiffSorted(old, new, before)) /\ ToSet(DiffSorted(old, new, before)) = {}
  BY NothingIn DEF Changed
<1>2. Len(old) = Len(new) /\ \A k \in 1 .. Len(old) : old[k] = new[k]
  BY <1>1, DiffTells DEF Aligned
<1> QED BY <1>2

\* And between equal manifests it finds nothing.
LEMMA SameManifest ==
    ASSUME NEW E, NEW old \in Seq(E), NEW before,
           \A i \in 1 .. Len(old) : <<old[i].key, old[i].key>> \notin before
    PROVE  DiffSorted(old, old, before) = <<>>
<1> DEFINE N == Len(old) + Len(old)
           first == [i |-> 1, j |-> 1, out |-> <<>>]
           Is(f) == f = [n \in 0 .. N |->
                           IF n = 0 THEN first ELSE Merge(f[n - 1], old, old, before)]
           merge == CHOOSE f : Is(f)
           Good == {m \in [i : 1 .. Len(old) + 1, j : 1 .. Len(old) + 1, out : {<<>>}] : m.i = m.j}
<1>1. DiffSorted(old, old, before) = merge[N].out
  BY DEF DiffSorted
<1>2. N \in Nat /\ Len(old) \in Nat
  OBVIOUS
<1>3. first \in Good
  OBVIOUS
<1>4. \A m \in Good : Merge(m, old, old, before) \in Good
  <2> TAKE m \in Good
  <2>1. /\ m \in Merging(old, old) /\ m.i \in 1 .. Len(old) + 1 /\ m.j = m.i /\ m.out = <<>>
    <3>1. /\ m = [i |-> m.i, j |-> m.j, out |-> m.out]
          /\ m.i \in 1 .. Len(old) + 1 /\ m.j = m.i /\ m.out = <<>>
      OBVIOUS
    <3>2. <<>> \in Seq(Changes(old, old))
      OBVIOUS
    <3> HIDE DEF Good
    <3> QED BY <3>1, <3>2 DEF Merging
  <2>2. ~Drops(m, old, old, before) /\ ~Takes(m, old, old, before)
    <3>1. CASE m.i <= Len(old)
      BY <2>1, <3>1 DEF Merge, Drops, Takes
    <3>2. CASE m.i > Len(old)
      BY <2>1, <3>2 DEF Merge, Drops, Takes
    <3> QED BY <1>2, <2>1, <3>1, <3>2
  <2>3. CASE Pairs(m, old, old, before)
    BY <1>2, <2>1, <2>3 DEF Pairs
  <2>4. CASE Merged(m, old, old, before)
    BY <2>4 DEF Merged
  <2> QED BY <2>1, <2>2, <2>3, <2>4, MergeSteps
<1> HIDE DEF N, first
<1>5. Is(merge)
  <2> HIDE DEF Good
  <2> DEFINE next == [q \in (1 .. N) \X Good |-> Merge(q[2], old, old, before)]
  <2>1. IsRound(next, N, Good)
    BY <1>4 DEF IsRound
  <2>2. \A n \in 1 .. N : \A m \in Good : next[<<n, m>>] = Merge(m, old, old, before)
    OBVIOUS
  <2> HIDE DEF next
  <2>3. PICK f : Values(f, N, Good, first, next)
    BY <1>2, <1>3, <2>1, Loop
  <2>4. \A n \in 1 .. N : f[n - 1] \in Good
    BY <1>2, <2>3 DEF Values
  <2>5. \A n \in 1 .. N : f[n] = Merge(f[n - 1], old, old, before)
    BY <2>2, <2>3, <2>4 DEF Values
  <2>6. Is(f)
    BY <1>2, <2>3, <2>5 DEF Values
  <2> HIDE DEF Is
  <2> QED BY <2>6
<1> HIDE DEF merge
<1> DEFINE T == {n \in 0 .. N : merge[n] \in Good}
<1>6. merge[0] = first /\ \A n \in 1 .. N : merge[n] = Merge(merge[n - 1], old, old, before)
  BY <1>2, <1>5
<1>7. 0 \in T /\ \A n \in 0 .. N - 1 : n \in T => n + 1 \in T
  <2> HIDE DEF Good
  <2>1. 0 \in T
    BY <1>2, <1>3, <1>6
  <2>2. ASSUME NEW n \in 0 .. N - 1, n \in T PROVE n + 1 \in T
    <3>1. n + 1 \in 1 .. N /\ (n + 1) - 1 = n
      BY <1>2
    <3> QED BY <1>4, <1>6, <2>2, <3>1
  <2> QED BY <2>1, <2>2
<1>8. N \in T
  <2> HIDE DEF T
  <2> QED BY <1>2, <1>7, CountingTo
<1> QED BY <1>1, <1>8

-----------------------------------------------------------------------------
(***************************************************************************)
(* Imports in order.                                                       *)
(***************************************************************************)
ImportKey == [document : Paths, export : Nat]

\* Among some imports one comes before all the others.
LEMMA FirstImport ==
    ASSUME NEW rest \in SUBSET ImportKey, rest # {}
    PROVE  \E k \in rest : \A other \in rest \ {k} : ImportBefore(k, other)
<1> DEFINE ranks == {Rank(k.document) : k \in rest}
<1>1. \A k \in rest : /\ k.document \in Paths /\ k.export \in Nat /\ Rank(k.document) \in Nat
                      /\ PathOrder[Rank(k.document)] = k.document
                      /\ k = [document |-> k.document, export |-> k.export]
  BY Ranks DEF ImportKey
<1>2. PICK r \in ranks : \A y \in ranks : r <= y
  <2>1. ranks \in SUBSET Nat /\ ranks # {}
    BY <1>1
  <2> HIDE DEF ranks
  <2> QED BY <2>1, LeastNumber
<1> DEFINE here == {k \in rest : Rank(k.document) = r}
           exports == {k.export : k \in here}
<1>3. PICK e \in exports : \A y \in exports : e <= y
  <2>1. exports \in SUBSET Nat /\ exports # {}
    BY <1>1, <1>2
  <2> HIDE DEF exports
  <2> QED BY <2>1, LeastNumber
<1>4. PICK k \in here : k.export = e
  BY <1>3
<1>5. ASSUME NEW other \in rest \ {k}
      PROVE  ImportBefore(k, other)
  <2>1. /\ k \in rest /\ Rank(k.document) = r /\ Rank(other.document) \in ranks
        /\ r <= Rank(other.document)
    BY <1>2, <1>4
  <2>2. CASE Rank(other.document) = r
    <3>1. other \in here /\ other.export \in exports /\ k.export <= other.export
      BY <1>3, <1>4, <2>2
    <3>2. k.document = other.document
      BY <1>1, <2>1, <2>2
    <3>3. k.export # other.export
      BY <1>1, <2>1, <3>2
    <3> QED BY <1>1, <2>1, <3>1, <3>2, <3>3 DEF ImportBefore
  <2>3. CASE Rank(other.document) # r
    <3>1. Rank(k.document) < Rank(other.document)
      BY <1>1, <2>1, <2>3
    <3> QED BY <3>1 DEF ImportBefore
  <2> QED BY <2>2, <2>3
<1> QED BY <1>4, <1>5

LEMMA InImportOrderIs ==
    ASSUME NEW keys \in SUBSET ImportKey, IsFiniteSet(keys)
    PROVE  InImportOrder(keys) \in Seq(keys)
<1> DEFINE N == Cardinality(keys)
           First(rest) == CHOOSE k \in rest : \A other \in rest \ {k} : ImportBefore(k, other)
           B(out) == Append(out, First(keys \ ToSet(out)))
           Is(f) == f = [n \in 0 .. N |-> IF n = 0 THEN <<>> ELSE B(f[n - 1])]
           taken == CHOOSE f : Is(f)
           T == {First(rest) : rest \in SUBSET keys}
           Good == Seq(T)
<1>1. InImportOrder(keys) = taken[N]
  BY DEF InImportOrder
<1>2. N \in Nat
  BY FS_CardinalityType
<1>3. <<>> \in Good
  OBVIOUS
<1>4. \A out \in Good : B(out) \in Good
  <2> TAKE out \in Good
  <2>1. First(keys \ ToSet(out)) \in T
    <3> HIDE DEF First
    <3> QED OBVIOUS
  <2> HIDE DEF First, T
  <2> QED BY <2>1, Appending
<1>5. \A out : keys \ ToSet(out) # {} => First(keys \ ToSet(out)) \in keys \ ToSet(out)
  <2> TAKE out
  <2> DEFINE rest == keys \ ToSet(out)
  <2> SUFFICES ASSUME rest # {} PROVE First(rest) \in rest
    OBVIOUS
  <2>1. rest \in SUBSET ImportKey
    OBVIOUS
  <2> HIDE DEF rest
  <2>2. \E k \in rest : \A other \in rest \ {k} : ImportBefore(k, other)
    BY <2>1, FirstImport
  <2> QED BY <2>2
<1> HIDE DEF N, Good
<1>6. Is(taken)
  <2> HIDE DEF B
  <2> DEFINE next == [q \in (1 .. N) \X Good |-> B(q[2])]
  <2>1. IsRound(next, N, Good)
    BY <1>4 DEF IsRound
  <2>2. \A n \in 1 .. N : \A s \in Good : next[<<n, s>>] = B(s)
    OBVIOUS
  <2> HIDE DEF next
  <2>3. PICK f : Values(f, N, Good, <<>>, next)
    BY <1>2, <1>3, <2>1, Loop
  <2>4. \A n \in 1 .. N : f[n - 1] \in Good
    BY <1>2, <2>3 DEF Values
  <2>5. \A n \in 1 .. N : f[n] = B(f[n - 1])
    BY <2>2, <2>3, <2>4 DEF Values
  <2>6. Is(f)
    BY <1>2, <2>3, <2>5 DEF Values
  <2> HIDE DEF Is
  <2> QED BY <2>6
<1> HIDE DEF taken
<1>7. taken[0] = <<>> /\ \A n \in 1 .. N : taken[n] = B(taken[n - 1])
  <2> HIDE DEF B
  <2> QED BY <1>2, <1>6
<1> DEFINE P(n) == taken[n] \in Seq(keys) /\ Cardinality(ToSet(taken[n])) = n
                   /\ ToSet(taken[n]) \subseteq keys
           R == {n \in 0 .. N : P(n)}
<1>8. P(0)
  <2>1. taken[0] = <<>> /\ <<>> \in Seq(keys) /\ ToSet(<<>>) = {} /\ Cardinality({}) = 0
    BY <1>7, NothingIn, FS_EmptySet
  <2> QED BY <2>1
<1>9. ASSUME NEW n \in 0 .. N - 1, P(n)
      PROVE  P(n + 1)
  <2> DEFINE out == taken[n]
             k == First(keys \ ToSet(out))
  <2>1. n + 1 \in 1 .. N /\ (n + 1) - 1 = n /\ n < N
    BY <1>2
  <2>2. out \in Seq(keys) /\ Cardinality(ToSet(out)) = n /\ ToSet(out) \subseteq keys
    BY <1>9
  <2>3. taken[n + 1] = Append(out, k)
    <3> HIDE DEF First
    <3> QED BY <1>7, <2>1
  <2>4. keys \ ToSet(out) # {}
    <3> SUFFICES ASSUME keys \ ToSet(out) = {} PROVE FALSE
      OBVIOUS
    <3>1. ToSet(out) = keys
      BY <2>2
    <3> QED BY <2>1, <2>2, <3>1 DEF N
  <2>5. k \in keys \ ToSet(out)
    <3> HIDE DEF First
    <3> QED BY <1>5, <2>4
  <2> HIDE DEF out, k, First
  <2>6. Append(out, k) \in Seq(keys) /\ ToSet(Append(out, k)) = ToSet(out) \cup {k}
    BY <2>2, <2>5, Appending
  <2>7. Cardinality(ToSet(out) \cup {k}) = n + 1
    <3>1. IsFiniteSet(ToSet(out))
      BY <2>2, FS_Subset
    <3> QED BY <2>2, <2>5, <3>1, FS_AddElement
  <2> QED BY <2>2, <2>3, <2>5, <2>6, <2>7
<1>10. P(N)
  <2> HIDE DEF P
  <2>1. 0 \in R /\ \A n \in 0 .. N - 1 : n \in R => n + 1 \in R
    BY <1>2, <1>8, <1>9
  <2> HIDE DEF R
  <2>2. N \in R
    BY <1>2, <2>1, CountingTo
  <2> QED BY <2>2 DEF R
<1> QED BY <1>1, <1>10

-----------------------------------------------------------------------------
(***************************************************************************)
(* The order of documents.  A graph without a cycle is one in which every  *)
(* set of documents has one whose providers are all outside it.            *)
(***************************************************************************)
Acyclic(docs, providers) ==
    \A S \in SUBSET docs : S # {} => \E d \in S : providers[d] \cap S = {}

\* Each document comes after all its providers.
InTurn(order, providers) ==
    \A i \in 1 .. Len(order) : \A p \in providers[order[i]] :
        \E j \in 1 .. i - 1 : order[j] = p

Distinct(seq) == \A i, j \in 1 .. Len(seq) : seq[i] = seq[j] => i = j

LEMMA DistinctAppend ==
    ASSUME NEW T, NEW s \in Seq(T), NEW x \in T \ ToSet(s), Distinct(s)
    PROVE  Distinct(Append(s, x))
<1>1. /\ Len(Append(s, x)) = Len(s) + 1 /\ Len(s) \in Nat
      /\ \A i \in 1 .. Len(s) : Append(s, x)[i] = s[i] /\ s[i] \in ToSet(s)
      /\ Append(s, x)[Len(s) + 1] = x
  <2>1. DOMAIN s = 1 .. Len(s)
    OBVIOUS
  <2> QED BY <2>1, Appending DEF ToSet
<1> HIDE DEF Append
<1> SUFFICES ASSUME NEW i \in 1 .. Len(s) + 1, NEW j \in 1 .. Len(s) + 1,
                    Append(s, x)[i] = Append(s, x)[j]
             PROVE  i = j
  BY <1>1 DEF Distinct
<1>2. (i \in 1 .. Len(s) \/ i = Len(s) + 1) /\ (j \in 1 .. Len(s) \/ j = Len(s) + 1)
  BY <1>1
<1> QED BY <1>1, <1>2 DEF Distinct

\* topological_order (graph.rs:227): where there is no cycle, the order has every
\* document once, after its providers.
THEOREM OrderIs ==
    ASSUME NEW docs \in SUBSET Paths, NEW providers \in [docs -> SUBSET docs],
           Acyclic(docs, providers)
    PROVE  LET order == TopologicalOrder(docs, providers)
           IN  /\ order \in Seq(docs) /\ ToSet(order) = docs
               /\ Len(order) = Cardinality(docs) /\ Cardinality(docs) \in Nat
               /\ Distinct(order) /\ InTurn(order, providers)
<1> DEFINE N == Cardinality(docs)
           Free(out) == {d \in docs \ ToSet(out) : providers[d] \subseteq ToSet(out)}
           B(out) == IF Free(out) = {} THEN out ELSE Append(out, Least(Free(out)))
           Is(f) == f = [n \in 0 .. N |-> IF n = 0 THEN <<>> ELSE B(f[n - 1])]
           order == CHOOSE f : Is(f)
           Good == Seq(docs)
<1>1. TopologicalOrder(docs, providers) = order[N]
  BY DEF TopologicalOrder
<1>2. N \in Nat /\ IsFiniteSet(docs)
  BY PathsAreFinite, FS_CardinalityType
<1>3. <<>> \in Good
  OBVIOUS
<1>4. \A out \in Good : Free(out) # {} => Least(Free(out)) \in Free(out)
  <2> TAKE out \in Good
  <2>1. Free(out) \in SUBSET Paths
    OBVIOUS
  <2> HIDE DEF Free
  <2> QED BY <2>1, LeastIsOne
<1>5. \A out \in Good : B(out) \in Good
  <2> TAKE out \in Good
  <2>1. Free(out) # {} => Least(Free(out)) \in docs
    BY <1>4
  <2> HIDE DEF Free
  <2> QED BY <2>1, Appending
<1>6. Is(order)
  <2> HIDE DEF N, B, Good
  <2> DEFINE next == [q \in (1 .. N) \X Good |-> B(q[2])]
  <2>1. IsRound(next, N, Good)
    BY <1>5 DEF IsRound
  <2>2. \A n \in 1 .. N : \A s \in Good : next[<<n, s>>] = B(s)
    OBVIOUS
  <2> HIDE DEF next
  <2>3. PICK f : Values(f, N, Good, <<>>, next)
    BY <1>2, <1>3, <2>1, Loop
  <2>4. \A n \in 1 .. N : f[n - 1] \in Good
    BY <1>2, <2>3 DEF Values
  <2>5. \A n \in 1 .. N : f[n] = B(f[n - 1])
    BY <2>2, <2>3, <2>4 DEF Values
  <2>6. Is(f)
    BY <1>2, <2>3, <2>5 DEF Values
  <2> HIDE DEF Is
  <2> QED BY <2>6
<1> HIDE DEF order
<1>7. order[0] = <<>> /\ \A n \in 1 .. N : order[n] = B(order[n - 1])
  <2> HIDE DEF N, B
  <2> QED BY <1>2, <1>6
<1> DEFINE P(n) == /\ order[n] \in Good /\ Len(order[n]) = n
                   /\ Cardinality(ToSet(order[n])) = n /\ ToSet(order[n]) \subseteq docs
                   /\ Distinct(order[n]) /\ InTurn(order[n], providers)
           T == {n \in 0 .. N : P(n)}
<1>8. P(0)
  <2>1. Len(<<>>) = 0 /\ <<>> \in Good /\ ToSet(<<>>) = {} /\ Cardinality({}) = 0
    BY NothingIn, FS_EmptySet
  <2> QED BY <1>7, <2>1 DEF Distinct, InTurn
<1>9. ASSUME NEW n \in 0 .. N - 1, P(n)
      PROVE  P(n + 1)
  <2> DEFINE out == order[n]
             rest == docs \ ToSet(out)
             d == Least(Free(out))
  <2>1. order[n + 1] = B(out)
    <3> HIDE DEF N, B
    <3>1. n + 1 \in 1 .. N /\ (n + 1) - 1 = n
      BY <1>2
    <3> QED BY <1>7, <3>1
  <2>2. /\ out \in Seq(docs) /\ Len(out) = n /\ n \in Nat /\ ToSet(out) \subseteq docs
        /\ Cardinality(ToSet(out)) = n /\ DOMAIN out = 1 .. n
    BY <1>9, <1>2
  <2>3. rest # {}
    <3> SUFFICES ASSUME rest = {} PROVE FALSE
      OBVIOUS
    <3>1. ToSet(out) = docs
      BY <2>2
    <3> QED BY <1>2, <2>2, <3>1
  <2>4. Free(out) # {}
    <3>1. PICK x \in rest : providers[x] \cap rest = {}
      <4> HIDE DEF rest
      <4>1. rest \in SUBSET docs
        BY DEF rest
      <4> QED BY <2>3, <4>1 DEF Acyclic
    <3>2. providers[x] \subseteq docs
      OBVIOUS
    <3> QED BY <3>1, <3>2
  <2>5. d \in docs \ ToSet(out) /\ providers[d] \subseteq ToSet(out)
    <3>1. d \in Free(out)
      <4> HIDE DEF Free
      <4> QED BY <1>4, <2>2, <2>4
    <3> HIDE DEF d
    <3> QED BY <3>1
  <2>6. order[n + 1] = Append(out, d)
    BY <2>1, <2>4
  <2> HIDE DEF d, out, Free, B
  <2>7. /\ Append(out, d) \in Seq(docs) /\ Len(Append(out, d)) = n + 1
        /\ \A i \in 1 .. n : Append(out, d)[i] = out[i]
        /\ Append(out, d)[n + 1] = d
        /\ ToSet(Append(out, d)) = ToSet(out) \cup {d}
    BY <2>2, <2>5, Appending
  <2>8. Distinct(Append(out, d))
    BY <1>9, <2>2, <2>5, DistinctAppend DEF out
  <2>9. Cardinality(ToSet(out) \cup {d}) = n + 1
    <3>1. IsFiniteSet(ToSet(out))
      BY <1>2, <2>2, FS_Subset
    <3> QED BY <2>2, <2>5, <3>1, FS_AddElement
  <2>10. InTurn(Append(out, d), providers)
    <3> DEFINE new == Append(out, d)
    <3>1. /\ Len(new) = n + 1 /\ new[n + 1] = d /\ \A i \in 1 .. n : new[i] = out[i]
      BY <2>7
    <3> HIDE DEF new
    <3> SUFFICES ASSUME NEW i \in 1 .. n + 1, NEW p \in providers[new[i]]
                 PROVE  \E j \in 1 .. i - 1 : new[j] = p
      BY <3>1 DEF InTurn, new
    <3>2. CASE i \in 1 .. n
      <4>1. PICK j \in 1 .. i - 1 : out[j] = p
        BY <1>9, <2>2, <3>1, <3>2 DEF InTurn, out
      <4>2. j \in 1 .. n
        BY <2>2, <3>2
      <4> QED BY <3>1, <4>1, <4>2
    <3>3. CASE i = n + 1
      <4>1. p \in ToSet(out)
        BY <2>5, <3>1, <3>3
      <4>2. PICK j \in 1 .. n : out[j] = p
        BY <2>2, <4>1 DEF ToSet
      <4> QED BY <2>2, <3>1, <3>3, <4>2
    <3> QED BY <2>2, <3>2, <3>3
  <2> QED BY <2>2, <2>5, <2>6, <2>7, <2>8, <2>9, <2>10
<1>10. P(N)
  <2> HIDE DEF P, N
  <2>1. 0 \in T /\ \A n \in 0 .. N - 1 : n \in T => n + 1 \in T
    BY <1>2, <1>8, <1>9
  <2> HIDE DEF T
  <2>2. N \in T
    BY <2>1, <1>2, CountingTo
  <2> QED BY <2>2 DEF T
<1>11. ToSet(order[N]) = docs
  <2>1. ToSet(order[N]) \subseteq docs /\ Cardinality(ToSet(order[N])) = Cardinality(docs)
    BY <1>10
  <2> QED BY <1>2, <2>1, FS_Subset
<1> QED BY <1>1, <1>2, <1>10, <1>11

-----------------------------------------------------------------------------
(***************************************************************************)
(* The search for cycles.                                                  *)
(***************************************************************************)
IsCycle(path, docs, providers) ==
    /\ path \in Seq(docs) /\ Len(path) >= 1 /\ Distinct(path)
    /\ \A i \in 1 .. Len(path) - 1 : path[i + 1] \in providers[path[i]]
    /\ path[1] \in providers[path[Len(path)]]

Black(s, docs) == {d \in docs : s.colour[d] = "black"}

Top(s) == s.stack[Len(s.stack)]

SearchShape(s, docs, providers) ==
    /\ s = [colour |-> s.colour, left |-> s.left, stack |-> s.stack, cycles |-> s.cycles]
    /\ s.colour \in [docs -> {"white", "grey", "black"}]
    /\ s.left \in [docs -> SUBSET docs]
    /\ \A d \in docs : s.left[d] \subseteq providers[d]
    /\ s.stack \in Seq(docs) /\ Distinct(s.stack)

\* A document is grey while it is on the stack, and none of the providers of a
\* white one has been looked at.
Coloured(s, docs, providers) ==
    /\ \A d \in docs : s.colour[d] = "grey" <=> d \in ToSet(s.stack)
    /\ \A d \in docs : s.colour[d] = "white" => s.left[d] = providers[d]

\* The stack is a path of the graph.
Trail(s, providers) ==
    \A i \in 1 .. Len(s.stack) - 1 :
        s.stack[i + 1] \in providers[s.stack[i]] \ s.left[s.stack[i]]

\* Every provider that has been looked at is done, or the one being looked at.
Looked(s, docs, providers) ==
    /\ \A d \in Black(s, docs) : providers[d] \subseteq Black(s, docs)
    /\ \A i \in 1 .. Len(s.stack) : \A p \in providers[s.stack[i]] \ s.left[s.stack[i]] :
          p \in Black(s, docs) \/ (i < Len(s.stack) /\ p = s.stack[i + 1])

SearchInv(s, docs, providers) ==
    /\ SearchShape(s, docs, providers)
    /\ Coloured(s, docs, providers)
    /\ Trail(s, providers)
    /\ \A path \in s.cycles : IsCycle(path, docs, providers)
    /\ s.cycles = {} => /\ Looked(s, docs, providers)
                        /\ Acyclic(Black(s, docs), providers)

\* A document whose providers are all among those without a cycle adds none.
LEMMA AcyclicGrows ==
    ASSUME NEW B, NEW d, d \notin B, NEW providers, providers[d] \subseteq B,
           \A x \in B : providers[x] \subseteq B, Acyclic(B, providers)
    PROVE  Acyclic(B \cup {d}, providers)
<1> SUFFICES ASSUME NEW S \in SUBSET (B \cup {d}), S # {}
             PROVE  \E x \in S : providers[x] \cap S = {}
  BY DEF Acyclic
<1>1. CASE S \cap B # {}
  <2>1. PICK x \in S \cap B : providers[x] \cap (S \cap B) = {}
    <3>1. S \cap B \in SUBSET B
      OBVIOUS
    <3> QED BY <1>1, <3>1 DEF Acyclic
  <2> QED BY <2>1
<1>2. CASE S \cap B = {}
  <2>1. S = {d}
    BY <1>2
  <2> QED BY <2>1
<1> QED BY <1>1, <1>2

\* A path read from another of its documents is the same cycle.
LEMMA Rotating ==
    ASSUME NEW docs, NEW providers, NEW path, IsCycle(path, docs, providers),
           NEW k \in 1 .. Len(path)
    PROVE  IsCycle(SubSeq(path, k, Len(path)) \o SubSeq(path, 1, k - 1), docs, providers)
<1> DEFINE L == Len(path)
           a == SubSeq(path, k, L)
           b == SubSeq(path, 1, k - 1)
           r == a \o b
<1>1. path \in Seq(docs) /\ L \in Nat /\ L >= 1 /\ k \in 1 .. L
      /\ \A i \in 1 .. L : path[i] \in docs
  BY DEF IsCycle
<1>2. a \in Seq(docs) /\ Len(a) = L - k + 1 /\ \A i \in 1 .. L - k + 1 : a[i] = path[k + i - 1]
  BY <1>1
<1>3. b \in Seq(docs) /\ Len(b) = k - 1 /\ \A i \in 1 .. k - 1 : b[i] = path[i]
  BY <1>1
<1> HIDE DEF a, b
<1>4. /\ r \in Seq(docs) /\ Len(r) = L
      /\ \A i \in 1 .. L - k + 1 : r[i] = a[i]
      /\ \A i \in L - k + 2 .. L : r[i] = b[i - (L - k + 1)]
  BY <1>1, <1>2, <1>3
<1> HIDE DEF r, L
<1>5. /\ \A i \in 1 .. L - k + 1 : r[i] = path[k + i - 1]
      /\ \A i \in L - k + 2 .. L : r[i] = path[i - (L - k + 1)]
  <2>1. ASSUME NEW i \in 1 .. L - k + 1 PROVE r[i] = path[k + i - 1]
    BY <1>2, <1>4
  <2>2. ASSUME NEW i \in L - k + 2 .. L PROVE r[i] = path[i - (L - k + 1)]
    <3>1. i - (L - k + 1) \in 1 .. k - 1
      BY <1>1
    <3> QED BY <3>1, <1>3, <1>4
  <2> QED BY <2>1, <2>2
<1>6. Distinct(r)
  <2> SUFFICES ASSUME NEW i \in 1 .. L, NEW j \in 1 .. L, r[i] = r[j]
               PROVE  i = j
    BY <1>4 DEF Distinct
  <2>1. \A x, y \in 1 .. L : path[x] = path[y] => x = y
    BY DEF IsCycle, Distinct, L
  <2>2. (i \in 1 .. L - k + 1 \/ i \in L - k + 2 .. L) /\ (j \in 1 .. L - k + 1 \/ j \in L - k + 2 .. L)
    BY <1>1
  <2>3. CASE i \in 1 .. L - k + 1 /\ j \in 1 .. L - k + 1
    <3>1. k + i - 1 \in 1 .. L /\ k + j - 1 \in 1 .. L /\ path[k + i - 1] = path[k + j - 1]
      BY <1>1, <1>5, <2>3
    <3>2. k + i - 1 = k + j - 1
      BY <2>1, <3>1
    <3> QED BY <1>1, <3>2
  <2>4. CASE i \in 1 .. L - k + 1 /\ j \in L - k + 2 .. L
    <3>1. k + i - 1 \in 1 .. L /\ j - (L - k + 1) \in 1 .. L /\ path[k + i - 1] = path[j - (L - k + 1)]
      BY <1>1, <1>5, <2>4
    <3>2. k + i - 1 = j - (L - k + 1)
      BY <2>1, <3>1
    <3> QED BY <1>1, <2>4, <3>2
  <2>5. CASE i \in L - k + 2 .. L /\ j \in 1 .. L - k + 1
    <3>1. k + j - 1 \in 1 .. L /\ i - (L - k + 1) \in 1 .. L /\ path[k + j - 1] = path[i - (L - k + 1)]
      BY <1>1, <1>5, <2>5
    <3>2. k + j - 1 = i - (L - k + 1)
      BY <2>1, <3>1
    <3> QED BY <1>1, <2>5, <3>2
  <2>6. CASE i \in L - k + 2 .. L /\ j \in L - k + 2 .. L
    <3>1. i - (L - k + 1) \in 1 .. L /\ j - (L - k + 1) \in 1 .. L
          /\ path[i - (L - k + 1)] = path[j - (L - k + 1)]
      BY <1>1, <1>5, <2>6
    <3>2. i - (L - k + 1) = j - (L - k + 1)
      BY <2>1, <3>1
    <3> QED BY <1>1, <3>2
  <2> QED BY <2>2, <2>3, <2>4, <2>5, <2>6
<1>7. /\ \A i \in 1 .. L - 1 : path[i + 1] \in providers[path[i]]
      /\ path[1] \in providers[path[L]]
  BY DEF IsCycle, L
<1>8. \A i \in 1 .. L - 1 : r[i + 1] \in providers[r[i]]
  <2> TAKE i \in 1 .. L - 1
  <2>1. CASE i + 1 \in 1 .. L - k + 1
    <3>1. r[i] = path[k + i - 1] /\ r[i + 1] = path[k + (i + 1) - 1]
      BY <1>1, <1>5, <2>1
    <3>2. k + i - 1 \in 1 .. L - 1 /\ k + (i + 1) - 1 = (k + i - 1) + 1
      BY <1>1, <2>1
    <3> QED BY <1>7, <3>1, <3>2
  <2>2. CASE i = L - k + 1
    <3>1. r[i] = path[k + i - 1] /\ k + i - 1 = L
      BY <1>1, <1>5, <2>2
    <3>2. r[i + 1] = path[(i + 1) - (L - k + 1)] /\ (i + 1) - (L - k + 1) = 1
      BY <1>1, <1>5, <2>2
    <3> QED BY <1>7, <3>1, <3>2
  <2>3. CASE i \in L - k + 2 .. L
    <3>1. r[i] = path[i - (L - k + 1)] /\ r[i + 1] = path[(i + 1) - (L - k + 1)]
      BY <1>1, <1>5, <2>3
    <3>2. i - (L - k + 1) \in 1 .. L - 1 /\ (i + 1) - (L - k + 1) = (i - (L - k + 1)) + 1
      BY <1>1, <2>3
    <3> QED BY <1>7, <3>1, <3>2
  <2> QED BY <1>1, <2>1, <2>2, <2>3
<1>9. r[1] \in providers[r[L]]
  <2>1. r[1] = path[k]
    <3>1. 1 \in 1 .. L - k + 1 /\ k + 1 - 1 = k
      BY <1>1
    <3> QED BY <1>5, <3>1
  <2>2. CASE k = 1
    <3>1. r[L] = path[k + L - 1] /\ k + L - 1 = L
      BY <1>1, <1>5, <2>2
    <3> QED BY <1>7, <2>1, <2>2, <3>1
  <2>3. CASE k > 1
    <3>1. r[L] = path[L - (L - k + 1)] /\ L - (L - k + 1) = k - 1
      BY <1>1, <1>5, <2>3
    <3>2. k - 1 \in 1 .. L - 1 /\ (k - 1) + 1 = k
      BY <1>1, <2>3
    <3> QED BY <1>7, <2>1, <3>1, <3>2
  <2> QED BY <1>1, <2>2, <2>3
<1> QED BY <1>1, <1>4, <1>6, <1>8, <1>9 DEF IsCycle, r, a, b, L

LEMMA PositionIs ==
    ASSUME NEW T, NEW s \in Seq(T), NEW x \in ToSet(s)
    PROVE  Position(s, x) \in 1 .. Len(s) /\ s[Position(s, x)] = x
<1>1. \E i \in DOMAIN s : s[i] = x
  BY DEF ToSet
<1>2. Position(s, x) \in DOMAIN s /\ s[Position(s, x)] = x
  BY <1>1 DEF Position
<1> QED BY <1>2

\* A dependency on the stack closes a cycle, and that is what is reported.
LEMMA ClosedCycle ==
    ASSUME NEW docs \in SUBSET Paths, NEW providers, NEW s,
           SearchShape(s, docs, providers), Trail(s, providers),
           NEW dep \in ToSet(s.stack), dep \in s.left[Top(s)]
    PROVE  IsCycle(Rotated(SubSeq(s.stack, Position(s.stack, dep), Len(s.stack))), docs, providers)
<1> DEFINE k == Position(s.stack, dep)
           L == Len(s.stack)
           path == SubSeq(s.stack, k, L)
<1>1. s.stack \in Seq(docs) /\ L \in Nat /\ k \in 1 .. L /\ s.stack[k] = dep
  BY PositionIs DEF SearchShape
<1>2. path \in Seq(docs) /\ Len(path) = L - k + 1 /\ \A i \in 1 .. L - k + 1 : path[i] = s.stack[k + i - 1]
  BY <1>1
<1>3. \A x, y \in 1 .. L : s.stack[x] = s.stack[y] => x = y
  BY DEF SearchShape, Distinct
<1>4. \A i \in 1 .. L - 1 : s.stack[i + 1] \in providers[s.stack[i]]
  BY DEF Trail
<1>5. dep \in providers[s.stack[L]]
  BY <1>1 DEF SearchShape, Top
<1> HIDE DEF k, L, path
<1>6. IsCycle(path, docs, providers)
  <2>1. Distinct(path)
    <3> SUFFICES ASSUME NEW i \in 1 .. L - k + 1, NEW j \in 1 .. L - k + 1, path[i] = path[j]
                 PROVE  i = j
      BY <1>2 DEF Distinct
    <3>1. k + i - 1 \in 1 .. L /\ k + j - 1 \in 1 .. L /\ s.stack[k + i - 1] = s.stack[k + j - 1]
      BY <1>1, <1>2
    <3>2. k + i - 1 = k + j - 1
      BY <1>3, <3>1
    <3> QED BY <1>1, <3>2
  <2>2. \A i \in 1 .. Len(path) - 1 : path[i + 1] \in providers[path[i]]
    <3> TAKE i \in 1 .. Len(path) - 1
    <3>1. path[i] = s.stack[k + i - 1] /\ path[i + 1] = s.stack[k + (i + 1) - 1]
      BY <1>1, <1>2
    <3>2. k + i - 1 \in 1 .. L - 1 /\ k + (i + 1) - 1 = (k + i - 1) + 1
      BY <1>1, <1>2
    <3> QED BY <1>4, <3>1, <3>2
  <2>3. path[1] = dep /\ path[Len(path)] = s.stack[L]
    <3>1. 1 \in 1 .. L - k + 1 /\ k + 1 - 1 = k /\ k + (L - k + 1) - 1 = L /\ L - k + 1 \in 1 .. L - k + 1
      BY <1>1
    <3> QED BY <1>1, <1>2, <3>1
  <2>4. Len(path) >= 1 /\ path \in Seq(docs)
    BY <1>1, <1>2
  <2>5. path[1] \in providers[path[Len(path)]]
    BY <1>5, <2>3
  <2> QED BY <2>1, <2>2, <2>4, <2>5 DEF IsCycle
<1> DEFINE names == {path[i] : i \in DOMAIN path}
<1>7. Position(path, Least(names)) \in 1 .. Len(path)
  <2>1. names \in SUBSET Paths /\ names # {} /\ names = ToSet(path)
    BY <1>6 DEF IsCycle, ToSet
  <2> HIDE DEF names
  <2>2. Least(names) \in ToSet(path)
    BY <2>1, LeastIsOne
  <2> QED BY <1>2, <2>2, PositionIs
<1>8. Rotated(path) = SubSeq(path, Position(path, Least(names)), Len(path))
                        \o SubSeq(path, 1, Position(path, Least(names)) - 1)
  BY DEF Rotated
<1> HIDE DEF names
<1>9. IsCycle(Rotated(path), docs, providers)
  BY <1>6, <1>7, <1>8, Rotating
<1> QED BY <1>9 DEF path, k, L

(***************************************************************************)
(* The steps of the search: it enters a document, leaves one, passes a     *)
(* provider that it has come to before, or has ended.                      *)
(***************************************************************************)
Turned(colour, left, stack, cycles) ==
    [colour |-> colour, left |-> left, stack |-> stack, cycles |-> cycles]

Without(left, node, dep) == [left EXCEPT ![node] = @ \ {dep}]

Enters(s, t, d, docs, providers) ==
    /\ d \in docs /\ s.colour[d] = "white"
    /\ \E left : /\ \/ s.stack = <<>> /\ left = s.left
                    \/ /\ s.stack # <<>> /\ d \in s.left[Top(s)]
                       /\ left = Without(s.left, Top(s), d)
                 /\ t = Turned([s.colour EXCEPT ![d] = "grey"], left, Append(s.stack, d), s.cycles)

Leaves(s, t, docs, providers) ==
    /\ s.stack # <<>> /\ s.left[Top(s)] = {}
    /\ t = Turned([s.colour EXCEPT ![Top(s)] = "black"], s.left,
              SubSeq(s.stack, 1, Len(s.stack) - 1), s.cycles)

Passes(s, t, dep, docs, providers) ==
    /\ s.stack # <<>> /\ dep \in s.left[Top(s)]
    /\ \/ /\ s.colour[dep] = "black"
          /\ t = Turned(s.colour, Without(s.left, Top(s), dep), s.stack, s.cycles)
       \/ /\ s.colour[dep] = "grey"
          /\ t = Turned(s.colour, Without(s.left, Top(s), dep), s.stack, s.cycles \cup
                      {Rotated(SubSeq(s.stack, Position(s.stack, dep), Len(s.stack)))})

Ended(s, docs) == s.stack = <<>> /\ \A d \in docs : s.colour[d] # "white"

LEMMA VisitSteps ==
    ASSUME NEW docs \in SUBSET Paths, NEW providers \in [docs -> SUBSET docs], NEW s,
           SearchShape(s, docs, providers)
    PROVE  LET t == Visit(s, providers)
           IN  \/ \E d \in docs : Enters(s, t, d, docs, providers)
               \/ Leaves(s, t, docs, providers)
               \/ \E dep \in docs : Passes(s, t, dep, docs, providers)
               \/ Ended(s, docs) /\ t = s
<1> DEFINE t == Visit(s, providers)
           white == {d \in docs : s.colour[d] = "white"}
           node == Top(s)
           dep == Least(s.left[node])
<1>0. DOMAIN providers = docs
  OBVIOUS
<1>1. CASE s.stack = <<>> /\ white = {}
  BY <1>0, <1>1 DEF Visit, Ended
<1>2. CASE s.stack = <<>> /\ white # {}
  <2>1. Least(white) \in white
    <3>1. white \in SUBSET Paths
      OBVIOUS
    <3> HIDE DEF white
    <3> QED BY <1>2, <3>1, LeastIsOne
  <2>2. t = Turned([s.colour EXCEPT ![Least(white)] = "grey"], s.left,
               Append(s.stack, Least(white)), s.cycles)
    BY <1>0, <1>2 DEF Visit, Turned
  <2> HIDE DEF t
  <2>3. Least(white) \in docs /\ s.colour[Least(white)] = "white"
    BY <2>1
  <2>4. Enters(s, t, Least(white), docs, providers)
    <3> HIDE DEF white
    <3> QED BY <1>2, <2>2, <2>3 DEF Enters
  <2> QED BY <2>3, <2>4 DEF t
<1>3. CASE s.stack # <<>> /\ s.left[node] = {}
  BY <1>3 DEF Visit, Leaves, Turned, Top
<1>4. CASE s.stack # <<>> /\ s.left[node] # {}
  <2>1. node \in docs
    <3>1. s.stack \in Seq(docs) /\ Len(s.stack) \in 1 .. Len(s.stack)
      BY <1>4 DEF SearchShape
    <3> QED BY <3>1 DEF Top
  <2>2. s.left[node] \in SUBSET docs
    BY <2>1 DEF SearchShape
  <2>3. dep \in s.left[node]
    <3> HIDE DEF node
    <3> QED BY <1>4, <2>2, LeastIsOne
  <2>4. dep \in docs /\ s.colour[dep] \in {"white", "grey", "black"}
    BY <2>2, <2>3 DEF SearchShape
  <2>5. CASE s.colour[dep] = "white"
    <3>1. t = Turned([s.colour EXCEPT ![dep] = "grey"], Without(s.left, node, dep),
                 Append(s.stack, dep), s.cycles)
      BY <1>4, <2>5 DEF Visit, Turned, Without, Top
    <3> HIDE DEF t, node, dep
    <3>2. Enters(s, t, dep, docs, providers)
      BY <1>4, <2>3, <2>4, <2>5, <3>1 DEF Enters, node
    <3> QED BY <2>4, <3>2 DEF t
  <2>6. CASE s.colour[dep] = "grey"
    <3>1. t = Turned(s.colour, Without(s.left, node, dep), s.stack, s.cycles \cup
                   {Rotated(SubSeq(s.stack, Position(s.stack, dep), Len(s.stack)))})
      BY <1>4, <2>6 DEF Visit, Turned, Without, Top
    <3> HIDE DEF t, node, dep
    <3>2. Passes(s, t, dep, docs, providers)
      BY <1>4, <2>3, <2>4, <2>6, <3>1 DEF Passes, node
    <3> QED BY <2>4, <3>2 DEF t
  <2>7. CASE s.colour[dep] = "black"
    <3>1. t = Turned(s.colour, Without(s.left, node, dep), s.stack, s.cycles)
      BY <1>4, <2>7 DEF Visit, Turned, Without, Top
    <3> HIDE DEF t, node, dep
    <3>2. Passes(s, t, dep, docs, providers)
      BY <1>4, <2>3, <2>4, <2>7, <3>1 DEF Passes, node
    <3> QED BY <2>4, <3>2 DEF t
  <2> QED BY <2>4, <2>5, <2>6, <2>7
<1> QED BY <1>1, <1>2, <1>3, <1>4

\* `left` is `was`, but for `dep` in the set of `node`.
Cut(left, was, node, dep, docs) ==
    /\ left \in [docs -> SUBSET docs]
    /\ left[node] = was[node] \ {dep}
    /\ \A x \in docs : x # node => left[x] = was[x]
    /\ \A x \in docs : left[x] \subseteq was[x]

\* What it does to a search to take one provider off the list of one document.
LEMMA WithoutIs ==
    ASSUME NEW docs, NEW providers, NEW s, SearchShape(s, docs, providers),
           s.stack # <<>>, NEW dep
    PROVE  /\ Top(s) \in docs /\ Top(s) \in ToSet(s.stack) /\ Len(s.stack) \in Nat \ {0}
           /\ Cut(Without(s.left, Top(s), dep), s.left, Top(s), dep, docs)
<1>1. s.stack \in Seq(docs) /\ Len(s.stack) \in Nat \ {0} /\ Len(s.stack) \in DOMAIN s.stack
  BY DEF SearchShape
<1>2. Top(s) \in docs /\ Top(s) \in ToSet(s.stack)
  BY <1>1 DEF Top, ToSet
<1> QED BY <1>1, <1>2 DEF Without, SearchShape, Cut

LEMMA EntersKeeps ==
    ASSUME NEW docs \in SUBSET Paths, NEW providers \in [docs -> SUBSET docs],
           NEW s, NEW t, NEW d, Enters(s, t, d, docs, providers),
           SearchInv(s, docs, providers)
    PROVE  SearchInv(t, docs, providers)
<1> DEFINE L == Len(s.stack)
<1>1. PICK left : /\ \/ s.stack = <<>> /\ left = s.left
                     \/ /\ s.stack # <<>> /\ d \in s.left[Top(s)]
                        /\ left = Without(s.left, Top(s), d)
                  /\ t = Turned([s.colour EXCEPT ![d] = "grey"], left, Append(s.stack, d), s.cycles)
  BY DEF Enters
<1>2. SearchShape(s, docs, providers) /\ s.stack \in Seq(docs) /\ L \in Nat /\ Distinct(s.stack)
      /\ s.colour \in [docs -> {"white", "grey", "black"}]
      /\ \A x \in docs : s.left[x] \subseteq providers[x]
  BY DEF SearchInv, SearchShape
<1>3. d \in docs /\ s.colour[d] = "white" /\ d \notin ToSet(s.stack) /\ s.left[d] = providers[d]
  <2>1. d \in docs /\ s.colour[d] = "white"
    BY DEF Enters
  <2> QED BY <2>1 DEF SearchInv, Coloured
<1>4. /\ left \in [docs -> SUBSET docs]
      /\ \A x \in docs : left[x] \subseteq s.left[x]
      /\ \A x \in docs : left[x] # s.left[x] =>
            s.stack # <<>> /\ x = Top(s) /\ s.left[x] \ left[x] = {d} /\ x \in ToSet(s.stack)
  <2>1. CASE s.stack = <<>>
    <3>1. left = s.left
      BY <1>1, <2>1
    <3> QED BY <1>2, <3>1 DEF SearchShape
  <2>2. CASE s.stack # <<>>
    <3>1. left = Without(s.left, Top(s), d) /\ d \in s.left[Top(s)]
      BY <1>1, <2>2
    <3>4. /\ Top(s) \in docs /\ Top(s) \in ToSet(s.stack)
          /\ Cut(Without(s.left, Top(s), d), s.left, Top(s), d, docs)
      BY <1>2, <2>2, WithoutIs
    <3>2. /\ Top(s) \in ToSet(s.stack)
          /\ left \in [docs -> SUBSET docs]
          /\ left[Top(s)] = s.left[Top(s)] \ {d}
          /\ \A x \in docs : x # Top(s) => left[x] = s.left[x]
          /\ \A x \in docs : left[x] \subseteq s.left[x]
      BY <3>1, <3>4 DEF Cut
    <3> QED BY <2>2, <3>1, <3>2
  <2> QED BY <2>1, <2>2
<1>5. /\ t.colour = [s.colour EXCEPT ![d] = "grey"] /\ t.left = left
      /\ t.stack = Append(s.stack, d) /\ t.cycles = s.cycles
      /\ t = [colour |-> t.colour, left |-> t.left, stack |-> t.stack, cycles |-> t.cycles]
  BY <1>1 DEF Turned
<1>6. /\ t.stack \in Seq(docs) /\ Len(t.stack) = L + 1 /\ ToSet(t.stack) = ToSet(s.stack) \cup {d}
      /\ \A i \in 1 .. L : t.stack[i] = s.stack[i] /\ s.stack[i] \in docs /\ s.stack[i] \in ToSet(s.stack)
      /\ t.stack[L + 1] = d /\ Distinct(t.stack)
  <2>1. DOMAIN s.stack = 1 .. L
    BY <1>2
  <2>2. \A i \in 1 .. L : s.stack[i] \in docs /\ s.stack[i] \in ToSet(s.stack)
    BY <1>2, <2>1 DEF ToSet
  <2>3. /\ Append(s.stack, d) \in Seq(docs) /\ Len(Append(s.stack, d)) = L + 1
        /\ \A i \in 1 .. L : Append(s.stack, d)[i] = s.stack[i]
        /\ Append(s.stack, d)[L + 1] = d
        /\ ToSet(Append(s.stack, d)) = ToSet(s.stack) \cup {d}
    BY <1>2, <1>3, Appending
  <2>4. Distinct(Append(s.stack, d))
    <3>1. d \in docs \ ToSet(s.stack)
      BY <1>3
    <3> QED BY <1>2, <3>1, DistinctAppend
  <2> HIDE DEF L
  <2> QED BY <1>5, <2>2, <2>3, <2>4
<1>7. /\ t.colour \in [docs -> {"white", "grey", "black"}]
      /\ t.colour[d] = "grey" /\ \A x \in docs : x # d => t.colour[x] = s.colour[x]
  BY <1>2, <1>3, <1>5
<1> HIDE DEF L
<1>8. SearchShape(t, docs, providers)
  BY <1>2, <1>4, <1>5, <1>6, <1>7 DEF SearchShape
<1>9. Coloured(t, docs, providers)
  <2>1. \A x \in docs : t.colour[x] = "grey" <=> x \in ToSet(t.stack)
    BY <1>3, <1>6, <1>7 DEF SearchInv, Coloured
  <2>2. ASSUME NEW x \in docs, t.colour[x] = "white" PROVE t.left[x] = providers[x]
    <3>1. x # d /\ s.colour[x] = "white" /\ x \notin ToSet(s.stack)
      BY <1>7, <2>2 DEF SearchInv, Coloured
    <3> QED BY <1>4, <1>5, <3>1 DEF SearchInv, Coloured
  <2> QED BY <2>1, <2>2 DEF Coloured
<1>10. \A i \in 1 .. L : \A p \in providers[s.stack[i]] \ t.left[s.stack[i]] :
         \/ p \in providers[s.stack[i]] \ s.left[s.stack[i]]
         \/ p = d /\ i = L
  <2> TAKE i \in 1 .. L
  <2> TAKE p \in providers[s.stack[i]] \ t.left[s.stack[i]]
  <2>1. CASE t.left[s.stack[i]] = s.left[s.stack[i]]
    BY <2>1
  <2>2. CASE t.left[s.stack[i]] # s.left[s.stack[i]]
    <3>1. s.stack[i] = Top(s) /\ s.left[s.stack[i]] \ t.left[s.stack[i]] = {d}
      BY <1>4, <1>5, <1>6, <2>2
    <3>2. i = L
      <4>1. s.stack[i] = s.stack[L] /\ L \in 1 .. L
        BY <1>2, <3>1 DEF Top, L
      <4> QED BY <1>2, <4>1 DEF Distinct, L
    <3> QED BY <3>1, <3>2
  <2> QED BY <2>1, <2>2
<1>11. Trail(t, providers)
  <2> SUFFICES ASSUME NEW i \in 1 .. L
               PROVE  t.stack[i + 1] \in providers[t.stack[i]] \ t.left[t.stack[i]]
    BY <1>2, <1>6 DEF Trail
  <2>1. CASE i \in 1 .. L - 1
    <3>1. s.stack[i + 1] \in providers[s.stack[i]] \ s.left[s.stack[i]]
      BY <2>1 DEF SearchInv, Trail, L
    <3>2. i + 1 \in 1 .. L
      BY <1>2, <2>1
    <3> QED BY <1>4, <1>5, <1>6, <3>1, <3>2
  <2>2. CASE i = L
    <3>1. s.stack # <<>> /\ Top(s) = s.stack[L]
      BY <1>2, <2>2 DEF Top, L
    <3>2. d \in s.left[Top(s)] /\ left = Without(s.left, Top(s), d)
      BY <1>1, <3>1
    <3>4. /\ Top(s) \in docs /\ Top(s) \in ToSet(s.stack)
          /\ Cut(Without(s.left, Top(s), d), s.left, Top(s), d, docs)
      BY <1>2, <3>1, WithoutIs
    <3>3. left[Top(s)] = s.left[Top(s)] \ {d} /\ Top(s) \in docs
      BY <3>2, <3>4 DEF Cut
    <3> QED BY <1>2, <1>5, <1>6, <2>2, <3>1, <3>2, <3>3
  <2> QED BY <1>2, <2>1, <2>2
<1>12. Black(t, docs) = Black(s, docs)
  BY <1>3, <1>7 DEF Black
<1>13. ASSUME t.cycles = {}
       PROVE  Looked(t, docs, providers) /\ Acyclic(Black(t, docs), providers)
  <2>1. Looked(s, docs, providers) /\ Acyclic(Black(s, docs), providers)
    BY <1>5, <1>13 DEF SearchInv
  <2>2. ASSUME NEW i \in 1 .. L + 1, NEW p \in providers[t.stack[i]] \ t.left[t.stack[i]]
        PROVE  p \in Black(t, docs) \/ (i < L + 1 /\ p = t.stack[i + 1])
    <3>1. CASE i = L + 1
      <4>1. t.left[d] = providers[d]
        BY <1>3, <1>4, <1>5
      <4> QED BY <1>6, <2>2, <3>1, <4>1
    <3>2. CASE i \in 1 .. L
      <4>1. CASE p \in providers[s.stack[i]] \ s.left[s.stack[i]]
        <5>1. p \in Black(s, docs) \/ (i < L /\ p = s.stack[i + 1])
          BY <2>1, <3>2, <4>1 DEF Looked, L
        <5>2. i < L => i + 1 \in 1 .. L
          BY <1>2, <3>2
        <5> QED BY <1>2, <1>6, <1>12, <3>2, <5>1, <5>2
      <4>2. CASE p = d /\ i = L
        BY <1>2, <1>6, <3>2, <4>2
      <4> QED BY <1>6, <1>10, <3>2, <4>1, <4>2
    <3> QED BY <1>2, <3>1, <3>2
  <2> QED BY <1>6, <1>12, <2>1, <2>2 DEF Looked
<1> QED BY <1>5, <1>8, <1>9, <1>11, <1>13 DEF SearchInv

\* All but the last element of a sequence that repeats none.
LEMMA Fronts ==
    ASSUME NEW T, NEW s \in Seq(T), s # <<>>, Distinct(s)
    PROVE  /\ Len(s) \in Nat \ {0} /\ s[Len(s)] \in ToSet(s) /\ s[Len(s)] \in T
           /\ SubSeq(s, 1, Len(s) - 1) \in Seq(T)
           /\ Len(SubSeq(s, 1, Len(s) - 1)) = Len(s) - 1
           /\ \A i \in 1 .. Len(s) - 1 : SubSeq(s, 1, Len(s) - 1)[i] = s[i]
           /\ ToSet(SubSeq(s, 1, Len(s) - 1)) = ToSet(s) \ {s[Len(s)]}
           /\ Distinct(SubSeq(s, 1, Len(s) - 1))
<1> DEFINE L == Len(s)
           f == SubSeq(s, 1, L - 1)
<1>1. L \in Nat \ {0} /\ DOMAIN s = 1 .. L /\ \A i \in 1 .. L : s[i] \in T
  OBVIOUS
<1>2. f \in Seq(T) /\ Len(f) = L - 1 /\ \A i \in 1 .. L - 1 : f[i] = s[i]
  BY <1>1
<1>3. DOMAIN f = 1 .. L - 1
  BY <1>2
<1>4. s[L] \in ToSet(s) /\ s[L] \in T
  BY <1>1 DEF ToSet
<1>5. \A i \in 1 .. L : s[i] = s[L] => i = L
  <2>1. L \in 1 .. L /\ \A i, j \in 1 .. L : s[i] = s[j] => i = j
    BY <1>1 DEF Distinct
  <2> HIDE DEF L
  <2> QED BY <2>1
<1> HIDE DEF L, f
<1>6. ToSet(f) = ToSet(s) \ {s[L]}
  <2>1. \A x \in ToSet(f) : x \in ToSet(s) \ {s[L]}
    <3> TAKE x \in ToSet(f)
    <3>1. PICK i \in 1 .. L - 1 : f[i] = x
      BY <1>3 DEF ToSet
    <3>2. i \in 1 .. L /\ i # L /\ s[i] = x
      BY <1>1, <1>2, <3>1
    <3> QED BY <1>1, <1>5, <3>2 DEF ToSet
  <2>2. \A x \in ToSet(s) \ {s[L]} : x \in ToSet(f)
    <3> TAKE x \in ToSet(s) \ {s[L]}
    <3>1. PICK i \in 1 .. L : s[i] = x
      BY <1>1 DEF ToSet
    <3>2. i \in 1 .. L - 1
      BY <1>1, <3>1
    <3> QED BY <1>2, <1>3, <3>1, <3>2 DEF ToSet
  <2> QED BY <2>1, <2>2
<1>7. Distinct(f)
  <2>1. \A i \in 1 .. L - 1 : i \in 1 .. L
    BY <1>1
  <2> QED BY <1>2, <2>1 DEF Distinct, L
<1> QED BY <1>1, <1>2, <1>4, <1>6, <1>7 DEF L, f

LEMMA LeavesKeeps ==
    ASSUME NEW docs \in SUBSET Paths, NEW providers \in [docs -> SUBSET docs],
           NEW s, NEW t, Leaves(s, t, docs, providers), SearchInv(s, docs, providers)
    PROVE  SearchInv(t, docs, providers)
<1> DEFINE L == Len(s.stack)
           node == Top(s)
           front == SubSeq(s.stack, 1, L - 1)
<1>1. /\ s.stack \in Seq(docs) /\ Distinct(s.stack) /\ s.stack # <<>> /\ s.left[node] = {}
      /\ s.colour \in [docs -> {"white", "grey", "black"}] /\ s.left \in [docs -> SUBSET docs]
      /\ \A x \in docs : s.left[x] \subseteq providers[x]
  BY DEF SearchInv, SearchShape, Leaves
<1>2. /\ L \in Nat \ {0} /\ node = s.stack[L] /\ node \in ToSet(s.stack) /\ node \in docs
      /\ front \in Seq(docs) /\ Len(front) = L - 1
      /\ \A i \in 1 .. L - 1 : front[i] = s.stack[i]
      /\ ToSet(front) = ToSet(s.stack) \ {node} /\ Distinct(front)
  BY <1>1, Fronts DEF Top
<1>3. /\ t.colour = [s.colour EXCEPT ![node] = "black"] /\ t.left = s.left
      /\ t.stack = front /\ t.cycles = s.cycles
      /\ t = [colour |-> t.colour, left |-> t.left, stack |-> t.stack, cycles |-> t.cycles]
  BY DEF Leaves, Turned
<1>4. /\ t.colour \in [docs -> {"white", "grey", "black"}]
      /\ t.colour[node] = "black" /\ \A x \in docs : x # node => t.colour[x] = s.colour[x]
  BY <1>1, <1>2, <1>3
<1>5. /\ \A x \in docs : s.colour[x] = "grey" <=> x \in ToSet(s.stack)
      /\ \A x \in docs : s.colour[x] = "white" => s.left[x] = providers[x]
      /\ Trail(s, providers)
      /\ \A path \in s.cycles : IsCycle(path, docs, providers)
  BY DEF SearchInv, Coloured
<1> HIDE DEF node, front
<1>6. SearchShape(t, docs, providers)
  BY <1>1, <1>2, <1>3, <1>4 DEF SearchShape
<1>7. Coloured(t, docs, providers)
  BY <1>2, <1>3, <1>4, <1>5 DEF Coloured
<1>8. Trail(t, providers)
  <2> SUFFICES ASSUME NEW i \in 1 .. L - 2
               PROVE  front[i + 1] \in providers[front[i]] \ s.left[front[i]]
    BY <1>2, <1>3 DEF Trail
  <2>1. i \in 1 .. L - 1 /\ i + 1 \in 1 .. L - 1
    BY <1>2
  <2> QED BY <1>2, <1>5, <2>1 DEF Trail
<1>9. Black(t, docs) = Black(s, docs) \cup {node} /\ node \notin Black(s, docs)
  BY <1>2, <1>4, <1>5 DEF Black
<1>10. ASSUME t.cycles = {}
       PROVE  Looked(t, docs, providers) /\ Acyclic(Black(t, docs), providers)
  <2>1. Looked(s, docs, providers) /\ Acyclic(Black(s, docs), providers)
    BY <1>3, <1>10 DEF SearchInv
  <2>2. providers[node] \subseteq Black(s, docs)
    <3> SUFFICES ASSUME NEW p \in providers[node] PROVE p \in Black(s, docs)
      OBVIOUS
    <3>1. L \in 1 .. L /\ p \in providers[s.stack[L]] \ s.left[s.stack[L]]
      BY <1>1, <1>2
    <3>2. p \in Black(s, docs) \/ (L < L /\ p = s.stack[L + 1])
      BY <2>1, <3>1 DEF Looked, L
    <3> QED BY <1>2, <3>2
  <2>3. \A x \in Black(s, docs) : providers[x] \subseteq Black(s, docs)
    BY <2>1 DEF Looked
  <2>4. Acyclic(Black(t, docs), providers)
    BY <1>9, <2>1, <2>2, <2>3, AcyclicGrows
  <2>5. ASSUME NEW i \in 1 .. L - 1, NEW p \in providers[front[i]] \ s.left[front[i]]
        PROVE  p \in Black(t, docs) \/ (i < L - 1 /\ p = front[i + 1])
    <3>1. i \in 1 .. L /\ p \in providers[s.stack[i]] \ s.left[s.stack[i]]
      BY <1>2, <2>5
    <3>2. p \in Black(s, docs) \/ p = s.stack[i + 1]
      BY <2>1, <3>1 DEF Looked, L
    <3>3. CASE i + 1 = L
      BY <1>2, <1>9, <3>2, <3>3
    <3>4. CASE i + 1 \in 1 .. L - 1
      BY <1>2, <1>9, <3>2, <3>4
    <3> QED BY <1>2, <3>3, <3>4
  <2> QED BY <1>2, <1>3, <1>9, <2>2, <2>3, <2>4, <2>5 DEF Looked
<1> QED BY <1>3, <1>5, <1>6, <1>7, <1>8, <1>10 DEF SearchInv

LEMMA PassesKeeps ==
    ASSUME NEW docs \in SUBSET Paths, NEW providers \in [docs -> SUBSET docs],
           NEW s, NEW t, NEW dep, Passes(s, t, dep, docs, providers),
           SearchInv(s, docs, providers)
    PROVE  SearchInv(t, docs, providers)
<1> DEFINE L == Len(s.stack)
           node == Top(s)
           left == Without(s.left, node, dep)
           found == Rotated(SubSeq(s.stack, Position(s.stack, dep), Len(s.stack)))
<1>1. /\ SearchShape(s, docs, providers)
      /\ s.stack \in Seq(docs) /\ Distinct(s.stack) /\ s.stack # <<>> /\ dep \in s.left[node]
      /\ s.colour \in [docs -> {"white", "grey", "black"}] /\ s.left \in [docs -> SUBSET docs]
      /\ \A x \in docs : s.left[x] \subseteq providers[x]
  BY DEF SearchInv, SearchShape, Passes
<1>2. /\ node \in docs /\ node \in ToSet(s.stack) /\ L \in Nat \ {0} /\ node = s.stack[L]
      /\ Cut(left, s.left, node, dep, docs)
  BY <1>1, WithoutIs DEF Top
<1>3. /\ t.colour = s.colour /\ t.left = left /\ t.stack = s.stack
      /\ t = [colour |-> t.colour, left |-> t.left, stack |-> t.stack, cycles |-> t.cycles]
      /\ \/ s.colour[dep] = "black" /\ t.cycles = s.cycles
         \/ s.colour[dep] = "grey" /\ t.cycles = s.cycles \cup {found}
  BY DEF Passes, Turned
<1>4. /\ \A x \in docs : s.colour[x] = "grey" <=> x \in ToSet(s.stack)
      /\ \A x \in docs : s.colour[x] = "white" => s.left[x] = providers[x]
      /\ Trail(s, providers)
      /\ \A path \in s.cycles : IsCycle(path, docs, providers)
  BY DEF SearchInv, Coloured
<1>5. s.colour[dep] = "grey" => IsCycle(found, docs, providers)
  <2> SUFFICES ASSUME s.colour[dep] = "grey" PROVE IsCycle(found, docs, providers)
    OBVIOUS
  <2>1. dep \in docs
    BY <1>1, <1>2
  <2>2. dep \in ToSet(s.stack)
    BY <1>4, <2>1
  <2> QED BY <1>1, <1>4, <2>2, ClosedCycle
<1> HIDE DEF left, node, found
<1>6. SearchShape(t, docs, providers)
  BY <1>1, <1>2, <1>3 DEF SearchShape, Cut
<1>7. Coloured(t, docs, providers)
  <2>1. \A x \in docs : x = node => s.colour[x] # "white"
    BY <1>2, <1>4
  <2> QED BY <1>2, <1>3, <1>4, <2>1 DEF Coloured, Cut
<1>8. \A i \in 1 .. L : s.stack[i] \in docs
  BY <1>1
<1>9. Trail(t, providers)
  <2> SUFFICES ASSUME NEW i \in 1 .. L - 1
               PROVE  s.stack[i + 1] \in providers[s.stack[i]] \ left[s.stack[i]]
    BY <1>3 DEF Trail
  <2>1. i \in 1 .. L /\ s.stack[i + 1] \in providers[s.stack[i]] \ s.left[s.stack[i]]
    BY <1>2, <1>4 DEF Trail
  <2> QED BY <1>2, <1>8, <2>1 DEF Cut
<1>10. Black(t, docs) = Black(s, docs)
  BY <1>3 DEF Black
<1>11. ASSUME t.cycles = {}
       PROVE  Looked(t, docs, providers) /\ Acyclic(Black(t, docs), providers)
  <2>1. s.cycles = {} /\ s.colour[dep] = "black"
    BY <1>3, <1>11
  <2>2. Looked(s, docs, providers) /\ Acyclic(Black(s, docs), providers)
    BY <2>1 DEF SearchInv
  <2>3. dep \in Black(s, docs)
    BY <1>1, <1>2, <2>1 DEF Black
  <2>4. ASSUME NEW i \in 1 .. L, NEW p \in providers[s.stack[i]] \ left[s.stack[i]]
        PROVE  p \in Black(s, docs) \/ (i < L /\ p = s.stack[i + 1])
    <3>1. CASE p \in s.left[s.stack[i]]
      <4>1. s.stack[i] = node /\ p = dep
        BY <1>2, <1>8, <2>4, <3>1 DEF Cut
      <4> QED BY <2>3, <4>1
    <3>2. CASE p \notin s.left[s.stack[i]]
      BY <2>2, <2>4, <3>2 DEF Looked, L
    <3> QED BY <3>1, <3>2
  <2> QED BY <1>3, <1>10, <2>2, <2>4 DEF Looked
<1>12. \A path \in t.cycles : IsCycle(path, docs, providers)
  BY <1>3, <1>4, <1>5
<1> QED BY <1>3, <1>6, <1>7, <1>9, <1>11, <1>12 DEF SearchInv

(***************************************************************************)
(* The search ends: every step of it leaves less to do.                    *)
(***************************************************************************)
LeftOver(s, docs) == {pair \in docs \X docs : pair[2] \in s.left[pair[1]]}

White(s, docs) == {d \in docs : s.colour[d] = "white"}

Open(s, docs) == {d \in docs : s.colour[d] # "black"}

ToDo(s, docs) ==
    Cardinality(LeftOver(s, docs)) + Cardinality(White(s, docs)) + Cardinality(Open(s, docs))

LEMMA Shrinking ==
    ASSUME NEW B, IsFiniteSet(B), NEW A \in SUBSET B
    PROVE  /\ Cardinality(A) \in Nat /\ Cardinality(B) \in Nat
           /\ Cardinality(A) <= Cardinality(B)
           /\ A # B => Cardinality(A) + 1 <= Cardinality(B)
<1>1. /\ IsFiniteSet(A) /\ Cardinality(A) <= Cardinality(B)
      /\ Cardinality(A) = Cardinality(B) => A = B
  BY FS_Subset
<1>2. Cardinality(A) \in Nat /\ Cardinality(B) \in Nat
  BY <1>1, FS_CardinalityType
<1> QED BY <1>1, <1>2

LEMMA LessToDo ==
    ASSUME NEW docs \in SUBSET Paths, NEW s, NEW t,
           LeftOver(t, docs) \subseteq LeftOver(s, docs),
           White(t, docs) \subseteq White(s, docs),
           Open(t, docs) \subseteq Open(s, docs)
    PROVE  /\ ToDo(t, docs) \in Nat /\ ToDo(s, docs) \in Nat
           /\ \/ LeftOver(t, docs) # LeftOver(s, docs)
              \/ White(t, docs) # White(s, docs)
              \/ Open(t, docs) # Open(s, docs)
              => ToDo(t, docs) + 1 <= ToDo(s, docs)
<1>1. IsFiniteSet(docs) /\ IsFiniteSet(docs \X docs)
  BY PathsAreFinite, FS_Product
<1>2. /\ IsFiniteSet(LeftOver(s, docs)) /\ IsFiniteSet(White(s, docs)) /\ IsFiniteSet(Open(s, docs))
  <2>1. /\ LeftOver(s, docs) \subseteq docs \X docs
        /\ White(s, docs) \subseteq docs /\ Open(s, docs) \subseteq docs
    BY DEF LeftOver, White, Open
  <2> QED BY <1>1, <2>1, FS_Subset
<1> DEFINE a == Cardinality(LeftOver(t, docs))
           b == Cardinality(White(t, docs))
           c == Cardinality(Open(t, docs))
           x == Cardinality(LeftOver(s, docs))
           y == Cardinality(White(s, docs))
           z == Cardinality(Open(s, docs))
<1>3. a \in Nat /\ x \in Nat /\ a <= x /\ (LeftOver(t, docs) # LeftOver(s, docs) => a + 1 <= x)
  BY <1>2, Shrinking
<1>4. b \in Nat /\ y \in Nat /\ b <= y /\ (White(t, docs) # White(s, docs) => b + 1 <= y)
  BY <1>2, Shrinking
<1>5. c \in Nat /\ z \in Nat /\ c <= z /\ (Open(t, docs) # Open(s, docs) => c + 1 <= z)
  BY <1>2, Shrinking
<1>6. ToDo(t, docs) = a + b + c /\ ToDo(s, docs) = x + y + z
  BY DEF ToDo
<1> HIDE DEF a, b, c, x, y, z
<1> QED BY <1>3, <1>4, <1>5, <1>6

\* A step keeps what is known of a search, and if it is not the end, there is
\* less to do after it.
LEMMA VisitKeeps ==
    ASSUME NEW docs \in SUBSET Paths, NEW providers \in [docs -> SUBSET docs],
           NEW s, SearchInv(s, docs, providers)
    PROVE  /\ SearchInv(Visit(s, providers), docs, providers)
           /\ ToDo(s, docs) \in Nat
           /\ \/ Ended(s, docs) /\ Visit(s, providers) = s
              \/ /\ ToDo(Visit(s, providers), docs) \in Nat
                 /\ ToDo(Visit(s, providers), docs) + 1 <= ToDo(s, docs)
<1> DEFINE t == Visit(s, providers)
<1>1. SearchShape(s, docs, providers)
  BY DEF SearchInv
<1>2. /\ s.colour \in [docs -> {"white", "grey", "black"}] /\ s.left \in [docs -> SUBSET docs]
  BY <1>1 DEF SearchShape
<1>3. \/ \E d \in docs : Enters(s, t, d, docs, providers)
      \/ Leaves(s, t, docs, providers)
      \/ \E dep \in docs : Passes(s, t, dep, docs, providers)
      \/ Ended(s, docs) /\ t = s
  BY <1>1, VisitSteps
<1> HIDE DEF t
<1>4. CASE \E d \in docs : Enters(s, t, d, docs, providers)
  <2>1. PICK d \in docs : Enters(s, t, d, docs, providers)
    BY <1>4
  <2>2. SearchInv(t, docs, providers)
    BY <2>1, EntersKeeps
  <2>3. PICK left : /\ \/ s.stack = <<>> /\ left = s.left
                       \/ /\ s.stack # <<>> /\ d \in s.left[Top(s)]
                          /\ left = Without(s.left, Top(s), d)
                    /\ t = Turned([s.colour EXCEPT ![d] = "grey"], left, Append(s.stack, d), s.cycles)
    BY <2>1 DEF Enters
  <2>4. \A x \in docs : left[x] \subseteq s.left[x]
    <3>1. CASE s.stack = <<>>
      BY <2>3, <3>1
    <3>2. CASE s.stack # <<>>
      <4>1. Cut(Without(s.left, Top(s), d), s.left, Top(s), d, docs)
        BY <1>1, <3>2, WithoutIs
      <4> QED BY <2>3, <3>2, <4>1 DEF Cut
    <3> QED BY <3>1, <3>2
  <2>5. t.left = left /\ t.colour = [s.colour EXCEPT ![d] = "grey"]
    BY <2>3 DEF Turned
  <2>6. s.colour[d] = "white"
    BY <2>1 DEF Enters
  <2>7. /\ t.colour[d] = "grey" /\ \A x \in docs : x # d => t.colour[x] = s.colour[x]
    BY <1>2, <2>5
  <2>8. /\ LeftOver(t, docs) \subseteq LeftOver(s, docs)
        /\ White(t, docs) \subseteq White(s, docs) /\ Open(t, docs) \subseteq Open(s, docs)
        /\ d \in White(s, docs) /\ d \notin White(t, docs)
    BY <2>4, <2>5, <2>6, <2>7 DEF LeftOver, White, Open
  <2> QED BY <2>2, <2>8, LessToDo DEF t
<1>5. CASE Leaves(s, t, docs, providers)
  <2>1. SearchInv(t, docs, providers)
    BY <1>5, LeavesKeeps
  <2>2. /\ t.left = s.left /\ t.colour = [s.colour EXCEPT ![Top(s)] = "black"]
        /\ s.stack # <<>>
    BY <1>5 DEF Leaves, Turned
  <2>3. Top(s) \in docs /\ Top(s) \in ToSet(s.stack)
    BY <1>1, <2>2, WithoutIs
  <2>4. s.colour[Top(s)] = "grey"
    BY <2>3 DEF SearchInv, Coloured
  <2>5. t.colour[Top(s)] = "black" /\ \A x \in docs : x # Top(s) => t.colour[x] = s.colour[x]
    BY <1>2, <2>2, <2>3
  <2>6. /\ LeftOver(t, docs) \subseteq LeftOver(s, docs)
        /\ White(t, docs) \subseteq White(s, docs) /\ Open(t, docs) \subseteq Open(s, docs)
        /\ Top(s) \in Open(s, docs) /\ Top(s) \notin Open(t, docs)
    BY <2>2, <2>3, <2>4, <2>5 DEF LeftOver, White, Open
  <2> QED BY <2>1, <2>6, LessToDo DEF t
<1>6. CASE \E dep \in docs : Passes(s, t, dep, docs, providers)
  <2>1. PICK dep \in docs : Passes(s, t, dep, docs, providers)
    BY <1>6
  <2>2. SearchInv(t, docs, providers)
    BY <2>1, PassesKeeps
  <2>3. /\ t.left = Without(s.left, Top(s), dep) /\ t.colour = s.colour
        /\ s.stack # <<>> /\ dep \in s.left[Top(s)]
    BY <2>1 DEF Passes, Turned
  <2>4. Top(s) \in docs /\ Cut(t.left, s.left, Top(s), dep, docs)
    BY <1>1, <2>3, WithoutIs
  <2>5. <<Top(s), dep>> \in LeftOver(s, docs) /\ <<Top(s), dep>> \notin LeftOver(t, docs)
    BY <2>3, <2>4 DEF LeftOver, Cut
  <2>6. /\ LeftOver(t, docs) \subseteq LeftOver(s, docs)
        /\ White(t, docs) \subseteq White(s, docs) /\ Open(t, docs) \subseteq Open(s, docs)
    BY <2>3, <2>4 DEF LeftOver, White, Open, Cut
  <2> QED BY <2>2, <2>5, <2>6, LessToDo DEF t
<1>7. CASE Ended(s, docs) /\ t = s
  <2>1. ToDo(s, docs) \in Nat
    BY LessToDo
  <2> QED BY <1>7, <2>1 DEF t
<1> QED BY <1>3, <1>4, <1>5, <1>6, <1>7

\* find_cycles (graph.rs:253): what the search reports is a cycle, and without a
\* report there is none.
THEOREM SearchFinds ==
    ASSUME NEW docs \in SUBSET Paths, NEW providers \in [docs -> SUBSET docs]
    PROVE  /\ \A path \in FindCycles(providers) : IsCycle(path, docs, providers)
           /\ FindCycles(providers) = {} => Acyclic(docs, providers)
<1> DEFINE C == Cardinality(docs)
           N == C * (C + 2)
           start == [colour |-> [d \in docs |-> "white"], left |-> providers,
                     stack  |-> <<>>, cycles |-> {}]
           Is(f) == f = [n \in 0 .. N |-> IF n = 0 THEN start ELSE Visit(f[n - 1], providers)]
           search == CHOOSE f : Is(f)
           States == [colour : [docs -> {"white", "grey", "black"}],
                      left   : [docs -> SUBSET docs],
                      stack  : Seq(docs), cycles : SUBSET Seq(docs)]
           Good == {s \in States : SearchInv(s, docs, providers)}
<1>1. FindCycles(providers) = search[N].cycles
  <2>1. DOMAIN providers = docs
    OBVIOUS
  <2> QED BY <2>1 DEF FindCycles
<1>2. C \in Nat /\ N \in Nat /\ IsFiniteSet(docs)
  <2>1. C \in Nat /\ IsFiniteSet(docs)
    BY PathsAreFinite, FS_CardinalityType
  <2> HIDE DEF C
  <2> QED BY <2>1
<1>3. SearchInv(start, docs, providers)
  <2>1. /\ start.colour = [d \in docs |-> "white"] /\ start.left = providers
        /\ start.stack = <<>> /\ start.cycles = {}
        /\ start = [colour |-> start.colour, left |-> start.left,
                    stack |-> start.stack, cycles |-> start.cycles]
        /\ ToSet(<<>>) = {} /\ Len(<<>>) = 0 /\ <<>> \in Seq(docs)
    BY NothingIn
  <2> HIDE DEF start
  <2>2. SearchShape(start, docs, providers)
    BY <2>1 DEF SearchShape, Distinct
  <2>3. Coloured(start, docs, providers)
    BY <2>1 DEF Coloured
  <2>4. Black(start, docs) = {}
    BY <2>1 DEF Black
  <2>5. Looked(start, docs, providers) /\ Acyclic(Black(start, docs), providers)
    BY <2>1, <2>4 DEF Looked, Acyclic
  <2> QED BY <2>1, <2>2, <2>3, <2>5 DEF SearchInv, Trail
<1>4. ASSUME NEW s, SearchInv(s, docs, providers) PROVE s \in Good
  <2>1. SearchShape(s, docs, providers) /\ s.cycles \subseteq Seq(docs)
    BY <1>4 DEF SearchInv, IsCycle
  <2>2. /\ s = [colour |-> s.colour, left |-> s.left, stack |-> s.stack, cycles |-> s.cycles]
        /\ s.colour \in [docs -> {"white", "grey", "black"}]
        /\ s.left \in [docs -> SUBSET docs] /\ s.stack \in Seq(docs)
    BY <2>1 DEF SearchShape
  <2>3. s \in States
    BY <2>1, <2>2
  <2> QED BY <1>4, <2>3
<1>5. \A s \in Good : SearchInv(s, docs, providers)
  OBVIOUS
<1>6. \A s \in Good : Visit(s, providers) \in Good
  BY <1>4, <1>5, VisitKeeps
<1> HIDE DEF Good
<1>7. Is(search)
  <2> DEFINE next == [q \in (1 .. N) \X Good |-> Visit(q[2], providers)]
  <2> HIDE DEF N, start
  <2>1. IsRound(next, N, Good)
    BY <1>6 DEF IsRound
  <2>2. \A n \in 1 .. N : \A s \in Good : next[<<n, s>>] = Visit(s, providers)
    OBVIOUS
  <2> HIDE DEF next
  <2>3. PICK f : Values(f, N, Good, start, next)
    BY <1>2, <1>3, <1>4, <2>1, Loop
  <2>4. \A n \in 1 .. N : f[n - 1] \in Good
    BY <1>2, <2>3 DEF Values
  <2>5. \A n \in 1 .. N : f[n] = Visit(f[n - 1], providers)
    BY <2>2, <2>3, <2>4 DEF Values
  <2>6. Is(f)
    BY <1>2, <2>3, <2>5 DEF Values
  <2> HIDE DEF Is
  <2> QED BY <2>6
<1> HIDE DEF search
<1>8. search[0] = start /\ \A n \in 1 .. N : search[n] = Visit(search[n - 1], providers)
  <2> HIDE DEF N, start
  <2> QED BY <1>2, <1>7
<1>9. ToDo(start, docs) \in Nat /\ ToDo(start, docs) <= N
  <2> DEFINE l == Cardinality(LeftOver(start, docs))
             w == Cardinality(White(start, docs))
             o == Cardinality(Open(start, docs))
  <2> HIDE DEF start
  <2>1. IsFiniteSet(docs \X docs) /\ Cardinality(docs \X docs) = C * C
    BY <1>2, FS_Product
  <2>2. /\ LeftOver(start, docs) \in SUBSET (docs \X docs)
        /\ White(start, docs) \in SUBSET docs /\ Open(start, docs) \in SUBSET docs
    BY DEF LeftOver, White, Open
  <2>3. l \in Nat /\ l <= Cardinality(docs \X docs)
    BY <2>1, <2>2, Shrinking
  <2>4. w \in Nat /\ w <= C /\ o \in Nat /\ o <= C
    BY <1>2, <2>2, Shrinking
  <2>5. ToDo(start, docs) = l + w + o
    BY DEF ToDo
  <2> HIDE DEF l, w, o, C
  <2>6. C * (C + 2) = C * C + C + C
    BY <1>2
  <2>7. C * C \in Nat
    BY <1>2
  <2> QED BY <1>2, <2>1, <2>3, <2>4, <2>5, <2>6, <2>7
<1> HIDE DEF N
<1> DEFINE P(n) == /\ SearchInv(search[n], docs, providers)
                   /\ ToDo(search[n], docs) \in Nat
                   /\ Ended(search[n], docs) \/ ToDo(search[n], docs) + n <= N
           T == {n \in 0 .. N : P(n)}
<1>10. P(0)
  <2> HIDE DEF start
  <2> QED BY <1>2, <1>3, <1>8, <1>9
<1>11. ASSUME NEW n \in 0 .. N - 1, P(n)
       PROVE  P(n + 1)
  <2>1. n + 1 \in 1 .. N /\ (n + 1) - 1 = n /\ n \in Nat
    BY <1>2
  <2> DEFINE s == search[n]
             t == search[n + 1]
  <2>2. t = Visit(s, providers)
    BY <1>8, <2>1
  <2>3. SearchInv(s, docs, providers) /\ ToDo(s, docs) \in Nat
        /\ (Ended(s, docs) \/ ToDo(s, docs) + n <= N)
    BY <1>11
  <2> HIDE DEF s, t
  <2>4. /\ SearchInv(t, docs, providers)
        /\ \/ Ended(s, docs) /\ t = s
           \/ ToDo(t, docs) \in Nat /\ ToDo(t, docs) + 1 <= ToDo(s, docs)
    BY <2>2, <2>3, VisitKeeps
  <2>5. CASE Ended(s, docs) /\ t = s
    BY <2>3, <2>4, <2>5 DEF t
  <2>6. CASE ~Ended(s, docs)
    BY <1>2, <2>1, <2>3, <2>4, <2>6 DEF t
  <2>7. CASE Ended(s, docs) /\ t # s
    <3>1. SearchInv(s, docs, providers) /\ s.stack = <<>> /\ White(s, docs) = {}
      BY <2>3, <2>7 DEF Ended, White
    <3>2. \A x \in docs : s.colour[x] # "white"
      BY <2>7 DEF Ended
    <3>3. t = s
      <4>1. DOMAIN providers = docs
        OBVIOUS
      <4>2. {d \in docs : s.colour[d] = "white"} = {}
        BY <3>2
      <4> QED BY <2>2, <3>1, <4>1, <4>2 DEF Visit
    <3> QED BY <2>7, <3>3
  <2> QED BY <2>5, <2>6, <2>7
<1>12. P(N)
  <2> HIDE DEF P
  <2>1. 0 \in T /\ \A n \in 0 .. N - 1 : n \in T => n + 1 \in T
    BY <1>2, <1>10, <1>11
  <2> HIDE DEF T
  <2>2. N \in T
    BY <1>2, <2>1, CountingTo
  <2> QED BY <2>2 DEF T
<1> DEFINE last == search[N]
<1>13. SearchInv(last, docs, providers) /\ (Ended(last, docs) \/ ToDo(last, docs) = 0)
  BY <1>2, <1>12
<1> HIDE DEF last
<1>14. Ended(last, docs)
  <2> SUFFICES ASSUME ~Ended(last, docs) PROVE FALSE
    OBVIOUS
  <2>1. ToDo(Visit(last, providers), docs) \in Nat
        /\ ToDo(Visit(last, providers), docs) + 1 <= ToDo(last, docs)
    BY <1>13, VisitKeeps
  <2> QED BY <1>13, <2>1
<1>15. \A path \in last.cycles : IsCycle(path, docs, providers)
  BY <1>13 DEF SearchInv
<1>16. last.cycles = {} => Acyclic(docs, providers)
  <2> SUFFICES ASSUME last.cycles = {} PROVE Acyclic(docs, providers)
    OBVIOUS
  <2>1. Black(last, docs) = docs
    <3> SUFFICES ASSUME NEW d \in docs PROVE last.colour[d] = "black"
      BY DEF Black
    <3>1. last.colour[d] \in {"white", "grey", "black"}
      BY <1>13 DEF SearchInv, SearchShape
    <3>2. last.colour[d] # "white" /\ last.stack = <<>>
      BY <1>14 DEF Ended
    <3>3. last.colour[d] = "grey" => d \in ToSet(<<>>)
      BY <1>13, <3>2 DEF SearchInv, Coloured
    <3> QED BY <3>1, <3>2, <3>3, NothingIn
  <2> QED BY <1>13, <2>1 DEF SearchInv
<1> QED BY <1>1, <1>15, <1>16 DEF last

(***************************************************************************)
(* Which documents a document reaches.                                     *)
(***************************************************************************)
Further(to, docs) == [d \in docs |-> to[d] \cup UNION {to[p] : p \in to[d]}]

Reach(docs, providers) ==
    LET reach[n \in 0 .. Cardinality(docs)] ==
            IF n = 0 THEN providers ELSE Further(reach[n - 1], docs)
    IN  reach

LEMMA ReachIs ==
    ASSUME NEW docs \in SUBSET Paths, NEW providers \in [docs -> SUBSET docs]
    PROVE  /\ Cardinality(docs) \in Nat
           /\ Reach(docs, providers) \in [0 .. Cardinality(docs) -> [docs -> SUBSET docs]]
           /\ Reach(docs, providers)[0] = providers
           /\ \A n \in 1 .. Cardinality(docs) :
                 Reach(docs, providers)[n] = Further(Reach(docs, providers)[n - 1], docs)
<1> DEFINE N == Cardinality(docs)
           Good == [docs -> SUBSET docs]
           Is(f) == f = [n \in 0 .. N |-> IF n = 0 THEN providers ELSE Further(f[n - 1], docs)]
           reach == CHOOSE f : Is(f)
           next == [q \in (1 .. N) \X Good |-> Further(q[2], docs)]
<1>1. Reach(docs, providers) = reach
  BY DEF Reach
<1>2. N \in Nat
  BY PathsAreFinite, FS_CardinalityType
<1>3. \A to \in Good : Further(to, docs) \in Good
  BY DEF Further
<1>4. providers \in Good
  OBVIOUS
<1> HIDE DEF N, Good
<1>5. IsRound(next, N, Good)
  BY <1>3 DEF IsRound
<1>6. \A n \in 1 .. N : \A s \in Good : next[<<n, s>>] = Further(s, docs)
  OBVIOUS
<1> HIDE DEF next
<1>7. PICK f : Values(f, N, Good, providers, next)
  BY <1>2, <1>4, <1>5, Loop
<1>8. \A n \in 1 .. N : f[n - 1] \in Good
  BY <1>2, <1>7 DEF Values
<1>9. \A n \in 1 .. N : f[n] = Further(f[n - 1], docs)
  BY <1>6, <1>7, <1>8 DEF Values
<1>10. Is(f)
  BY <1>2, <1>7, <1>9 DEF Values
<1>11. Is(reach)
  <2> HIDE DEF Is
  <2> QED BY <1>10
<1> HIDE DEF reach
<1>12. reach[0] = providers /\ \A n \in 1 .. N : reach[n] = Further(reach[n - 1], docs)
  BY <1>2, <1>11
<1>13. DOMAIN reach = 0 .. N /\ reach = [n \in 0 .. N |-> reach[n]]
  BY <1>11
<1> DEFINE T == {n \in 0 .. N : reach[n] \in Good}
<1>14. 0 \in T /\ \A n \in 0 .. N - 1 : n \in T => n + 1 \in T
  <2>1. 0 \in T
    BY <1>2, <1>4, <1>12
  <2>2. ASSUME NEW n \in 0 .. N - 1, n \in T PROVE n + 1 \in T
    <3>1. n + 1 \in 1 .. N /\ (n + 1) - 1 = n
      BY <1>2
    <3> QED BY <1>3, <1>12, <2>2, <3>1
  <2> QED BY <2>1, <2>2
<1>15. \A n \in 0 .. N : n \in T
  <2> HIDE DEF T
  <2> QED BY <1>2, <1>14, CountingTo
<1>16. reach \in [0 .. N -> Good]
  BY <1>13, <1>15
<1> QED BY <1>1, <1>2, <1>12, <1>16 DEF N, Good

\* A sequence that repeats nothing has as many elements as places.
LEMMA DistinctCount ==
    ASSUME NEW T, NEW s \in Seq(T), Distinct(s)
    PROVE  IsFiniteSet(ToSet(s)) /\ Cardinality(ToSet(s)) = Len(s)
<1>1. Len(s) \in Nat /\ DOMAIN s = 1 .. Len(s) /\ s = [i \in 1 .. Len(s) |-> s[i]]
  OBVIOUS
<1>2. s \in [1 .. Len(s) -> ToSet(s)] /\ \A x \in ToSet(s) : \E i \in 1 .. Len(s) : s[i] = x
  BY <1>1 DEF ToSet
<1>3. s \in Bijection(1 .. Len(s), ToSet(s))
  BY <1>1, <1>2 DEF Bijection, Injection, Surjection, IsInjective, Distinct
<1>4. IsFiniteSet(1 .. Len(s)) /\ Cardinality(1 .. Len(s)) = Len(s)
  <2>1. ASSUME NEW n \in Nat PROVE IsFiniteSet(1 .. n) /\ Cardinality(1 .. n) = n
    <3>1. 1 \in Int /\ n \in Int
      OBVIOUS
    <3>2. /\ IsFiniteSet(1 .. n)
          /\ Cardinality(1 .. n) = IF 1 > n THEN 0 ELSE n - 1 + 1
      BY <3>1, FS_Interval
    <3> QED BY <3>2
  <2> QED BY <1>1, <2>1
<1>5. ExistsBijection(1 .. Len(s), ToSet(s))
  BY <1>3 DEF ExistsBijection
<1> QED BY <1>4, <1>5, FS_Bijection

LEMMA StepsOn ==
    ASSUME NEW docs, NEW to \in [docs -> SUBSET docs], NEW d \in docs
    PROVE  /\ to[d] \subseteq Further(to, docs)[d]
           /\ \A p \in to[d] : to[p] \subseteq Further(to, docs)[d]
           /\ \A x \in Further(to, docs)[d] : x \in to[d] \/ \E p \in to[d] : x \in to[p]
BY DEF Further

\* Who is on a cycle reaches itself.
LEMMA CycleReaches ==
    ASSUME NEW docs \in SUBSET Paths, NEW providers \in [docs -> SUBSET docs],
           NEW path, IsCycle(path, docs, providers)
    PROVE  \E d \in docs : d \in Reach(docs, providers)[Cardinality(docs)][d]
<1> DEFINE N == Cardinality(docs)
           L == Len(path)
           reach == Reach(docs, providers)
           from == path[1]
<1>1. /\ N \in Nat /\ reach[0] = providers /\ \A n \in 0 .. N : reach[n] \in [docs -> SUBSET docs]
      /\ \A n \in 1 .. N : reach[n] = Further(reach[n - 1], docs)
  BY ReachIs
<1>2. /\ L \in Nat /\ L >= 1 /\ \A i \in 1 .. L : path[i] \in docs
      /\ \A i \in 1 .. L - 1 : path[i + 1] \in providers[path[i]]
      /\ from \in providers[path[L]]
  BY DEF IsCycle
<1>3. L <= N
  <2>1. path \in Seq(docs) /\ Distinct(path)
    BY DEF IsCycle
  <2>2. Cardinality(ToSet(path)) = L
    BY <2>1, DistinctCount
  <2>3. ToSet(path) \in SUBSET docs /\ IsFiniteSet(docs)
    BY <2>1, PathsAreFinite DEF ToSet
  <2> QED BY <2>2, <2>3, Shrinking
<1> HIDE DEF N, L, reach, from
<1>4. from \in docs
  <2>1. 1 \in 1 .. L
    BY <1>2
  <2> QED BY <1>2, <2>1 DEF from
<1> DEFINE P(n) == /\ \A d \in docs : providers[d] \subseteq reach[n][d]
                   /\ \A j \in 2 .. L : j <= n + 2 => path[j] \in reach[n][from]
           T == {n \in 0 .. N : P(n)}
<1>5. P(0)
  <2>1. \A j \in 2 .. L : j <= 0 + 2 => j = 2 /\ 1 \in 1 .. L - 1 /\ 1 + 1 = 2
    BY <1>2
  <2>2. \A j \in 2 .. L : j <= 0 + 2 => path[j] \in providers[from]
    BY <1>2, <2>1 DEF from
  <2> QED BY <1>1, <2>2
<1>6. ASSUME NEW n \in 0 .. N - 1, P(n)
      PROVE  P(n + 1)
  <2>1. n + 1 \in 1 .. N /\ (n + 1) - 1 = n /\ n \in 0 .. N
    BY <1>1
  <2> DEFINE to == reach[n]
             more == reach[n + 1]
  <2>2. to \in [docs -> SUBSET docs] /\ more = Further(to, docs)
    BY <1>1, <2>1
  <2>3. /\ \A d \in docs : providers[d] \subseteq to[d]
        /\ \A j \in 2 .. L : j <= n + 2 => path[j] \in to[from]
    BY <1>6
  <2> HIDE DEF to, more
  <2>4. \A d \in docs : to[d] \subseteq more[d]
    BY <2>2, StepsOn
  <2>5. ASSUME NEW j \in 2 .. L, j <= (n + 1) + 2
        PROVE  path[j] \in more[from]
    <3>1. CASE j <= n + 2
      BY <1>4, <2>3, <2>4, <3>1
    <3>2. CASE j = n + 3
      <4>1. j - 1 \in 2 .. L /\ j - 1 <= n + 2 /\ j - 1 \in 1 .. L - 1 /\ (j - 1) + 1 = j
        BY <1>2, <2>1, <3>2
      <4>2. path[j - 1] \in to[from] /\ path[j] \in providers[path[j - 1]] /\ path[j - 1] \in docs
        BY <1>2, <2>3, <4>1
      <4>3. path[j] \in to[path[j - 1]]
        BY <2>3, <4>2
      <4>4. to[path[j - 1]] \subseteq more[from]
        BY <1>4, <2>2, <4>2, StepsOn
      <4> QED BY <4>3, <4>4
    <3> QED BY <1>2, <2>1, <2>5, <3>1, <3>2
  <2>6. \A d \in docs : providers[d] \subseteq more[d]
    BY <2>3, <2>4
  <2> QED BY <2>5, <2>6 DEF more
<1>7. \A n \in 0 .. N : P(n)
  <2> HIDE DEF P
  <2>1. 0 \in T /\ \A n \in 0 .. N - 1 : n \in T => n + 1 \in T
    BY <1>1, <1>5, <1>6
  <2> HIDE DEF T
  <2>2. \A n \in 0 .. N : n \in T
    BY <1>1, <2>1, CountingTo
  <2> QED BY <2>2 DEF T
<1>8. from \in reach[N][from]
  <2>1. N \in 1 .. N /\ N - 1 \in 0 .. N
    BY <1>1, <1>2, <1>3
  <2>2. reach[N] = Further(reach[N - 1], docs) /\ reach[N - 1] \in [docs -> SUBSET docs]
    BY <1>1, <2>1
  <2>3. P(N - 1)
    BY <1>7, <2>1
  <2>4. CASE L = 1
    <3>1. from \in providers[from]
      BY <1>2, <2>4 DEF from
    <3>2. from \in reach[N - 1][from]
      BY <1>4, <2>3, <3>1
    <3> QED BY <1>4, <2>2, <3>2, StepsOn
  <2>5. CASE L # 1
    <3>1. L \in 2 .. L /\ L <= (N - 1) + 2 /\ L \in 1 .. L
      BY <1>1, <1>2, <1>3, <2>5
    <3>2. path[L] \in reach[N - 1][from] /\ path[L] \in docs
      BY <1>2, <2>3, <3>1
    <3>3. from \in reach[N - 1][path[L]]
      BY <1>2, <2>3, <3>2
    <3>4. reach[N - 1][path[L]] \subseteq reach[N][from]
      BY <1>4, <2>2, <3>2, StepsOn
    <3> QED BY <3>3, <3>4
  <2> QED BY <2>4, <2>5
<1> QED BY <1>4, <1>8 DEF reach, N

\* Where the documents can be put in turn, none reaches itself.
LEMMA NoneReachesItself ==
    ASSUME NEW docs \in SUBSET Paths, NEW providers \in [docs -> SUBSET docs],
           Acyclic(docs, providers), NEW d \in docs
    PROVE  d \notin Reach(docs, providers)[Cardinality(docs)][d]
<1> DEFINE N == Cardinality(docs)
           order == TopologicalOrder(docs, providers)
           reach == Reach(docs, providers)
<1>1. /\ N \in Nat /\ reach[0] = providers /\ \A n \in 0 .. N : reach[n] \in [docs -> SUBSET docs]
      /\ \A n \in 1 .. N : reach[n] = Further(reach[n - 1], docs)
  BY ReachIs
<1>2. /\ \A i \in 1 .. N : order[i] \in docs
      /\ \A x \in docs : \E i \in 1 .. N : order[i] = x
      /\ \A i, j \in 1 .. N : order[i] = order[j] => i = j
      /\ \A i \in 1 .. N : \A p \in providers[order[i]] : \E j \in 1 .. i - 1 : order[j] = p
  <2>1. /\ order \in Seq(docs) /\ ToSet(order) = docs /\ Len(order) = N
        /\ Distinct(order) /\ InTurn(order, providers)
    BY OrderIs
  <2>2. DOMAIN order = 1 .. N
    BY <2>1
  <2> HIDE DEF order, N
  <2> QED BY <2>1, <2>2 DEF ToSet, Distinct, InTurn
<1> HIDE DEF N, order, reach
<1> DEFINE P(n) == \A i, j \in 1 .. N : order[j] \in reach[n][order[i]] => j < i
           T == {n \in 0 .. N : P(n)}
<1>3. P(0)
  <2> SUFFICES ASSUME NEW i \in 1 .. N, NEW j \in 1 .. N, order[j] \in providers[order[i]]
               PROVE  j < i
    BY <1>1
  <2>1. PICK k \in 1 .. i - 1 : order[k] = order[j]
    BY <1>2
  <2>2. k \in 1 .. N
    BY <1>1, <2>1
  <2> QED BY <1>1, <1>2, <2>1, <2>2
<1>4. ASSUME NEW n \in 0 .. N - 1, P(n)
      PROVE  P(n + 1)
  <2>1. n + 1 \in 1 .. N /\ (n + 1) - 1 = n /\ n \in 0 .. N
    BY <1>1
  <2>2. reach[n] \in [docs -> SUBSET docs] /\ reach[n + 1] = Further(reach[n], docs)
    BY <1>1, <2>1
  <2> SUFFICES ASSUME NEW i \in 1 .. N, NEW j \in 1 .. N, order[j] \in reach[n + 1][order[i]]
               PROVE  j < i
    OBVIOUS
  <2>3. order[i] \in docs
    BY <1>2
  <2>4. \/ order[j] \in reach[n][order[i]]
        \/ \E p \in reach[n][order[i]] : order[j] \in reach[n][p]
    BY <2>2, <2>3, StepsOn
  <2>5. CASE order[j] \in reach[n][order[i]]
    BY <1>4, <2>5
  <2>6. CASE \E p \in reach[n][order[i]] : order[j] \in reach[n][p]
    <3>1. PICK p \in reach[n][order[i]] : order[j] \in reach[n][p]
      BY <2>6
    <3>2. p \in docs
      BY <2>2, <2>3
    <3>3. PICK k \in 1 .. N : order[k] = p
      BY <1>2, <3>2
    <3>4. k < i /\ j < k
      BY <1>4, <3>1, <3>3
    <3> QED BY <1>1, <3>4
  <2> QED BY <2>4, <2>5, <2>6
<1>5. P(N)
  <2> HIDE DEF P
  <2>1. 0 \in T /\ \A n \in 0 .. N - 1 : n \in T => n + 1 \in T
    BY <1>1, <1>3, <1>4
  <2> HIDE DEF T
  <2>2. N \in T
    BY <1>1, <2>1, CountingTo
  <2> QED BY <2>2 DEF T
<1>6. PICK i \in 1 .. N : order[i] = d
  BY <1>2
<1>7. d \notin reach[N][d]
  <2>1. d \in reach[N][d] => i < i
    BY <1>5, <1>6
  <2> QED BY <1>1, <2>1
<1> QED BY <1>7 DEF N, reach

-----------------------------------------------------------------------------
(***************************************************************************)
(* The schedule.                                                           *)
(***************************************************************************)
\* Everything that a document depends on, however far away.
Deeper(of, docs, providers) ==
    [d \in docs |-> providers[d] \cup UNION {of[p] : p \in providers[d]}]

Upstream(docs, providers) ==
    LET upstream[n \in 0 .. Cardinality(docs)] ==
            IF n = 0 THEN providers ELSE Deeper(upstream[n - 1], docs, providers)
    IN  upstream

LEMMA UpstreamIs ==
    ASSUME NEW docs \in SUBSET Paths, NEW providers \in [docs -> SUBSET docs]
    PROVE  /\ Cardinality(docs) \in Nat
           /\ Upstream(docs, providers) \in [0 .. Cardinality(docs) -> [docs -> SUBSET docs]]
           /\ Upstream(docs, providers)[0] = providers
           /\ \A n \in 1 .. Cardinality(docs) :
                 Upstream(docs, providers)[n]
                    = Deeper(Upstream(docs, providers)[n - 1], docs, providers)
<1> DEFINE N == Cardinality(docs)
           Good == [docs -> SUBSET docs]
           Is(f) == f = [n \in 0 .. N |-> IF n = 0 THEN providers ELSE Deeper(f[n - 1], docs, providers)]
           upstream == CHOOSE f : Is(f)
           next == [q \in (1 .. N) \X Good |-> Deeper(q[2], docs, providers)]
<1>1. Upstream(docs, providers) = upstream
  BY DEF Upstream
<1>2. N \in Nat
  BY PathsAreFinite, FS_CardinalityType
<1>3. \A of \in Good : Deeper(of, docs, providers) \in Good
  BY DEF Deeper
<1>4. providers \in Good
  OBVIOUS
<1> HIDE DEF N, Good
<1>5. IsRound(next, N, Good)
  BY <1>3 DEF IsRound
<1>6. \A n \in 1 .. N : \A s \in Good : next[<<n, s>>] = Deeper(s, docs, providers)
  OBVIOUS
<1> HIDE DEF next
<1>7. PICK f : Values(f, N, Good, providers, next)
  BY <1>2, <1>4, <1>5, Loop
<1>8. \A n \in 1 .. N : f[n - 1] \in Good
  BY <1>2, <1>7 DEF Values
<1>9. \A n \in 1 .. N : f[n] = Deeper(f[n - 1], docs, providers)
  BY <1>6, <1>7, <1>8 DEF Values
<1>10. Is(f)
  BY <1>2, <1>7, <1>9 DEF Values
<1>11. Is(upstream)
  <2> HIDE DEF Is
  <2> QED BY <1>10
<1> HIDE DEF upstream
<1>12. upstream[0] = providers
       /\ \A n \in 1 .. N : upstream[n] = Deeper(upstream[n - 1], docs, providers)
  BY <1>2, <1>11
<1>13. DOMAIN upstream = 0 .. N /\ upstream = [n \in 0 .. N |-> upstream[n]]
  BY <1>11
<1> DEFINE T == {n \in 0 .. N : upstream[n] \in Good}
<1>14. 0 \in T /\ \A n \in 0 .. N - 1 : n \in T => n + 1 \in T
  <2>1. 0 \in T
    BY <1>2, <1>4, <1>12
  <2>2. ASSUME NEW n \in 0 .. N - 1, n \in T PROVE n + 1 \in T
    <3>1. n + 1 \in 1 .. N /\ (n + 1) - 1 = n
      BY <1>2
    <3> QED BY <1>3, <1>12, <2>2, <3>1
  <2> QED BY <2>1, <2>2
<1>15. \A n \in 0 .. N : n \in T
  <2> HIDE DEF T
  <2> QED BY <1>2, <1>14, CountingTo
<1>16. upstream \in [0 .. N -> Good]
  BY <1>13, <1>15
<1> QED BY <1>1, <1>2, <1>12, <1>16 DEF N, Good

\* Where the documents can be put in turn, as many rounds as there are
\* documents are enough: one more adds nothing.
LEMMA UpstreamSettles ==
    ASSUME NEW docs \in SUBSET Paths, NEW providers \in [docs -> SUBSET docs],
           Acyclic(docs, providers), NEW d \in docs
    PROVE  Upstream(docs, providers)[Cardinality(docs)][d]
              = providers[d] \cup
                UNION {Upstream(docs, providers)[Cardinality(docs)][p] : p \in providers[d]}
<1> DEFINE N == Cardinality(docs)
           order == TopologicalOrder(docs, providers)
           up == Upstream(docs, providers)
<1>1. /\ N \in Nat /\ up[0] = providers
      /\ \A n \in 1 .. N : up[n] = Deeper(up[n - 1], docs, providers)
  BY UpstreamIs
<1>2. /\ \A i \in 1 .. N : order[i] \in docs
      /\ \A x \in docs : \E i \in 1 .. N : order[i] = x
      /\ \A i \in 1 .. N : \A p \in providers[order[i]] : \E j \in 1 .. i - 1 : order[j] = p
  <2>1. /\ order \in Seq(docs) /\ ToSet(order) = docs /\ Len(order) = N
        /\ InTurn(order, providers)
    BY OrderIs
  <2>2. DOMAIN order = 1 .. N
    BY <2>1
  <2> HIDE DEF order, N
  <2> QED BY <2>1, <2>2 DEF ToSet, InTurn
<1> HIDE DEF N, order, up
<1>3. \A n \in 1 .. N : \A x \in docs :
         up[n][x] = providers[x] \cup UNION {up[n - 1][p] : p \in providers[x]}
  <2> TAKE n \in 1 .. N
  <2>1. up[n] = Deeper(up[n - 1], docs, providers)
    BY <1>1
  <2> QED BY <2>1 DEF Deeper
<1> DEFINE P(n) == \A i \in 1 .. N : i <= n + 1 => up[n + 1][order[i]] = up[n][order[i]]
           M == N - 1
           T == {n \in 0 .. M : P(n)}
<1>4. N \in Nat \ {0}
  <2>1. PICK i \in 1 .. N : order[i] = d
    BY <1>2
  <2> QED BY <1>1
<1>5. P(0)
  <2> SUFFICES ASSUME NEW i \in 1 .. N, i <= 0 + 1
               PROVE  up[0 + 1][order[i]] = up[0][order[i]]
    OBVIOUS
  <2>1. providers[order[i]] = {}
    <3> SUFFICES ASSUME NEW p \in providers[order[i]] PROVE FALSE
      OBVIOUS
    <3>1. PICK j \in 1 .. i - 1 : order[j] = p
      BY <1>2
    <3> QED BY <1>1
  <2>2. 0 + 1 \in 1 .. N /\ (0 + 1) - 1 = 0
    BY <1>4
  <2>3. up[0 + 1][order[i]] = providers[order[i]] \cup UNION {up[0][p] : p \in providers[order[i]]}
    <3>1. order[i] \in docs
      BY <1>2
    <3> QED BY <1>3, <2>2, <3>1
  <2> QED BY <1>1, <2>1, <2>3
<1>6. ASSUME NEW n \in 0 .. M - 1, P(n)
      PROVE  P(n + 1)
  <2>1. n + 1 \in 1 .. N /\ (n + 1) - 1 = n /\ n + 2 \in 1 .. N /\ (n + 2) - 1 = n + 1
        /\ (n + 1) + 1 = n + 2
    BY <1>4
  <2> SUFFICES ASSUME NEW i \in 1 .. N, i <= n + 2
               PROVE  up[n + 2][order[i]] = up[n + 1][order[i]]
    BY <2>1
  <2>2. order[i] \in docs
    BY <1>2
  <2>3. /\ up[n + 2][order[i]] = providers[order[i]] \cup UNION {up[n + 1][p] : p \in providers[order[i]]}
        /\ up[n + 1][order[i]] = providers[order[i]] \cup UNION {up[n][p] : p \in providers[order[i]]}
    BY <1>3, <2>1, <2>2
  <2>4. \A p \in providers[order[i]] : up[n + 1][p] = up[n][p]
    <3> TAKE p \in providers[order[i]]
    <3>1. PICK j \in 1 .. i - 1 : order[j] = p
      BY <1>2
    <3>2. j \in 1 .. N /\ j <= n + 1
      BY <1>4, <2>1, <3>1
    <3> QED BY <1>6, <3>1, <3>2
  <2> QED BY <2>3, <2>4
<1>7. P(M)
  <2> HIDE DEF P
  <2>1. M \in Nat /\ 0 \in T /\ \A n \in 0 .. M - 1 : n \in T => n + 1 \in T
    BY <1>4, <1>5, <1>6
  <2> HIDE DEF T
  <2>2. M \in T
    <3> HIDE DEF M
    <3> QED BY <2>1, CountingTo
  <2> QED BY <2>2 DEF T
<1>8. \A x \in docs : up[N][x] = up[M][x]
  <2> TAKE x \in docs
  <2>1. PICK i \in 1 .. N : order[i] = x
    BY <1>2
  <2>2. i <= M + 1 /\ M + 1 = N
    BY <1>4
  <2> HIDE DEF M
  <2> QED BY <1>7, <2>1, <2>2
<1>9. up[N][d] = providers[d] \cup UNION {up[M][p] : p \in providers[d]}
  <2>1. N \in 1 .. N /\ N - 1 = M
    BY <1>4
  <2> QED BY <1>3, <2>1
<1>10. \A p \in providers[d] : up[M][p] = up[N][p]
  BY <1>8
<1>11. up[N][d] = providers[d] \cup UNION {up[N][p] : p \in providers[d]}
  BY <1>9, <1>10
<1> QED BY <1>11 DEF up, N

LEMMA IsFunction ==
    ASSUME NEW S, NEW T, NEW f, f = [x \in S |-> f[x]], \A x \in S : f[x] \in T
    PROVE  f \in [S -> T]
OBVIOUS

\* schedule (schedule.rs:66) judges every document once, after its providers: by its
\* own causes, and by whether anything that it depends on has any.
THEOREM ScheduleIs ==
    ASSUME NEW docs \in SUBSET Paths, NEW providers \in [docs -> SUBSET docs],
           Acyclic(docs, providers), NEW state, NEW manifests
    PROVE  LET statuses == Schedule(TopologicalOrder(docs, providers), providers, state, manifests)
           IN  /\ DOMAIN statuses = docs
               /\ \A d \in docs :
                     /\ statuses[d].causes = Causes(d, state, manifests)
                     /\ statuses[d].waiting # {} <=>
                           \E x \in Upstream(docs, providers)[Cardinality(docs)][d] :
                              Causes(x, state, manifests) # {}
<1> DEFINE N == Cardinality(docs)
           order == TopologicalOrder(docs, providers)
           up == Upstream(docs, providers)[N]
           Why(d) == Causes(d, state, manifests)
           Judged(before, d) ==
               With(before, d, [causes  |-> Why(d),
                                waiting |-> {p \in providers[d] : WaitsOn(p, before)}])
           Is(f) == f = [n \in 0 .. Len(order) |->
                           IF n = 0 THEN <<>> ELSE Judged(f[n - 1], order[n])]
           st == CHOOSE f : Is(f)
<1>1. Schedule(order, providers, state, manifests) = st[Len(order)]
  BY DEF Schedule
<1>2. /\ order \in Seq(docs) /\ ToSet(order) = docs /\ Len(order) = N /\ N \in Nat
      /\ Distinct(order) /\ InTurn(order, providers)
  BY OrderIs
<1>3. /\ DOMAIN order = 1 .. N
      /\ \A i \in 1 .. N : order[i] \in docs
      /\ \A x \in docs : \E i \in 1 .. N : order[i] = x
      /\ \A i, j \in 1 .. N : order[i] = order[j] => i = j
      /\ \A i \in 1 .. N : \A p \in providers[order[i]] : \E j \in 1 .. i - 1 : order[j] = p
  <2>1. DOMAIN order = 1 .. N
    BY <1>2
  <2> HIDE DEF order, N
  <2> QED BY <1>2, <2>1 DEF ToSet, Distinct, InTurn
<1>4. \A d \in docs : up[d] = providers[d] \cup UNION {up[p] : p \in providers[d]}
  BY UpstreamSettles
<1> HIDE DEF order, up, N, st
<1> DEFINE Status == [causes : {Why(d) : d \in docs}, waiting : SUBSET docs]
           Good == UNION {[S -> Status] : S \in SUBSET docs}
           Waits(f, d) == {p \in providers[d] : WaitsOn(p, f)}
<1>5. \A f, d : /\ DOMAIN Judged(f, d) = DOMAIN f \cup {d}
                /\ Judged(f, d)[d] = [causes |-> Why(d), waiting |-> Waits(f, d)]
                /\ \A x \in DOMAIN f : x # d => Judged(f, d)[x] = f[x]
                /\ Judged(f, d) = [x \in DOMAIN f \cup {d} |-> Judged(f, d)[x]]
  BY DEF With
<1>6. ASSUME NEW f \in Good, NEW d \in docs PROVE Judged(f, d) \in Good
  <2>1. DOMAIN f \in SUBSET docs /\ f \in [DOMAIN f -> Status]
    OBVIOUS
  <2>2. [causes |-> Why(d), waiting |-> Waits(f, d)] \in Status
    <3> HIDE DEF Why
    <3> QED OBVIOUS
  <2> HIDE DEF Status, Judged, Why, Waits
  <2>3. \A x \in DOMAIN f \cup {d} : Judged(f, d)[x] \in Status
    BY <1>5, <2>1, <2>2
  <2>4. Judged(f, d) \in [DOMAIN f \cup {d} -> Status]
    <3>1. Judged(f, d) = [x \in DOMAIN f \cup {d} |-> Judged(f, d)[x]]
      BY <1>5
    <3> QED BY <2>3, <3>1, IsFunction
  <2>5. DOMAIN f \cup {d} \in SUBSET docs
    BY <2>1
  <2> QED BY <2>4, <2>5
<1>7. <<>> \in Good
  <2>1. <<>> \in [{} -> Status]
    OBVIOUS
  <2> HIDE DEF Status
  <2> QED BY <2>1
<1> HIDE DEF Judged, Good, Why
<1>8. Is(st)
  <2> DEFINE next == [q \in (1 .. N) \X Good |-> Judged(q[2], order[q[1]])]
  <2>1. IsRound(next, N, Good)
    BY <1>3, <1>6 DEF IsRound
  <2>2. \A n \in 1 .. N : \A s \in Good : next[<<n, s>>] = Judged(s, order[n])
    OBVIOUS
  <2> HIDE DEF next
  <2>3. PICK f : Values(f, N, Good, <<>>, next)
    BY <1>2, <1>7, <2>1, Loop
  <2>4. \A n \in 1 .. N : f[n - 1] \in Good
    BY <1>2, <2>3 DEF Values
  <2>5. \A n \in 1 .. N : f[n] = Judged(f[n - 1], order[n])
    BY <2>2, <2>3, <2>4 DEF Values
  <2>6. Is(f)
    BY <1>2, <2>3, <2>5 DEF Values
  <2> HIDE DEF Is
  <2> QED BY <2>6 DEF st
<1>9. st[0] = <<>> /\ \A n \in 1 .. N : st[n] = Judged(st[n - 1], order[n])
  BY <1>2, <1>8
<1> DEFINE Due(d) == Why(d) # {}
           Right(f, d) == /\ f[d].causes = Why(d)
                          /\ f[d].waiting # {} <=> \E x \in up[d] : Due(x)
           P(n) == /\ DOMAIN st[n] = {order[i] : i \in 1 .. n}
                   /\ \A i \in 1 .. n : Right(st[n], order[i])
           T == {n \in 0 .. N : P(n)}
<1>10. P(0)
  BY <1>9
<1>11. ASSUME NEW n \in 0 .. N - 1, P(n)
       PROVE  P(n + 1)
  <2> DEFINE f == st[n]
             g == st[n + 1]
             d == order[n + 1]
  <2>1. n + 1 \in 1 .. N /\ (n + 1) - 1 = n /\ n \in Nat
    BY <1>2
  <2>2. g = Judged(f, d) /\ d \in docs
    BY <1>3, <1>9, <2>1
  <2>3. DOMAIN f = {order[i] : i \in 1 .. n} /\ \A i \in 1 .. n : Right(f, order[i])
    BY <1>11
  <2>4. 1 .. n + 1 = (1 .. n) \cup {n + 1}
    BY <2>1
  <2>5. \A i \in 1 .. n : order[i] # d /\ order[i] \in DOMAIN f
    <3> TAKE i \in 1 .. n
    <3>1. i \in 1 .. N /\ i # n + 1
      BY <1>2, <2>1
    <3> QED BY <1>3, <2>1, <2>3, <3>1
  <2> HIDE DEF f, g, d
  <2>6. DOMAIN g = {order[i] : i \in 1 .. n + 1}
    <3>1. DOMAIN g = DOMAIN f \cup {d}
      BY <1>5, <2>2
    <3> QED BY <2>3, <2>4, <3>1 DEF d
  <2>7. g[d].causes = Why(d) /\ g[d].waiting = Waits(f, d)
    <3>1. g[d] = [causes |-> Why(d), waiting |-> Waits(f, d)]
      BY <1>5, <2>2
    <3> HIDE DEF Waits
    <3> QED BY <3>1
  <2>8. \A p \in providers[d] :
           WaitsOn(p, f) <=> (Due(p) \/ \E x \in up[p] : Due(x))
    <3> TAKE p \in providers[d]
    <3>1. PICK j \in 1 .. n : order[j] = p
      BY <1>3, <2>1 DEF d
    <3>2. p \in DOMAIN f /\ Right(f, p)
      BY <2>3, <2>5, <3>1
    <3> QED BY <3>2 DEF WaitsOn
  <2>9. g[d].waiting # {} <=> \E x \in up[d] : Due(x)
    <3>1. g[d].waiting # {} <=> \E p \in providers[d] : Due(p) \/ \E x \in up[p] : Due(x)
      BY <2>7, <2>8
    <3>2. up[d] = providers[d] \cup UNION {up[p] : p \in providers[d]}
      BY <1>4, <2>2
    <3> HIDE DEF Due
    <3> QED BY <3>1, <3>2
  <2>10. \A i \in 1 .. n + 1 : Right(g, order[i])
    <3> TAKE i \in 1 .. n + 1
    <3>1. CASE i \in 1 .. n
      <4>1. g[order[i]] = f[order[i]]
        BY <1>5, <2>2, <2>5, <3>1
      <4> QED BY <2>3, <3>1, <4>1
    <3>2. CASE i = n + 1
      BY <2>7, <2>9, <3>2 DEF d
    <3> QED BY <2>4, <3>1, <3>2
  <2> QED BY <2>6, <2>10 DEF g
<1>12. P(N)
  <2> HIDE DEF P
  <2>1. 0 \in T /\ \A n \in 0 .. N - 1 : n \in T => n + 1 \in T
    BY <1>2, <1>10, <1>11
  <2> HIDE DEF T
  <2>2. N \in T
    BY <1>2, <2>1, CountingTo
  <2> QED BY <2>2 DEF T
<1>13. DOMAIN st[N] = docs /\ \A d \in docs : Right(st[N], d)
  <2>1. {order[i] : i \in 1 .. N} = docs
    BY <1>3
  <2> HIDE DEF Right
  <2> QED BY <1>3, <1>12, <2>1
<1> QED BY <1>1, <1>2, <1>13 DEF order, N, up, Why

\* A manifest is a record with two sequences; one that was built has its keys
\* from the paths and imports there are.
IsManifest(m) ==
    /\ m = [policy |-> m.policy, document |-> m.document,
            files |-> m.files, imports |-> m.imports]
    /\ m.files \in Seq(ToSet(m.files))
    /\ m.imports \in Seq(ToSet(m.imports))

KeysInOrder(m) ==
    /\ \A i \in 1 .. Len(m.files) : m.files[i].key \in Paths
    /\ \A i \in 1 .. Len(m.imports) : m.imports[i].key \in ImportKey

\* inputs_changed (manifest.rs:275): the merge of sources and imports finds no
\* change exactly when the manifests are equal in both and in their policy.
THEOREM InputsChangedIs ==
    ASSUME NEW old, NEW new, IsManifest(old), IsManifest(new), KeysInOrder(new)
    PROVE  InputsChanged(old, new) <=> ~ /\ old.policy = new.policy
                                         /\ old.files = new.files
                                         /\ old.imports = new.imports
<1> DEFINE FE == ToSet(old.files) \cup ToSet(new.files)
           IE == ToSet(old.imports) \cup ToSet(new.imports)
           pf == PathsBefore(old.files, new.files)
           pi == ImportsBefore(old.imports, new.imports)
<1>1. /\ old.files \in Seq(FE) /\ new.files \in Seq(FE)
      /\ old.imports \in Seq(IE) /\ new.imports \in Seq(IE)
  <2>1. \A S, T : \A s \in Seq(S) : S \subseteq T => s \in Seq(T)
    <3> TAKE S, T
    <3> TAKE s \in Seq(S)
    <3> HAVE S \subseteq T
    <3>1. s \in [1 .. Len(s) -> T] /\ Len(s) \in Nat
      OBVIOUS
    <3> QED BY <3>1
  <2>2. ToSet(old.files) \subseteq FE /\ ToSet(new.files) \subseteq FE
        /\ ToSet(old.imports) \subseteq IE /\ ToSet(new.imports) \subseteq IE
    OBVIOUS
  <2> HIDE DEF FE, IE
  <2> QED BY <2>1, <2>2 DEF IsManifest
<1> HIDE DEF FE, IE
<1>2. ASSUME ~InputsChanged(old, new)
      PROVE  old.policy = new.policy /\ old.files = new.files /\ old.imports = new.imports
  <2>1. /\ old.policy = new.policy
        /\ DiffSorted(old.files, new.files, pf) = <<>>
        /\ DiffSorted(old.imports, new.imports, pi) = <<>>
    BY <1>2 DEF InputsChanged
  <2> HIDE DEF pf, pi
  <2>2. old.files = new.files
    BY <1>1, <2>1, NoDifference
  <2>3. old.imports = new.imports
    BY <1>1, <2>1, NoDifference
  <2> QED BY <2>1, <2>2, <2>3
<1>3. ASSUME old.policy = new.policy, old.files = new.files, old.imports = new.imports
      PROVE  ~InputsChanged(old, new)
  <2>1. \A i \in 1 .. Len(new.files) : <<new.files[i].key, new.files[i].key>> \notin PathsBefore(new.files, new.files)
    <3> TAKE i \in 1 .. Len(new.files)
    <3>1. Rank(new.files[i].key) \in Nat
      BY Ranks DEF KeysInOrder
    <3>2. ~(Rank(new.files[i].key) < Rank(new.files[i].key))
      BY <3>1
    <3> QED BY <3>2 DEF PathsBefore
  <2>2. \A i \in 1 .. Len(new.imports) :
           <<new.imports[i].key, new.imports[i].key>> \notin ImportsBefore(new.imports, new.imports)
    <3> TAKE i \in 1 .. Len(new.imports)
    <3> DEFINE k == new.imports[i].key
    <3>1. k.document \in Paths /\ k.export \in Nat
      BY DEF KeysInOrder, ImportKey
    <3> HIDE DEF k
    <3>2. Rank(k.document) \in Nat
      BY <3>1, Ranks
    <3>3. ~ImportBefore(k, k)
      BY <3>1, <3>2 DEF ImportBefore
    <3> QED BY <3>3 DEF ImportsBefore, k
  <2>3. DiffSorted(new.files, new.files, PathsBefore(new.files, new.files)) = <<>>
    <3> HIDE DEF PathsBefore
    <3> QED BY <1>1, <2>1, SameManifest
  <2>4. DiffSorted(new.imports, new.imports, ImportsBefore(new.imports, new.imports)) = <<>>
    <3> HIDE DEF ImportsBefore
    <3> QED BY <1>1, <2>2, SameManifest
  <2> QED BY <1>3, <2>3, <2>4 DEF InputsChanged
<1> QED BY <1>2, <1>3

-----------------------------------------------------------------------------
(***************************************************************************)
(* Coverage.                                                               *)
(***************************************************************************)
\* The folders of a path, from the root to its own.
LEMMA FoldersOf ==
    ASSUME NEW p \in Paths
    PROVE  /\ Directory(p) \in Seq(STRING) /\ Len(Directory(p)) \in Nat
           /\ \A a \in Ancestors(Directory(p)) : Len(a) \in 0 .. Len(Directory(p))
           /\ <<>> \in Ancestors(Directory(p))
<1>1. p \in Seq(STRING) /\ Len(p) \in Nat \ {0}
  BY PathsAreNamed
<1>2. \A s \in Seq(STRING) : \A n \in 0 .. Len(s) :
         SubSeq(s, 1, n) \in Seq(STRING) /\ Len(SubSeq(s, 1, n)) = n
  OBVIOUS
<1>3. Directory(p) \in Seq(STRING)
  BY <1>1, <1>2 DEF Directory
<1>4. \A a \in Ancestors(Directory(p)) : Len(a) \in 0 .. Len(Directory(p))
  BY <1>2, <1>3 DEF Ancestors
<1>5. <<>> \in Ancestors(Directory(p))
  <2>1. 0 \in 0 .. Len(Directory(p)) /\ SubSeq(Directory(p), 1, 0) = <<>>
    BY <1>3
  <2> QED BY <2>1 DEF Ancestors
<1> QED BY <1>3, <1>4, <1>5

\* Below a root document nothing is left uncovered: the innermost document
\* above a file covers it, since it can hand off to no document further in.
LEMMA RootCovers ==
    ASSUME NEW documents \in SUBSET Paths, NEW references, <<"README.md">> \in documents,
           NEW s \in Paths
    PROVE  CoveredBy(s, documents, Handoffs(documents, references)) # {}
<1> DEFINE above == {d \in documents : Directory(d) \in Ancestors(Directory(s))}
           depth(d) == Len(Directory(s)) - Len(Directory(d))
           T == {depth(d) : d \in above}
<1>1. \A d \in above : Len(Directory(d)) \in 0 .. Len(Directory(s)) /\ Len(Directory(s)) \in Nat
  BY FoldersOf
<1>2. <<"README.md">> \in above
  <2>1. Directory(<<"README.md">>) = <<>>
    BY DEF Directory
  <2> QED BY <2>1, FoldersOf
<1>3. PICK d \in above : \A x \in above : depth(d) <= depth(x)
  <2>1. T \in SUBSET Nat /\ T # {}
    BY <1>1, <1>2
  <2>2. PICK n \in T : \A y \in T : n <= y
    <3> HIDE DEF T
    <3> QED BY <2>1, LeastNumber
  <2> QED BY <2>2
<1>4. FoldersBelow(d, s) \cap SubtreesOf(d, Handoffs(documents, references)) = {}
  <2> SUFFICES ASSUME NEW a \in FoldersBelow(d, s),
                      a \in SubtreesOf(d, Handoffs(documents, references))
               PROVE  FALSE
    OBVIOUS
  <2>1. PICK t \in documents : a = Directory(t)
    BY DEF SubtreesOf, Handoffs
  <2>2. a \in Ancestors(Directory(s)) /\ Len(a) > Len(Directory(d))
    BY DEF FoldersBelow
  <2>3. t \in above
    BY <2>1, <2>2
  <2>4. depth(d) <= depth(t)
    BY <1>3, <2>3
  <2> QED BY <1>1, <2>1, <2>2, <2>3, <2>4
<1> QED BY <1>3, <1>4 DEF CoveredBy
=============================================================================
