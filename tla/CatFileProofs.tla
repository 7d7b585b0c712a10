---------------------------- MODULE CatFileProofs ----------------------------
(***************************************************************************)
(* The pipelined reader of Git objects implements reads of one object at a *)
(* time, for every batch, every size of the pipes and of the channel, and  *)
(* any number of Git processes that die.                                   *)
(***************************************************************************)
EXTENDS CatFile, ImportsProofs, SequenceTheorems

(***************************************************************************)
(* The inductive invariant.  Between the writer thread and the caller the  *)
(* objects form one stream: tokens that follow one another from the one    *)
(* the caller is due, and behind them, while Git lives, the requests.      *)
(***************************************************************************)
Token == Nat \X Nat

\* The part that answer i ends with, and the token that comes after a token.
EndOf(os, i) == IF os[i].kind = "missing" THEN 0 ELSE os[i].size + 1

After(os, t) ==
    IF t[2] = EndOf(os, t[1]) THEN <<t[1] + 1, 0>> ELSE <<t[1], t[2] + 1>>

Successive(os, ts) == \A k \in 1 .. Len(ts) - 1 : ts[k + 1] = After(os, ts[k])

\* The numbers after a, up to b.
Upto(a, b) == [k \in 1 .. b - a |-> a + k]

\* How far the tokens go, when n objects are told of.
Upmost(n, ts) == IF ts = <<>> THEN n ELSE ts[Len(ts)][1]

(***************************************************************************)
(* The stream of a caller that was told of n objects and has asked for     *)
(* more, up to `asked`: its tokens and the requests behind them.           *)
(***************************************************************************)
Due1(n, pc) == <<n + 1, IF pc = "content" THEN 1 ELSE 0>>

Flow(os, n, pc, asked, alive, ts, rs) ==
    /\ Successive(os, ts)
    /\ ts # <<>> => ts[1] = Due1(n, pc) /\ ts[Len(ts)][1] <= asked
    /\ alive => /\ ts # <<>> => ts[Len(ts)][2] = EndOf(os, ts[Len(ts)][1])
                /\ pc = "content" => ts # <<>>
                /\ rs = Upto(Upmost(n, ts), asked)

Asked == IF client = "walk" THEN caller.next - 1
         ELSE IF caller.pc = "ask" THEN Len(told) ELSE Len(told) + 1

Requests == input.items \o writer.hand \o requests.items

Streaming == Flow(objects, Len(told), caller.pc, Asked, git.alive, Tokens, Requests)

-----------------------------------------------------------------------------
Working == {"fill", "header", "content", "ask"}

Verdicts == {"clean", "dirty", "apart", "end"}

Answers == {"same", "none", "limit"}
           \cup UNION {{b[i].name : i \in DOMAIN b} : b \in Histories}

Callers == [pc : Working \cup {"drain", "stop", "done"}, next : Nat,
            pending : Seq(Nat), unread : Seq(Token),
            reader : {"idle", "running", "unavailable"},
            verdict : Verdicts \cup {Undecided}, drained : Nat]

\* Requests name objects of the batch.
Positions == 1 .. Len(objects)

Queues == [items : Seq(Positions), open : BOOLEAN]

Types ==
    /\ client \in {"walk", "history"}
    /\ objects \in IF client = "walk" THEN Walks ELSE Histories
    /\ caller \in Callers
    /\ requests \in Queues
    /\ writer \in [state : {"none", "run", "gone"}, hand : Seq(Positions)]
    /\ input \in Queues
    /\ git \in [alive : BOOLEAN, out : Seq(Token)]
    /\ output \in Seq(Token) /\ chunks \in Seq(Seq(Token))
    /\ pump \in [run : BOOLEAN, hand : Seq(Token)]
    /\ told \in Seq(Answers)

\* The caller works until it has a verdict.
Deciding == caller.verdict = Undecided <=> caller.pc \in Working

Telling ==
    /\ Len(told) <= Len(objects)
    /\ caller.pc \in {"header", "content"} => Len(told) < Len(objects)
    /\ caller.pc = "content" => objects[Len(told) + 1].kind = "blob"
    /\ client = "history" /\ caller.pc = "content" => objects[Len(told) + 1].size <= Limit

\* The comparison has told that the first objects are the same; it asked for
\* those that fit, and waits for those it asked for.
Walking ==
    client = "walk" =>
        /\ caller.pc # "ask"
        /\ caller.next \in 1 .. Len(objects) + 1 /\ Len(told) < caller.next
        /\ caller.pc \in {"header", "content"} => Len(told) + 1 < caller.next
        /\ caller.pending = Upto(Len(told), caller.next - 1)
        /\ \A k \in 1 .. Len(told) : told[k] = "same"
        /\ \A k \in 1 .. caller.next - 1 : objects[k].local = "fits"

\* The historical reader writes its requests itself, one at a time.
Alone ==
    client = "history" =>
        /\ caller.pc # "fill"
        /\ requests.items = <<>> /\ writer.hand = <<>> /\ writer.state = "none"

IInv == /\ Types /\ Deciding
        /\ caller.pc \in Working => Telling /\ Walking /\ Alone /\ Streaming

-----------------------------------------------------------------------------
(***************************************************************************)
(* Sequences of sequences.                                                 *)
(***************************************************************************)
\* The sums of the first sequences, one after another.
Sums(ss, f, S) == /\ f \in [0 .. Len(ss) -> Seq(S)]
                  /\ f[0] = <<>>
                  /\ \A n \in 1 .. Len(ss) : f[n] = f[n - 1] \o ss[n]

LEMMA FlatIsSum ==
    ASSUME NEW S, NEW ss \in Seq(Seq(S)), NEW g, Sums(ss, g, S)
    PROVE  FlattenSeq(ss) = g[Len(ss)]
<1> DEFINE N == Len(ss)
           Is(f) == f = [i \in 1 .. N |-> IF i = 1 THEN ss[i] ELSE f[i - 1] \o ss[i]]
           flat == CHOOSE f : Is(f)
           h == [i \in 1 .. N |-> g[i]]
<1>1. N \in Nat /\ \A n \in 1 .. N : ss[n] \in Seq(S)
  OBVIOUS
<1>2. CASE N = 0
  <2>1. FlattenSeq(ss) = ss
    BY <1>2 DEF FlattenSeq
  <2>2. ss = <<>>
    BY <1>2
  <2> QED BY <2>1, <2>2, <1>2 DEF Sums
<1>3. CASE N # 0
  <2>1. FlattenSeq(ss) = flat[N]
    BY <1>3 DEF FlattenSeq
  <2>2. \A i \in 1 .. N : h[i] = g[i]
    OBVIOUS
  <2>3. \A i \in 1 .. N : h[i] = IF i = 1 THEN ss[i] ELSE h[i - 1] \o ss[i]
    <3> SUFFICES ASSUME NEW i \in 1 .. N
                 PROVE  h[i] = IF i = 1 THEN ss[i] ELSE h[i - 1] \o ss[i]
      OBVIOUS
    <3>1. g[i] = g[i - 1] \o ss[i] /\ g[0] = <<>> /\ ss[i] \in Seq(S)
      BY <1>1 DEF Sums
    <3>2. <<>> \o ss[i] = ss[i]
      BY <3>1, ConcatEmptySeq
    <3>3. h[i] = g[i] /\ (i # 1 => h[i - 1] = g[i - 1])
      BY <1>1
    <3> HIDE DEF h, N
    <3>4. CASE i = 1
      <4>1. g[i - 1] = <<>>
        BY <3>1, <3>4
      <4> QED BY <3>1, <3>2, <3>3, <3>4, <4>1
    <3> QED BY <3>1, <3>3, <3>4
  <2>4. Is(h)
    <3>1. h = [i \in 1 .. N |-> h[i]]
      OBVIOUS
    <3> HIDE DEF h
    <3> QED BY <2>3, <3>1
  <2>5. Is(flat)
    <3> HIDE DEF h, Is
    <3> QED BY <2>4
  <2>6. \A i \in 1 .. N : flat[i] = IF i = 1 THEN ss[i] ELSE flat[i - 1] \o ss[i]
    <3> HIDE DEF flat
    <3> QED BY <2>5
  <2> DEFINE T == {n \in 0 .. N : n = 0 \/ flat[n] = g[n]}
  <2> HIDE DEF flat, h
  <2>7. ASSUME NEW n \in 0 .. N - 1, n \in T PROVE n + 1 \in T
    <3>1. n + 1 \in 1 .. N /\ (n + 1) - 1 = n
      BY <1>1
    <3>2. g[n + 1] = g[n] \o ss[n + 1] /\ g[0] = <<>> /\ ss[n + 1] \in Seq(S)
      BY <1>1, <3>1 DEF Sums
    <3>3. CASE n = 0
      <4>1. n + 1 = 1 /\ 1 \in 1 .. N
        BY <3>1, <3>3
      <4> HIDE DEF N
      <4>2. flat[1] = ss[1]
        BY <2>6, <4>1
      <4>3. g[1] = <<>> \o ss[1] /\ ss[1] \in Seq(S)
        BY <3>2, <3>3, <4>1
      <4>4. <<>> \o ss[1] = ss[1]
        BY <4>3, ConcatEmptySeq
      <4>5. n + 1 \in 0 .. N
        BY <1>1, <3>1
      <4> QED BY <4>1, <4>2, <4>3, <4>4, <4>5
    <3>4. CASE n # 0
      <4>0. n + 1 # 1 /\ n + 1 \in 0 .. N /\ flat[n] = g[n]
        BY <1>1, <2>7, <3>1, <3>4
      <4> HIDE DEF N
      <4>1. flat[n + 1] = flat[n] \o ss[n + 1]
        BY <2>6, <3>1, <4>0
      <4> QED BY <3>1, <3>2, <4>0, <4>1
    <3> QED BY <3>3, <3>4
  <2>8. N \in T
    <3>1. 0 \in T
      BY <1>1
    <3> HIDE DEF T
    <3> QED BY <1>1, <2>7, <3>1, CountingTo
  <2> QED BY <1>3, <2>1, <2>8
<1> QED BY <1>2, <1>3

LEMMA SumsExist ==
    ASSUME NEW S, NEW ss \in Seq(Seq(S))
    PROVE  \E g : Sums(ss, g, S)
<1> DEFINE N == Len(ss)
           Good == Seq(S)
           next == [q \in (1 .. N) \X Good |-> q[2] \o ss[q[1]]]
<1>1. N \in Nat /\ \A n \in 1 .. N : ss[n] \in Good
  OBVIOUS
<1>2. <<>> \in Good
  OBVIOUS
<1>3. \A n \in 1 .. N : \A s \in Good : s \o ss[n] \in Good
  BY <1>1, ConcatProperties
<1> HIDE DEF Good, N
<1>4. IsRound(next, N, Good)
  BY <1>3 DEF IsRound
<1>5. \A n \in 1 .. N : \A s \in Good : next[<<n, s>>] = s \o ss[n]
  OBVIOUS
<1> HIDE DEF next
<1>6. PICK f : Values(f, N, Good, <<>>, next)
  BY <1>1, <1>2, <1>4, Loop
<1>7. \A n \in 1 .. N : f[n - 1] \in Good
  <2>1. \A n \in 1 .. N : n - 1 \in 0 .. N
    BY <1>1
  <2> QED BY <1>6, <2>1 DEF Values
<1>8. \A n \in 1 .. N : f[n] = f[n - 1] \o ss[n]
  BY <1>5, <1>6, <1>7 DEF Values
<1> QED BY <1>6, <1>8 DEF Values, Sums, Good, N

\* What joins the end of a queue of sequences.
LEMMA FlatAppend ==
    ASSUME NEW S, NEW ss \in Seq(Seq(S)), NEW s \in Seq(S)
    PROVE  /\ FlattenSeq(ss) \in Seq(S)
           /\ FlattenSeq(Append(ss, s)) = FlattenSeq(ss) \o s
<1> DEFINE N == Len(ss)
           L == Append(ss, s)
<1>0. N \in Nat
  OBVIOUS
<1>1. PICK g : Sums(ss, g, S)
  BY SumsExist
<1>2. FlattenSeq(ss) = g[N]
  BY <1>1, FlatIsSum
<1>3. g[N] \in Seq(S)
  BY <1>0, <1>1 DEF Sums
<1>4. g[N] \o s \in Seq(S)
  BY <1>3, ConcatProperties
<1>5. /\ L \in Seq(Seq(S)) /\ Len(L) = N + 1
      /\ \A n \in 1 .. N : L[n] = ss[n]
      /\ L[N + 1] = s
  BY AppendProperties
<1> DEFINE h == [n \in 0 .. N + 1 |-> IF n = N + 1 THEN g[N] \o s ELSE g[n]]
<1>6. h \in [0 .. N + 1 -> Seq(S)] /\ h[0] = <<>>
  BY <1>0, <1>1, <1>4 DEF Sums
<1>7. ASSUME NEW n \in 1 .. N + 1 PROVE h[n] = h[n - 1] \o L[n]
  <2>1. CASE n = N + 1
    <3>1. h[n] = g[N] \o s /\ h[n - 1] = g[N] /\ L[n] = s
      BY <1>0, <1>5, <2>1
    <3> QED BY <3>1
  <2>2. CASE n # N + 1
    <3>1. n \in 1 .. N /\ h[n] = g[n] /\ h[n - 1] = g[n - 1] /\ L[n] = ss[n]
      BY <1>0, <1>5, <2>2
    <3> HIDE DEF h, L
    <3> QED BY <1>1, <3>1 DEF Sums
  <2> QED BY <2>1, <2>2
<1>8. h[N + 1] = g[N] \o s
  BY <1>0
<1> HIDE DEF h, L
<1>9. Sums(L, h, S)
  BY <1>5, <1>6, <1>7 DEF Sums
<1>10. FlattenSeq(L) = h[N + 1]
  BY <1>5, <1>9, FlatIsSum
<1> QED BY <1>2, <1>3, <1>8, <1>10 DEF L

\* What leaves its front.
LEMMA FlatTail ==
    ASSUME NEW S, NEW ss \in Seq(Seq(S)), ss # <<>>
    PROVE  /\ Head(ss) \in Seq(S) /\ FlattenSeq(Tail(ss)) \in Seq(S)
           /\ FlattenSeq(ss) = Head(ss) \o FlattenSeq(Tail(ss))
<1> DEFINE N == Len(ss)
           R == Tail(ss)
           a == Head(ss)
           cat(t) == a \o t
<1>0. N \in Nat /\ N > 0 /\ ss[1] = a /\ a \in Seq(S)
  OBVIOUS
<1>1. R \in Seq(Seq(S)) /\ Len(R) = N - 1 /\ \A n \in 1 .. N - 1 : R[n] = ss[n + 1]
  BY HeadTailProperties
<1>2. \A n \in 1 .. N : ss[n] \in Seq(S)
  OBVIOUS
<1> HIDE DEF R, N, a
<1>3. PICK g : Sums(R, g, S)
  BY <1>1, SumsExist
<1>4. FlattenSeq(R) = g[N - 1]
  BY <1>1, <1>3, FlatIsSum
<1>5. /\ g \in [0 .. N - 1 -> Seq(S)] /\ g[0] = <<>>
      /\ \A n \in 1 .. N - 1 : g[n] = g[n - 1] \o R[n]
  BY <1>1, <1>3 DEF Sums
<1>6. \A n \in 1 .. N : n - 1 \in 0 .. N - 1
  BY <1>0
<1>7. \A n \in 1 .. N : g[n - 1] \in Seq(S)
  BY <1>5, <1>6
<1>8. \A t \in Seq(S) : cat(t) \in Seq(S)
  BY <1>0, ConcatProperties
<1>9. \A t, u \in Seq(S) : cat(t) \o u = cat(t \o u)
  BY <1>0, ConcatAssociative
<1>10. cat(<<>>) = <<>> \o a
  BY <1>0, ConcatEmptySeq
<1>11. FlattenSeq(ss) = cat(g[N - 1])
  <2> DEFINE h == [n \in 0 .. N |-> IF n = 0 THEN <<>> ELSE cat(g[n - 1])]
  <2> HIDE DEF cat
  <2>1. h[0] = <<>> /\ \A n \in 1 .. N : h[n] = cat(g[n - 1])
    BY <1>0
  <2>2. h \in [0 .. N -> Seq(S)]
    BY <1>0, <1>7, <1>8
  <2> HIDE DEF h
  <2>3. ASSUME NEW n \in 1 .. N PROVE h[n] = h[n - 1] \o ss[n]
    <3>1. CASE n = 1
      <4>1. 1 \in 1 .. N /\ 1 - 1 = 0
        BY <1>0
      <4>2. h[1] = cat(g[0])
        BY <2>1, <4>1
      <4> QED BY <1>0, <1>5, <1>10, <2>1, <3>1, <4>1, <4>2
    <3>2. CASE n # 1
      <4>1. /\ n - 1 \in 1 .. N /\ (n - 1) - 1 = n - 2
            /\ n - 1 \in 1 .. N - 1 /\ (n - 1) + 1 = n
        BY <1>0, <3>2
      <4>2. h[n] = cat(g[n - 1]) /\ h[n - 1] = cat(g[n - 2])
        BY <2>1, <4>1
      <4>3. g[n - 1] = g[n - 2] \o R[n - 1] /\ R[n - 1] = ss[n]
        BY <1>1, <1>5, <4>1
      <4>4. ss[n] \in Seq(S) /\ g[n - 2] \in Seq(S)
        BY <1>2, <1>7, <4>1
      <4>5. cat(g[n - 2]) \o ss[n] = cat(g[n - 2] \o ss[n])
        BY <1>9, <4>4
      <4> QED BY <4>2, <4>3, <4>5
    <3> QED BY <3>1, <3>2
  <2>4. Sums(ss, h, S)
    BY <2>1, <2>2, <2>3 DEF Sums, N
  <2>5. FlattenSeq(ss) = h[N]
    BY <2>4, FlatIsSum DEF N
  <2>6. N \in 1 .. N
    BY <1>0
  <2> QED BY <2>1, <2>5, <2>6
<1>12. N \in 1 .. N
  BY <1>0
<1> QED BY <1>0, <1>4, <1>7, <1>11, <1>12 DEF R, a

-----------------------------------------------------------------------------
(***************************************************************************)
(* Tokens that follow one another.                                         *)
(***************************************************************************)
LEMMA TokenIs ==
    ASSUME NEW ts \in Seq(Token), NEW n \in 1 .. Len(ts)
    PROVE  /\ ts[n] \in Token /\ ts[n][1] \in Nat /\ ts[n][2] \in Nat
           /\ ts[n] = <<ts[n][1], ts[n][2]>>
<1>1. ts[n] \in Token
  OBVIOUS
<1> QED BY <1>1 DEF Token

\* The answers come in their order.
LEMMA Rising ==
    ASSUME NEW os, NEW ts \in Seq(Token), Successive(os, ts),
           NEW m \in 1 .. Len(ts), NEW n \in m .. Len(ts)
    PROVE  ts[m][1] <= ts[n][1]
<1> DEFINE N == Len(ts)
           T == {d \in 0 .. N - m : ts[m][1] <= ts[m + d][1]}
<1>1. N \in Nat /\ m \in 1 .. N /\ n \in m .. N /\ N - m \in Nat /\ n - m \in 0 .. N - m
  OBVIOUS
<1>2. \A k \in 1 .. N : ts[k] = <<ts[k][1], ts[k][2]>> /\ ts[k][1] \in Nat
  BY TokenIs
<1>3. \A k \in 1 .. N - 1 : ts[k][1] <= ts[k + 1][1]
  <2> SUFFICES ASSUME NEW k \in 1 .. N - 1 PROVE ts[k][1] <= ts[k + 1][1]
    OBVIOUS
  <2>1. ts[k + 1] = After(os, ts[k]) /\ k \in 1 .. N
    BY <1>1 DEF Successive
  <2>2. After(os, ts[k])[1] \in {ts[k][1], ts[k][1] + 1}
    BY DEF After
  <2> QED BY <1>2, <2>1, <2>2
<1>4. 0 \in T
  BY <1>1, <1>2
<1>5. ASSUME NEW d \in 0 .. (N - m) - 1, d \in T PROVE d + 1 \in T
  <2>1. /\ m + d \in 1 .. N - 1 /\ (m + d) + 1 = m + (d + 1) /\ d + 1 \in 0 .. N - m
        /\ m + (d + 1) \in 1 .. N /\ m + d \in 1 .. N
    BY <1>1
  <2>2. ts[m][1] <= ts[m + d][1] /\ ts[m + d][1] <= ts[m + (d + 1)][1]
    BY <1>3, <1>5, <2>1
  <2> HIDE DEF N
  <2>3. ts[m][1] <= ts[m + (d + 1)][1]
    BY <1>1, <1>2, <2>1, <2>2
  <2> QED BY <2>1, <2>3
<1>6. n - m \in T
  <2> HIDE DEF T
  <2> QED BY <1>1, <1>4, <1>5, CountingTo
<1>7. m + (n - m) = n
  BY <1>1
<1> QED BY <1>6, <1>7

\* Within an answer the parts come in their order.
LEMMA Along ==
    ASSUME NEW os, NEW ts \in Seq(Token), Successive(os, ts),
           NEW i \in Nat, NEW p \in Nat, NEW e \in Nat, EndOf(os, i) = e,
           ts # <<>>, ts[1] = <<i, p>>,
           NEW n \in Nat, n < Len(ts), p + n <= e
    PROVE  ts[n + 1] = <<i, p + n>>
<1> DEFINE T == {d \in 0 .. n : ts[d + 1] = <<i, p + d>>}
<1>1. 0 \in T
  BY DEF Token
<1>2. ASSUME NEW d \in 0 .. n - 1, d \in T PROVE d + 1 \in T
  <2>1. d + 1 \in 1 .. Len(ts) - 1 /\ d + 1 \in 0 .. n
    OBVIOUS
  <2>2. ts[(d + 1) + 1] = After(os, ts[d + 1])
    BY <2>1 DEF Successive
  <2>3. ts[d + 1] = <<i, p + d>> /\ p + d # e
    BY <1>2
  <2>4. After(os, <<i, p + d>>) = <<i, (p + d) + 1>>
    BY <2>3 DEF After
  <2>5. (p + d) + 1 = p + (d + 1)
    OBVIOUS
  <2>6. ts[(d + 1) + 1] = <<i, p + (d + 1)>>
    BY <2>2, <2>3, <2>4, <2>5
  <2> QED BY <2>1, <2>6
<1>3. n \in T
  <2> HIDE DEF T
  <2> QED BY <1>1, <1>2, CountingTo
<1> QED BY <1>3

\* What is left when the first n are taken.
Rest(ts, n) == SubSeq(ts, n + 1, Len(ts))

LEMMA Dropped ==
    ASSUME NEW os, NEW ts \in Seq(Token), Successive(os, ts),
           NEW n \in 1 .. Len(ts)
    PROVE  LET us == Rest(ts, n)
           IN  /\ us \in Seq(Token) /\ Len(us) = Len(ts) - n
               /\ Successive(os, us)
               /\ (us = <<>> <=> n = Len(ts))
               /\ us # <<>> => us[1] = After(os, ts[n]) /\ us[Len(us)] = ts[Len(ts)]
<1> DEFINE N == Len(ts)
           us == Rest(ts, n)
<1>1. N \in Nat /\ n \in 1 .. N
  OBVIOUS
<1>2. \A k \in 1 .. N : ts[k] \in Token
  BY TokenIs
<1>3. /\ us \in Seq(Token) /\ Len(us) = N - n
      /\ \A k \in 1 .. N - n : us[k] = ts[k + n]
  <2>1. \A k \in n + 1 .. N : ts[k] \in Token
    BY <1>1, <1>2
  <2>2. /\ us \in Seq(Token) /\ Len(us) = IF n + 1 <= N THEN N - (n + 1) + 1 ELSE 0
        /\ \A k \in 1 .. N - (n + 1) + 1 : us[k] = ts[(n + 1) + k - 1]
    <3> HIDE DEF N
    <3>1. n + 1 \in Int /\ N \in Int
      BY <1>1
    <3> QED BY <2>1, <3>1, SubSeqProperties DEF N, Rest
  <2>3. N - (n + 1) + 1 = N - n /\ \A k \in 1 .. N - n : (n + 1) + k - 1 = k + n
    BY <1>1
  <2> HIDE DEF N, us
  <2> QED BY <1>1, <2>2, <2>3
<1> HIDE DEF N, us
<1>4. Successive(os, us)
  <2> SUFFICES ASSUME NEW k \in 1 .. (N - n) - 1
               PROVE  us[k + 1] = After(os, us[k])
    BY <1>3 DEF Successive
  <2>1. k + 1 \in 1 .. N - n /\ k \in 1 .. N - n /\ (k + 1) + n = (k + n) + 1
    BY <1>1
  <2>2. ts[(k + n) + 1] = After(os, ts[k + n])
    <3>1. k + n \in 1 .. N - 1
      BY <1>1
    <3> QED BY <3>1 DEF Successive, N
  <2> QED BY <1>3, <2>1, <2>2
<1>5. us = <<>> <=> n = N
  <2>0. us \in Seq(Token)
    BY <1>3
  <2>1. us = <<>> <=> Len(us) = 0
    <3> HIDE DEF N
    <3> QED BY <2>0, EmptySeq
  <2> QED BY <1>1, <1>3, <2>1
<1>6. us # <<>> => us[1] = After(os, ts[n]) /\ us[Len(us)] = ts[N]
  <2> SUFFICES ASSUME n < N
               PROVE  us[1] = After(os, ts[n]) /\ us[N - n] = ts[N]
    <3>1. us # <<>> => n < N
      BY <1>1, <1>5
    <3>2. Len(us) = N - n
      BY <1>3
    <3> QED BY <3>1, <3>2
  <2>1. 1 \in 1 .. N - n /\ N - n \in 1 .. N - n /\ (N - n) + n = N /\ n \in 1 .. N - 1 /\ 1 + n = n + 1
    BY <1>1
  <2>2. ts[n + 1] = After(os, ts[n])
    BY <2>1 DEF Successive, N
  <2>3. us[1] = ts[1 + n] /\ us[N - n] = ts[(N - n) + n]
    BY <1>3, <2>1
  <2> QED BY <2>1, <2>2, <2>3
<1> QED BY <1>3, <1>4, <1>5, <1>6 DEF N, us

LEMMA FirstDropped ==
    ASSUME NEW os, NEW ts \in Seq(Token), Successive(os, ts), ts # <<>>
    PROVE  LET us == Rest(ts, 1)
           IN
           /\ us \in Seq(Token) /\ Successive(os, us)
           /\ (us = <<>> <=> Len(ts) = 1)
           /\ us # <<>> => us[1] = After(os, ts[1]) /\ us[Len(us)] = ts[Len(ts)]
<1>1. PICK k \in 1 .. Len(ts) : k = 1
  BY EmptySeq
<1>2. LET vs == Rest(ts, k)
      IN  /\ vs \in Seq(Token) /\ Len(vs) = Len(ts) - k
          /\ Successive(os, vs)
          /\ (vs = <<>> <=> k = Len(ts))
          /\ vs # <<>> => vs[1] = After(os, ts[k]) /\ vs[Len(vs)] = ts[Len(ts)]
  BY Dropped
<1> QED BY <1>1, <1>2

\* Two streams that fit together are one.
LEMMA Joined ==
    ASSUME NEW os, NEW ts \in Seq(Token), NEW us \in Seq(Token), ts # <<>>, us # <<>>,
           Successive(os, ts), Successive(os, us), us[1] = After(os, ts[Len(ts)])
    PROVE  /\ ts \o us \in Seq(Token) /\ ts \o us # <<>>
           /\ Successive(os, ts \o us)
           /\ (ts \o us)[1] = ts[1]
           /\ (ts \o us)[Len(ts \o us)] = us[Len(us)]
<1> DEFINE N == Len(ts)
           M == Len(us)
           vs == ts \o us
<1>1. N \in Nat \ {0} /\ M \in Nat \ {0}
  BY EmptySeq
<1>2. /\ vs \in Seq(Token) /\ Len(vs) = N + M
      /\ \A k \in 1 .. N + M : vs[k] = IF k <= N THEN ts[k] ELSE us[k - N]
  BY ConcatProperties
<1> HIDE DEF vs
<1>3. Successive(os, vs)
  <2> SUFFICES ASSUME NEW k \in 1 .. (N + M) - 1
               PROVE  vs[k + 1] = After(os, vs[k])
    BY <1>2 DEF Successive
  <2>1. k \in 1 .. N + M /\ k + 1 \in 1 .. N + M
    BY <1>1
  <2>2. CASE k < N
    <3>1. k \in 1 .. N - 1 /\ k <= N /\ k + 1 <= N
      BY <1>1, <2>2
    <3>2. ts[k + 1] = After(os, ts[k])
      BY <3>1 DEF Successive
    <3> HIDE DEF N, M
    <3> QED BY <1>2, <2>1, <3>1, <3>2
  <2>3. CASE k = N
    <3>1. ~(k + 1 <= N) /\ k <= N /\ (k + 1) - N = 1
      BY <1>1, <2>3
    <3>2. vs[k + 1] = us[1] /\ vs[k] = ts[N]
      BY <1>2, <2>1, <2>3, <3>1
    <3> QED BY <3>2
  <2>4. CASE k > N
    <3>1. ~(k + 1 <= N) /\ ~(k <= N) /\ (k + 1) - N = (k - N) + 1 /\ k - N \in 1 .. M - 1
      BY <1>1, <2>4
    <3>2. us[(k - N) + 1] = After(os, us[k - N])
      BY <3>1 DEF Successive
    <3> HIDE DEF N, M
    <3>3. vs[k + 1] = us[(k + 1) - N] /\ vs[k] = us[k - N]
      BY <1>2, <2>1, <3>1
    <3> QED BY <3>1, <3>2, <3>3
  <2> QED BY <1>1, <2>2, <2>3, <2>4
<1>4. vs[1] = ts[1]
  <2>1. 1 \in 1 .. N + M /\ 1 <= N
    BY <1>1
  <2> HIDE DEF N, M
  <2> QED BY <1>2, <2>1
<1>5. vs[N + M] = us[M]
  <2>1. N + M \in 1 .. N + M /\ ~(N + M <= N) /\ (N + M) - N = M
    BY <1>1
  <2> HIDE DEF N, M
  <2>2. vs[N + M] = us[(N + M) - N]
    BY <1>2, <2>1
  <2> QED BY <2>1, <2>2
<1>6. vs # <<>>
  BY <1>1, <1>2
<1> QED BY <1>2, <1>3, <1>4, <1>5, <1>6 DEF vs

\* What is left of a stream that is cut off.
LEMMA CutOff ==
    ASSUME NEW os, NEW ts \in Seq(Token), NEW us \in Seq(Token), Successive(os, ts \o us)
    PROVE  /\ Successive(os, ts)
           /\ ts # <<>> => /\ ts \o us # <<>>
                           /\ (ts \o us)[1] = ts[1]
                           /\ ts[Len(ts)][1] <= (ts \o us)[Len(ts \o us)][1]
<1> DEFINE N == Len(ts)
           M == Len(us)
           vs == ts \o us
<1>1. N \in Nat /\ M \in Nat
  OBVIOUS
<1>2. /\ vs \in Seq(Token) /\ Len(vs) = N + M
      /\ \A k \in 1 .. N + M : vs[k] = IF k <= N THEN ts[k] ELSE us[k - N]
  BY ConcatProperties
<1>3. Successive(os, vs)
  OBVIOUS
<1> HIDE DEF vs
<1>4. \A k \in 1 .. N : vs[k] = ts[k]
  <2>1. \A k \in 1 .. N : k \in 1 .. N + M /\ k <= N
    BY <1>1
  <2> HIDE DEF N, M
  <2> QED BY <1>2, <2>1
<1>5. Successive(os, ts)
  <2> SUFFICES ASSUME NEW k \in 1 .. N - 1
               PROVE  ts[k + 1] = After(os, ts[k])
    BY DEF Successive
  <2>1. k \in 1 .. N /\ k + 1 \in 1 .. N /\ k \in 1 .. (N + M) - 1
    BY <1>1
  <2>2. vs[k + 1] = After(os, vs[k])
    BY <1>2, <1>3, <2>1 DEF Successive
  <2> HIDE DEF N
  <2> QED BY <1>4, <2>1, <2>2
<1>6. ASSUME ts # <<>>
      PROVE  vs # <<>> /\ vs[1] = ts[1] /\ ts[N][1] <= vs[N + M][1]
  <2>1. N # 0
    BY <1>6
  <2>2. 1 \in 1 .. N /\ N \in 1 .. N /\ N \in 1 .. N + M /\ N + M \in N .. N + M
    BY <1>1, <2>1
  <2>3. vs[N][1] <= vs[N + M][1]
    BY <1>2, <1>3, <2>2, Rising
  <2>4. vs # <<>>
    BY <1>2, <2>2
  <2>5. vs[1] = ts[1] /\ vs[N] = ts[N]
    <3> HIDE DEF N
    <3> QED BY <1>4, <2>2
  <2> QED BY <2>3, <2>4, <2>5
<1> QED BY <1>2, <1>5, <1>6 DEF vs

\* One answer, from its header to its end.
LEMMA ResponseIs ==
    ASSUME NEW i \in Nat, EndOf(objects, i) \in Nat,
           objects[i].kind # "missing" => objects[i].size \in Nat
    PROVE  /\ Response(i) \in Seq(Token) /\ Response(i) # <<>>
           /\ Successive(objects, Response(i))
           /\ Response(i)[1] = <<i, 0>>
           /\ Response(i)[Len(Response(i))] = <<i, EndOf(objects, i)>>
<1>1. CASE objects[i].kind = "missing"
  <2>1. Response(i) = << <<i, 0>> >> /\ EndOf(objects, i) = 0
    BY <1>1 DEF Response, EndOf
  <2>2. <<i, 0>> \in Token
    BY DEF Token
  <2>3. << <<i, 0>> >> \in Seq(Token) /\ Len(<< <<i, 0>> >>) = 1
    BY <2>2
  <2>4. \A k \in 1 .. 1 - 1 : FALSE
    OBVIOUS
  <2> QED BY <2>1, <2>3, <2>4 DEF Successive
<1>2. CASE objects[i].kind # "missing"
  <2> DEFINE L == objects[i].size + 2
             R == [k \in 1 .. L |-> <<i, k - 1>>]
  <2>1. Response(i) = R /\ EndOf(objects, i) = L - 1 /\ L \in Nat /\ L >= 2
    BY <1>2 DEF Response, EndOf
  <2> HIDE DEF L
  <2>2. \A k \in 1 .. L : R[k] = <<i, k - 1>> /\ R[k] \in Token
    BY <2>1 DEF Token
  <2>3. R \in Seq(Token) /\ Len(R) = L
    BY <2>1, <2>2
  <2>4. ASSUME NEW k \in 1 .. L - 1 PROVE R[k + 1] = After(objects, R[k])
    <3>1. k \in 1 .. L /\ k + 1 \in 1 .. L /\ (k + 1) - 1 = (k - 1) + 1 /\ k - 1 # L - 1
      BY <2>1
    <3>2. R[k] = <<i, k - 1>> /\ R[k + 1] = <<i, (k - 1) + 1>>
      BY <2>2, <3>1
    <3> QED BY <2>1, <3>1, <3>2 DEF After
  <2>5. R[1] = <<i, 0>> /\ R[L] = <<i, L - 1>>
    BY <2>1
  <2> HIDE DEF R
  <2>6. R # <<>>
    BY <2>1, <2>3
  <2> QED BY <2>1, <2>3, <2>4, <2>5, <2>6 DEF Successive
<1> QED BY <1>1, <1>2

-----------------------------------------------------------------------------
(***************************************************************************)
(* Consecutive numbers.                                                    *)
(***************************************************************************)
LEMMA UptoIs ==
    ASSUME NEW a \in Nat, NEW b \in Nat, a <= b
    PROVE  /\ Upto(a, b) \in Seq(Nat) /\ Len(Upto(a, b)) = b - a
           /\ \A k \in 1 .. b - a : Upto(a, b)[k] = a + k
           /\ Upto(a, b) = <<>> <=> a = b
<1>1. Upto(a, b) \in Seq(Nat) /\ Len(Upto(a, b)) = b - a
  BY DEF Upto
<1>2. \A k \in 1 .. b - a : Upto(a, b)[k] = a + k
  BY DEF Upto
<1>3. Upto(a, b) = <<>> <=> Len(Upto(a, b)) = 0
  BY <1>1
<1> QED BY <1>1, <1>2, <1>3

LEMMA UptoJoins ==
    ASSUME NEW a \in Nat, NEW b \in Nat, NEW c \in Nat, a <= b, b <= c
    PROVE  Upto(a, b) \o Upto(b, c) = Upto(a, c)
<1> DEFINE s == Upto(a, b)
           t == Upto(b, c)
           u == Upto(a, c)
<1>0. a <= c
  OBVIOUS
<1>1. /\ s \in Seq(Nat) /\ t \in Seq(Nat) /\ u \in Seq(Nat)
      /\ Len(s) = b - a /\ Len(t) = c - b /\ Len(u) = c - a
  <2>1. s \in Seq(Nat) /\ Len(s) = b - a
    BY UptoIs
  <2>2. t \in Seq(Nat) /\ Len(t) = c - b
    BY UptoIs
  <2>3. u \in Seq(Nat) /\ Len(u) = c - a
    BY <1>0, UptoIs
  <2> QED BY <2>1, <2>2, <2>3
<1>2. /\ \A k \in 1 .. b - a : s[k] = a + k
      /\ \A k \in 1 .. c - b : t[k] = b + k
      /\ \A k \in 1 .. c - a : u[k] = a + k
  <2>1. \A k \in 1 .. b - a : s[k] = a + k
    BY UptoIs
  <2>2. \A k \in 1 .. c - b : t[k] = b + k
    BY UptoIs
  <2>3. \A k \in 1 .. c - a : u[k] = a + k
    BY <1>0, UptoIs
  <2> QED BY <2>1, <2>2, <2>3
<1> HIDE DEF s, t, u
<1>3. /\ s \o t \in Seq(Nat) /\ Len(s \o t) = (b - a) + (c - b)
      /\ \A k \in 1 .. (b - a) + (c - b) :
            (s \o t)[k] = IF k <= b - a THEN s[k] ELSE t[k - (b - a)]
  <2>1. s \in Seq(Nat) /\ t \in Seq(Nat)
    BY <1>1
  <2>2. /\ s \o t \in Seq(Nat) /\ Len(s \o t) = Len(s) + Len(t)
        /\ \A k \in 1 .. Len(s) + Len(t) :
              (s \o t)[k] = IF k <= Len(s) THEN s[k] ELSE t[k - Len(s)]
    BY <2>1, ConcatProperties
  <2>3. Len(s) = b - a /\ Len(t) = c - b
    BY <1>1
  <2> QED BY <2>2, <2>3
<1>4. (b - a) + (c - b) = c - a
  OBVIOUS
<1>5. \A k \in 1 .. c - a : (s \o t)[k] = u[k]
  <2> SUFFICES ASSUME NEW k \in 1 .. c - a PROVE (s \o t)[k] = u[k]
    OBVIOUS
  <2>1. CASE k <= b - a
    BY <1>2, <1>3, <1>4, <2>1
  <2>2. CASE ~(k <= b - a)
    <3>1. k - (b - a) \in 1 .. c - b /\ b + (k - (b - a)) = a + k
      BY <2>2
    <3> QED BY <1>2, <1>3, <1>4, <2>2, <3>1
  <2> QED BY <2>1, <2>2
<1> QED BY <1>1, <1>3, <1>4, <1>5, SeqEqual DEF s, t, u

LEMMA UptoGrows ==
    ASSUME NEW a \in Nat, NEW b \in Nat, a <= b
    PROVE  Append(Upto(a, b), b + 1) = Upto(a, b + 1)
<1> DEFINE s == Upto(a, b)
           u == Upto(a, b + 1)
<1>1. /\ s \in Seq(Nat) /\ u \in Seq(Nat) /\ Len(s) = b - a /\ Len(u) = (b + 1) - a
      /\ \A k \in 1 .. b - a : s[k] = a + k
      /\ \A k \in 1 .. (b + 1) - a : u[k] = a + k
  <2>1. s \in Seq(Nat) /\ Len(s) = b - a /\ \A k \in 1 .. b - a : s[k] = a + k
    BY UptoIs
  <2>2. b + 1 \in Nat /\ a <= b + 1
    OBVIOUS
  <2>3. u \in Seq(Nat) /\ Len(u) = (b + 1) - a /\ \A k \in 1 .. (b + 1) - a : u[k] = a + k
    BY <2>2, UptoIs
  <2> HIDE DEF s, u
  <2> QED BY <2>1, <2>3
<1> HIDE DEF s, u
<1>2. /\ Append(s, b + 1) \in Seq(Nat) /\ Len(Append(s, b + 1)) = (b - a) + 1
      /\ \A k \in 1 .. b - a : Append(s, b + 1)[k] = s[k]
      /\ Append(s, b + 1)[(b - a) + 1] = b + 1
  <2>1. s \in Seq(Nat) /\ b + 1 \in Nat /\ Len(s) = b - a
    BY <1>1
  <2> QED BY <2>1, AppendProperties
<1>3. \A k \in 1 .. (b + 1) - a : Append(s, b + 1)[k] = u[k]
  <2> SUFFICES ASSUME NEW k \in 1 .. (b + 1) - a PROVE Append(s, b + 1)[k] = u[k]
    OBVIOUS
  <2>1. k \in 1 .. b - a \/ (k = (b - a) + 1 /\ a + k = b + 1)
    OBVIOUS
  <2> QED BY <1>1, <1>2, <2>1
<1> QED BY <1>1, <1>2, <1>3, SeqEqual DEF s, u

LEMMA UptoShrinks ==
    ASSUME NEW a \in Nat, NEW b \in Nat, a < b
    PROVE  Head(Upto(a, b)) = a + 1 /\ Tail(Upto(a, b)) = Upto(a + 1, b)
<1> DEFINE s == Upto(a, b)
           u == Upto(a + 1, b)
<1>1. /\ s \in Seq(Nat) /\ u \in Seq(Nat) /\ Len(s) = b - a /\ Len(u) = b - (a + 1)
      /\ \A k \in 1 .. b - a : s[k] = a + k
      /\ \A k \in 1 .. b - (a + 1) : u[k] = (a + 1) + k
      /\ s # <<>>
  <2>1. /\ s \in Seq(Nat) /\ Len(s) = b - a /\ s # <<>>
        /\ \A k \in 1 .. b - a : s[k] = a + k
    BY UptoIs
  <2>2. a + 1 \in Nat /\ a + 1 <= b
    OBVIOUS
  <2>3. /\ u \in Seq(Nat) /\ Len(u) = b - (a + 1)
        /\ \A k \in 1 .. b - (a + 1) : u[k] = (a + 1) + k
    BY <2>2, UptoIs
  <2> HIDE DEF s, u
  <2> QED BY <2>1, <2>3
<1> HIDE DEF s, u
<1>2. /\ Head(s) = s[1] /\ Tail(s) \in Seq(Nat) /\ Len(Tail(s)) = (b - a) - 1
      /\ \A k \in 1 .. (b - a) - 1 : Tail(s)[k] = s[k + 1]
  BY <1>1, HeadTailProperties
<1>3. \A k \in 1 .. b - (a + 1) : Tail(s)[k] = u[k]
  <2> SUFFICES ASSUME NEW k \in 1 .. b - (a + 1) PROVE Tail(s)[k] = u[k]
    OBVIOUS
  <2>1. k \in 1 .. (b - a) - 1 /\ k + 1 \in 1 .. b - a /\ a + (k + 1) = (a + 1) + k
    OBVIOUS
  <2> QED BY <1>1, <1>2, <2>1
<1>4. Len(Tail(s)) = Len(u) /\ 1 \in 1 .. b - a
  BY <1>1, <1>2
<1>5. Tail(s) = u
  BY <1>1, <1>2, <1>3, <1>4, SeqEqual
<1> QED BY <1>1, <1>2, <1>4, <1>5 DEF s, u

-----------------------------------------------------------------------------
(***************************************************************************)
(* What happens to a stream.                                               *)
(***************************************************************************)
\* The tokens go no further than was asked, and no less far than was told.
LEMMA FlowReaches ==
    ASSUME NEW os, NEW n \in Nat, NEW pc, NEW asked \in Nat, n <= asked, NEW alive,
           NEW ts \in Seq(Token), NEW rs, Flow(os, n, pc, asked, alive, ts, rs)
    PROVE  /\ Upmost(n, ts) \in Nat /\ n <= Upmost(n, ts) /\ Upmost(n, ts) <= asked
           /\ ts # <<>> => ts[1][1] = n + 1 /\ n + 1 <= Upmost(n, ts) /\ Len(ts) \in Nat \ {0}
<1>1. CASE ts = <<>>
  BY <1>1 DEF Upmost
<1>2. CASE ts # <<>>
  <2>1. Len(ts) \in Nat \ {0} /\ 1 \in 1 .. Len(ts) /\ Len(ts) \in 1 .. Len(ts)
    BY <1>2, EmptySeq
  <2>2. ts[1] = Due1(n, pc) /\ ts[Len(ts)][1] <= asked /\ Successive(os, ts)
    BY <1>2 DEF Flow
  <2>3. ts[1][1] = n + 1
    BY <2>2 DEF Due1
  <2>4. ts[1][1] <= ts[Len(ts)][1]
    BY <2>1, <2>2, Rising
  <2>5. ts[Len(ts)][1] \in Nat
    BY <2>1, TokenIs
  <2>6. Upmost(n, ts) = ts[Len(ts)][1]
    BY <1>2 DEF Upmost
  <2> QED BY <2>1, <2>2, <2>3, <2>4, <2>5, <2>6
<1> QED BY <1>1, <1>2

\* A reader that nothing was asked of.
LEMMA FreshFlow ==
    ASSUME NEW os, NEW n \in Nat, NEW pc, pc # "content", NEW alive
    PROVE  Flow(os, n, pc, n, alive, <<>>, <<>>)
<1>1. Upto(n, n) = <<>>
  BY UptoIs
<1>2. \A k \in 1 .. Len(<<>>) - 1 : FALSE
  OBVIOUS
<1> QED BY <1>1, <1>2 DEF Flow, Successive, Upmost

\* Only the place after the header matters.
LEMMA FlowPlace ==
    ASSUME NEW os, NEW n, NEW pc, NEW pc2, NEW asked, NEW alive, NEW ts, NEW rs,
           pc # "content", pc2 # "content", Flow(os, n, pc, asked, alive, ts, rs)
    PROVE  Flow(os, n, pc2, asked, alive, ts, rs)
BY DEF Flow, Due1

LEMMA FlowAsks ==
    ASSUME NEW os, NEW n \in Nat, NEW pc, NEW asked \in Nat, n <= asked, NEW alive,
           NEW ts \in Seq(Token), NEW rs, Flow(os, n, pc, asked, alive, ts, rs)
    PROVE  Flow(os, n, pc, asked + 1, alive, ts, Append(rs, asked + 1))
<1>1. Upmost(n, ts) \in Nat /\ Upmost(n, ts) <= asked
  BY FlowReaches
<1>2. ts # <<>> => ts[1] = Due1(n, pc) /\ ts[Len(ts)][1] <= asked
  BY DEF Flow
<1>3. ts # <<>> => ts[Len(ts)][1] = Upmost(n, ts)
  BY DEF Upmost
<1>4. ts # <<>> => ts[Len(ts)][1] <= asked + 1
  BY <1>1, <1>3
<1>5. Append(Upto(Upmost(n, ts), asked), asked + 1) = Upto(Upmost(n, ts), asked + 1)
  BY <1>1, UptoGrows
<1> QED BY <1>2, <1>4, <1>5 DEF Flow

\* Git takes the next request, and its answer follows the tokens.
LEMMA FlowAnswers ==
    ASSUME NEW n \in Nat, NEW pc, NEW asked \in Nat, n <= asked,
           NEW ts \in Seq(Token), NEW rs, rs # <<>>,
           Flow(objects, n, pc, asked, TRUE, ts, rs),
           \A i \in 1 .. asked : /\ EndOf(objects, i) \in Nat
                                 /\ objects[i].kind # "missing" => objects[i].size \in Nat
    PROVE  /\ Response(Head(rs)) \in Seq(Token)
           /\ Flow(objects, n, pc, asked, TRUE, ts \o Response(Head(rs)), Tail(rs))
<1> DEFINE u == Upmost(n, ts)
           r == Response(u + 1)
           vs == ts \o r
<1>1. u \in Nat /\ n <= u /\ u <= asked /\ (ts # <<>> => Len(ts) \in Nat \ {0})
  BY FlowReaches
<1>2. rs = Upto(u, asked) /\ Successive(objects, ts)
  BY DEF Flow
<1>3. u # asked
  BY <1>1, <1>2, UptoIs
<1>4. Head(rs) = u + 1 /\ Tail(rs) = Upto(u + 1, asked)
  <2> HIDE DEF u
  <2> QED BY <1>1, <1>2, <1>3, UptoShrinks
<1>5. u + 1 \in Nat /\ u + 1 \in 1 .. asked
  BY <1>1, <1>3
<1>6. /\ r \in Seq(Token) /\ r # <<>> /\ Successive(objects, r)
      /\ r[1] = <<u + 1, 0>> /\ r[Len(r)] = <<u + 1, EndOf(objects, u + 1)>>
  <2> HIDE DEF u
  <2> QED BY <1>5, ResponseIs
<1> HIDE DEF r
<1>7. /\ vs \in Seq(Token) /\ vs # <<>> /\ Successive(objects, vs)
      /\ vs[1] = Due1(n, pc) /\ vs[Len(vs)] = <<u + 1, EndOf(objects, u + 1)>>
  <2>1. CASE ts = <<>>
    <3>1. vs = r
      BY <1>6, <2>1, ConcatEmptySeq
    <3>2. u = n /\ pc # "content"
      BY <2>1 DEF Upmost, Flow
    <3>3. r[1] = Due1(n, pc)
      BY <1>6, <3>2 DEF Due1
    <3> HIDE DEF vs, u
    <3> QED BY <1>6, <3>1, <3>3
  <2>2. CASE ts # <<>>
    <3>1. u = ts[Len(ts)][1] /\ ts[Len(ts)][2] = EndOf(objects, ts[Len(ts)][1])
          /\ ts[1] = Due1(n, pc)
      BY <2>2 DEF Upmost, Flow
    <3>2. After(objects, ts[Len(ts)]) = <<u + 1, 0>>
      BY <3>1 DEF After
    <3> HIDE DEF u
    <3>4. r[1] = After(objects, ts[Len(ts)])
      BY <1>6, <3>2
    <3>5. r \in Seq(Token) /\ r # <<>> /\ Successive(objects, r) /\ Successive(objects, ts)
      BY <1>2, <1>6
    <3>3. /\ vs \in Seq(Token) /\ vs # <<>> /\ Successive(objects, vs)
          /\ vs[1] = ts[1] /\ vs[Len(vs)] = r[Len(r)]
      BY <2>2, <3>4, <3>5, Joined
    <3> QED BY <1>6, <3>1, <3>3
  <2> QED BY <2>1, <2>2
<1> HIDE DEF vs
<1>8. Upmost(n, vs) = u + 1
  <2> HIDE DEF u
  <2> QED BY <1>7 DEF Upmost
<1>9. vs[Len(vs)][1] = u + 1 /\ vs[Len(vs)][2] = EndOf(objects, u + 1) /\ u + 1 <= asked
  <2> HIDE DEF u
  <2> QED BY <1>5, <1>7
<1>10. Flow(objects, n, pc, asked, TRUE, vs, Upto(u + 1, asked))
  <2> HIDE DEF u
  <2> QED BY <1>7, <1>8, <1>9 DEF Flow
<1> QED BY <1>4, <1>6, <1>10 DEF vs, r

\* Git is gone, and what it had not written.
LEMMA FlowBreaks ==
    ASSUME NEW os, NEW n \in Nat, NEW pc, NEW asked \in Nat, n <= asked, NEW alive,
           NEW ts \in Seq(Token), NEW us \in Seq(Token), NEW rs, NEW rs2,
           Flow(os, n, pc, asked, alive, ts \o us, rs)
    PROVE  /\ Flow(os, n, pc, asked, FALSE, ts, rs2)
           /\ Upmost(n, ts) <= Upmost(n, ts \o us)
<1>0. ts \o us \in Seq(Token)
  BY ConcatProperties
<1>1. Successive(os, ts \o us)
  BY DEF Flow
<1>2. /\ Successive(os, ts)
      /\ ts # <<>> => /\ ts \o us # <<>>
                      /\ (ts \o us)[1] = ts[1]
                      /\ ts[Len(ts)][1] <= (ts \o us)[Len(ts \o us)][1]
  BY <1>1, CutOff
<1>3. n <= Upmost(n, ts \o us) /\ Upmost(n, ts \o us) <= asked /\ Upmost(n, ts \o us) \in Nat
  BY <1>0, FlowReaches
<1>4. CASE ts = <<>>
  <2>1. Upmost(n, ts) = n
    BY <1>4 DEF Upmost
  <2> QED BY <1>2, <1>3, <1>4, <2>1 DEF Flow
<1>5. CASE ts # <<>>
  <2>1. Upmost(n, ts) = ts[Len(ts)][1] /\ Upmost(n, ts \o us) = (ts \o us)[Len(ts \o us)][1]
    BY <1>2, <1>5 DEF Upmost
  <2>2. ts[1] = Due1(n, pc)
    BY <1>2, <1>5 DEF Flow
  <2>3. ts[Len(ts)][1] \in Nat
    <3>1. Len(ts) \in 1 .. Len(ts)
      BY <1>5, EmptySeq
    <3> QED BY <3>1, TokenIs
  <2>4. ts[Len(ts)][1] <= asked
    BY <1>2, <1>3, <1>5, <2>1, <2>3
  <2> QED BY <1>2, <1>5, <2>1, <2>2, <2>4 DEF Flow
<1> QED BY <1>4, <1>5

\* The caller takes a header that content follows.
LEMMA FlowHeader ==
    ASSUME NEW os, NEW n \in Nat, NEW pc, pc # "content",
           NEW asked \in Nat, n <= asked, NEW alive \in BOOLEAN,
           NEW ts \in Seq(Token), ts # <<>>, NEW rs,
           Flow(os, n, pc, asked, alive, ts, rs),
           EndOf(os, n + 1) \in Nat \ {0}
    PROVE  LET us == Rest(ts, 1)
           IN
           /\ us \in Seq(Token)
           /\ Flow(os, n, "content", asked, alive, us, rs)
           /\ IF alive THEN us # <<>> ELSE Upmost(n, us) <= Upmost(n, ts)
<1> DEFINE us == Rest(ts, 1)
<1>1. /\ Upmost(n, ts) \in Nat /\ n <= Upmost(n, ts) /\ Upmost(n, ts) <= asked
      /\ Len(ts) \in Nat \ {0}
  BY FlowReaches
<1>2. ts[1] = <<n + 1, 0>> /\ Successive(os, ts)
  BY DEF Flow, Due1
<1>3. 1 \in 1 .. Len(ts)
  BY <1>1
<1>4. /\ us \in Seq(Token) /\ Successive(os, us)
      /\ (us = <<>> <=> Len(ts) = 1)
      /\ us # <<>> => us[1] = After(os, ts[1]) /\ us[Len(us)] = ts[Len(ts)]
  <2>1. Successive(os, ts)
    BY <1>2
  <2> QED BY <2>1, FirstDropped
<1>8. SUFFICES /\ us \in Seq(Token)
              /\ Flow(os, n, "content", asked, alive, us, rs)
              /\ IF alive THEN us # <<>> ELSE Upmost(n, us) <= Upmost(n, ts)
  OBVIOUS
<1> HIDE DEF us
<1>5. After(os, ts[1]) = <<n + 1, 1>>
  BY <1>2 DEF After
<1>6. CASE us = <<>>
  <2>1. ts[Len(ts)] = <<n + 1, 0>>
    BY <1>2, <1>4, <1>6
  <2>2. ~alive
    BY <2>1 DEF Flow
  <2>3. Upmost(n, us) = n
    BY <1>6 DEF Upmost
  <2> QED BY <1>1, <1>4, <1>6, <2>2, <2>3 DEF Flow
<1>7. CASE us # <<>>
  <2>1. Upmost(n, us) = Upmost(n, ts)
    BY <1>4, <1>7 DEF Upmost
  <2>2. us[1] = Due1(n, "content")
    BY <1>4, <1>5, <1>7 DEF Due1
  <2> QED BY <1>1, <1>4, <1>7, <2>1, <2>2 DEF Flow
<1> QED BY <1>6, <1>7

\* The caller takes the rest of an answer and tells it.
ToldOf(os, n, asked, alive, ts, rs, k) ==
    LET us == Rest(ts, k)
    IN  /\ us \in Seq(Token)
        /\ Flow(os, n + 1, "ask", asked, alive, us, rs)
        /\ Upmost(n + 1, us) = Upmost(n, ts)
        /\ n + 1 <= Upmost(n, ts)

LEMMA FlowTells ==
    ASSUME NEW os, NEW n \in Nat, NEW pc,
           NEW asked \in Nat, n <= asked, NEW alive \in BOOLEAN,
           NEW ts \in Seq(Token), NEW rs,
           Flow(os, n, pc, asked, alive, ts, rs),
           NEW k \in 1 .. Len(ts), ts[k][1] = n + 1, ts[k][2] = EndOf(os, n + 1)
    PROVE  ToldOf(os, n, asked, alive, ts, rs, k)
<1> DEFINE us == Rest(ts, k)
<1>0. ts # <<>> /\ Successive(os, ts)
  BY EmptySeq DEF Flow
<1>1. /\ Upmost(n, ts) \in Nat /\ n + 1 <= Upmost(n, ts) /\ Upmost(n, ts) <= asked
      /\ Len(ts) \in Nat \ {0}
  BY <1>0, FlowReaches
<1>2. /\ us \in Seq(Token) /\ Successive(os, us)
      /\ (us = <<>> <=> k = Len(ts))
      /\ us # <<>> => us[1] = After(os, ts[k]) /\ us[Len(us)] = ts[Len(ts)]
  BY <1>0, Dropped
<1>7. SUFFICES /\ us \in Seq(Token)
               /\ Flow(os, n + 1, "ask", asked, alive, us, rs)
               /\ Upmost(n + 1, us) = Upmost(n, ts)
               /\ n + 1 <= Upmost(n, ts)
  BY DEF ToldOf
<1> HIDE DEF us
<1>3. After(os, ts[k]) = <<(n + 1) + 1, 0>>
  BY DEF After
<1>4. Upmost(n, ts) = ts[Len(ts)][1]
  BY <1>0 DEF Upmost
<1>5. CASE us = <<>>
  <2>1. ts[Len(ts)][1] = n + 1 /\ ts[Len(ts)][2] = EndOf(os, n + 1)
    BY <1>2, <1>5
  <2>2. Upmost(n + 1, us) = n + 1 /\ Upmost(n, ts) = n + 1
    <3>1. ts[Len(ts)][1] = n + 1
      BY <2>1
    <3> QED BY <1>4, <1>5, <3>1 DEF Upmost
  <2> QED BY <1>1, <1>2, <1>5, <2>2 DEF Flow
<1>6. CASE us # <<>>
  <2>1. Upmost(n + 1, us) = Upmost(n, ts)
    BY <1>2, <1>4, <1>6 DEF Upmost
  <2>2. us[1] = Due1(n + 1, "ask")
    BY <1>2, <1>3, <1>6 DEF Due1
  <2> QED BY <1>0, <1>1, <1>2, <1>6, <2>1, <2>2 DEF Flow
<1> QED BY <1>5, <1>6

-----------------------------------------------------------------------------
(***************************************************************************)
(* The stages of the pipeline, end to end.                                 *)
(***************************************************************************)
LEMMA Regrouped ==
    ASSUME NEW a \in Seq(Token), NEW b \in Seq(Token), NEW c \in Seq(Token)
    PROVE  (a \o b) \o c = a \o (b \o c)
BY ConcatAssociative

Line(u, cs, h, o, g) == u \o FlattenSeq(cs) \o h \o o \o g

LEMMA LineIs ==
    ASSUME NEW u \in Seq(Token), NEW cs \in Seq(Seq(Token)), NEW h \in Seq(Token),
           NEW o \in Seq(Token), NEW g \in Seq(Token)
    PROVE  /\ FlattenSeq(cs) \in Seq(Token)
           /\ u \o FlattenSeq(cs) \in Seq(Token)
           /\ u \o FlattenSeq(cs) \o h \in Seq(Token)
           /\ u \o FlattenSeq(cs) \o h \o o \in Seq(Token)
           /\ Line(u, cs, h, o, g) \in Seq(Token)
<1>1. FlattenSeq(cs) \in Seq(Token)
  BY FlatAppend
<1>2. u \o FlattenSeq(cs) \in Seq(Token)
  BY <1>1, ConcatProperties
<1>3. u \o FlattenSeq(cs) \o h \in Seq(Token)
  BY <1>2, ConcatProperties
<1>4. u \o FlattenSeq(cs) \o h \o o \in Seq(Token)
  BY <1>3, ConcatProperties
<1>5. u \o FlattenSeq(cs) \o h \o o \o g \in Seq(Token)
  BY <1>4, ConcatProperties
<1> QED BY <1>1, <1>2, <1>3, <1>4, <1>5 DEF Line

LEMMA LineIsEmpty == Line(<<>>, <<>>, <<>>, <<>>, <<>>) = <<>>
<1>1. FlattenSeq(<<>>) = <<>>
  BY DEF FlattenSeq
<1>2. <<>> \o <<>> = <<>>
  BY ConcatEmptySeq, EmptySeq
<1> QED BY <1>1, <1>2 DEF Line

\* The caller receives a chunk.
LEMMA LineReceives ==
    ASSUME NEW u \in Seq(Token), NEW cs \in Seq(Seq(Token)), cs # <<>>,
           NEW h, NEW o, NEW g
    PROVE  /\ u \o Head(cs) \in Seq(Token) /\ Tail(cs) \in Seq(Seq(Token))
           /\ Line(u \o Head(cs), Tail(cs), h, o, g) = Line(u, cs, h, o, g)
<1>1. /\ Head(cs) \in Seq(Token) /\ FlattenSeq(Tail(cs)) \in Seq(Token)
      /\ FlattenSeq(cs) = Head(cs) \o FlattenSeq(Tail(cs))
  BY FlatTail
<1>2. (u \o Head(cs)) \o FlattenSeq(Tail(cs)) = u \o FlattenSeq(cs)
  <2> DEFINE a == Head(cs)
             b == FlattenSeq(Tail(cs))
  <2>1. a \in Seq(Token) /\ b \in Seq(Token) /\ FlattenSeq(cs) = a \o b
    BY <1>1
  <2> HIDE DEF a, b
  <2>2. (u \o a) \o b = u \o (a \o b)
    BY <2>1, Regrouped
  <2> QED BY <2>1, <2>2 DEF a, b
<1>3. u \o Head(cs) \in Seq(Token)
  BY <1>1, ConcatProperties
<1>4. Tail(cs) \in Seq(Seq(Token))
  BY HeadTailProperties
<1> QED BY <1>2, <1>3, <1>4 DEF Line

\* The stdout thread takes what there is, and sends it.
LEMMA LinePumps ==
    ASSUME NEW u \in Seq(Token), NEW cs \in Seq(Seq(Token)), NEW h \in Seq(Token),
           NEW o \in Seq(Token), NEW g
    PROVE  /\ Line(u, cs, o, <<>>, g) = Line(u, cs, <<>>, o, g)
           /\ Append(cs, h) \in Seq(Seq(Token))
           /\ Line(u, Append(cs, h), <<>>, o, g) = Line(u, cs, h, o, g)
<1> DEFINE f == FlattenSeq(cs)
           w == u \o f
<1>1. f \in Seq(Token) /\ FlattenSeq(Append(cs, h)) = f \o h
  BY FlatAppend
<1> HIDE DEF f
<1>2. w \in Seq(Token)
  BY <1>1, ConcatProperties
<1>3. w \o o \in Seq(Token) /\ w \o h \in Seq(Token)
  <2> HIDE DEF w
  <2> QED BY <1>2, ConcatProperties
<1>4. (w \o o) \o <<>> = w \o o /\ w \o <<>> = w /\ (w \o h) \o <<>> = w \o h
  <2> HIDE DEF w
  <2> QED BY <1>2, <1>3, ConcatEmptySeq
<1>5. u \o (f \o h) = w \o h
  BY <1>1, Regrouped
<1>6. Line(u, cs, o, <<>>, g) = ((w \o o) \o <<>>) \o g
  BY DEF Line, f
<1>7. Line(u, cs, <<>>, o, g) = ((w \o <<>>) \o o) \o g
  BY DEF Line, f
<1>8. Line(u, Append(cs, h), <<>>, o, g) = (((u \o (f \o h)) \o <<>>) \o o) \o g
  BY <1>1 DEF Line
<1>9. Line(u, cs, h, o, g) = ((w \o h) \o o) \o g
  BY DEF Line, f
<1>10. Append(cs, h) \in Seq(Seq(Token))
  BY AppendProperties
<1> HIDE DEF w
<1> QED BY <1>4, <1>5, <1>6, <1>7, <1>8, <1>9, <1>10

\* What Git has yet to write comes last.
LEMMA LineEnds ==
    ASSUME NEW u \in Seq(Token), NEW cs \in Seq(Seq(Token)), NEW h \in Seq(Token),
           NEW o \in Seq(Token), NEW g \in Seq(Token)
    PROVE  /\ Line(u, cs, h, o, <<>>) \in Seq(Token)
           /\ Line(u, cs, h, o, g) = Line(u, cs, h, o, <<>>) \o g
<1> DEFINE w == (u \o FlattenSeq(cs) \o h) \o o
<1>1. w \in Seq(Token)
  BY LineIs
<1>2. /\ Line(u, cs, h, o, g) = w \o g
      /\ Line(u, cs, h, o, <<>>) = w \o <<>>
  BY DEF Line
<1> HIDE DEF w
<1>3. w \o <<>> = w
  BY <1>1, ConcatEmptySeq
<1> QED BY <1>1, <1>2, <1>3

\* Git writes a token.
LEMMA LineWrites ==
    ASSUME NEW u \in Seq(Token), NEW cs \in Seq(Seq(Token)), NEW h \in Seq(Token),
           NEW o \in Seq(Token), NEW g \in Seq(Token), g # <<>>
    PROVE  /\ Head(g) \in Token /\ Tail(g) \in Seq(Token)
           /\ Append(o, Head(g)) \in Seq(Token)
           /\ Line(u, cs, h, Append(o, Head(g)), Tail(g)) = Line(u, cs, h, o, g)
<1> DEFINE f == u \o FlattenSeq(cs) \o h
           w == f \o o
<1>1. f \in Seq(Token) /\ w \in Seq(Token)
  BY LineIs
<1>2. Line(u, cs, h, o, g) = w \o g
  BY DEF Line
<1> HIDE DEF f
<1>4. Head(g) \in Token /\ Tail(g) \in Seq(Token) /\ g = <<Head(g)>> \o Tail(g)
  <2>1. Head(g) \in Token /\ Tail(g) \in Seq(Token)
    BY HeadTailProperties
  <2>2. g = <<Head(g)>> \o Tail(g)
    OBVIOUS
  <2> QED BY <2>1, <2>2
<1>5. Append(o, Head(g)) = o \o <<Head(g)>> /\ Append(o, Head(g)) \in Seq(Token)
  BY <1>4, AppendIsConcat, AppendProperties
<1>6. <<Head(g)>> \in Seq(Token)
  BY <1>4
<1>7. f \o (o \o <<Head(g)>>) = w \o <<Head(g)>>
  BY <1>1, <1>6, Regrouped
<1>8. (w \o <<Head(g)>>) \o Tail(g) = w \o (<<Head(g)>> \o Tail(g))
  <2> DEFINE a == <<Head(g)>>
             b == Tail(g)
  <2>1. a \in Seq(Token) /\ b \in Seq(Token)
    BY <1>4, <1>6
  <2>2. w \in Seq(Token)
    BY <1>1
  <2> HIDE DEF w, a, b
  <2>3. (w \o a) \o b = w \o (a \o b)
    BY <2>1, <2>2, Regrouped
  <2> QED BY <2>3 DEF a, b
<1>9. Line(u, cs, h, Append(o, Head(g)), Tail(g)) = (f \o Append(o, Head(g))) \o Tail(g)
  BY DEF Line, f
<1> HIDE DEF w
<1> QED BY <1>2, <1>4, <1>5, <1>7, <1>8, <1>9

\* The caller takes its first n tokens.
LEMMA RestOfJoined ==
    ASSUME NEW S, NEW s \in Seq(S), NEW t \in Seq(S), NEW n \in Nat, n <= Len(s)
    PROVE  Rest(s, n) \in Seq(S) /\ Rest(s \o t, n) = Rest(s, n) \o t
<1> DEFINE N == Len(s)
           M == Len(t)
           v == s \o t
           r == Rest(s, n)
           q == Rest(v, n)
<1>1. N \in Nat /\ M \in Nat
  OBVIOUS
<1>2. /\ v \in Seq(S) /\ Len(v) = N + M
      /\ \A i \in 1 .. N + M : v[i] = IF i <= N THEN s[i] ELSE t[i - N]
  BY ConcatProperties
<1> HIDE DEF v
<1>3. \A i \in n + 1 .. N + M : v[i] \in S
  BY <1>2, <1>1, ElementOfSeq
<1>4. \A i \in n + 1 .. N : s[i] \in S
  BY <1>1, ElementOfSeq
<1>5. /\ r \in Seq(S) /\ Len(r) = N - n
      /\ \A i \in 1 .. N - n : r[i] = s[i + n]
  <2>1. /\ r \in Seq(S) /\ Len(r) = IF n + 1 <= N THEN N - (n + 1) + 1 ELSE 0
        /\ \A i \in 1 .. N - (n + 1) + 1 : r[i] = s[(n + 1) + i - 1]
    <3>1. n + 1 \in Int /\ N \in Int
      BY <1>1
    <3> HIDE DEF N
    <3> QED BY <1>4, <3>1, SubSeqProperties DEF N, Rest
  <2>2. N - (n + 1) + 1 = N - n /\ \A i \in 1 .. N - n : (n + 1) + i - 1 = i + n
    BY <1>1
  <2>3. N - n = IF n + 1 <= N THEN N - n ELSE 0
    BY <1>1
  <2>4. r \in Seq(S)
    BY <2>1
  <2>5. Len(r) = N - n
    <3> HIDE DEF N, r
    <3> QED BY <2>1, <2>2, <2>3
  <2>6. \A i \in 1 .. N - n : r[i] = s[i + n]
    <3> HIDE DEF N, r
    <3> QED BY <2>1, <2>2
  <2> QED BY <2>4, <2>5, <2>6
<1>6. /\ q \in Seq(S) /\ Len(q) = (N + M) - n
      /\ \A i \in 1 .. (N + M) - n : q[i] = v[i + n]
  <2>1. /\ q \in Seq(S) /\ Len(q) = IF n + 1 <= N + M THEN (N + M) - (n + 1) + 1 ELSE 0
        /\ \A i \in 1 .. (N + M) - (n + 1) + 1 : q[i] = v[(n + 1) + i - 1]
    <3>1. n + 1 \in Int /\ N + M \in Int
      BY <1>1
    <3>2. q = SubSeq(v, n + 1, N + M)
      BY <1>2 DEF Rest
    <3> HIDE DEF N, M, q
    <3> QED BY <1>3, <3>1, <3>2, SubSeqProperties
  <2>2. /\ (N + M) - (n + 1) + 1 = (N + M) - n
        /\ \A i \in 1 .. (N + M) - n : (n + 1) + i - 1 = i + n
    BY <1>1
  <2>3. (N + M) - n = IF n + 1 <= N + M THEN (N + M) - n ELSE 0
    BY <1>1
  <2>4. q \in Seq(S)
    BY <2>1
  <2>5. Len(q) = (N + M) - n
    <3> HIDE DEF N, M, q
    <3> QED BY <2>1, <2>2, <2>3
  <2>6. \A i \in 1 .. (N + M) - n : q[i] = v[i + n]
    <3> HIDE DEF N, M, q
    <3> QED BY <2>1, <2>2
  <2> QED BY <2>4, <2>5, <2>6
<1> HIDE DEF r, q
<1>7. /\ r \o t \in Seq(S) /\ Len(r \o t) = (N - n) + M
      /\ \A i \in 1 .. (N - n) + M : (r \o t)[i] = IF i <= N - n THEN r[i] ELSE t[i - (N - n)]
  <2>1. r \in Seq(S) /\ Len(r) = N - n
    BY <1>5
  <2>2. /\ r \o t \in Seq(S) /\ Len(r \o t) = Len(r) + Len(t)
        /\ \A i \in 1 .. Len(r) + Len(t) : (r \o t)[i] = IF i <= Len(r) THEN r[i] ELSE t[i - Len(r)]
    BY <2>1, ConcatProperties
  <2> QED BY <2>1, <2>2
<1> HIDE DEF N, M
<1>8. ASSUME NEW i \in 1 .. (N + M) - n PROVE q[i] = (r \o t)[i]
  <2>0. i + n \in 1 .. N + M /\ i \in 1 .. (N - n) + M
    BY <1>1
  <2>1. CASE i <= N - n
    <3>1. i \in 1 .. N - n /\ i + n <= N
      BY <1>1, <2>1
    <3> QED BY <1>2, <1>5, <1>6, <1>7, <2>0, <2>1, <3>1
  <2>2. CASE ~(i <= N - n)
    <3>1. ~(i + n <= N) /\ (i + n) - N = i - (N - n)
      BY <1>1, <2>2
    <3> QED BY <1>2, <1>6, <1>7, <2>0, <2>2, <3>1
  <2> QED BY <2>1, <2>2
<1>9. Len(q) = Len(r \o t) /\ Len(q) = (N + M) - n
  BY <1>1, <1>6, <1>7
<1>10. q = r \o t
  BY <1>6, <1>7, <1>8, <1>9, SeqEqual
<1> QED BY <1>5, <1>10 DEF v, q, r

\* What is behind the caller's own tokens.
Behind(cs, h, o, g) == FlattenSeq(cs) \o (h \o (o \o g))

LEMMA LineFront ==
    ASSUME NEW v \in Seq(Token), NEW cs \in Seq(Seq(Token)), NEW h \in Seq(Token),
           NEW o \in Seq(Token), NEW g \in Seq(Token)
    PROVE  Behind(cs, h, o, g) \in Seq(Token) /\ Line(v, cs, h, o, g) = v \o Behind(cs, h, o, g)
<1> DEFINE f == FlattenSeq(cs)
           c == o \o g
           d == h \o c
           t == f \o d
<1>1. f \in Seq(Token)
  BY LineIs
<1>2. c \in Seq(Token)
  BY ConcatProperties
<1> HIDE DEF f, c
<1>3. d \in Seq(Token)
  BY <1>2, ConcatProperties
<1> HIDE DEF d
<1>4. t \in Seq(Token)
  BY <1>1, <1>3, ConcatProperties
<1>5. Line(v, cs, h, o, g) = v \o t
  <2> DEFINE a == v \o f
             b == a \o h
  <2>0. \A x, y, z \in Seq(Token) : (x \o y) \o z = x \o (y \o z)
    BY Regrouped
  <2>5. f \in Seq(Token) /\ d \in Seq(Token)
    BY <1>1, <1>3
  <2>6. (v \o f) \o d = v \o (f \o d)
    <3> HIDE DEF a, b
    <3> QED BY <2>0, <2>5
  <2>7. a \in Seq(Token)
    BY <2>5, ConcatProperties
  <2>1. a \in Seq(Token) /\ a \o d = v \o (f \o d)
    BY <2>6, <2>7
  <2> HIDE DEF a
  <2>2. b \in Seq(Token) /\ b \o c = a \o (h \o c)
    BY <1>2, <2>1, ConcatProperties, Regrouped
  <2> HIDE DEF b
  <2>3. (b \o o) \o g = b \o (o \o g)
    BY <2>2, Regrouped
  <2>4. Line(v, cs, h, o, g) = (b \o o) \o g
    BY DEF Line, f, a, b
  <2> QED BY <2>1, <2>2, <2>3, <2>4 DEF c, d
<1> QED BY <1>4, <1>5 DEF Behind, c, d, f

LEMMA LineTakes ==
    ASSUME NEW u \in Seq(Token), NEW cs \in Seq(Seq(Token)), NEW h \in Seq(Token),
           NEW o \in Seq(Token), NEW g \in Seq(Token), NEW n \in Nat, n <= Len(u)
    PROVE  /\ Rest(u, n) \in Seq(Token)
           /\ Line(Rest(u, n), cs, h, o, g) = Rest(Line(u, cs, h, o, g), n)
           /\ Len(u) <= Len(Line(u, cs, h, o, g))
           /\ \A k \in 1 .. Len(u) : Line(u, cs, h, o, g)[k] = u[k]
<1> DEFINE t == Behind(cs, h, o, g)
<1>1. t \in Seq(Token) /\ Line(u, cs, h, o, g) = u \o t
  BY LineFront
<1> HIDE DEF t
<1>2. Rest(u, n) \in Seq(Token) /\ Rest(u \o t, n) = Rest(u, n) \o t
  BY <1>1, RestOfJoined
<1>3. /\ Len(u \o t) = Len(u) + Len(t)
      /\ \A k \in 1 .. Len(u) + Len(t) : (u \o t)[k] = IF k <= Len(u) THEN u[k] ELSE t[k - Len(u)]
  BY <1>1, ConcatProperties
<1>4. Len(u) \in Nat /\ Len(t) \in Nat
  BY <1>1
<1>5. Len(u) <= Len(u \o t) /\ \A k \in 1 .. Len(u) : (u \o t)[k] = u[k]
  BY <1>3, <1>4
<1>6. Line(Rest(u, n), cs, h, o, g) = Rest(u, n) \o t
  BY <1>2, LineFront DEF t
<1> QED BY <1>1, <1>2, <1>5, <1>6

(***************************************************************************)
(* The requests on their way: in the pipe, in hand and queued.             *)
(***************************************************************************)
LEMMA Widened ==
    ASSUME NEW S, NEW T, S \subseteq T, NEW q \in Seq(S)
    PROVE  q \in Seq(T)
OBVIOUS

LEMMA Renumbered ==
    ASSUME NEW S, NEW a \in Seq(S), NEW b \in Seq(S), NEW c \in Seq(S)
    PROVE  (a \o b) \o c = a \o (b \o c)
BY ConcatAssociative

LEMMA Pushed ==
    ASSUME NEW S, NEW a \in S, NEW v \in Seq(S)
    PROVE  <<a>> \o v # <<>> /\ Head(<<a>> \o v) = a /\ Tail(<<a>> \o v) = v
<1> DEFINE w == <<a>> \o v
<1>1. <<a>> \in Seq(S) /\ Len(<<a>>) = 1 /\ <<a>>[1] = a /\ Len(v) \in Nat
  OBVIOUS
<1>2. /\ w \in Seq(S) /\ Len(w) = Len(<<a>>) + Len(v)
      /\ \A k \in 1 .. Len(<<a>>) + Len(v) :
            w[k] = IF k <= Len(<<a>>) THEN <<a>>[k] ELSE v[k - Len(<<a>>)]
  BY <1>1, ConcatProperties
<1>3. /\ Len(w) = 1 + Len(v) /\ w[1] = a
      /\ \A k \in 1 .. Len(v) : w[k + 1] = v[k]
  <2>1. Len(w) = 1 + Len(v)
    BY <1>1, <1>2
  <2>2. 1 \in 1 .. 1 + Len(v) /\ 1 <= 1
    BY <1>1
  <2>3. \A k \in 1 .. Len(v) : k + 1 \in 1 .. 1 + Len(v) /\ ~(k + 1 <= 1) /\ (k + 1) - 1 = k
    BY <1>1
  <2> HIDE DEF w
  <2> QED BY <1>1, <1>2, <2>1, <2>2, <2>3
<1> HIDE DEF w
<1>4. w # <<>>
  BY <1>1, <1>2, <1>3
<1>5. /\ Head(w) = w[1] /\ Tail(w) \in Seq(S) /\ Len(Tail(w)) = Len(w) - 1
      /\ \A k \in 1 .. Len(Tail(w)) : Tail(w)[k] = w[k + 1]
  BY <1>2, <1>4, HeadTailProperties
<1>6. Len(Tail(w)) = Len(v) /\ \A k \in 1 .. Len(Tail(w)) : Tail(w)[k] = v[k]
  BY <1>1, <1>3, <1>5
<1>7. Tail(w) = v
  BY <1>5, <1>6, SeqEqual
<1> QED BY <1>3, <1>4, <1>5, <1>7 DEF w

LEMMA RequestsMove ==
    ASSUME NEW S, NEW i \in Seq(S), NEW h \in Seq(S), NEW r \in Seq(S)
    PROVE  /\ i \o h \o r \in Seq(S)
           /\ \A x \in S : /\ i \o h \o Append(r, x) = Append(i \o h \o r, x)
                          /\ Append(i, x) \o <<>> \o <<>> = Append(i \o <<>> \o <<>>, x)
           /\ i \o h \in Seq(S) /\ (i \o h) \o <<>> \o r = i \o h \o r
           /\ r # <<>> => /\ Head(r) \in S /\ Tail(r) \in Seq(S)
                          /\ i \o <<Head(r)>> \o Tail(r) = i \o <<>> \o r
           /\ i # <<>> => /\ Head(i) \in S /\ Tail(i) \in Seq(S)
                          /\ i \o h \o r # <<>>
                          /\ Head(i \o h \o r) = Head(i)
                          /\ Tail(i \o h \o r) = Tail(i) \o h \o r
<1> DEFINE w == i \o h
<1>1. w \in Seq(S)
  BY ConcatProperties
<1>2. w \o r \in Seq(S)
  <2> HIDE DEF w
  <2> QED BY <1>1, ConcatProperties
<1>3. ASSUME NEW x \in S
      PROVE  w \o Append(r, x) = Append(w \o r, x)
  <2> HIDE DEF w
  <2>1. Append(r, x) = r \o <<x>> /\ <<x>> \in Seq(S)
    BY AppendIsConcat
  <2>2. Append(w \o r, x) = (w \o r) \o <<x>>
    BY <1>2, AppendIsConcat
  <2>3. (w \o r) \o <<x>> = w \o (r \o <<x>>)
    BY <1>1, <2>1, ConcatAssociative
  <2> QED BY <2>1, <2>2, <2>3
<1>4. ASSUME NEW x \in S
      PROVE  Append(i, x) \o <<>> \o <<>> = Append(i \o <<>> \o <<>>, x)
  <2>1. Append(i, x) \in Seq(S)
    BY AppendProperties
  <2>2. Append(i, x) \o <<>> = Append(i, x) /\ i \o <<>> = i
    BY <2>1, ConcatEmptySeq
  <2> QED BY <2>2
<1>5. w \o <<>> = w
  <2> HIDE DEF w
  <2> QED BY <1>1, ConcatEmptySeq
<1>6. ASSUME r # <<>>
      PROVE  /\ Head(r) \in S /\ Tail(r) \in Seq(S)
             /\ i \o <<Head(r)>> \o Tail(r) = i \o <<>> \o r
  <2>1. Head(r) \in S /\ Tail(r) \in Seq(S)
    BY <1>6, HeadTailProperties
  <2>2. r = <<Head(r)>> \o Tail(r) /\ <<Head(r)>> \in Seq(S)
    BY <1>6, <2>1
  <2>3. (i \o <<Head(r)>>) \o Tail(r) = i \o (<<Head(r)>> \o Tail(r))
    <3> DEFINE a == <<Head(r)>>
               b == Tail(r)
    <3>1. a \in Seq(S) /\ b \in Seq(S)
      BY <2>1, <2>2
    <3> HIDE DEF a, b
    <3>2. (i \o a) \o b = i \o (a \o b)
      BY <3>1, Renumbered
    <3> QED BY <3>2 DEF a, b
  <2>4. i \o <<>> = i
    BY ConcatEmptySeq
  <2> QED BY <2>1, <2>2, <2>3, <2>4
<1>7. ASSUME i # <<>>
      PROVE  /\ Head(i) \in S /\ Tail(i) \in Seq(S)
             /\ w \o r # <<>> /\ Head(w \o r) = Head(i) /\ Tail(w \o r) = Tail(i) \o h \o r
  <2>1. Head(i) \in S /\ Tail(i) \in Seq(S)
    BY <1>7, HeadTailProperties
  <2>2. i = <<Head(i)>> \o Tail(i) /\ <<Head(i)>> \in Seq(S)
    BY <1>7, <2>1
  <2>3. Tail(i) \o h \in Seq(S)
    BY <2>1, ConcatProperties
  <2> DEFINE v == (Tail(i) \o h) \o r
  <2>4. v \in Seq(S)
    BY <2>3, ConcatProperties
  <2>5. w = <<Head(i)>> \o (Tail(i) \o h)
    BY <2>1, <2>2, ConcatAssociative
  <2>6. w \o r = <<Head(i)>> \o v
    <3>1. (<<Head(i)>> \o (Tail(i) \o h)) \o r = <<Head(i)>> \o ((Tail(i) \o h) \o r)
      BY <2>2, <2>3, ConcatAssociative
    <3> HIDE DEF w
    <3> QED BY <2>5, <3>1
  <2> HIDE DEF v, w
  <2>7. /\ <<Head(i)>> \o v # <<>> /\ Head(<<Head(i)>> \o v) = Head(i)
        /\ Tail(<<Head(i)>> \o v) = v
    BY <2>1, <2>4, Pushed
  <2> QED BY <2>1, <2>6, <2>7 DEF v
<1> HIDE DEF w
<1> QED BY <1>1, <1>2, <1>3, <1>4, <1>5, <1>6, <1>7 DEF w

-----------------------------------------------------------------------------
(***************************************************************************)
(* Types.                                                                  *)
(***************************************************************************)
Made(pc, next, pending, unread, reader, verdict, drained) ==
    [pc |-> pc, next |-> next, pending |-> pending, unread |-> unread,
     reader |-> reader, verdict |-> verdict, drained |-> drained]

LEMMA CallerIs ==
    ASSUME NEW c \in Callers
    PROVE  /\ c = Made(c.pc, c.next, c.pending, c.unread, c.reader, c.verdict, c.drained)
           /\ c.pc \in Working \cup {"drain", "stop", "done"} /\ c.next \in Nat
           /\ c.pending \in Seq(Nat) /\ c.unread \in Seq(Token)
           /\ c.reader \in {"idle", "running", "unavailable"}
           /\ c.verdict \in Verdicts \cup {Undecided} /\ c.drained \in Nat
BY DEF Callers, Made

LEMMA QueueClosed ==
    ASSUME NEW q \in Queues, NEW d, d = [q EXCEPT !.open = FALSE]
    PROVE  d \in Queues /\ d.items = q.items /\ d.open = FALSE
BY DEF Queues

Writers == [state : {"none", "run", "gone"}, hand : Seq(Positions)]
Gits == [alive : BOOLEAN, out : Seq(Token)]
Pumps == [run : BOOLEAN, hand : Seq(Token)]

LEMMA TypesAre ==
    ASSUME Types
    PROVE  /\ client \in {"walk", "history"}
           /\ objects \in IF client = "walk" THEN Walks ELSE Histories
           /\ caller \in Callers
           /\ caller.pc \in Working \cup {"drain", "stop", "done"} /\ caller.next \in Nat
           /\ caller.pending \in Seq(Nat) /\ caller.unread \in Seq(Token)
           /\ caller.reader \in {"idle", "running", "unavailable"}
           /\ caller.verdict \in Verdicts \cup {Undecided} /\ caller.drained \in Nat
           /\ requests \in Queues /\ requests.items \in Seq(Positions)
           /\ writer \in Writers /\ writer.hand \in Seq(Positions)
           /\ input \in Queues /\ input.items \in Seq(Positions)
           /\ git \in Gits /\ git.alive \in BOOLEAN /\ git.out \in Seq(Token)
           /\ output \in Seq(Token) /\ chunks \in Seq(Seq(Token))
           /\ pump \in Pumps /\ pump.hand \in Seq(Token)
           /\ told \in Seq(Answers) /\ Len(told) \in Nat
<1>1. caller \in Callers
  BY DEF Types
<1>2. /\ requests.items \in Seq(Positions) /\ writer.hand \in Seq(Positions)
      /\ input.items \in Seq(Positions)
      /\ git.alive \in BOOLEAN /\ git.out \in Seq(Token) /\ pump.hand \in Seq(Token)
  BY DEF Types, Queues
<1>3. told \in Seq(Answers)
  BY DEF Types
<1>4. Len(told) \in Nat
  BY <1>3, LenProperties
<1>5. caller.next \in Nat /\ caller.pending \in Seq(Nat) /\ caller.unread \in Seq(Token)
  BY <1>1, CallerIs
<1>6. /\ caller.pc \in Working \cup {"drain", "stop", "done"}
      /\ caller.reader \in {"idle", "running", "unavailable"}
      /\ caller.verdict \in Verdicts \cup {Undecided} /\ caller.drained \in Nat
  BY <1>1, CallerIs
<1> QED BY <1>1, <1>2, <1>3, <1>4, <1>5, <1>6 DEF Types, Writers, Gits, Pumps

LEMMA TypesMade ==
    ASSUME Types, UNCHANGED <<client, objects>>,
           caller' \in Callers, requests' \in Queues, writer' \in Writers, input' \in Queues,
           git' \in Gits, output' \in Seq(Token), chunks' \in Seq(Seq(Token)),
           pump' \in Pumps, told' \in Seq(Answers)
    PROVE  Types'
<1>1. Positions' = Positions
  BY DEF Positions
<1>2. Queues' = Queues
  BY <1>1 DEF Queues
<1>3. writer' \in [state : {"none", "run", "gone"}, hand : Seq(Positions')]
  BY <1>1 DEF Writers
<1> QED BY <1>2, <1>3 DEF Types, Gits, Pumps

(***************************************************************************)
(* The objects of a batch.                                                 *)
(***************************************************************************)
LEMMA ObjectsAre ==
    ASSUME Types
    PROVE  /\ Len(objects) \in Nat /\ DOMAIN objects = 1 .. Len(objects)
           /\ \A i \in 1 .. Len(objects) :
                 /\ objects[i].use = client
                 /\ objects[i].kind \in {"blob", "missing", "other"}
                 /\ objects[i].size \in Nat
                 /\ objects[i].local \in {"fits", "changed"}
                 /\ EndOf(objects, i) \in Nat
                 /\ objects[i].kind # "missing" => EndOf(objects, i) = objects[i].size + 1
<1>1. Batch(objects, client)
  BY TypesAre, BatchesAreObjects
<1>2. objects \in Seq({objects[i] : i \in DOMAIN objects})
  BY <1>1 DEF Batch
<1>3. Len(objects) \in Nat /\ DOMAIN objects = 1 .. Len(objects)
  <2> DEFINE S == {objects[i] : i \in DOMAIN objects}
  <2>1. objects \in Seq(S)
    BY <1>2
  <2> HIDE DEF S
  <2> QED BY <2>1, LenProperties
<1>4. \A i \in 1 .. Len(objects) :
         /\ objects[i].use = client
         /\ objects[i].kind \in {"blob", "missing", "other"}
         /\ objects[i].size \in Nat
         /\ objects[i].local \in {"fits", "changed"}
  BY <1>1, <1>3 DEF Batch
<1>5. \A i \in 1 .. Len(objects) :
         /\ EndOf(objects, i) \in Nat
         /\ objects[i].kind # "missing" => EndOf(objects, i) = objects[i].size + 1
  BY <1>4 DEF EndOf
<1> QED BY <1>3, <1>4, <1>5

LEMMA TruthIs ==
    ASSUME NEW o, o.use \in {"walk", "history"}
    PROVE  /\ o.use = "walk" =>
                Truth(o) = IF o.kind = "missing" \/ o.local = "changed" \/ o.differs # "no"
                           THEN "differs" ELSE "same"
           /\ o.use = "history" =>
                /\ o.kind = "missing" => Truth(o) = "none"
                /\ o.kind # "missing" /\ o.size > Limit => Truth(o) = "limit"
                /\ o.kind # "missing" /\ ~(o.size > Limit) => Truth(o) = o.name
<1>1. CASE o.use = "walk"
  BY <1>1 DEF Truth
<1>2. CASE o.use = "history"
  <2>1. o.use # "walk"
    BY <1>2
  <2>2. o.kind = "missing" => Truth(o) = "none"
    BY <2>1 DEF Truth
  <2>3. o.kind # "missing" /\ o.size > Limit => Truth(o) = "limit"
    BY <2>1 DEF Truth
  <2>4. o.kind # "missing" /\ ~(o.size > Limit) => Truth(o) = o.name
    BY <2>1 DEF Truth
  <2> QED BY <1>2, <2>1, <2>2, <2>3, <2>4
<1> QED BY <1>1, <1>2

LEMMA TruthOfHistory ==
    ASSUME Types, client = "history", NEW i \in 1 .. Len(objects)
    PROVE  /\ Truth(objects[i]) \in Answers /\ "limit" \in Answers /\ "none" \in Answers
           /\ objects[i].kind = "missing" => Truth(objects[i]) = "none"
           /\ objects[i].kind # "missing" /\ objects[i].size > Limit => Truth(objects[i]) = "limit"
           /\ objects[i].kind # "missing" /\ objects[i].size <= Limit =>
                 Truth(objects[i]) = objects[i].name
<1>1. objects[i].use = "history" /\ objects[i].size \in Nat /\ Limit \in Nat
  BY ObjectsAre, RoomForOne
<1>2. /\ objects[i].kind = "missing" => Truth(objects[i]) = "none"
      /\ objects[i].kind # "missing" /\ objects[i].size > Limit => Truth(objects[i]) = "limit"
      /\ objects[i].kind # "missing" /\ objects[i].size <= Limit =>
            Truth(objects[i]) = objects[i].name
  <2>1. objects[i].size <= Limit => ~(objects[i].size > Limit)
    BY <1>1
  <2> QED BY <1>1, <2>1, TruthIs
<1>3. objects[i].name \in Answers
  <2>1. objects \in Histories /\ i \in DOMAIN objects
    BY TypesAre, ObjectsAre
  <2>2. objects[i].name \in {objects[k].name : k \in DOMAIN objects}
    BY <2>1
  <2> QED BY <2>1, <2>2 DEF Answers
<1>4. "limit" \in Answers /\ "none" \in Answers
  BY DEF Answers
<1>5. objects[i].size > Limit \/ objects[i].size <= Limit
  BY <1>1
<1> QED BY <1>2, <1>3, <1>4, <1>5

LEMMA TruthOfWalk ==
    ASSUME Types, client = "walk", NEW i \in 1 .. Len(objects)
    PROVE  Truth(objects[i]) =
               IF \/ objects[i].kind = "missing" \/ objects[i].local = "changed"
                  \/ objects[i].differs # "no"
               THEN "differs" ELSE "same"
<1>1. objects[i].use = "walk"
  BY ObjectsAre
<1> QED BY <1>1, TruthIs

-----------------------------------------------------------------------------
(***************************************************************************)
(* A working caller and its wire.                                          *)
(***************************************************************************)
\* How far the wire goes: to the last request, or the last token of a dead Git.
Seen == IF git.alive THEN Asked ELSE Upmost(Len(told), Tokens)

Held == /\ Tokens \in Seq(Token)
        /\ Len(told) \in Nat /\ Asked \in Nat /\ Len(objects) \in Nat
        /\ Len(told) <= Asked /\ Asked <= Len(objects)
        /\ Seen \in Nat /\ Len(told) <= Seen /\ Seen <= Asked
        /\ Upmost(Len(told), Tokens) \in Nat /\ Upmost(Len(told), Tokens) <= Asked
        /\ Tokens # <<>> => /\ Tokens[1] = Due1(Len(told), caller.pc)
                            /\ Len(told) + 1 <= Upmost(Len(told), Tokens)
                            /\ Len(Tokens) \in Nat \ {0}

LEMMA TokensAre ==
    ASSUME Types
    PROVE  /\ Tokens = Line(caller.unread, chunks, pump.hand, output, git.out)
           /\ Tokens \in Seq(Token)
           /\ Requests \in Seq(Positions)
<1>1. Tokens = Line(caller.unread, chunks, pump.hand, output, git.out)
  BY DEF Tokens, Line
<1>2. /\ caller.unread \in Seq(Token) /\ chunks \in Seq(Seq(Token))
      /\ pump.hand \in Seq(Token) /\ output \in Seq(Token) /\ git.out \in Seq(Token)
  BY TypesAre
<1>3. Tokens \in Seq(Token)
  BY <1>1, <1>2, LineIs
<1>4. input.items \in Seq(Positions) /\ writer.hand \in Seq(Positions) /\ requests.items \in Seq(Positions)
  BY TypesAre
<1>5. Requests \in Seq(Positions)
  <2>1. input.items \o writer.hand \in Seq(Positions)
    BY <1>4, ConcatProperties
  <2> QED BY <1>4, <2>1, ConcatProperties DEF Requests
<1> QED BY <1>1, <1>3, <1>5

LEMMA AskedIs ==
    ASSUME IInv, caller.pc \in Working
    PROVE  /\ Len(told) \in Nat /\ Asked \in Nat /\ Len(objects) \in Nat
           /\ Len(told) <= Asked /\ Asked <= Len(objects)
<1>1. /\ Len(told) \in Nat /\ caller.next \in Nat /\ Len(objects) \in Nat
      /\ client \in {"walk", "history"}
  BY TypesAre, ObjectsAre DEF IInv
<1>2. Telling /\ Walking /\ Alone
  BY DEF IInv
<1>3. CASE client = "walk"
  <2>1. caller.next \in 1 .. Len(objects) + 1 /\ Len(told) < caller.next
    BY <1>2, <1>3 DEF Walking
  <2>2. Asked = caller.next - 1
    BY <1>3 DEF Asked
  <2> QED BY <1>1, <2>1, <2>2
<1>4. CASE client = "history"
  <2>1. caller.pc \in {"header", "content", "ask"}
    BY <1>2, <1>4 DEF Alone, Working
  <2>2. Asked = IF caller.pc = "ask" THEN Len(told) ELSE Len(told) + 1
    BY <1>4 DEF Asked
  <2>3. Len(told) <= Len(objects) /\ (caller.pc # "ask" => Len(told) < Len(objects))
    BY <1>2, <2>1 DEF Telling
  <2> QED BY <1>1, <2>2, <2>3
<1> QED BY <1>1, <1>3, <1>4

LEMMA Holds ==
    ASSUME IInv, caller.pc \in Working
    PROVE  Held
<1>1. Tokens \in Seq(Token) /\ git.alive \in BOOLEAN
  BY TokensAre, TypesAre DEF IInv
<1>2. /\ Len(told) \in Nat /\ Asked \in Nat /\ Len(objects) \in Nat
      /\ Len(told) <= Asked /\ Asked <= Len(objects)
  BY AskedIs
<1>3. Flow(objects, Len(told), caller.pc, Asked, git.alive, Tokens, Requests)
  BY DEF IInv, Streaming
<1>4. /\ Upmost(Len(told), Tokens) \in Nat /\ Len(told) <= Upmost(Len(told), Tokens)
      /\ Upmost(Len(told), Tokens) <= Asked
      /\ Tokens # <<>> => /\ Len(told) + 1 <= Upmost(Len(told), Tokens)
                          /\ Len(Tokens) \in Nat \ {0}
  BY <1>1, <1>2, <1>3, FlowReaches
<1>5. Tokens # <<>> => Tokens[1] = Due1(Len(told), caller.pc)
  BY <1>3 DEF Flow
<1>6. Seen \in Nat /\ Len(told) <= Seen /\ Seen <= Asked
  BY <1>1, <1>2, <1>4 DEF Seen
<1> QED BY <1>1, <1>2, <1>4, <1>5, <1>6 DEF Held

\* What the wire carries, in the words of the promise.
Wired ==
    /\ caller.verdict # Undecided => OnTheWire = <<>>
    /\ caller.verdict = Undecided =>
          /\ OnTheWire = Upto(Len(told), Seen)
          /\ Len(told) \in Nat /\ Seen \in Nat /\ Len(objects) \in Nat
          /\ Len(told) <= Seen /\ Seen <= Len(objects)

LEMMA AnsweringIs ==
    ASSUME Held
    PROVE  Answering = Upto(Len(told), Upmost(Len(told), Tokens))
<1> DEFINE n == Len(told)
           u == Upmost(n, Tokens)
<1>1. CASE Tokens = <<>>
  <2>1. Answering = <<>> /\ u = n
    BY <1>1 DEF Answering, Upmost
  <2>2. n \in Nat
    BY DEF Held
  <2>3. Upto(n, n) = <<>>
    BY <2>2, UptoIs
  <2> QED BY <2>1, <2>3
<1>2. CASE Tokens # <<>>
  <2>1. u = Tokens[Len(Tokens)][1] /\ Tokens[1][1] = n + 1 /\ n \in Nat /\ u \in Nat
    BY <1>2 DEF Held, Upmost, Due1
  <2>2. Head(Tokens) = Tokens[1]
    BY <1>2 DEF Held
  <2>3. Answering = [k \in 1 .. u - (n + 1) + 1 |-> (n + 1) + k - 1]
    BY <1>2, <2>1, <2>2 DEF Answering
  <2>5. n \in Nat /\ u \in Nat
    BY <2>1
  <2> HIDE DEF u, n
  <2>4. u - (n + 1) + 1 = u - n /\ \A k \in 1 .. u - n : (n + 1) + k - 1 = n + k
    BY <2>5
  <2> QED BY <2>3, <2>4 DEF Upto, n, u
<1> QED BY <1>1, <1>2

LEMMA WiredIs == IInv => Wired
<1> SUFFICES ASSUME IInv PROVE Wired
  OBVIOUS
<1>1. caller.verdict # Undecided => OnTheWire = <<>>
  BY DEF OnTheWire
<1>2. ASSUME caller.verdict = Undecided
      PROVE  /\ OnTheWire = Upto(Len(told), Seen)
             /\ Len(told) \in Nat /\ Seen \in Nat /\ Len(objects) \in Nat
             /\ Len(told) <= Seen /\ Seen <= Len(objects)
  <2> DEFINE n == Len(told)
             u == Upmost(n, Tokens)
  <2>1. caller.pc \in Working
    BY <1>2 DEF IInv, Deciding
  <2>2. Held
    BY <2>1, Holds
  <2>3. Answering = Upto(n, u)
    BY <2>2, AnsweringIs
  <2>4. CASE git.alive
    <3>1. Requests = Upto(u, Asked)
      BY <2>1, <2>4 DEF IInv, Streaming, Flow
    <3>2. /\ n \in Nat /\ u \in Nat /\ Asked \in Nat /\ n <= u /\ u <= Asked
      BY <2>2 DEF Held, Upmost
    <3>3. OnTheWire = ((Answering \o input.items) \o writer.hand) \o requests.items
      BY <1>2, <2>4 DEF OnTheWire
    <3>4. /\ input.items \in Seq(Nat) /\ writer.hand \in Seq(Nat)
          /\ requests.items \in Seq(Nat)
      <4>1. /\ input.items \in Seq(Positions) /\ writer.hand \in Seq(Positions)
            /\ requests.items \in Seq(Positions)
        BY TypesAre DEF IInv
      <4>2. Positions \subseteq Nat
        BY DEF Positions
      <4> QED BY <4>1, <4>2, Widened
    <3>5. Answering \in Seq(Nat)
      <4> HIDE DEF u, n
      <4> QED BY <2>3, <3>2, UptoIs
    <3>6. ((Answering \o input.items) \o writer.hand) \o requests.items
             = Answering \o ((input.items \o writer.hand) \o requests.items)
      <4> DEFINE a == Answering
                 b == input.items
                 c == writer.hand
                 d == requests.items
                 T == Nat
      <4>1. a \in Seq(T) /\ b \in Seq(T) /\ c \in Seq(T) /\ d \in Seq(T)
        BY <3>4, <3>5
      <4> HIDE DEF a, b, c, d, T
      <4>0. \A x, y, z \in Seq(T) : (x \o y) \o z = x \o (y \o z)
        BY Renumbered
      <4>2. (a \o b) \o c = a \o (b \o c)
        BY <4>0, <4>1
      <4> DEFINE e == b \o c
      <4>3. e \in Seq(T)
        BY <4>1, ConcatProperties
      <4> HIDE DEF e
      <4>4. (a \o e) \o d = a \o (e \o d)
        BY <4>0, <4>1, <4>3
      <4> QED BY <4>2, <4>4 DEF a, b, c, d, e
    <3>7. Upto(n, u) \o Upto(u, Asked) = Upto(n, Asked)
      <4> HIDE DEF u, n
      <4> QED BY <3>2, UptoJoins
    <3>8. OnTheWire = Upto(n, Asked)
      BY <2>3, <3>1, <3>3, <3>6, <3>7 DEF Requests
    <3>9. Seen = Asked
      BY <2>4 DEF Seen
    <3> QED BY <2>2, <3>8, <3>9 DEF Held
  <2>5. CASE ~git.alive
    <3>1. OnTheWire = Answering /\ Seen = u
      BY <1>2, <2>5 DEF OnTheWire, Seen
    <3> QED BY <2>2, <2>3, <3>1 DEF Held
  <2> QED BY <2>4, <2>5
<1> QED BY <1>1, <1>2 DEF Wired

(***************************************************************************)
(* Two ways a step keeps the invariant: the caller has come to its         *)
(* verdict, or only the stages of the pipeline change.                     *)
(***************************************************************************)
LEMMA Decided ==
    ASSUME Types', caller'.pc \notin Working, caller'.verdict # Undecided
    PROVE  IInv'
BY DEF IInv, Deciding

SameCaller == /\ UNCHANGED <<client, objects, told>>
              /\ caller'.pc = caller.pc /\ caller'.next = caller.next
              /\ caller'.pending = caller.pending /\ caller'.verdict = caller.verdict

LEMMA Remains ==
    ASSUME IInv, Types', SameCaller,
           caller.pc \in Working => Streaming' /\ (client = "history" => UNCHANGED <<requests, writer>>)
    PROVE  IInv'
<1>1. CASE caller.pc \notin Working
  BY <1>1 DEF IInv, Deciding, SameCaller
<1>2. CASE caller.pc \in Working
  <2>1. Telling /\ Walking /\ Alone /\ Deciding
    BY <1>2 DEF IInv
  <2>2. Deciding' /\ Telling'
    BY <2>1 DEF SameCaller, Deciding, Telling
  <2>3. Walking'
    BY <2>1 DEF SameCaller, Walking
  <2>4. Alone'
    BY <1>2, <2>1 DEF SameCaller, Alone
  <2> QED BY <1>2, <2>2, <2>3, <2>4 DEF IInv
<1> QED BY <1>1, <1>2

LEMMA Carried ==
    ASSUME IInv, Types', SameCaller,
           caller.pc \in Working =>
              /\ Tokens' = Tokens /\ git'.alive = git.alive
              /\ git.alive => Requests' = Requests
              /\ client = "history" => UNCHANGED <<requests, writer>>
    PROVE  IInv' /\ (caller.pc \in Working => Seen' = Seen)
<1>1. ASSUME caller.pc \in Working
      PROVE  Streaming' /\ Seen' = Seen
  <2>1. Asked' = Asked
    BY DEF SameCaller, Asked
  <2>2. Flow(objects, Len(told), caller.pc, Asked, git.alive, Tokens, Requests)
    BY <1>1 DEF IInv, Streaming
  <2>3. Flow(objects, Len(told), caller.pc, Asked, git.alive, Tokens, Requests')
    BY <1>1, <2>2 DEF Flow
  <2>4. Streaming'
    BY <1>1, <2>1, <2>3 DEF Streaming, SameCaller
  <2>5. Seen' = Seen
    BY <1>1, <2>1 DEF Seen, SameCaller
  <2> QED BY <2>4, <2>5
<1> QED BY <1>1, Remains

-----------------------------------------------------------------------------
(***************************************************************************)
(* What a step can be in the words of the promise.                         *)
(***************************************************************************)
Quiet == /\ UNCHANGED <<objects, told>>
         /\ caller'.verdict = caller.verdict /\ git'.alive = git.alive
         /\ caller.verdict = Undecided => Seen' = Seen

Breaks == /\ UNCHANGED <<objects, told>>
          /\ caller'.verdict = caller.verdict /\ git'.alive = FALSE
          /\ caller.verdict = Undecided => Seen' <= Seen

AsksNext == /\ UNCHANGED <<objects, told>>
            /\ caller.verdict = Undecided /\ caller'.verdict = Undecided
            /\ git.alive = TRUE /\ git'.alive = TRUE /\ Seen' = Seen + 1

TellsNext == /\ UNCHANGED objects
             /\ caller.verdict = Undecided /\ caller'.verdict = Undecided
             /\ git'.alive = git.alive /\ Seen' = Seen /\ Len(told) < Seen
             /\ told' = Append(told, Truth(objects[Len(told) + 1]))

TellsApart == /\ UNCHANGED objects
              /\ caller.verdict = Undecided /\ caller'.verdict = Undecided
              /\ Len(told) < Len(objects) /\ Seen' = Len(told) + 1
              /\ \E a \in {Truth(objects[Len(told) + 1]), "limit"} : told' = Append(told, a)

Decides ==
    /\ UNCHANGED <<objects, told>>
    /\ caller.verdict = Undecided
    /\ \/ caller'.verdict = "clean" /\ told = [i \in DOMAIN objects |-> "same"]
       \/ caller'.verdict = "dirty" /\ \E i \in DOMAIN objects : Truth(objects[i]) # "same"
       \/ caller'.verdict = "apart"
       \/ caller'.verdict = "end" /\ Len(told) = Len(objects)

Promised == Quiet \/ Breaks \/ AsksNext \/ TellsNext \/ TellsApart \/ Decides

\* The caller leaves its reader with a verdict.
LEMMA Departs ==
    ASSUME IInv, caller.pc \in Working,
           NEW v \in Verdicts, NEW pc \in {"drain", "stop"}, Leave(v, pc),
           UNCHANGED <<client, objects, writer, git, output, chunks, pump, told>>
    PROVE  /\ IInv'
           /\ caller.verdict = Undecided /\ caller'.verdict = v
           /\ UNCHANGED <<objects, told>>
<1>1. caller' = Made(pc, caller.next, caller.pending, caller.unread, caller.reader, v, caller.drained)
  <2>1. caller \in Callers
    BY TypesAre DEF IInv
  <2> QED BY <2>1 DEF Leave, Callers, Made
<1>2. caller' \in Callers /\ caller'.pc = pc /\ caller'.verdict = v
  <2>1. /\ caller.next \in Nat /\ caller.pending \in Seq(Nat) /\ caller.unread \in Seq(Token)
        /\ caller.reader \in {"idle", "running", "unavailable"} /\ caller.drained \in Nat
    BY TypesAre DEF IInv
  <2>2. v \in Verdicts \cup {Undecided} /\ pc \in Working \cup {"drain", "stop", "done"}
    OBVIOUS
  <2> QED BY <1>1, <2>1, <2>2 DEF Callers, Made
<1>3. requests' \in Queues
  <2>1. requests \in Queues /\ requests' = [requests EXCEPT !.open = FALSE]
    BY TypesAre DEF IInv, Leave
  <2> QED BY <2>1, QueueClosed
<1>4. input' \in Queues
  <2>1. input \in Queues
    BY TypesAre DEF IInv
  <2>2. input' = [input EXCEPT !.open = FALSE] \/ input' = input
    BY DEF Leave
  <2> QED BY <2>1, <2>2, QueueClosed
<1>5. Types'
  <2>1. /\ Types
        /\ writer \in Writers /\ git \in Gits /\ pump \in Pumps
        /\ output \in Seq(Token) /\ chunks \in Seq(Seq(Token)) /\ told \in Seq(Answers)
    BY TypesAre DEF IInv
  <2> QED BY <1>2, <1>3, <1>4, <2>1, TypesMade
<1>6. pc \notin Working /\ v # Undecided
  BY UndecidedIsNoVerdict DEF Working, Verdicts
<1>7. IInv'
  BY <1>2, <1>5, <1>6, Decided
<1>8. caller.verdict = Undecided
  BY DEF IInv, Deciding
<1> QED BY <1>2, <1>7, <1>8

-----------------------------------------------------------------------------
(***************************************************************************)
(* The threads and Git.                                                    *)
(***************************************************************************)
LEMMA ReceiveKeeps ==
    ASSUME IInv, Receive
    PROVE  IInv' /\ Promised
<1>0. caller.pc \in Working /\ caller.verdict = Undecided
  BY DEF Receive, Waiting, Working, IInv, Deciding
<1>1. CASE /\ chunks # <<>>
           /\ caller' = [caller EXCEPT !.unread = @ \o Head(chunks)]
           /\ chunks' = Tail(chunks)
           /\ UNCHANGED <<requests, input, told>>
  <2>1. /\ caller.unread \o Head(chunks) \in Seq(Token) /\ Tail(chunks) \in Seq(Seq(Token))
        /\ Line(caller.unread \o Head(chunks), Tail(chunks), pump.hand, output, git.out)
               = Line(caller.unread, chunks, pump.hand, output, git.out)
    <3>1. caller.unread \in Seq(Token) /\ chunks \in Seq(Seq(Token))
      BY TypesAre DEF IInv
    <3> QED BY <1>1, <3>1, LineReceives
  <2>2. caller' = Made(caller.pc, caller.next, caller.pending, caller.unread \o Head(chunks),
                       caller.reader, caller.verdict, caller.drained)
    <3>1. caller \in Callers
      BY TypesAre DEF IInv
    <3> QED BY <1>1, <3>1 DEF Callers, Made
  <2>3. /\ caller' \in Callers /\ caller'.pc = caller.pc /\ caller'.next = caller.next
        /\ caller'.pending = caller.pending /\ caller'.verdict = caller.verdict
        /\ caller'.unread = caller.unread \o Head(chunks)
    <3> DEFINE more == caller.unread \o Head(chunks)
    <3>2. more \in Seq(Token) /\ caller' = Made(caller.pc, caller.next, caller.pending, more,
                       caller.reader, caller.verdict, caller.drained)
      BY <2>1, <2>2
    <3> HIDE DEF more
    <3>1. /\ caller.next \in Nat /\ caller.pending \in Seq(Nat)
          /\ caller.pc \in Working \cup {"drain", "stop", "done"}
          /\ caller.reader \in {"idle", "running", "unavailable"} /\ caller.drained \in Nat
          /\ caller.verdict \in Verdicts \cup {Undecided}
      BY TypesAre DEF IInv
    <3>3. /\ caller' \in Callers /\ caller'.pc = caller.pc /\ caller'.next = caller.next
          /\ caller'.pending = caller.pending /\ caller'.verdict = caller.verdict
          /\ caller'.unread = more
      BY <3>1, <3>2 DEF Callers, Made
    <3> QED BY <3>3 DEF more
  <2>4. UNCHANGED <<client, objects, writer, pump, git, output>>
    BY DEF Receive
  <2>5. Types'
    <3>1. /\ Types
        /\ writer \in Writers /\ git \in Gits /\ pump \in Pumps
          /\ requests \in Queues
          /\ input \in Queues
          /\ output \in Seq(Token) /\ told \in Seq(Answers)
      BY TypesAre DEF IInv
    <3> QED BY <1>1, <2>1, <2>3, <2>4, <3>1, TypesMade
  <2>6. Tokens' = Tokens
    <3>1. Tokens' = Line(caller'.unread, chunks', pump'.hand, output', git'.out)
      BY DEF Tokens, Line
    <3>2. Tokens = Line(caller.unread, chunks, pump.hand, output, git.out)
      BY DEF Tokens, Line
    <3> QED BY <1>1, <2>1, <2>3, <2>4, <3>1, <3>2
  <2>7. SameCaller
    BY <1>1, <2>3, <2>4 DEF SameCaller
  <2>8. Requests' = Requests /\ git'.alive = git.alive /\ UNCHANGED <<requests, writer>>
    BY <1>1, <2>4 DEF Requests
  <2>9. IInv' /\ Seen' = Seen
    BY <1>0, <2>5, <2>6, <2>7, <2>8, Carried
  <2> QED BY <2>7, <2>8, <2>9 DEF Promised, Quiet, SameCaller
<1>2. CASE Leave("apart", "stop") /\ UNCHANGED <<chunks, told>>
  <2>1. /\ IInv' /\ caller.verdict = Undecided /\ caller'.verdict = "apart"
        /\ UNCHANGED <<objects, told>>
    <3>1. "apart" \in Verdicts /\ "stop" \in {"drain", "stop"}
      BY DEF Verdicts
    <3>2. UNCHANGED <<client, objects, writer, git, output, chunks, pump, told>>
      BY <1>2 DEF Receive
    <3> QED BY <1>0, <1>2, <3>1, <3>2, Departs
  <2> QED BY <2>1 DEF Promised, Decides
<1> QED BY <1>1, <1>2 DEF Receive

LEMMA PumpKeeps ==
    ASSUME IInv, Pump
    PROVE  IInv' /\ Promised
<1> USE DEF IInv
<1>0. UNCHANGED <<client, objects, caller, requests, writer, input, git, told>>
  BY DEF Pump
<1>1. /\ caller.unread \in Seq(Token) /\ chunks \in Seq(Seq(Token))
      /\ pump \in Pumps /\ pump.hand \in Seq(Token) /\ output \in Seq(Token)
  BY TypesAre
<1>2. /\ pump' \in Pumps /\ output' \in Seq(Token) /\ chunks' \in Seq(Seq(Token))
      /\ Line(caller.unread, chunks', pump'.hand, output', git.out)
             = Line(caller.unread, chunks, pump.hand, output, git.out)
  <2>1. CASE /\ pump.hand = <<>>
             /\ pump' = [pump EXCEPT !.hand = output] /\ output' = <<>> /\ UNCHANGED chunks
    <3>1. pump' \in Pumps /\ pump'.hand = output
      BY <1>1, <2>1 DEF Pumps
    <3>2. Line(caller.unread, chunks, output, <<>>, git.out)
             = Line(caller.unread, chunks, <<>>, output, git.out)
      BY <1>1, LinePumps
    <3>3. <<>> \in Seq(Token)
      BY EmptySeq
    <3> QED BY <1>1, <2>1, <3>1, <3>2, <3>3
  <2>2. CASE /\ chunks' = Append(chunks, pump.hand)
             /\ pump' = [pump EXCEPT !.hand = <<>>] /\ UNCHANGED output
    <3>1. <<>> \in Seq(Token)
      BY EmptySeq
    <3>2. pump' \in Pumps /\ pump'.hand = <<>>
      BY <1>1, <2>2, <3>1 DEF Pumps
    <3>3. /\ Append(chunks, pump.hand) \in Seq(Seq(Token))
          /\ Line(caller.unread, Append(chunks, pump.hand), <<>>, output, git.out)
                = Line(caller.unread, chunks, pump.hand, output, git.out)
      BY <1>1, LinePumps
    <3> QED BY <1>1, <2>2, <3>2, <3>3
  <2>3. CASE pump' = [pump EXCEPT !.run = FALSE] /\ UNCHANGED <<output, chunks>>
    <3>1. pump' \in Pumps /\ pump'.hand = pump.hand
      BY <1>1, <2>3 DEF Pumps
    <3> QED BY <1>1, <2>3, <3>1
  <2> QED BY <2>1, <2>2, <2>3 DEF Pump
<1>3. Tokens' = Tokens /\ Requests' = Requests
  <2>1. Tokens' = Line(caller'.unread, chunks', pump'.hand, output', git'.out)
    BY DEF Tokens, Line
  <2>2. Tokens = Line(caller.unread, chunks, pump.hand, output, git.out)
    BY DEF Tokens, Line
  <2>3. Requests' = Requests
    BY <1>0 DEF Requests
  <2> QED BY <1>0, <1>2, <2>1, <2>2, <2>3
<1>4. Types'
  <2>1. /\ Types
        /\ caller \in Callers /\ writer \in Writers /\ git \in Gits
        /\ requests \in Queues
        /\ input \in Queues /\ told \in Seq(Answers)
    BY TypesAre
  <2> QED BY <1>0, <1>2, <2>1, TypesMade
<1>5. SameCaller
  BY <1>0 DEF SameCaller
<1>6. git'.alive = git.alive /\ UNCHANGED <<requests, writer>>
  BY <1>0
<1>7. IInv' /\ (caller.pc \in Working => Seen' = Seen)
  <2> USE DEF IInv
  <2> QED BY <1>3, <1>4, <1>5, <1>6, Carried
<1>8. caller.verdict = Undecided => caller.pc \in Working
  BY DEF Deciding
<1> QED BY <1>5, <1>6, <1>7, <1>8 DEF Promised, Quiet, SameCaller

LEMMA WriterKeeps ==
    ASSUME IInv, Writer
    PROVE  IInv' /\ Promised
<1>0. UNCHANGED <<client, objects, caller, pump, git, output, chunks, told>>
  BY DEF Writer
<1>1. /\ requests \in Queues /\ requests.items \in Seq(Positions)
      /\ writer \in Writers /\ writer.hand \in Seq(Positions)
      /\ input \in Queues /\ input.items \in Seq(Positions)
  BY TypesAre DEF IInv
<1>2. <<>> \in Seq(Positions) /\ "gone" \in {"none", "run", "gone"}
  BY EmptySeq
<1>3. /\ requests' \in Queues /\ writer' \in Writers
      /\ input' \in Queues
      /\ git.alive => Requests' = Requests
  <2>1. CASE /\ writer.hand = <<>> /\ requests.items # <<>>
             /\ writer' = [writer EXCEPT !.hand = <<Head(requests.items)>>]
             /\ requests' = [requests EXCEPT !.items = Tail(@)]
             /\ UNCHANGED input
    <3> DEFINE h == Head(requests.items)
               t == Tail(requests.items)
    <3>1. /\ h \in Positions /\ t \in Seq(Positions)
          /\ (input.items \o <<h>>) \o t = (input.items \o <<>>) \o requests.items
      <4> DEFINE i == input.items
                 r == requests.items
                 e == writer.hand
      <4>1. i \in Seq(Positions) /\ r \in Seq(Positions) /\ e \in Seq(Positions) /\ r # <<>>
        BY <1>1, <2>1
      <4> HIDE DEF i, r, e
      <4>2. /\ Head(r) \in Positions /\ Tail(r) \in Seq(Positions)
            /\ (i \o <<Head(r)>>) \o Tail(r) = (i \o <<>>) \o r
        BY <4>1, RequestsMove
      <4> QED BY <4>2 DEF i, r
    <3>2. writer' = [writer EXCEPT !.hand = <<h>>] /\ requests' = [requests EXCEPT !.items = t]
      BY <2>1
    <3> HIDE DEF h, t
    <3>3. <<h>> \in Seq(Positions)
      BY <3>1
    <3>4. writer' \in Writers /\ writer'.hand = <<h>>
      BY <1>1, <3>2, <3>3 DEF Writers
    <3>5. requests' \in Queues /\ requests'.items = t
      BY <1>1, <3>1, <3>2 DEF Queues
    <3>6. Requests' = Requests
      BY <2>1, <3>1, <3>4, <3>5 DEF Requests
    <3> QED BY <1>1, <2>1, <3>4, <3>5, <3>6
  <2>2. CASE /\ input' = [input EXCEPT !.items = @ \o writer.hand]
             /\ writer' = [writer EXCEPT !.hand = <<>>]
             /\ UNCHANGED requests
    <3> DEFINE w == input.items \o writer.hand
    <3>1. w \in Seq(Positions) /\ (w \o <<>>) \o requests.items = w \o requests.items
      BY <1>1, RequestsMove
    <3>2. input' = [input EXCEPT !.items = w]
      BY <2>2
    <3>5. Requests = w \o requests.items
      BY DEF Requests
    <3> HIDE DEF w
    <3>3. input' \in Queues /\ input'.items = w
      BY <1>1, <3>1, <3>2 DEF Queues
    <3>4. writer' \in Writers /\ writer'.hand = <<>>
      BY <1>1, <1>2, <2>2 DEF Writers
    <3>6. Requests' = Requests
      BY <2>2, <3>1, <3>3, <3>4, <3>5 DEF Requests
    <3> QED BY <1>1, <2>2, <3>3, <3>4, <3>6
  <2>3. CASE /\ \/ writer.hand # <<>> /\ ~git.alive
                \/ writer.hand = <<>> /\ requests = [items |-> <<>>, open |-> FALSE]
             /\ writer' = [state |-> "gone", hand |-> <<>>]
             /\ input' = [input EXCEPT !.open = FALSE]
             /\ UNCHANGED requests
    <3>1. input' \in Queues /\ input'.items = input.items
      BY <1>1, <2>3, QueueClosed
    <3>2. writer' \in Writers /\ writer'.hand = <<>>
      BY <1>2, <2>3 DEF Writers
    <3>3. git.alive => Requests' = Requests
      BY <2>3, <3>1, <3>2 DEF Requests
    <3> QED BY <1>1, <2>3, <3>1, <3>2, <3>3
  <2> QED BY <2>1, <2>2, <2>3 DEF Writer
<1>4. Types'
  <2>1. /\ Types
        /\ caller \in Callers /\ git \in Gits /\ pump \in Pumps
        /\ output \in Seq(Token) /\ chunks \in Seq(Seq(Token)) /\ told \in Seq(Answers)
    BY TypesAre DEF IInv
  <2> QED BY <1>0, <1>3, <2>1, TypesMade
<1>5. SameCaller
  BY <1>0 DEF SameCaller
<1>6. caller.pc \in Working => client # "history"
  BY DEF IInv, Alone, Writer
<1>7. git'.alive = git.alive /\ Tokens' = Tokens
  BY <1>0 DEF Tokens
<1>8. IInv' /\ (caller.pc \in Working => Seen' = Seen)
  BY <1>3, <1>4, <1>5, <1>6, <1>7, Carried
<1>9. caller.verdict = Undecided => caller.pc \in Working
  BY DEF Deciding, IInv
<1> QED BY <1>5, <1>7, <1>8, <1>9 DEF Promised, Quiet, SameCaller

\* What becomes of the stream when Git is gone, with tokens it had not written.
LEMMA Broken ==
    ASSUME IInv, Types', SameCaller, git.alive, git'.alive = FALSE,
           NEW us \in Seq(Token), Tokens' \in Seq(Token), Tokens = Tokens' \o us,
           UNCHANGED <<requests, writer>>
    PROVE  IInv' /\ Breaks
<1>1. ASSUME caller.pc \in Working
      PROVE  Streaming' /\ Seen' <= Seen
  <2>1. Asked' = Asked /\ UNCHANGED <<objects, told>> /\ caller'.pc = caller.pc
    BY DEF SameCaller, Asked
  <2>2. Held
    BY <1>1, Holds
  <2>3. Flow(objects, Len(told), caller.pc, Asked, git.alive, Tokens' \o us, Requests)
    BY <1>1 DEF IInv, Streaming
  <2>4. Len(told) \in Nat /\ Asked \in Nat /\ Len(told) <= Asked
    BY <2>2 DEF Held
  <2>5. /\ Flow(objects, Len(told), caller.pc, Asked, FALSE, Tokens', Requests')
        /\ Upmost(Len(told), Tokens') <= Upmost(Len(told), Tokens' \o us)
    <3> DEFINE a == Tokens'
    <3>1. a \in Seq(Token) /\ Flow(objects, Len(told), caller.pc, Asked, git.alive, a \o us, Requests)
      BY <2>3
    <3> HIDE DEF a
    <3>2. /\ Flow(objects, Len(told), caller.pc, Asked, FALSE, a, Requests')
          /\ Upmost(Len(told), a) <= Upmost(Len(told), a \o us)
      BY <2>4, <3>1, FlowBreaks
    <3> QED BY <3>2 DEF a
  <2>6. Streaming'
    BY <2>1, <2>5 DEF Streaming
  <2>7. Seen' = Upmost(Len(told), Tokens') /\ Seen = Asked
    BY <2>1 DEF Seen
  <2>8. Upmost(Len(told), Tokens) <= Asked /\ Upmost(Len(told), Tokens) \in Nat
    BY <2>2 DEF Held
  <2>9. Upmost(Len(told), Tokens') \in Nat
    <3> DEFINE a == Tokens'
    <3>1. a \in Seq(Token) /\ Flow(objects, Len(told), caller.pc, Asked, FALSE, a, Requests')
      BY <2>5
    <3> HIDE DEF a
    <3>2. Upmost(Len(told), a) \in Nat
      BY <2>4, <3>1, FlowReaches
    <3> QED BY <3>2 DEF a
  <2> QED BY <2>4, <2>5, <2>6, <2>7, <2>8, <2>9
<1>2. IInv'
  BY <1>1, Remains
<1>3. caller.verdict = Undecided => caller.pc \in Working
  BY DEF Deciding, IInv
<1> QED BY <1>1, <1>2, <1>3 DEF Breaks, SameCaller

LEMMA GitDiesKeeps ==
    ASSUME IInv, GitDies
    PROVE  IInv' /\ Promised
<1>0. /\ UNCHANGED <<client, objects, caller, requests, writer, input, output, pump, chunks, told>>
      /\ git' = [alive |-> FALSE, out |-> <<>>] /\ git.alive
  BY DEF GitDies, threads, pipes
<1>1. git' \in Gits /\ git'.alive = FALSE /\ git'.out = <<>>
  <2>1. <<>> \in Seq(Token)
    BY EmptySeq
  <2> QED BY <1>0, <2>1 DEF Gits
<1>2. Types'
  <2>1. /\ Types
        /\ caller \in Callers /\ writer \in Writers /\ pump \in Pumps
        /\ requests \in Queues
        /\ input \in Queues
        /\ output \in Seq(Token) /\ chunks \in Seq(Seq(Token)) /\ told \in Seq(Answers)
    BY TypesAre DEF IInv
  <2> QED BY <1>0, <1>1, <2>1, TypesMade
<1>3. /\ Tokens' \in Seq(Token) /\ Tokens = Tokens' \o git.out /\ git.out \in Seq(Token)
  <2> DEFINE b == Line(caller.unread, chunks, pump.hand, output, <<>>)
  <2>1. /\ caller.unread \in Seq(Token) /\ chunks \in Seq(Seq(Token))
        /\ pump.hand \in Seq(Token) /\ output \in Seq(Token) /\ git.out \in Seq(Token)
    BY TypesAre DEF IInv
  <2>2. /\ b \in Seq(Token)
        /\ Line(caller.unread, chunks, pump.hand, output, git.out) = b \o git.out
    <3> DEFINE u == caller.unread
               h == pump.hand
               g == git.out
    <3>1. u \in Seq(Token) /\ h \in Seq(Token) /\ g \in Seq(Token)
      BY <2>1
    <3> HIDE DEF u, h, g
    <3>2. /\ Line(u, chunks, h, output, <<>>) \in Seq(Token)
          /\ Line(u, chunks, h, output, g) = Line(u, chunks, h, output, <<>>) \o g
      BY <2>1, <3>1, LineEnds
    <3> QED BY <3>2 DEF u, h, g
  <2>3. Tokens' = b
    BY <1>0, <1>1 DEF Tokens, Line
  <2>4. Tokens = Line(caller.unread, chunks, pump.hand, output, git.out)
    BY DEF Tokens, Line
  <2> HIDE DEF b
  <2> QED BY <2>1, <2>2, <2>3, <2>4
<1>4. SameCaller
  BY <1>0 DEF SameCaller
<1>5. IInv' /\ Breaks
  BY <1>0, <1>1, <1>2, <1>3, <1>4, Broken
<1> QED BY <1>5 DEF Promised


\* The caller goes to another place.
LEMMA Went ==
    ASSUME NEW pc \in Working \cup {"drain", "stop", "done"}, caller \in Callers, Goto(pc)
    PROVE  /\ caller' \in Callers /\ caller'.pc = pc /\ caller'.next = caller.next
           /\ caller'.pending = caller.pending /\ caller'.unread = caller.unread
           /\ caller'.reader = caller.reader /\ caller'.verdict = caller.verdict
<1>1. caller' = Made(pc, caller.next, caller.pending, caller.unread, caller.reader,
                     caller.verdict, caller.drained)
  BY DEF Goto, Callers, Made
<1> QED BY <1>1 DEF Callers, Made

LEMMA AnswerIs ==
    ASSUME Types, NEW i \in Positions
    PROVE  Response(i) \in Seq(Token)
<1>1. i \in Nat /\ i \in 1 .. Len(objects)
  BY ObjectsAre DEF Positions
<1>2. EndOf(objects, i) \in Nat /\ (objects[i].kind # "missing" => objects[i].size \in Nat)
  BY <1>1, ObjectsAre
<1> QED BY <1>1, <1>2, ResponseIs

LEMMA GitKeeps ==
    ASSUME IInv, Git
    PROVE  IInv' /\ Promised
<1>0. /\ UNCHANGED <<client, objects, caller, requests, writer, pump, chunks, told>>
      /\ git.alive = TRUE
  <2>1. git.alive \in BOOLEAN
    BY TypesAre DEF IInv
  <2> QED BY <2>1 DEF Git, threads
<1>1. /\ Types
        /\ caller \in Callers /\ writer \in Writers /\ pump \in Pumps
      /\ requests \in Queues
      /\ output \in Seq(Token) /\ chunks \in Seq(Seq(Token)) /\ told \in Seq(Answers)
      /\ git \in Gits /\ git.out \in Seq(Token)
      /\ input \in Queues /\ input.items \in Seq(Positions)
      /\ caller.unread \in Seq(Token) /\ pump.hand \in Seq(Token)
      /\ writer.hand \in Seq(Positions) /\ requests.items \in Seq(Positions)
  BY TypesAre DEF IInv
<1>2. SameCaller
  BY <1>0 DEF SameCaller
<1>3. caller.verdict = Undecided => caller.pc \in Working
  BY DEF Deciding, IInv
<1>4. Tokens = Line(caller.unread, chunks, pump.hand, output, git.out)
  BY DEF Tokens, Line
<1>5. Tokens' = Line(caller.unread, chunks, pump.hand, output', git'.out)
  BY <1>0 DEF Tokens, Line
<1>6. CASE /\ git.out = <<>> /\ input.items # <<>>
           /\ git' = [git EXCEPT !.out = Response(Head(input.items))]
           /\ input' = [input EXCEPT !.items = Tail(@)] /\ UNCHANGED output
  <2> DEFINE h == Head(input.items)
             t == Tail(input.items)
             r == Response(h)
  <2>1. /\ h \in Positions /\ t \in Seq(Positions)
        /\ Requests # <<>> /\ Head(Requests) = h
        /\ Tail(Requests) = (t \o writer.hand) \o requests.items
    <3> DEFINE i == input.items
               e == writer.hand
               w == requests.items
    <3>1. i \in Seq(Positions) /\ e \in Seq(Positions) /\ w \in Seq(Positions) /\ i # <<>>
      BY <1>1, <1>6
    <3>2. Requests = (i \o e) \o w
      BY DEF Requests
    <3> HIDE DEF i, e, w
    <3>3. /\ Head(i) \in Positions /\ Tail(i) \in Seq(Positions)
          /\ (i \o e) \o w # <<>> /\ Head((i \o e) \o w) = Head(i)
          /\ Tail((i \o e) \o w) = (Tail(i) \o e) \o w
      BY <3>1, RequestsMove
    <3> QED BY <3>2, <3>3 DEF i, e, w
  <2>2. git' = [git EXCEPT !.out = r] /\ input' = [input EXCEPT !.items = t]
    BY <1>6
  <2>3. input' \in Queues /\ input'.items = t
    <3> HIDE DEF h, t
    <3> QED BY <1>1, <2>1, <2>2 DEF Queues
  <2>4. Requests' = Tail(Requests)
    <3> HIDE DEF h, t
    <3> QED BY <1>0, <2>1, <2>3 DEF Requests
  <2> HIDE DEF h, t
  <2>5. r \in Seq(Token)
    BY <1>1, <2>1, AnswerIs
  <2>6. /\ git' \in Gits /\ git'.out = r /\ git'.alive = git.alive
    <3> HIDE DEF r
    <3> QED BY <1>1, <2>2, <2>5 DEF Gits
  <2>7. Types'
    BY <1>0, <1>1, <1>6, <2>3, <2>6, TypesMade
  <2>8. Tokens' = Tokens \o r
    <3> DEFINE u == caller.unread
               p == pump.hand
    <3>1. u \in Seq(Token) /\ p \in Seq(Token) /\ r \in Seq(Token)
          /\ chunks \in Seq(Seq(Token)) /\ output \in Seq(Token)
      BY <1>1, <2>5
    <3> HIDE DEF u, p, r
    <3>2. Line(u, chunks, p, output, r) = Line(u, chunks, p, output, <<>>) \o r
      BY <3>1, LineEnds
    <3> QED BY <1>4, <1>5, <1>6, <2>6, <3>2 DEF u, p
  <2>9. ASSUME caller.pc \in Working
        PROVE  Streaming' /\ Seen' = Seen
    <3>1. Held
      BY <2>9, Holds
    <3>2. Flow(objects, Len(told), caller.pc, Asked, TRUE, Tokens, Requests)
      BY <1>0, <2>9 DEF IInv, Streaming
    <3>3. /\ Tokens \in Seq(Token) /\ Len(told) \in Nat /\ Asked \in Nat
          /\ Len(told) <= Asked /\ Asked <= Len(objects) /\ Len(objects) \in Nat
      BY <3>1 DEF Held
    <3>4. \A i \in 1 .. Asked : /\ EndOf(objects, i) \in Nat
                                /\ objects[i].kind # "missing" => objects[i].size \in Nat
      <4>1. \A i \in 1 .. Asked : i \in 1 .. Len(objects)
        BY <3>3
      <4> QED BY <1>1, <4>1, ObjectsAre
    <3>5. Flow(objects, Len(told), caller.pc, Asked, TRUE, Tokens \o Response(Head(Requests)),
               Tail(Requests))
      <4>1. Requests # <<>>
        BY <2>1
      <4> QED BY <3>2, <3>3, <3>4, <4>1, FlowAnswers
    <3>6. Asked' = Asked /\ UNCHANGED <<objects, told, caller>> /\ git'.alive = TRUE
      BY <1>0, <2>6 DEF Asked
    <3>7. Streaming'
      BY <2>1, <2>4, <2>8, <3>5, <3>6 DEF Streaming
    <3>8. Seen' = Seen
      BY <1>0, <3>6 DEF Seen
    <3> QED BY <3>7, <3>8
  <2>10. IInv'
    BY <1>0, <1>2, <2>7, <2>9, Remains
  <2> QED BY <1>2, <1>3, <2>6, <2>9, <2>10 DEF Promised, Quiet, SameCaller
<1>7. CASE /\ git.out # <<>> /\ output' = Append(output, Head(git.out))
           /\ git' = [git EXCEPT !.out = Tail(@)] /\ UNCHANGED input
  <2> DEFINE g == git.out
             t == Tail(g)
  <2>1. /\ Append(output, Head(g)) \in Seq(Token) /\ t \in Seq(Token)
        /\ Line(caller.unread, chunks, pump.hand, Append(output, Head(g)), t)
              = Line(caller.unread, chunks, pump.hand, output, g)
    <3> DEFINE u == caller.unread
               p == pump.hand
    <3>1. u \in Seq(Token) /\ p \in Seq(Token) /\ g \in Seq(Token) /\ g # <<>>
          /\ chunks \in Seq(Seq(Token)) /\ output \in Seq(Token)
      BY <1>1, <1>7
    <3> HIDE DEF u, p, g
    <3>2. /\ Append(output, Head(g)) \in Seq(Token) /\ Tail(g) \in Seq(Token)
          /\ Line(u, chunks, p, Append(output, Head(g)), Tail(g)) = Line(u, chunks, p, output, g)
      BY <3>1, LineWrites
    <3> QED BY <3>2 DEF u, p
  <2>2. git' = [git EXCEPT !.out = t]
    BY <1>7
  <2> HIDE DEF t
  <2>3. git' \in Gits /\ git'.out = t /\ git'.alive = git.alive
    BY <1>1, <2>1, <2>2 DEF Gits
  <2>4. Types'
    BY <1>0, <1>1, <1>7, <2>1, <2>3, TypesMade
  <2>5. Tokens' = Tokens /\ Requests' = Requests
    <3>1. Requests' = Requests
      BY <1>0, <1>7 DEF Requests
    <3> QED BY <1>4, <1>5, <1>7, <2>1, <2>3, <3>1
  <2>6. IInv' /\ (caller.pc \in Working => Seen' = Seen)
    BY <1>0, <1>2, <2>3, <2>4, <2>5, Carried
  <2> QED BY <1>2, <1>3, <2>3, <2>6 DEF Promised, Quiet, SameCaller
<1>8. CASE /\ git.out = <<>> /\ git' = [git EXCEPT !.alive = FALSE]
           /\ UNCHANGED <<input, output>>
  <2>1. git' \in Gits /\ git'.out = git.out /\ git'.alive = FALSE
    BY <1>1, <1>8 DEF Gits
  <2>2. Types'
    BY <1>0, <1>1, <1>8, <2>1, TypesMade
  <2>3. Tokens' = Tokens /\ Tokens \in Seq(Token)
    BY <1>1, <1>4, <1>5, <1>8, <2>1, TokensAre
  <2>4. Tokens \o <<>> = Tokens /\ <<>> \in Seq(Token)
    BY <2>3, ConcatEmptySeq, EmptySeq
  <2>5. IInv' /\ Breaks
    BY <1>0, <1>2, <2>1, <2>2, <2>3, <2>4, Broken
  <2> QED BY <2>5 DEF Promised
<1> QED BY <1>6, <1>7, <1>8 DEF Git

-----------------------------------------------------------------------------
(***************************************************************************)
(* Dropping the reader, when the caller has its verdict.                   *)
(***************************************************************************)
LEMMA DrainKeeps ==
    ASSUME IInv, Drain
    PROVE  IInv' /\ Promised
<1>0. /\ UNCHANGED <<client, objects, requests, writer, pump, input, output, told>>
      /\ caller.pc = "drain" /\ caller.verdict # Undecided
  BY DEF Drain, threads, IInv, Deciding, Working
<1>1. /\ caller \in Callers /\ chunks \in Seq(Seq(Token)) /\ caller.drained \in Nat
  BY TypesAre DEF IInv
<1>2. /\ caller' \in Callers /\ caller'.pc \notin Working /\ caller'.verdict = caller.verdict
      /\ chunks' \in Seq(Seq(Token)) /\ git' = git
  <2>1. CASE /\ chunks # <<>> /\ chunks' = Tail(chunks)
             /\ caller' = [caller EXCEPT !.drained = @ + Len(Head(chunks))] /\ UNCHANGED git
    <3> DEFINE n == caller.drained + Len(Head(chunks))
    <3>1. Head(chunks) \in Seq(Token) /\ Tail(chunks) \in Seq(Seq(Token))
      BY <1>1, <2>1, HeadTailProperties
    <3>2. n \in Nat
      <4>1. Len(Head(chunks)) \in Nat
        BY <3>1, LenProperties
      <4> QED BY <1>1, <4>1
    <3>3. caller' = [caller EXCEPT !.drained = n]
      BY <2>1
    <3> HIDE DEF n
    <3>4. caller' = Made(caller.pc, caller.next, caller.pending, caller.unread, caller.reader,
                         caller.verdict, n)
      BY <1>1, <3>3 DEF Callers, Made
    <3>5. caller' \in Callers /\ caller'.pc = caller.pc /\ caller'.verdict = caller.verdict
      BY <1>1, <3>2, <3>4 DEF Callers, Made
    <3> QED BY <1>0, <2>1, <3>1, <3>5 DEF Working
  <2>2. CASE /\ chunks # <<>> /\ chunks' = Tail(chunks) /\ Goto("stop") /\ UNCHANGED git
    <3>1. Tail(chunks) \in Seq(Seq(Token))
      BY <1>1, <2>2, HeadTailProperties
    <3> QED BY <1>1, <2>2, <3>1, Went DEF Working
  <2>3. CASE Goto("done") /\ UNCHANGED <<git, chunks>>
    BY <1>1, <2>3, Went DEF Working
  <2> QED BY <2>1, <2>2, <2>3 DEF Drain
<1>3. IInv'
  <2>1. /\ Types /\ requests \in Queues /\ writer \in Writers /\ input \in Queues
        /\ git \in Gits /\ output \in Seq(Token) /\ pump \in Pumps /\ told \in Seq(Answers)
    BY TypesAre DEF IInv
  <2>2. Types'
    BY <1>0, <1>2, <2>1, TypesMade
  <2> QED BY <1>0, <1>2, <2>2, Decided
<1> QED BY <1>0, <1>2, <1>3 DEF Promised, Quiet

LEMMA StopKeeps ==
    ASSUME IInv, Stop
    PROVE  IInv' /\ Promised
<1>0. /\ UNCHANGED <<client, objects, requests, writer, pump, input, output, chunks, told>>
      /\ caller.verdict # Undecided /\ git' = [alive |-> FALSE, out |-> <<>>] /\ Goto("done")
  BY DEF Stop, threads, pipes, IInv, Deciding, Working
<1>1. /\ caller' \in Callers /\ caller'.pc \notin Working /\ caller'.verdict = caller.verdict
  <2>1. caller \in Callers
    BY TypesAre DEF IInv
  <2> QED BY <1>0, <2>1, Went DEF Working
<1>2. git' \in Gits /\ git'.alive = FALSE
  <2>1. <<>> \in Seq(Token)
    BY EmptySeq
  <2> QED BY <1>0, <2>1 DEF Gits
<1>3. IInv'
  <2>1. /\ Types /\ requests \in Queues /\ writer \in Writers /\ input \in Queues
        /\ output \in Seq(Token) /\ chunks \in Seq(Seq(Token))
        /\ pump \in Pumps /\ told \in Seq(Answers)
    BY TypesAre DEF IInv
  <2>2. Types'
    BY <1>0, <1>1, <1>2, <2>1, TypesMade
  <2> QED BY <1>0, <1>1, <2>2, Decided
<1> QED BY <1>0, <1>1, <1>2, <1>3 DEF Promised, Breaks

-----------------------------------------------------------------------------
(***************************************************************************)
(* What the caller finds at the front of the stream.                       *)
(***************************************************************************)
\* The caller's own tokens are the first ones, and it takes them from there.
LEMMA FrontOf ==
    ASSUME Types
    PROVE  /\ Len(caller.unread) \in Nat /\ Len(Tokens) \in Nat
           /\ Len(caller.unread) <= Len(Tokens)
           /\ \A k \in 1 .. Len(caller.unread) : Tokens[k] = caller.unread[k]
           /\ \A k \in 0 .. Len(caller.unread) :
                 /\ Rest(caller.unread, k) \in Seq(Token)
                 /\ Line(Rest(caller.unread, k), chunks, pump.hand, output, git.out) = Rest(Tokens, k)
<1> DEFINE u == caller.unread
           h == pump.hand
           g == git.out
<1>1. /\ u \in Seq(Token) /\ h \in Seq(Token) /\ g \in Seq(Token)
      /\ chunks \in Seq(Seq(Token)) /\ output \in Seq(Token)
  BY TypesAre
<1>2. Tokens = Line(u, chunks, h, output, g) /\ Tokens \in Seq(Token)
  BY TokensAre
<1> HIDE DEF u, h, g
<1>3. Len(u) \in Nat /\ Len(Tokens) \in Nat
  BY <1>1, <1>2, LenProperties
<1>4. ASSUME NEW k \in 0 .. Len(u)
      PROVE  /\ Rest(u, k) \in Seq(Token)
             /\ Line(Rest(u, k), chunks, h, output, g) = Rest(Tokens, k)
             /\ Len(u) <= Len(Tokens)
             /\ \A i \in 1 .. Len(u) : Tokens[i] = u[i]
  <2>1. k \in Nat /\ k <= Len(u)
    BY <1>3
  <2>2. /\ Rest(u, k) \in Seq(Token)
        /\ Line(Rest(u, k), chunks, h, output, g) = Rest(Line(u, chunks, h, output, g), k)
        /\ Len(u) <= Len(Line(u, chunks, h, output, g))
        /\ \A i \in 1 .. Len(u) : Line(u, chunks, h, output, g)[i] = u[i]
    BY <1>1, <2>1, LineTakes
  <2> QED BY <1>2, <2>2
<1>5. 0 \in 0 .. Len(u)
  BY <1>3
<1> QED BY <1>3, <1>4, <1>5 DEF u, h, g

LEMMA DueIs ==
    ASSUME IInv, caller.pc \in {"header", "content"}
    PROVE  /\ Due = Len(told) + 1
           /\ Len(told) \in Nat /\ Len(told) + 1 \in 1 .. Len(objects)
           /\ client = "walk" => /\ caller.next \in Nat /\ Len(told) + 1 < caller.next
                                 /\ Tail(caller.pending) = Upto(Len(told) + 1, caller.next - 1)
<1>0. caller.pc \in Working
  BY DEF Working
<1>1. Len(told) \in Nat /\ Len(objects) \in Nat /\ Len(told) < Len(objects) /\ caller.next \in Nat
  BY <1>0, AskedIs, TypesAre DEF IInv, Telling
<1>2. ASSUME client = "walk"
      PROVE  /\ Due = Len(told) + 1 /\ Len(told) + 1 < caller.next
             /\ Tail(caller.pending) = Upto(Len(told) + 1, caller.next - 1)
  <2>1. Len(told) + 1 < caller.next /\ caller.pending = Upto(Len(told), caller.next - 1)
    BY <1>0, <1>2 DEF IInv, Walking
  <2> DEFINE n == Len(told)
             m == caller.next - 1
  <2>2. n \in Nat /\ m \in Nat /\ n < m
    BY <1>1, <2>1
  <2> HIDE DEF n, m
  <2>3. Head(Upto(n, m)) = n + 1 /\ Tail(Upto(n, m)) = Upto(n + 1, m)
    BY <2>2, UptoShrinks
  <2> QED BY <1>2, <2>1, <2>3 DEF n, m, Due
<1>3. client # "walk" => Due = Len(told) + 1
  BY DEF Due
<1> QED BY <1>1, <1>2, <1>3

LEMMA FrontIs ==
    ASSUME IInv, caller.pc \in {"header", "content"}, caller.unread # <<>>
    PROVE  /\ Head(caller.unread) = Due1(Len(told), caller.pc)
           /\ Head(caller.unread)[1] = Len(told) + 1
           /\ Tokens # <<>> /\ Tokens[1] = Due1(Len(told), caller.pc)
           /\ Len(caller.unread) \in Nat \ {0}
<1>1. /\ Len(caller.unread) \in Nat /\ Len(Tokens) \in Nat
      /\ Len(caller.unread) <= Len(Tokens)
      /\ \A k \in 1 .. Len(caller.unread) : Tokens[k] = caller.unread[k]
  BY FrontOf DEF IInv
<1>2. caller.unread \in Seq(Token)
  BY TypesAre DEF IInv
<1>3. Len(caller.unread) \in Nat \ {0} /\ Head(caller.unread) = caller.unread[1]
  BY <1>1, <1>2, EmptySeq
<1>4. Tokens # <<>> /\ Tokens[1] = caller.unread[1]
  BY <1>1, <1>3, EmptySeq
<1>5. Tokens[1] = Due1(Len(told), caller.pc)
  <2>1. caller.pc \in Working
    BY DEF Working
  <2> QED BY <1>4, <2>1 DEF IInv, Streaming, Flow
<1> QED BY <1>3, <1>4, <1>5 DEF Due1

\* An answer that is there as a whole ends where its header said.
LEMMA ContentIs ==
    ASSUME IInv, caller.pc = "content", Whole
    PROVE  LET e == objects[Len(told) + 1].size + 1
           IN  /\ e \in 1 .. Len(caller.unread)
               /\ caller.unread[e] = <<Len(told) + 1, EndOf(objects, Len(told) + 1)>>
               /\ Terminated /\ Head(caller.unread)[1] = Len(told) + 1
               /\ objects[Due].size + 1 = e
<1> DEFINE n == Len(told)
           s == objects[n + 1].size
<1>1. Due = n + 1 /\ n \in Nat /\ n + 1 \in 1 .. Len(objects)
  BY DueIs
<1>2. objects[n + 1].kind = "blob"
  BY DEF IInv, Telling, Working
<1>3. s \in Nat /\ EndOf(objects, n + 1) = s + 1
  BY <1>1, <1>2, ObjectsAre DEF IInv
<1>4. /\ Len(caller.unread) \in Nat /\ Len(Tokens) \in Nat
      /\ Len(caller.unread) <= Len(Tokens)
      /\ \A k \in 1 .. Len(caller.unread) : Tokens[k] = caller.unread[k]
  BY FrontOf DEF IInv
<1>5. Len(caller.unread) > s
  BY <1>1 DEF Whole
<1> HIDE DEF s
<1>6. s + 1 \in 1 .. Len(caller.unread) /\ s < Len(Tokens)
  BY <1>3, <1>4, <1>5
<1>7. /\ Head(caller.unread)[1] = n + 1 /\ Tokens # <<>> /\ Tokens[1] = <<n + 1, 1>>
  <2>1. caller.unread # <<>>
    BY <1>3, <1>4, <1>5, EmptySeq
  <2>2. /\ Head(caller.unread)[1] = Len(told) + 1
        /\ Tokens # <<>> /\ Tokens[1] = Due1(Len(told), caller.pc)
    BY <2>1, FrontIs
  <2> QED BY <2>2 DEF Due1
<1>8. Tokens[s + 1] = <<n + 1, 1 + s>>
  <2>1. Tokens \in Seq(Token) /\ Successive(objects, Tokens)
    BY TokensAre DEF IInv, Working, Streaming, Flow
  <2> DEFINE i == n + 1
             p == 1
             e == s + 1
  <2>2. i \in Nat /\ p \in Nat /\ e \in Nat /\ EndOf(objects, i) = e /\ Tokens[1] = <<i, p>>
        /\ p + s <= e
    BY <1>1, <1>3, <1>7
  <2> HIDE DEF i, p, e
  <2>3. Tokens[s + 1] = <<i, p + s>>
    BY <1>3, <1>6, <1>7, <2>1, <2>2, Along
  <2> QED BY <2>3 DEF i, p
<1>9. caller.unread[s + 1] = <<n + 1, s + 1>>
  <2>1. 1 + s = s + 1
    BY <1>3
  <2> QED BY <1>4, <1>6, <1>8, <2>1
<1>10. Terminated
  BY <1>1, <1>9 DEF Terminated, s
<1> QED BY <1>1, <1>3, <1>6, <1>7, <1>9, <1>10 DEF s

-----------------------------------------------------------------------------
(***************************************************************************)
(* What both users do with an answer.                                      *)
(***************************************************************************)
\* A header is of the object that is due.
LEMMA HeaderIs ==
    ASSUME IInv, caller.pc = "header", caller.unread # <<>>
    PROVE  /\ HeaderOk /\ Head(caller.unread)[1] = Len(told) + 1
           /\ Due = Len(told) + 1 /\ Len(told) + 1 \in 1 .. Len(objects)
           /\ caller.unread[1] = <<Len(told) + 1, 0>>
<1>1. Due = Len(told) + 1 /\ Len(told) + 1 \in 1 .. Len(objects)
  BY DueIs
<1>2. /\ Head(caller.unread) = Due1(Len(told), caller.pc)
      /\ Head(caller.unread)[1] = Len(told) + 1
  BY FrontIs
<1>3. Head(caller.unread) = <<Len(told) + 1, 0>>
  BY <1>2 DEF Due1
<1>4. HeaderOk
  BY <1>1, <1>3 DEF HeaderOk
<1>5. caller.unread[1] = Head(caller.unread)
  BY TypesAre DEF IInv
<1> QED BY <1>1, <1>2, <1>3, <1>4, <1>5

\* What is left of the stream when the caller takes k tokens.
LEMMA Taken ==
    ASSUME IInv, NEW k \in 0 .. Len(caller.unread), caller'.unread = Rest(caller.unread, k),
           UNCHANGED <<chunks, pump, output, git>>
    PROVE  Tokens' = Rest(Tokens, k) /\ Rest(caller.unread, k) \in Seq(Token)
<1>1. /\ Rest(caller.unread, k) \in Seq(Token)
      /\ Line(Rest(caller.unread, k), chunks, pump.hand, output, git.out) = Rest(Tokens, k)
  BY FrontOf DEF IInv
<1>2. Tokens' = Line(caller'.unread, chunks, pump.hand, output, git.out)
  BY DEF Tokens, Line
<1> QED BY <1>1, <1>2

Elsewhere == UNCHANGED <<client, objects, requests, writer, pump, input, git, output, chunks>>

\* The caller has read the header of a blob and goes on to its content.
GoesOn == caller' = [caller EXCEPT !.unread = Take(1), !.pc = "content"]

LEMMA ReadsOn ==
    ASSUME IInv, caller.pc = "header", caller.unread # <<>>,
           objects[Len(told) + 1].kind = "blob",
           client = "history" => objects[Len(told) + 1].size <= Limit,
           GoesOn, Elsewhere, UNCHANGED told
    PROVE  IInv' /\ Promised
<1> DEFINE n == Len(told)
           u == Rest(caller.unread, 1)
<1>1. caller.pc \in Working /\ caller.pc # "content" /\ caller.verdict = Undecided
  BY DEF Working, IInv, Deciding
<1>2. Held
  BY <1>1, Holds
<1>3. n \in Nat /\ Asked \in Nat /\ n <= Asked /\ Tokens \in Seq(Token)
  BY <1>2 DEF Held
<1>4. Tokens # <<>> /\ 1 \in 0 .. Len(caller.unread)
  BY FrontIs
<1>5. u \in Seq(Token)
  BY <1>4, FrontOf DEF IInv
<1>6. /\ caller' \in Callers /\ caller'.pc = "content" /\ caller'.unread = u
      /\ caller'.next = caller.next /\ caller'.pending = caller.pending
      /\ caller'.verdict = caller.verdict
  <2>1. caller \in Callers
    BY TypesAre DEF IInv
  <2>2. caller' = [caller EXCEPT !.unread = u, !.pc = "content"]
    BY DEF GoesOn, Take, Rest
  <2> HIDE DEF u
  <2>3. caller' = Made("content", caller.next, caller.pending, u, caller.reader,
                       caller.verdict, caller.drained)
    BY <2>1, <2>2 DEF Callers, Made
  <2>4. "content" \in Working
    BY DEF Working
  <2>5. /\ caller.next \in Nat /\ caller.pending \in Seq(Nat) /\ caller.drained \in Nat
        /\ caller.reader \in {"idle", "running", "unavailable"}
        /\ caller.verdict \in Verdicts \cup {Undecided}
    BY TypesAre DEF IInv
  <2>6. caller' \in Callers
    BY <1>5, <2>3, <2>4, <2>5 DEF Callers, Made
  <2>7. /\ caller'.pc = "content" /\ caller'.unread = u
        /\ caller'.next = caller.next /\ caller'.pending = caller.pending
        /\ caller'.verdict = caller.verdict
    BY <2>3 DEF Made
  <2> QED BY <2>6, <2>7
<1>7. Tokens' = Rest(Tokens, 1)
  BY <1>4, <1>6, Taken DEF Elsewhere
<1>8. EndOf(objects, n + 1) \in Nat \ {0}
  <2>1. n + 1 \in 1 .. Len(objects)
    BY DueIs
  <2>2. objects[n + 1].size \in Nat /\ EndOf(objects, n + 1) = objects[n + 1].size + 1
    BY <2>1, ObjectsAre DEF IInv
  <2> QED BY <2>2
<1>9. /\ Flow(objects, n, "content", Asked, git.alive, Tokens', Requests)
      /\ ~git.alive => Upmost(n, Tokens') <= Upmost(n, Tokens)
  <2>1. Flow(objects, n, caller.pc, Asked, git.alive, Tokens, Requests) /\ git.alive \in BOOLEAN
    BY <1>1, TypesAre DEF IInv, Streaming
  <2> HIDE DEF n
  <2>2. LET us == Rest(Tokens, 1)
        IN  /\ us \in Seq(Token)
            /\ Flow(objects, n, "content", Asked, git.alive, us, Requests)
            /\ IF git.alive THEN us # <<>> ELSE Upmost(n, us) <= Upmost(n, Tokens)
    BY <1>1, <1>3, <1>4, <1>8, <2>1, FlowHeader
  <2> QED BY <1>7, <2>2
<1>10. Asked' = Asked /\ Requests' = Requests
  BY <1>6 DEF Asked, Requests, Elsewhere
<1>11. Streaming'
  BY <1>6, <1>9, <1>10 DEF Streaming, Elsewhere
<1>12. Types'
  <2>1. /\ Types /\ requests \in Queues /\ writer \in Writers /\ input \in Queues /\ git \in Gits
        /\ output \in Seq(Token) /\ chunks \in Seq(Seq(Token))
        /\ pump \in Pumps /\ told \in Seq(Answers)
    BY TypesAre DEF IInv
  <2> QED BY <1>6, <2>1, TypesMade DEF Elsewhere
<1>13. Telling'
  BY <1>1, <1>6 DEF IInv, Telling, Elsewhere
<1>14. Walking'
  BY <1>1, <1>6 DEF IInv, Walking, Elsewhere
<1>15. Alone'
  BY <1>1, <1>6 DEF IInv, Alone, Elsewhere
<1>16. Deciding'
  BY <1>1, <1>6 DEF Deciding, Working
<1>17. Seen' = Seen \/ (git.alive = FALSE /\ Seen' <= Seen)
  BY <1>9, <1>10, TypesAre DEF Seen, Elsewhere, IInv
<1> QED BY <1>1, <1>6, <1>11, <1>12, <1>13, <1>14, <1>15, <1>16, <1>17
        DEF IInv, Promised, Quiet, Breaks, Elsewhere

\* The caller has read an answer to its end and tells it.
LEMMA Answered ==
    ASSUME IInv, caller.pc \in {"header", "content"},
           NEW k \in 1 .. Len(caller.unread),
           caller.unread[k] = <<Len(told) + 1, EndOf(objects, Len(told) + 1)>>,
           caller' \in Callers, caller'.unread = Rest(caller.unread, k),
           caller'.pc = IF client = "walk" THEN "fill" ELSE "ask",
           caller'.next = caller.next, caller'.verdict = caller.verdict,
           told' = Append(told, Truth(objects[Len(told) + 1])),
           told' \in Seq(Answers), Elsewhere, Walking'
    PROVE  IInv' /\ Promised
<1> DEFINE n == Len(told)
<1>1. caller.pc \in Working /\ caller.verdict = Undecided
  BY DEF Working, IInv, Deciding
<1>2. Held
  BY <1>1, Holds
<1>3. n \in Nat /\ Asked \in Nat /\ n <= Asked /\ Tokens \in Seq(Token) /\ Len(objects) \in Nat
  BY <1>2 DEF Held
<1>4. Len(told') = n + 1 /\ n + 1 \in 1 .. Len(objects)
  <2>1. told \in Seq(Answers)
    BY TypesAre DEF IInv
  <2> QED BY <2>1, DueIs
<1>5. k \in 0 .. Len(caller.unread) /\ k \in 1 .. Len(Tokens) /\ Tokens[k] = caller.unread[k]
  BY FrontOf DEF IInv
<1>6. Tokens' = Rest(Tokens, k)
  BY <1>5, Taken DEF Elsewhere
<1>7. caller'.pc # "content" /\ caller'.pc \in Working
  BY DEF Working
<1>8. /\ Flow(objects, n + 1, caller'.pc, Asked, git.alive, Tokens', Requests)
      /\ Upmost(n + 1, Tokens') = Upmost(n, Tokens)
      /\ n + 1 <= Upmost(n, Tokens)
  <2>1. Flow(objects, n, caller.pc, Asked, git.alive, Tokens, Requests) /\ git.alive \in BOOLEAN
    BY <1>1, TypesAre DEF IInv, Streaming
  <2> DEFINE ts == Tokens
             us == Tokens'
             pc == caller.pc
             pc2 == caller'.pc
             asked == Asked
             alive == git.alive
             rs == Requests
  <2>2. /\ us = Rest(ts, k) /\ pc2 # "content" /\ alive \in BOOLEAN
        /\ n \in Nat /\ asked \in Nat /\ n <= asked /\ ts \in Seq(Token) /\ k \in 1 .. Len(ts)
        /\ Flow(objects, n, pc, asked, alive, ts, rs)
    BY <1>3, <1>5, <1>6, <1>7, <2>1
  <2>3. ts[k][1] = n + 1 /\ ts[k][2] = EndOf(objects, n + 1)
    BY <1>5
  <2> HIDE DEF n, ts, us, pc, pc2, asked, alive, rs
  <2>6. Flow(objects, n, pc, asked, alive, ts, rs) /\ n <= asked
    BY <2>2
  <2>7. n \in Nat /\ asked \in Nat /\ alive \in BOOLEAN /\ ts \in Seq(Token) /\ k \in 1 .. Len(ts)
    BY <2>2
  <2>8. ToldOf(objects, n, asked, alive, ts, rs, k)
    BY <2>3, <2>6, <2>7, FlowTells
  <2>4. /\ Flow(objects, n + 1, "ask", asked, alive, us, rs)
        /\ Upmost(n + 1, us) = Upmost(n, ts)
        /\ n + 1 <= Upmost(n, ts)
    BY <2>2, <2>8 DEF ToldOf
  <2>5. Flow(objects, n + 1, pc2, asked, alive, us, rs)
    BY <2>2, <2>4, FlowPlace
  <2> QED BY <2>2, <2>4, <2>5 DEF ts, us, pc, pc2, asked, alive, rs
<1>9. Asked' = Asked /\ Requests' = Requests
  <2>1. Requests' = Requests
    BY DEF Requests, Elsewhere
  <2>2. CASE client = "walk"
    BY <2>1, <2>2 DEF Asked, Elsewhere
  <2>3. CASE client # "walk"
    BY <1>4, <2>1, <2>3 DEF Asked, Elsewhere
  <2> QED BY <2>2, <2>3
<1>10. Streaming'
  BY <1>4, <1>8, <1>9 DEF Streaming, Elsewhere
<1>11. Types'
  <2>1. /\ Types /\ requests \in Queues /\ writer \in Writers /\ input \in Queues /\ git \in Gits
        /\ output \in Seq(Token) /\ chunks \in Seq(Seq(Token)) /\ pump \in Pumps
    BY TypesAre DEF IInv
  <2> QED BY <2>1, TypesMade DEF Elsewhere
<1>12. Telling'
  BY <1>3, <1>4 DEF Telling, Elsewhere
<1>13. Alone'
  BY <1>1 DEF IInv, Alone, Elsewhere
<1>14. Deciding'
  BY <1>1, <1>7 DEF Deciding
<1>15. Seen' = Seen /\ n < Seen
  <2>1. Upmost(n, Tokens) \in Nat /\ Upmost(n, Tokens) <= Asked
    BY <1>2 DEF Held
  <2>2. Upmost(Len(told), Tokens)' = Upmost(n, Tokens)
    BY <1>4, <1>8
  <2>3. n < Asked /\ n < Upmost(n, Tokens)
    BY <1>3, <1>8, <2>1
  <2> QED BY <1>9, <2>2, <2>3 DEF Seen, Elsewhere
<1> QED BY <1>1, <1>7, <1>10, <1>11, <1>12, <1>13, <1>14, <1>15
        DEF IInv, Promised, TellsNext, Elsewhere

-----------------------------------------------------------------------------
(***************************************************************************)
(* The comparison.                                                         *)
(***************************************************************************)
\* A verdict of "dirty" has an object to show for it.
LEMMA LeavesDirty ==
    ASSUME IInv, caller.pc \in Working, Leave("dirty", "drain"),
           NEW i \in DOMAIN objects, Truth(objects[i]) # "same",
           UNCHANGED <<client, objects, writer, git, output, chunks, pump, told>>
    PROVE  IInv' /\ Promised
<1>1. "dirty" \in Verdicts /\ "drain" \in {"drain", "stop"}
  BY DEF Verdicts
<1>2. /\ IInv' /\ caller.verdict = Undecided /\ caller'.verdict = "dirty"
      /\ UNCHANGED <<objects, told>>
  BY <1>1, Departs
<1> QED BY <1>2 DEF Promised, Decides

\* Whatever is amiss with the stream is left to reads of one object at a time.
LEMMA LeavesApart ==
    ASSUME IInv, caller.pc \in Working, NEW pc \in {"drain", "stop"}, Leave("apart", pc),
           UNCHANGED <<client, objects, writer, git, output, chunks, pump, told>>
    PROVE  IInv' /\ Promised
<1>1. "apart" \in Verdicts
  BY DEF Verdicts
<1>2. /\ IInv' /\ caller.verdict = Undecided /\ caller'.verdict = "apart"
      /\ UNCHANGED <<objects, told>>
  BY <1>1, Departs
<1> QED BY <1>2 DEF Promised, Decides

LEMMA QueueKeeps ==
    ASSUME IInv, Queue
    PROVE  IInv' /\ Promised
<1>0. /\ client = "walk" /\ caller.pc = "fill" /\ caller.pc \in Working
      /\ caller.verdict = Undecided
      /\ UNCHANGED <<client, objects, pump, git, output, chunks, told>>
  BY DEF Queue, Working, IInv, Deciding
<1>1. /\ caller.next <= Len(objects) /\ Len(objects) \in Nat /\ DOMAIN objects = 1 .. Len(objects)
      /\ caller.next \in 1 .. Len(objects) + 1 /\ Len(told) < caller.next
      /\ caller.pending = Upto(Len(told), caller.next - 1)
  BY <1>0, ObjectsAre DEF Queue, MayFill, IInv, Walking
<1>2. caller.next \in 1 .. Len(objects)
  BY <1>1
<1>3. CASE /\ objects[caller.next].local = "changed"
           /\ Leave("dirty", "drain") /\ UNCHANGED writer
  <2>1. caller.next \in DOMAIN objects /\ Truth(objects[caller.next]) # "same"
    BY <1>0, <1>1, <1>2, <1>3, TruthOfWalk DEF IInv
  <2> QED BY <1>0, <1>3, <2>1, LeavesDirty
<1>4. CASE Leave("apart", "stop") /\ UNCHANGED writer
  <2>1. "stop" \in {"drain", "stop"}
    OBVIOUS
  <2> QED BY <1>0, <1>4, <2>1, LeavesApart
<1>5. CASE /\ objects[caller.next].local = "fits"
           /\ requests' = [requests EXCEPT !.items = Append(@, caller.next)]
           /\ writer' = [writer EXCEPT !.state = "run"]
           /\ caller' = [caller EXCEPT !.next = @ + 1,
                                       !.pending = Append(@, caller.next)]
           /\ UNCHANGED input
  <2> DEFINE n == Len(told)
             x == caller.next
             items == Append(requests.items, x)
             pending == Append(caller.pending, x)
  <2>0. n \in Nat /\ x \in Nat /\ x \in Positions /\ n <= x - 1 /\ x - 1 \in Nat /\ x = (x - 1) + 1
    BY <1>1, <1>2, TypesAre DEF IInv, Positions
  <2>1. /\ requests \in Queues /\ requests.items \in Seq(Positions) /\ writer \in Writers
        /\ caller \in Callers /\ caller.pending \in Seq(Nat)
    BY TypesAre DEF IInv
  <2>2. items \in Seq(Positions) /\ pending \in Seq(Nat)
    BY <2>0, <2>1, AppendProperties
  <2>3. /\ caller' = [caller EXCEPT !.next = x + 1, !.pending = pending]
        /\ requests' = [requests EXCEPT !.items = items]
    BY <1>5
  <2>4. pending = Upto(n, x)
    <3> DEFINE m == x - 1
    <3>1. m \in Nat /\ n <= m /\ m + 1 = x /\ caller.pending = Upto(n, m) /\ n \in Nat
      BY <1>1, <2>0
    <3> HIDE DEF m, n, x
    <3>2. Append(Upto(n, m), m + 1) = Upto(n, m + 1)
      BY <3>1, UptoGrows
    <3> QED BY <3>1, <3>2
  <2>5. Requests \in Seq(Positions) /\ (input.items \o writer.hand) \o items = Append(Requests, x)
    <3> DEFINE i == input.items
               h == writer.hand
               r == requests.items
    <3>1. i \in Seq(Positions) /\ h \in Seq(Positions) /\ r \in Seq(Positions) /\ x \in Positions
      BY <2>0, TypesAre DEF IInv
    <3>2. Requests = (i \o h) \o r
      BY DEF Requests
    <3> HIDE DEF i, h, r, x
    <3>3. (i \o h) \o r \in Seq(Positions) /\ (i \o h) \o Append(r, x) = Append((i \o h) \o r, x)
      BY <3>1, RequestsMove
    <3> QED BY <3>2, <3>3 DEF i, h, r
  <2>6. Asked = x - 1
    BY <1>0 DEF Asked
  <2> HIDE DEF items, pending
  <2>7. /\ caller' \in Callers /\ caller'.pc = caller.pc /\ caller'.next = x + 1
        /\ caller'.pending = pending /\ caller'.unread = caller.unread
        /\ caller'.verdict = caller.verdict
    <3>1. caller' = Made(caller.pc, x + 1, pending, caller.unread, caller.reader,
                         caller.verdict, caller.drained)
      BY <2>1, <2>3 DEF Callers, Made
    <3> QED BY <2>0, <2>1, <2>2, <3>1 DEF Callers, Made
  <2>8. requests' \in Queues /\ requests'.items = items
    BY <2>1, <2>2, <2>3 DEF Queues
  <2>9. writer' \in Writers /\ writer'.hand = writer.hand
    BY <1>5, <2>1 DEF Writers
  <2>10. Types'
    <3>1. /\ Types /\ input \in Queues /\ git \in Gits
          /\ output \in Seq(Token) /\ chunks \in Seq(Seq(Token))
          /\ pump \in Pumps /\ told \in Seq(Answers)
      BY TypesAre DEF IInv
    <3> QED BY <1>0, <1>5, <2>7, <2>8, <2>9, <3>1, TypesMade
  <2>11. Asked' = Asked + 1 /\ Tokens' = Tokens /\ Requests' = Append(Requests, Asked + 1)
    <3>1. Asked' = x
      BY <1>0, <2>0, <2>7 DEF Asked
    <3>2. Tokens' = Tokens
      BY <1>0, <2>7 DEF Tokens
    <3>3. Requests' = (input.items \o writer.hand) \o items
      BY <1>5, <2>8, <2>9 DEF Requests
    <3>4. Asked + 1 = x
      BY <2>0, <2>6
    <3> HIDE DEF x
    <3> QED BY <2>5, <3>1, <3>2, <3>3, <3>4
  <2>12. Held
    BY <1>0, Holds
  <2>13. Flow(objects, n, caller.pc, Asked + 1, git.alive, Tokens, Append(Requests, Asked + 1))
    <3>1. /\ n \in Nat /\ Asked \in Nat /\ n <= Asked /\ Tokens \in Seq(Token)
      BY <2>12 DEF Held
    <3>2. Flow(objects, n, caller.pc, Asked, git.alive, Tokens, Requests)
      BY <1>0 DEF IInv, Streaming
    <3> HIDE DEF n
    <3> QED BY <3>1, <3>2, FlowAsks
  <2>14. Streaming'
    BY <1>0, <2>7, <2>11, <2>13 DEF Streaming
  <2>15. Walking'
    <3>1. /\ \A k \in 1 .. Len(told) : told[k] = "same"
          /\ \A k \in 1 .. caller.next - 1 : objects[k].local = "fits"
      BY <1>0 DEF IInv, Walking
    <3>2. \A k \in 1 .. caller'.next - 1 : objects[k].local = "fits"
      <4>1. \A k \in 1 .. caller'.next - 1 : k \in 1 .. caller.next - 1 \/ k = caller.next
        BY <2>0, <2>7
      <4> QED BY <1>5, <3>1, <4>1
    <3>3. caller'.next \in 1 .. Len(objects) + 1 /\ Len(told) < caller'.next
      BY <1>1, <1>2, <2>0, <2>7
    <3>4. caller'.pending = Upto(Len(told), caller'.next - 1)
      <4>1. caller'.next - 1 = x
        BY <2>0, <2>7
      <4> QED BY <2>4, <2>7, <4>1
    <3> QED BY <1>0, <2>7, <3>1, <3>2, <3>3, <3>4 DEF Walking
  <2>16. Telling' /\ Alone' /\ Deciding'
    BY <1>0, <2>7 DEF IInv, Telling, Alone, Deciding
  <2>17. IInv'
    BY <2>10, <2>14, <2>15, <2>16 DEF IInv
  <2>18. IF git.alive THEN AsksNext ELSE Quiet
    BY <1>0, <2>7, <2>11, TypesAre DEF AsksNext, Quiet, Seen, IInv
  <2> QED BY <2>17, <2>18 DEF Promised
<1> QED BY <1>3, <1>4, <1>5 DEF Queue

LEMMA PopKeeps ==
    ASSUME IInv, Pop
    PROVE  IInv' /\ Promised
<1>0. /\ client = "walk" /\ caller.pc = "fill" /\ caller.pc \in Working
      /\ caller.verdict = Undecided /\ ~MayFill
      /\ UNCHANGED <<client, objects, writer, pump, git, output, chunks, told>>
  BY DEF Pop, Working, IInv, Deciding
<1>1. /\ Len(objects) \in Nat /\ DOMAIN objects = 1 .. Len(objects)
      /\ caller.next \in 1 .. Len(objects) + 1 /\ Len(told) < caller.next
      /\ caller.pending = Upto(Len(told), caller.next - 1)
      /\ \A k \in 1 .. Len(told) : told[k] = "same"
      /\ told \in Seq(Answers) /\ Len(told) \in Nat
  BY <1>0, ObjectsAre, TypesAre DEF IInv, Walking
<1>2. caller.pending = <<>> <=> Len(told) = caller.next - 1
  <2> DEFINE n == Len(told)
             m == caller.next - 1
  <2>1. n \in Nat /\ m \in Nat /\ n <= m
    BY <1>1
  <2> HIDE DEF n, m
  <2>2. Upto(n, m) = <<>> <=> n = m
    BY <2>1, UptoIs
  <2> QED BY <1>1, <2>2 DEF n, m
<1>3. CASE caller.pending = <<>> /\ Leave("clean", "drain")
  <2>1. Len(told) = Len(objects)
    <3>1. Len(caller.pending) = 0 /\ Window \in Nat \ {0}
      BY <1>3, RoomForOne
    <3>2. caller.next > Len(objects)
      BY <1>0, <1>1, <3>1 DEF MayFill
    <3> QED BY <1>1, <1>2, <1>3, <3>2
  <2>2. told = [i \in DOMAIN objects |-> "same"]
    <3>1. DOMAIN told = 1 .. Len(told) /\ told = [i \in DOMAIN told |-> told[i]]
      BY <1>1
    <3>2. \A i \in DOMAIN told : told[i] = "same"
      BY <1>1, <3>1
    <3> QED BY <1>1, <2>1, <3>1, <3>2
  <2>3. "clean" \in Verdicts /\ "drain" \in {"drain", "stop"}
    BY DEF Verdicts
  <2>4. /\ IInv' /\ caller.verdict = Undecided /\ caller'.verdict = "clean"
        /\ UNCHANGED <<objects, told>>
    BY <1>0, <1>3, <2>3, Departs
  <2> QED BY <2>2, <2>4 DEF Promised, Decides
<1>4. CASE caller.pending # <<>> /\ Goto("header") /\ UNCHANGED <<requests, input>>
  <2>1. /\ caller' \in Callers /\ caller'.pc = "header" /\ caller'.next = caller.next
        /\ caller'.pending = caller.pending /\ caller'.unread = caller.unread
        /\ caller'.verdict = caller.verdict
    BY <1>4, TypesAre, Went DEF IInv, Working
  <2>2. Types'
    <3>1. /\ Types /\ requests \in Queues /\ writer \in Writers /\ input \in Queues
          /\ git \in Gits /\ output \in Seq(Token) /\ chunks \in Seq(Seq(Token))
          /\ pump \in Pumps /\ told \in Seq(Answers)
      BY TypesAre DEF IInv
    <3> QED BY <1>0, <1>4, <2>1, <3>1, TypesMade
  <2>3. Len(told) + 1 < caller.next /\ Len(told) < Len(objects)
    BY <1>1, <1>2, <1>4
  <2>4. Asked' = Asked /\ Tokens' = Tokens /\ Requests' = Requests
    BY <1>0, <1>4, <2>1 DEF Asked, Tokens, Requests
  <2>5. Flow(objects, Len(told), "header", Asked, git.alive, Tokens, Requests)
    <3>1. Flow(objects, Len(told), "fill", Asked, git.alive, Tokens, Requests)
      BY <1>0 DEF IInv, Streaming
    <3> QED BY <3>1, FlowPlace
  <2>6. Streaming'
    BY <1>0, <2>1, <2>4, <2>5 DEF Streaming
  <2>7. Telling'
    BY <1>0, <1>1, <2>1, <2>3 DEF Telling
  <2>8. Walking'
    BY <1>0, <2>1, <2>3 DEF IInv, Walking
  <2>9. Alone' /\ Deciding'
    BY <1>0, <2>1 DEF IInv, Alone, Deciding, Working
  <2>10. IInv'
    BY <2>2, <2>6, <2>7, <2>8, <2>9 DEF IInv
  <2>11. Seen' = Seen
    BY <1>0, <2>4 DEF Seen
  <2> QED BY <1>0, <2>1, <2>10, <2>11 DEF Promised, Quiet
<1> QED BY <1>3, <1>4 DEF Pop

LEMMA WalkHeaderKeeps ==
    ASSUME IInv, WalkHeader
    PROVE  IInv' /\ Promised
<1> DEFINE n == Len(told)
           o == objects[Head(caller.unread)[1]]
<1>0. /\ client = "walk" /\ caller.pc = "header" /\ caller.pc \in Working /\ caller.unread # <<>>
      /\ UNCHANGED <<client, objects, writer, pump, git, output, chunks, told>>
  BY DEF WalkHeader, Working
<1>1. /\ HeaderOk /\ Head(caller.unread)[1] = n + 1 /\ Due = n + 1
      /\ n + 1 \in 1 .. Len(objects)
  BY <1>0, HeaderIs
<1>2. n + 1 \in DOMAIN objects /\ o = objects[n + 1] /\ objects[Due] = objects[n + 1]
  BY <1>1, ObjectsAre DEF IInv
<1>3. Truth(objects[n + 1]) =
        IF \/ objects[n + 1].kind = "missing" \/ objects[n + 1].local = "changed"
           \/ objects[n + 1].differs # "no"
        THEN "differs" ELSE "same"
  BY <1>0, <1>1, TruthOfWalk DEF IInv
<1>4. \/ o.kind = "missing" /\ Leave("dirty", "drain")
      \/ o.kind = "other" /\ Leave("apart", "drain")
      \/ o.kind = "blob" /\ objects[Due].differs = "size" /\ Leave("dirty", "drain")
      \/ /\ o.kind = "blob"
         /\ caller' = [caller EXCEPT !.unread = Take(1), !.pc = "content"]
         /\ UNCHANGED <<requests, input>>
  BY <1>1 DEF WalkHeader
<1> HIDE DEF o, n
<1>5. CASE o.kind = "missing" /\ Leave("dirty", "drain")
  <2>1. Truth(objects[n + 1]) # "same"
    BY <1>2, <1>3, <1>5
  <2> QED BY <1>0, <1>2, <1>5, <2>1, LeavesDirty
<1>6. CASE Leave("apart", "drain")
  <2>1. "drain" \in {"drain", "stop"}
    OBVIOUS
  <2> QED BY <1>0, <1>6, <2>1, LeavesApart
<1>7. CASE objects[Due].differs = "size" /\ Leave("dirty", "drain")
  <2>1. Truth(objects[n + 1]) # "same"
    BY <1>2, <1>3, <1>7
  <2> QED BY <1>0, <1>2, <1>7, <2>1, LeavesDirty
<1>8. CASE /\ o.kind = "blob"
           /\ caller' = [caller EXCEPT !.unread = Take(1), !.pc = "content"]
           /\ UNCHANGED <<requests, input>>
  <2>1. GoesOn /\ Elsewhere /\ UNCHANGED told /\ client # "history"
    BY <1>0, <1>8 DEF GoesOn, Elsewhere
  <2>2. objects[Len(told) + 1].kind = "blob"
    BY <1>2, <1>8 DEF n
  <2> QED BY <1>0, <2>1, <2>2, ReadsOn
<1> QED BY <1>4, <1>5, <1>6, <1>7, <1>8

LEMMA WalkContentKeeps ==
    ASSUME IInv, WalkContent
    PROVE  IInv' /\ Promised
<1> DEFINE n == Len(told)
           e == objects[n + 1].size + 1
           of == Head(caller.unread)[1]
<1>0. /\ client = "walk" /\ caller.pc = "content" /\ caller.pc \in Working /\ Whole
      /\ UNCHANGED <<client, objects, writer, pump, git, output, chunks>>
  BY DEF WalkContent, Working
<1>1. /\ e \in 1 .. Len(caller.unread)
      /\ caller.unread[e] = <<n + 1, EndOf(objects, n + 1)>>
      /\ Terminated /\ of = n + 1 /\ objects[Due].size + 1 = e
  BY <1>0, ContentIs
<1>2. /\ Due = n + 1 /\ n \in Nat /\ n + 1 \in 1 .. Len(objects) /\ caller.next \in Nat
      /\ n + 1 < caller.next /\ Tail(caller.pending) = Upto(n + 1, caller.next - 1)
  BY <1>0, DueIs
<1>3. n + 1 \in DOMAIN objects
  BY <1>2, ObjectsAre DEF IInv
<1>4. Truth(objects[n + 1]) =
        IF \/ objects[n + 1].kind = "missing" \/ objects[n + 1].local = "changed"
           \/ objects[n + 1].differs # "no"
        THEN "differs" ELSE "same"
  BY <1>0, <1>2, TruthOfWalk DEF IInv
<1>5. \/ objects[Due].differs # "no" /\ Leave("dirty", "drain") /\ UNCHANGED told
      \/ /\ objects[Due].differs = "no"
         /\ told' = Append(told, "same")
         /\ caller' = [caller EXCEPT !.unread = Take(objects[Due].size + 1),
                                     !.pending = Tail(@), !.pc = "fill"]
         /\ UNCHANGED <<requests, input>>
  BY <1>1, <1>2 DEF WalkContent
<1>6. CASE objects[Due].differs # "no" /\ Leave("dirty", "drain") /\ UNCHANGED told
  <2>1. Truth(objects[n + 1]) # "same"
    BY <1>2, <1>4, <1>6
  <2> HIDE DEF n
  <2> QED BY <1>0, <1>3, <1>6, <2>1, LeavesDirty
<1>7. CASE /\ objects[Due].differs = "no"
           /\ told' = Append(told, "same")
           /\ caller' = [caller EXCEPT !.unread = Take(objects[Due].size + 1),
                                       !.pending = Tail(@), !.pc = "fill"]
           /\ UNCHANGED <<requests, input>>
  <2> DEFINE u == Rest(caller.unread, e)
             p == Tail(caller.pending)
  <2>1. Truth(objects[n + 1]) = "same"
    <3>1. objects[n + 1].kind = "blob"
      BY <1>0 DEF IInv, Telling
    <3>2. objects[n + 1].local = "fits"
      <4>1. n + 1 \in 1 .. caller.next - 1
        BY <1>2
      <4>2. \A k \in 1 .. caller.next - 1 : objects[k].local = "fits"
        BY <1>0 DEF IInv, Walking
      <4> QED BY <4>1, <4>2
    <3>3. objects[n + 1].differs = "no"
      BY <1>2, <1>7
    <3> QED BY <1>4, <3>1, <3>2, <3>3
  <2>2. u \in Seq(Token) /\ e \in 0 .. Len(caller.unread)
    <3>1. e \in 0 .. Len(caller.unread)
      BY <1>1
    <3> HIDE DEF e
    <3> QED BY <3>1, FrontOf DEF IInv
  <2>3. caller' = [caller EXCEPT !.unread = u, !.pending = p, !.pc = "fill"]
    <3>1. Take(objects[Due].size + 1) = u
      BY <1>1 DEF Take, Rest
    <3> HIDE DEF u
    <3> QED BY <1>7, <3>1
  <2>4. p \in Seq(Nat) /\ p = Upto(n + 1, caller.next - 1)
    <3> DEFINE a == n + 1
               b == caller.next - 1
    <3>1. a \in Nat /\ b \in Nat /\ a <= b /\ p = Upto(a, b)
      BY <1>2
    <3> HIDE DEF a, b
    <3>2. Upto(a, b) \in Seq(Nat)
      BY <3>1, UptoIs
    <3> QED BY <3>1, <3>2 DEF a, b
  <2>5. /\ caller' \in Callers /\ caller'.pc = "fill" /\ caller'.unread = u
        /\ caller'.next = caller.next /\ caller'.pending = p
        /\ caller'.verdict = caller.verdict
    <3>1. caller \in Callers
      BY TypesAre DEF IInv
    <3> HIDE DEF u, p
    <3>2. caller' = Made("fill", caller.next, p, u, caller.reader,
                         caller.verdict, caller.drained)
      BY <2>3, <3>1 DEF Callers, Made
    <3>3. "fill" \in Working
      BY DEF Working
    <3>4. /\ caller.next \in Nat /\ caller.drained \in Nat
          /\ caller.reader \in {"idle", "running", "unavailable"}
          /\ caller.verdict \in Verdicts \cup {Undecided}
      BY TypesAre DEF IInv
    <3> QED BY <2>2, <2>4, <3>2, <3>3, <3>4 DEF Callers, Made
  <2>6. told \in Seq(Answers) /\ told' \in Seq(Answers) /\ Len(told') = n + 1
    <3>1. told \in Seq(Answers) /\ "same" \in Answers
      BY TypesAre DEF IInv, Answers
    <3> QED BY <1>7, <3>1, AppendProperties
  <2>7. Walking'
    <3>1. /\ caller.next \in 1 .. Len(objects) + 1
          /\ \A k \in 1 .. Len(told) : told[k] = "same"
          /\ \A k \in 1 .. caller.next - 1 : objects[k].local = "fits"
      BY <1>0 DEF IInv, Walking
    <3>2. \A k \in 1 .. Len(told') : told'[k] = "same"
      <4>1. ASSUME NEW k \in 1 .. Len(told') PROVE told'[k] = "same"
        <5>1. told'[k] = IF k <= n THEN told[k] ELSE "same"
          BY <1>2, <1>7, <2>6, <4>1
        <5>2. k <= n => k \in 1 .. Len(told)
          BY <1>2, <2>6, <4>1
        <5> QED BY <3>1, <5>1, <5>2
      <4> QED BY <4>1
    <3> QED BY <1>0, <1>2, <2>4, <2>5, <2>6, <3>1, <3>2 DEF Walking
  <2>8. Elsewhere /\ caller.pc \in {"header", "content"}
    BY <1>0, <1>7 DEF Elsewhere
  <2>9. told' = Append(told, Truth(objects[Len(told) + 1]))
    BY <1>7, <2>1
  <2>10. caller.unread[e] = <<Len(told) + 1, EndOf(objects, Len(told) + 1)>>
         /\ e \in 1 .. Len(caller.unread) /\ caller'.unread = Rest(caller.unread, e)
         /\ caller'.pc = IF client = "walk" THEN "fill" ELSE "ask"
    BY <1>0, <1>1, <2>5
  <2> HIDE DEF e
  <2> QED BY <2>5, <2>6, <2>7, <2>8, <2>9, <2>10, Answered
<1> QED BY <1>5, <1>6, <1>7

-----------------------------------------------------------------------------
(***************************************************************************)
(* The historical reader.                                                  *)
(***************************************************************************)
\* What may be told of the object that is due, read alone.
Apart == {Truth(objects[Len(told) + 1]), "limit"}

LEMMA ApartIs ==
    ASSUME IInv, client = "history", Len(told) < Len(objects), NEW a \in Apart,
           told' = Append(told, a)
    PROVE  /\ told' \in Seq(Answers) /\ Len(told) \in Nat /\ Len(told') = Len(told) + 1
           /\ Len(objects) \in Nat /\ Len(told') <= Len(objects)
           /\ Len(told) + 1 \in 1 .. Len(objects)
<1>1. told \in Seq(Answers) /\ Len(told) \in Nat /\ Len(objects) \in Nat
  BY TypesAre, ObjectsAre DEF IInv
<1>2. Len(told) + 1 \in 1 .. Len(objects)
  BY <1>1
<1>3. a \in Answers
  BY <1>2, TruthOfHistory DEF IInv, Apart
<1>4. told' \in Seq(Answers) /\ Len(told') = Len(told) + 1
  BY <1>1, <1>3, AppendProperties
<1> QED BY <1>1, <1>2, <1>4

\* The answer is of a read of the object alone, and the process is discarded.
LEMMA Discarded ==
    ASSUME IInv, client = "history", caller.pc \in Working, Len(told) < Len(objects),
           NEW reader \in {"idle", "unavailable"}, Discard(reader),
           NEW a \in Apart, told' = Append(told, a), UNCHANGED <<client, objects>>
    PROVE  IInv' /\ Promised
<1> DEFINE n == Len(told)
<1>1. /\ told' \in Seq(Answers) /\ n \in Nat /\ Len(told') = n + 1
      /\ Len(objects) \in Nat /\ Len(told') <= Len(objects)
  BY ApartIs
<1>2. caller.verdict = Undecided
  BY DEF IInv, Deciding
<1>3. /\ caller' \in Callers /\ caller'.pc = "ask" /\ caller'.unread = <<>>
      /\ caller'.verdict = caller.verdict
  <2>1. caller' = Made("ask", caller.next, caller.pending, <<>>, reader,
                       caller.verdict, caller.drained)
    BY TypesAre DEF IInv, Callers, Made, Discard
  <2>2. /\ caller.next \in Nat /\ caller.pending \in Seq(Nat) /\ caller.drained \in Nat
        /\ caller.verdict \in Verdicts \cup {Undecided} /\ <<>> \in Seq(Token)
        /\ "ask" \in Working
    BY TypesAre, EmptySeq DEF IInv, Working
  <2> QED BY <2>1, <2>2 DEF Callers, Made
<1>4. /\ requests' = [items |-> <<>>, open |-> TRUE] /\ writer' = [state |-> "none", hand |-> <<>>]
      /\ input' = [items |-> <<>>, open |-> TRUE] /\ git' = [alive |-> TRUE, out |-> <<>>]
      /\ output' = <<>> /\ chunks' = <<>> /\ pump' = [run |-> TRUE, hand |-> <<>>]
  BY DEF Discard, NewReader
<1>5. Types'
  <2>1. <<>> \in Seq(Token) /\ <<>> \in Seq(Positions) /\ <<>> \in Seq(Seq(Token))
    BY EmptySeq
  <2>2. requests' \in Queues /\ input' \in Queues
    BY <1>4, <2>1 DEF Queues
  <2>3. writer' \in Writers
    BY <1>4, <2>1 DEF Writers
  <2>4. git' \in Gits /\ pump' \in Pumps
    BY <1>4, <2>1 DEF Gits, Pumps
  <2>5. Types
    BY DEF IInv
  <2> QED BY <1>1, <1>3, <1>4, <2>1, <2>2, <2>3, <2>4, <2>5, TypesMade
<1>6. Tokens' = <<>> /\ Requests' = <<>>
  <2>1. Tokens' = Line(<<>>, <<>>, <<>>, <<>>, <<>>)
    BY <1>3, <1>4 DEF Tokens, Line
  <2>2. Requests' = (<<>> \o <<>>) \o <<>>
    BY <1>4 DEF Requests
  <2>3. <<>> \o <<>> = <<>>
    BY ConcatEmptySeq, EmptySeq
  <2> QED BY <2>1, <2>2, <2>3, LineIsEmpty
<1>7. Asked' = n + 1
  BY <1>1, <1>3 DEF Asked
<1>8. Streaming'
  <2>1. n + 1 \in Nat /\ "ask" # "content"
    BY <1>1
  <2> HIDE DEF n
  <2>2. Flow(objects, n + 1, "ask", n + 1, TRUE, <<>>, <<>>)
    BY <2>1, FreshFlow
  <2> QED BY <1>1, <1>3, <1>4, <1>6, <1>7, <2>2 DEF Streaming
<1>9. Telling'
  BY <1>1, <1>3 DEF Telling
<1>10. Walking' /\ Alone'
  BY <1>3, <1>4 DEF Walking, Alone
<1>11. Deciding' /\ caller'.pc \in Working
  BY <1>2, <1>3 DEF Deciding, Working
<1>12. Seen' = n + 1
  BY <1>4, <1>7 DEF Seen
<1> QED BY <1>2, <1>3, <1>5, <1>8, <1>9, <1>10, <1>11, <1>12
        DEF IInv, Promised, TellsApart, Apart

\* The answer is of a read of the object alone, and the reader is kept.
LEMMA Kept ==
    ASSUME IInv, client = "history", caller.pc = "ask", Len(told) < Len(objects), Keep,
           NEW a \in Apart, told' = Append(told, a), UNCHANGED <<client, objects>>
    PROVE  IInv' /\ Promised
<1> DEFINE n == Len(told)
<1>1. /\ told' \in Seq(Answers) /\ n \in Nat /\ Len(told') = n + 1
      /\ Len(objects) \in Nat /\ Len(told') <= Len(objects)
  BY ApartIs
<1>2. caller.verdict = Undecided /\ caller.pc \in Working
  BY DEF IInv, Deciding, Working
<1>3. /\ caller' \in Callers /\ caller'.pc = "ask" /\ caller'.unread = caller.unread
      /\ caller'.verdict = caller.verdict
      /\ UNCHANGED <<requests, writer, pump, input, git, output, chunks>>
  <2>1. Goto("ask") /\ caller \in Callers /\ "ask" \in Working \cup {"drain", "stop", "done"}
    BY TypesAre DEF Keep, IInv, Working
  <2> QED BY <2>1, Went DEF Keep, threads, pipes
<1>4. Types'
  <2>1. /\ Types /\ requests \in Queues /\ writer \in Writers /\ input \in Queues
        /\ git \in Gits /\ output \in Seq(Token) /\ chunks \in Seq(Seq(Token)) /\ pump \in Pumps
    BY TypesAre DEF IInv
  <2> QED BY <1>1, <1>3, <2>1, TypesMade
<1>5. Tokens = <<>> /\ (git.alive => Requests = <<>>)
  <2>1. Asked = n
    BY DEF Asked
  <2>2. Held
    BY <1>2, Holds
  <2>3. Tokens = <<>>
    BY <1>1, <2>1, <2>2 DEF Held
  <2>4. git.alive => Requests = Upto(n, n)
    BY <1>2, <2>1, <2>3 DEF IInv, Streaming, Flow, Upmost
  <2>5. Upto(n, n) = <<>>
    <3> HIDE DEF n
    <3> QED BY <1>1, UptoIs
  <2> QED BY <2>3, <2>4, <2>5
<1>6. Tokens' = Tokens /\ Requests' = Requests /\ Asked' = n + 1
  BY <1>1, <1>3 DEF Tokens, Requests, Asked
<1>7. Streaming'
  <2>1. n + 1 \in Nat /\ "ask" # "content"
    BY <1>1
  <2> HIDE DEF n
  <2>2. Flow(objects, n + 1, "ask", n + 1, git.alive, <<>>, <<>>)
    BY <2>1, FreshFlow
  <2>3. Flow(objects, n + 1, "ask", n + 1, git.alive, <<>>, Requests)
    BY <1>5, <2>2 DEF Flow
  <2> QED BY <1>1, <1>3, <1>5, <1>6, <2>3 DEF Streaming
<1>8. Telling'
  BY <1>1, <1>3 DEF Telling
<1>9. Walking' /\ Alone'
  BY <1>2, <1>3 DEF Walking, Alone, IInv
<1>10. Deciding' /\ caller'.pc \in Working
  BY <1>2, <1>3 DEF Deciding, Working
<1>11. Seen' = n + 1
  BY <1>1, <1>3, <1>5, <1>6 DEF Seen, Upmost
<1> QED BY <1>2, <1>3, <1>4, <1>7, <1>8, <1>9, <1>10, <1>11
        DEF IInv, Promised, TellsApart, Apart

LEMMA AskKeeps ==
    ASSUME IInv, Ask
    PROVE  IInv' /\ Promised
<1> DEFINE n == Len(told)
<1>0. /\ client = "history" /\ caller.pc = "ask" /\ caller.pc \in Working
      /\ caller.verdict = Undecided /\ n < Len(objects) /\ n \in Nat /\ Len(objects) \in Nat
      /\ UNCHANGED <<client, objects>>
  <2>1. n \in Nat /\ Len(objects) \in Nat
    BY TypesAre, ObjectsAre DEF IInv
  <2> QED BY <2>1 DEF Ask, Working, IInv, Deciding
<1>1. CASE Tell("limit") /\ Keep
  <2>1. "limit" \in Apart /\ told' = Append(told, "limit")
    BY <1>1 DEF Apart, Tell
  <2> QED BY <1>0, <1>1, <2>1, Kept
<1>2. CASE ReadAlone /\ Keep
  <2>1. PICK a \in Apart : told' = Append(told, a)
    BY <1>2 DEF Apart, ReadAlone, Tell
  <2> QED BY <1>0, <1>2, <2>1, Kept
<1>3. CASE ReadAlone /\ Discard("unavailable")
  <2>1. PICK a \in Apart : told' = Append(told, a)
    BY <1>3 DEF Apart, ReadAlone, Tell
  <2>2. "unavailable" \in {"idle", "unavailable"}
    OBVIOUS
  <2> QED BY <1>0, <1>3, <2>1, <2>2, Discarded
<1>4. CASE /\ git.alive
           /\ input' = [input EXCEPT !.items = Append(@, n + 1)]
           /\ caller' = [caller EXCEPT !.reader = "running", !.pc = "header"]
           /\ UNCHANGED <<threads, git, output, chunks, told>>
  <2> DEFINE x == n + 1
             items == Append(input.items, x)
  <2>0. UNCHANGED <<requests, writer, pump, git, output, chunks, told>>
    BY <1>4 DEF threads
  <2>1. input \in Queues /\ input.items \in Seq(Positions) /\ x \in Positions
    BY <1>0, TypesAre DEF IInv, Positions
  <2>2. items \in Seq(Positions)
    <3> HIDE DEF x
    <3> QED BY <2>1, AppendProperties
  <2>3. input' = [input EXCEPT !.items = items]
    BY <1>4
  <2>4. input' \in Queues /\ input'.items = items
    <3> HIDE DEF items
    <3> QED BY <2>1, <2>2, <2>3 DEF Queues
  <2>5. /\ caller' \in Callers /\ caller'.pc = "header" /\ caller'.unread = caller.unread
        /\ caller'.verdict = caller.verdict
    <3>1. caller' = Made("header", caller.next, caller.pending, caller.unread, "running",
                         caller.verdict, caller.drained)
      BY <1>4, TypesAre DEF IInv, Callers, Made
    <3>2. /\ caller.next \in Nat /\ caller.pending \in Seq(Nat) /\ caller.drained \in Nat
          /\ caller.verdict \in Verdicts \cup {Undecided} /\ caller.unread \in Seq(Token)
          /\ "header" \in Working
      BY TypesAre DEF IInv, Working
    <3> QED BY <3>1, <3>2 DEF Callers, Made
  <2>6. Types'
    <3>1. /\ Types /\ requests \in Queues /\ writer \in Writers /\ git \in Gits
          /\ output \in Seq(Token) /\ chunks \in Seq(Seq(Token))
          /\ pump \in Pumps /\ told \in Seq(Answers)
      BY TypesAre DEF IInv
    <3> QED BY <1>0, <2>0, <2>4, <2>5, <3>1, TypesMade
  <2>7. Asked = n /\ Asked' = Asked + 1 /\ Tokens' = Tokens
    BY <1>0, <2>0, <2>5 DEF Asked, Tokens
  <2>8. Requests' = Append(Requests, Asked + 1)
    <3> DEFINE i == input.items
    <3>1. /\ requests.items = <<>> /\ writer.hand = <<>>
      BY <1>0 DEF IInv, Alone
    <3>2. i \in Seq(Positions) /\ x \in Positions /\ Asked + 1 = x /\ <<>> \in Seq(Positions)
      BY <2>1, <2>7, EmptySeq
    <3>3. Requests = (i \o <<>>) \o <<>>
      BY <3>1 DEF Requests
    <3>4. Requests' = (Append(i, x) \o <<>>) \o <<>>
      BY <2>0, <2>4, <3>1 DEF Requests
    <3> HIDE DEF i, x
    <3>5. (Append(i, x) \o <<>>) \o <<>> = Append((i \o <<>>) \o <<>>, x)
      BY <3>2, RequestsMove
    <3> QED BY <3>2, <3>3, <3>4, <3>5
  <2>9. Flow(objects, n, "ask", Asked + 1, git.alive, Tokens, Append(Requests, Asked + 1))
    <3>1. n \in Nat /\ Asked \in Nat /\ n <= Asked /\ Tokens \in Seq(Token)
      BY <1>0, Holds DEF Held
    <3>2. Flow(objects, n, "ask", Asked, git.alive, Tokens, Requests)
      BY <1>0 DEF IInv, Streaming
    <3> HIDE DEF n
    <3> QED BY <3>1, <3>2, FlowAsks
  <2>10. Streaming'
    <3> DEFINE m == Asked + 1
    <3>1. Flow(objects, n, "header", m, git.alive, Tokens, Append(Requests, m))
      <4>1. Flow(objects, n, "ask", m, git.alive, Tokens, Append(Requests, m))
        BY <2>9
      <4> HIDE DEF m, n
      <4> QED BY <4>1, FlowPlace
    <3> QED BY <1>0, <2>0, <2>5, <2>7, <2>8, <3>1 DEF Streaming
  <2>11. Telling'
    BY <1>0, <2>0, <2>5 DEF Telling
  <2>12. Walking' /\ Alone' /\ Deciding' /\ caller'.pc \in Working
    BY <1>0, <2>0, <2>5 DEF IInv, Walking, Alone, Deciding, Working
  <2>13. IInv'
    BY <2>6, <2>10, <2>11, <2>12 DEF IInv
  <2>14. AsksNext
    <3>1. git.alive = TRUE
      BY <1>4, TypesAre DEF IInv
    <3> QED BY <1>0, <2>0, <2>5, <2>7, <3>1 DEF AsksNext, Seen
  <2> QED BY <2>13, <2>14 DEF Promised
<1> QED BY <1>1, <1>2, <1>3, <1>4 DEF Ask

\* The caller has taken an answer and asks for the next one.
LEMMA BackToAsk ==
    ASSUME Types, NEW u \in Seq(Token), caller' = [caller EXCEPT !.unread = u, !.pc = "ask"]
    PROVE  /\ caller' \in Callers /\ caller'.pc = "ask" /\ caller'.unread = u
           /\ caller'.next = caller.next /\ caller'.verdict = caller.verdict
<1>1. caller \in Callers
  BY TypesAre
<1>2. caller' = Made("ask", caller.next, caller.pending, u, caller.reader,
                     caller.verdict, caller.drained)
  BY <1>1 DEF Callers, Made
<1>3. /\ caller.next \in Nat /\ caller.pending \in Seq(Nat) /\ caller.drained \in Nat
      /\ caller.reader \in {"idle", "running", "unavailable"}
      /\ caller.verdict \in Verdicts \cup {Undecided} /\ "ask" \in Working
  BY TypesAre DEF Working
<1> QED BY <1>2, <1>3 DEF Callers, Made

LEMMA ReadHeaderKeeps ==
    ASSUME IInv, HistoryHeader
    PROVE  IInv' /\ Promised
<1> DEFINE n == Len(told)
           o == objects[Head(caller.unread)[1]]
<1>0. /\ client = "history" /\ caller.pc = "header" /\ caller.pc \in Working
      /\ caller.unread # <<>> /\ UNCHANGED <<client, objects>>
  BY DEF HistoryHeader, Working
<1>1. /\ HeaderOk /\ Head(caller.unread)[1] = n + 1 /\ n + 1 \in 1 .. Len(objects)
      /\ caller.unread[1] = <<n + 1, 0>>
  BY <1>0, HeaderIs
<1>2. o = objects[n + 1] /\ n < Len(objects)
  BY <1>0, <1>1 DEF IInv, Telling
<1>3. /\ Truth(objects[n + 1]) \in Answers
      /\ objects[n + 1].kind = "missing" => Truth(objects[n + 1]) = "none"
  BY <1>0, <1>1, TruthOfHistory DEF IInv
<1>4. \/ /\ o.kind = "missing" /\ Tell("none")
         /\ caller' = [caller EXCEPT !.unread = Take(1), !.pc = "ask"]
         /\ UNCHANGED <<threads, git, pipes>>
      \/ ReadAlone /\ Discard("idle")
      \/ Tell("limit") /\ Discard("idle")
      \/ /\ o.kind = "blob" /\ o.size <= Limit
         /\ caller' = [caller EXCEPT !.unread = Take(1), !.pc = "content"]
         /\ UNCHANGED <<threads, git, pipes, told>>
  BY <1>1 DEF HistoryHeader
<1>5. CASE /\ o.kind = "missing" /\ Tell("none")
           /\ caller' = [caller EXCEPT !.unread = Take(1), !.pc = "ask"]
           /\ UNCHANGED <<threads, git, pipes>>
  <2> DEFINE u == Rest(caller.unread, 1)
  <2>0. EndOf(objects, n + 1) = 0
    BY <1>2, <1>5 DEF EndOf
  <2>1. told' = Append(told, Truth(objects[Len(told) + 1]))
    BY <1>2, <1>3, <1>5 DEF Tell
  <2>2. 1 \in 1 .. Len(caller.unread) /\ 1 \in 0 .. Len(caller.unread)
    BY <1>0, FrontIs
  <2>3. u \in Seq(Token)
    BY <2>2, FrontOf DEF IInv
  <2>4. caller' = [caller EXCEPT !.unread = u, !.pc = "ask"]
    BY <1>5 DEF Take, Rest
  <2>5. /\ caller' \in Callers /\ caller'.pc = "ask" /\ caller'.unread = u
        /\ caller'.next = caller.next /\ caller'.verdict = caller.verdict
    <3> HIDE DEF u
    <3> QED BY <2>3, <2>4, BackToAsk DEF IInv
  <2>6. told' \in Seq(Answers)
    <3>1. told \in Seq(Answers)
      BY TypesAre DEF IInv
    <3> QED BY <1>3, <2>1, <3>1, AppendProperties
  <2>7. Elsewhere
    BY <1>0, <1>5 DEF Elsewhere, threads, pipes
  <2>8. Walking'
    BY <1>0 DEF Walking
  <2>9. /\ caller.unread[1] = <<Len(told) + 1, EndOf(objects, Len(told) + 1)>>
        /\ caller'.pc = IF client = "walk" THEN "fill" ELSE "ask"
        /\ caller.pc \in {"header", "content"}
    BY <1>0, <1>1, <2>0, <2>5
  <2> QED BY <2>1, <2>2, <2>5, <2>6, <2>7, <2>8, <2>9, Answered
<1>6. CASE ReadAlone /\ Discard("idle")
  <2>1. PICK a \in Apart : told' = Append(told, a)
    BY <1>6 DEF Apart, ReadAlone, Tell
  <2>2. "idle" \in {"idle", "unavailable"}
    OBVIOUS
  <2> QED BY <1>0, <1>2, <1>6, <2>1, <2>2, Discarded
<1>7. CASE Tell("limit") /\ Discard("idle")
  <2>1. "limit" \in Apart /\ told' = Append(told, "limit") /\ "idle" \in {"idle", "unavailable"}
    BY <1>7 DEF Apart, Tell
  <2> QED BY <1>0, <1>2, <1>7, <2>1, Discarded
<1>8. CASE /\ o.kind = "blob" /\ o.size <= Limit
           /\ caller' = [caller EXCEPT !.unread = Take(1), !.pc = "content"]
           /\ UNCHANGED <<threads, git, pipes, told>>
  <2>1. GoesOn /\ Elsewhere /\ UNCHANGED told
    BY <1>0, <1>8 DEF GoesOn, Elsewhere, threads, pipes
  <2>2. objects[Len(told) + 1].kind = "blob" /\ objects[Len(told) + 1].size <= Limit
    BY <1>2, <1>8
  <2> QED BY <1>0, <2>1, <2>2, ReadsOn
<1> QED BY <1>4, <1>5, <1>6, <1>7, <1>8

LEMMA ReadContentKeeps ==
    ASSUME IInv, HistoryContent
    PROVE  IInv' /\ Promised
<1> DEFINE n == Len(told)
           e == objects[n + 1].size + 1
<1>0. /\ client = "history" /\ caller.pc = "content" /\ caller.pc \in Working /\ Whole
      /\ UNCHANGED <<client, objects>>
  BY DEF HistoryContent, Working
<1>1. /\ e \in 1 .. Len(caller.unread)
      /\ caller.unread[e] = <<n + 1, EndOf(objects, n + 1)>>
      /\ Terminated /\ Head(caller.unread)[1] = n + 1
      /\ objects[Due].size + 1 = e
  BY <1>0, ContentIs
<1>2. n + 1 \in 1 .. Len(objects)
  BY <1>0, DueIs
<1>3. objects[n + 1].kind = "blob" /\ objects[n + 1].size <= Limit
  BY <1>0 DEF IInv, Telling
<1>4. Truth(objects[n + 1]) \in Answers /\ Truth(objects[n + 1]) = objects[n + 1].name
  BY <1>0, <1>2, <1>3, TruthOfHistory DEF IInv
<1>5. /\ Tell(objects[n + 1].name)
      /\ caller' = [caller EXCEPT !.unread = Take(objects[Due].size + 1), !.pc = "ask"]
      /\ UNCHANGED <<threads, git, pipes>>
  BY <1>1 DEF HistoryContent
<1> DEFINE u == Rest(caller.unread, e)
<1>6. told' = Append(told, Truth(objects[Len(told) + 1]))
  BY <1>4, <1>5 DEF Tell
<1>7. u \in Seq(Token)
  <2>1. e \in 0 .. Len(caller.unread)
    BY <1>1
  <2> HIDE DEF e
  <2> QED BY <2>1, FrontOf DEF IInv
<1>8. caller' = [caller EXCEPT !.unread = u, !.pc = "ask"]
  <2>1. Take(objects[Due].size + 1) = u
    BY <1>1 DEF Take, Rest
  <2> HIDE DEF u
  <2> QED BY <1>5, <2>1
<1>9. /\ caller' \in Callers /\ caller'.pc = "ask" /\ caller'.unread = u
      /\ caller'.next = caller.next /\ caller'.verdict = caller.verdict
  <2> HIDE DEF u
  <2> QED BY <1>7, <1>8, BackToAsk DEF IInv
<1>10. told' \in Seq(Answers)
  <2>1. told \in Seq(Answers)
    BY TypesAre DEF IInv
  <2> QED BY <1>4, <1>6, <2>1, AppendProperties
<1>11. Elsewhere
  BY <1>0, <1>5 DEF Elsewhere, threads, pipes
<1>12. Walking'
  BY <1>0 DEF Walking
<1>13. /\ caller.unread[e] = <<Len(told) + 1, EndOf(objects, Len(told) + 1)>>
       /\ e \in 1 .. Len(caller.unread)
       /\ caller'.pc = IF client = "walk" THEN "fill" ELSE "ask"
       /\ caller.pc \in {"header", "content"}
  BY <1>0, <1>1, <1>9
<1> HIDE DEF e
<1> QED BY <1>6, <1>9, <1>10, <1>11, <1>12, <1>13, Answered

LEMMA GiveUpKeeps ==
    ASSUME IInv, GiveUp
    PROVE  IInv' /\ Promised
<1>0. /\ client = "history" /\ caller.pc \in {"header", "content"} /\ caller.pc \in Working
      /\ UNCHANGED <<client, objects>>
  BY DEF GiveUp, Waiting, Working
<1>1. Len(told) < Len(objects)
  BY <1>0 DEF IInv, Telling
<1>2. CASE Tell("limit") /\ Discard("idle")
  <2>1. "limit" \in Apart /\ told' = Append(told, "limit") /\ "idle" \in {"idle", "unavailable"}
    BY <1>2 DEF Apart, Tell
  <2> QED BY <1>0, <1>1, <1>2, <2>1, Discarded
<1>3. CASE ReadAlone /\ Discard("unavailable")
  <2>1. PICK a \in Apart : told' = Append(told, a)
    BY <1>3 DEF Apart, ReadAlone, Tell
  <2>2. "unavailable" \in {"idle", "unavailable"}
    OBVIOUS
  <2> QED BY <1>0, <1>1, <1>3, <2>1, <2>2, Discarded
<1> QED BY <1>2, <1>3 DEF GiveUp

\* The caller is done, with a verdict.
LEMMA Finished ==
    ASSUME IInv, NEW v \in Verdicts,
           caller' = [caller EXCEPT !.pc = "done", !.verdict = v],
           UNCHANGED <<client, objects, requests, writer, pump, git, input, output, chunks, told>>
    PROVE  IInv' /\ caller'.verdict = v
<1>1. caller' \in Callers /\ caller'.pc = "done" /\ caller'.verdict = v
  <2>1. caller' = Made("done", caller.next, caller.pending, caller.unread, caller.reader,
                       v, caller.drained)
    BY TypesAre DEF IInv, Callers, Made
  <2>2. /\ caller.next \in Nat /\ caller.pending \in Seq(Nat) /\ caller.unread \in Seq(Token)
        /\ caller.reader \in {"idle", "running", "unavailable"} /\ caller.drained \in Nat
        /\ v \in Verdicts \cup {Undecided}
    BY TypesAre DEF IInv
  <2> QED BY <2>1, <2>2 DEF Callers, Made
<1>2. Types'
  <2>1. /\ Types /\ requests \in Queues /\ writer \in Writers /\ input \in Queues
        /\ git \in Gits /\ output \in Seq(Token) /\ chunks \in Seq(Seq(Token))
        /\ pump \in Pumps /\ told \in Seq(Answers)
    BY TypesAre DEF IInv
  <2> QED BY <1>1, <2>1, TypesMade
<1>3. caller'.pc \notin Working /\ caller'.verdict # Undecided
  BY <1>1, UndecidedIsNoVerdict DEF Working, Verdicts
<1> QED BY <1>1, <1>2, <1>3, Decided

LEMMA EndKeeps ==
    ASSUME IInv, End
    PROVE  IInv' /\ Promised
<1>1. /\ caller.verdict = Undecided /\ "end" \in Verdicts
      /\ caller' = [caller EXCEPT !.pc = "done", !.verdict = "end"]
      /\ UNCHANGED <<client, objects, requests, writer, pump, git, input, output, chunks, told>>
      /\ Len(told) = Len(objects)
  BY DEF End, IInv, Deciding, Working, Verdicts, threads, pipes
<1>2. IInv' /\ caller'.verdict = "end"
  BY <1>1, Finished
<1> QED BY <1>1, <1>2 DEF Promised, Decides

LEMMA CannotStartKeeps ==
    ASSUME IInv, CannotStart
    PROVE  IInv' /\ Promised
<1>0. UNCHANGED <<client, objects>>
  BY DEF CannotStart
<1>1. CASE /\ client = "history" /\ caller.pc = "ask" /\ Len(told) < Len(objects)
           /\ ReadAlone /\ Discard("unavailable")
  <2>1. PICK a \in Apart : told' = Append(told, a)
    BY <1>1 DEF Apart, ReadAlone, Tell
  <2>2. "unavailable" \in {"idle", "unavailable"} /\ caller.pc \in Working
    BY <1>1 DEF Working
  <2> QED BY <1>0, <1>1, <2>1, <2>2, Discarded
<1>2. CASE /\ caller.pc = "fill"
           /\ caller' = [caller EXCEPT !.pc = "done", !.verdict = "apart"]
           /\ UNCHANGED <<threads, git, pipes, told>>
  <2>1. /\ caller.verdict = Undecided /\ "apart" \in Verdicts
        /\ caller' = [caller EXCEPT !.pc = "done", !.verdict = "apart"]
        /\ UNCHANGED <<client, objects, requests, writer, pump, git, input, output, chunks, told>>
    BY <1>0, <1>2 DEF IInv, Deciding, Working, Verdicts, threads, pipes
  <2>2. IInv' /\ caller'.verdict = "apart"
    BY <2>1, Finished
  <2> QED BY <2>1, <2>2 DEF Promised, Decides
<1> QED BY <1>1, <1>2 DEF CannotStart

-----------------------------------------------------------------------------
(***************************************************************************)
(* The invariant.                                                          *)
(***************************************************************************)
LEMMA StartsRight == Init => IInv
<1> SUFFICES ASSUME Init PROVE IInv
  OBVIOUS
<1>1. /\ caller = Made(IF client = "walk" THEN "fill" ELSE "ask", 1, <<>>, <<>>, "idle", Undecided, 0)
      /\ requests = [items |-> <<>>, open |-> TRUE] /\ writer = [state |-> "none", hand |-> <<>>]
      /\ input = [items |-> <<>>, open |-> TRUE] /\ git = [alive |-> TRUE, out |-> <<>>]
      /\ output = <<>> /\ chunks = <<>> /\ pump = [run |-> TRUE, hand |-> <<>>] /\ told = <<>>
  BY DEF Init, NewReader, Made
<1>2. client \in {"walk", "history"} /\ objects \in IF client = "walk" THEN Walks ELSE Histories
  BY DEF Init
<1>3. /\ caller \in Callers /\ caller.pc = (IF client = "walk" THEN "fill" ELSE "ask")
      /\ caller.next = 1 /\ caller.pending = <<>> /\ caller.unread = <<>>
      /\ caller.verdict = Undecided /\ caller.pc \in Working
  <2>1. <<>> \in Seq(Nat) /\ <<>> \in Seq(Token) /\ {"fill", "ask"} \subseteq Working
    BY EmptySeq DEF Working
  <2> QED BY <1>1, <2>1 DEF Callers, Made
<1>4. Types
  <2>1. <<>> \in Seq(Token) /\ <<>> \in Seq(Positions) /\ <<>> \in Seq(Seq(Token))
        /\ <<>> \in Seq(Answers)
    BY EmptySeq
  <2>2. requests \in Queues /\ input \in Queues
    BY <1>1, <2>1 DEF Queues
  <2>3. /\ writer \in [state : {"none", "run", "gone"}, hand : Seq(Positions)]
        /\ git \in [alive : BOOLEAN, out : Seq(Token)] /\ pump \in [run : BOOLEAN, hand : Seq(Token)]
    BY <1>1, <2>1
  <2> QED BY <1>1, <1>2, <1>3, <2>1, <2>2, <2>3 DEF Types
<1>5. Len(told) = 0 /\ Len(objects) \in Nat
  BY <1>1, <1>4, ObjectsAre, EmptySeq
<1>6. Tokens = <<>> /\ Requests = <<>> /\ Asked = 0
  <2>1. Tokens = Line(<<>>, <<>>, <<>>, <<>>, <<>>)
    BY <1>1, <1>3 DEF Tokens, Line
  <2>2. Requests = (<<>> \o <<>>) \o <<>>
    BY <1>1 DEF Requests
  <2>3. <<>> \o <<>> = <<>>
    BY ConcatEmptySeq, EmptySeq
  <2>4. Asked = 0
    BY <1>2, <1>3, <1>5 DEF Asked
  <2> QED BY <2>1, <2>2, <2>3, <2>4, LineIsEmpty
<1>7. Streaming
  <2>1. Flow(objects, 0, caller.pc, 0, git.alive, <<>>, <<>>)
    BY <1>3, FreshFlow
  <2> QED BY <1>5, <1>6, <2>1 DEF Streaming
<1>8. Telling /\ Alone /\ Deciding
  BY <1>1, <1>3, <1>5 DEF Telling, Alone, Deciding
<1>9. Walking
  <2>1. Upto(0, 0) = <<>>
    BY UptoIs
  <2> QED BY <1>3, <1>5, <2>1 DEF Walking
<1> QED BY <1>4, <1>7, <1>8, <1>9 DEF IInv

LEMMA StandsStill ==
    ASSUME IInv, UNCHANGED vars
    PROVE  IInv' /\ Promised
<1>1. UNCHANGED <<client, objects, caller, requests, writer, pump, git, input, output, chunks, told>>
  BY DEF vars, threads, pipes
<1>2. Types'
  <2>1. /\ Types /\ caller \in Callers /\ requests \in Queues /\ writer \in Writers
        /\ input \in Queues /\ git \in Gits /\ output \in Seq(Token)
        /\ chunks \in Seq(Seq(Token)) /\ pump \in Pumps /\ told \in Seq(Answers)
    BY TypesAre DEF IInv
  <2> QED BY <1>1, <2>1, TypesMade
<1>3. SameCaller /\ Tokens' = Tokens /\ Requests' = Requests /\ Asked' = Asked
  BY <1>1 DEF SameCaller, Tokens, Requests, Asked
<1>4. IInv'
  BY <1>1, <1>2, <1>3, Carried
<1>5. Quiet
  BY <1>1, <1>3 DEF Quiet, Seen
<1> QED BY <1>4, <1>5 DEF Promised

LEMMA StepKeeps ==
    ASSUME IInv, [Next]_vars
    PROVE  IInv' /\ Promised
<1>1. CASE Queue
  BY <1>1, QueueKeeps
<1>2. CASE Pop
  BY <1>2, PopKeeps
<1>3. CASE WalkHeader
  BY <1>3, WalkHeaderKeeps
<1>4. CASE WalkContent
  BY <1>4, WalkContentKeeps
<1>5. CASE Receive
  BY <1>5, ReceiveKeeps
<1>6. CASE Drain
  BY <1>6, DrainKeeps
<1>7. CASE Stop
  BY <1>7, StopKeeps
<1>8. CASE Ask
  BY <1>8, AskKeeps
<1>9. CASE HistoryHeader
  BY <1>9, ReadHeaderKeeps
<1>10. CASE HistoryContent
  BY <1>10, ReadContentKeeps
<1>11. CASE GiveUp
  BY <1>11, GiveUpKeeps
<1>12. CASE End
  BY <1>12, EndKeeps
<1>13. CASE Writer
  BY <1>13, WriterKeeps
<1>14. CASE Pump
  BY <1>14, PumpKeeps
<1>15. CASE Git
  BY <1>15, GitKeeps
<1>16. CASE GitDies
  BY <1>16, GitDiesKeeps
<1>17. CASE CannotStart
  BY <1>17, CannotStartKeeps
<1>18. CASE UNCHANGED vars
  BY <1>18, StandsStill
<1> QED
  BY <1>1, <1>2, <1>3, <1>4, <1>5, <1>6, <1>7, <1>8, <1>9, <1>10, <1>11, <1>12, <1>13,
     <1>14, <1>15, <1>16, <1>17, <1>18 DEF Next, Caller

\* The tokens on their way to the caller and the requests behind them are one
\* stream, of the objects that follow those it was told of, in their order;
\* a caller without a verdict is never past it (CatFileBatch::read_header).
THEOREM StreamHolds == Spec => []IInv
<1>1. IInv /\ [Next]_vars => IInv'
  BY StepKeeps
<1> QED BY <1>1, StartsRight, PTL DEF Spec

-----------------------------------------------------------------------------
(***************************************************************************)
(* Every step is one of the promise, or none.                              *)
(***************************************************************************)
LEMMA UptoCut ==
    ASSUME NEW a \in Nat, NEW b \in Nat, NEW c \in Nat, a <= b, b <= c
    PROVE  b - a \in 0 .. Len(Upto(a, c)) /\ SubSeq(Upto(a, c), 1, b - a) = Upto(a, b)
<1>1. Len(Upto(a, c)) = c - a
  BY UptoIs
<1>2. SubSeq(Upto(a, c), 1, b - a) = [k \in 1 .. b - a |-> Upto(a, c)[k]]
  BY <1>1
<1>3. \A k \in 1 .. b - a : Upto(a, c)[k] = a + k
  BY DEF Upto
<1> QED BY <1>1, <1>2, <1>3 DEF Upto

LEMMA StepIsPromised ==
    ASSUME Wired, Wired', Promised, told \in Seq(Answers)
    PROVE  [Promise!Next]_(Promise!vars)
<1> DEFINE n == Len(told)
<1>0. /\ caller.verdict = Undecided => /\ OnTheWire = Upto(n, Seen)
                                       /\ n \in Nat /\ Seen \in Nat /\ Len(objects) \in Nat
                                       /\ n <= Seen /\ Seen <= Len(objects)
      /\ caller.verdict # Undecided => OnTheWire = <<>>
  BY DEF Wired
<1>1. /\ caller'.verdict = Undecided => /\ OnTheWire' = Upto(Len(told'), Seen')
                                        /\ Len(told') \in Nat /\ Seen' \in Nat
                                        /\ Len(told') <= Seen' /\ Seen' <= Len(objects')
      /\ caller'.verdict # Undecided => OnTheWire' = <<>>
  BY DEF Wired
<1>2. CASE Quiet
  <2>1. OnTheWire' = OnTheWire
    BY <1>0, <1>1, <1>2 DEF Quiet
  <2> QED BY <1>2, <2>1 DEF Quiet, Promise!vars
<1>3. CASE Breaks
  <2>1. \E m \in 0 .. Len(OnTheWire) : OnTheWire' = SubSeq(OnTheWire, 1, m)
    <3>1. CASE caller.verdict # Undecided
      <4>1. OnTheWire = <<>> /\ OnTheWire' = <<>>
        BY <1>0, <1>1, <1>3, <3>1 DEF Breaks
      <4>2. Len(<<>>) = 0 /\ SubSeq(<<>>, 1, 0) = <<>>
        OBVIOUS
      <4> QED BY <4>1, <4>2
    <3>2. CASE caller.verdict = Undecided
      <4> DEFINE s == Seen
                 t == Seen'
      <4>1. /\ OnTheWire = Upto(n, s) /\ OnTheWire' = Upto(n, t)
            /\ n \in Nat /\ s \in Nat /\ t \in Nat /\ n <= t /\ t <= s
        BY <1>0, <1>1, <1>3, <3>2 DEF Breaks
      <4> HIDE DEF n, s, t
      <4>2. t - n \in 0 .. Len(Upto(n, s)) /\ SubSeq(Upto(n, s), 1, t - n) = Upto(n, t)
        BY <4>1, UptoCut
      <4> QED BY <4>1, <4>2
    <3> QED BY <3>1, <3>2
  <2>2. Promise!Lose
    BY <1>3, <2>1 DEF Breaks, Promise!Lose
  <2> QED BY <2>2 DEF Promise!Next
<1>4. CASE AsksNext
  <2> DEFINE s == Seen
  <2>1. /\ OnTheWire = Upto(n, s) /\ OnTheWire' = Upto(n, s + 1)
        /\ n \in Nat /\ s \in Nat /\ n <= s /\ s + 1 <= Len(objects)
    BY <1>0, <1>1, <1>4 DEF AsksNext
  <2>2. OnTheWire' = Append(OnTheWire, s + 1) /\ Len(OnTheWire) = s - n
    <3> HIDE DEF n, s
    <3> QED BY <2>1, UptoGrows, UptoIs
  <2>3. Promise!Next1 = s + 1
    <3>1. Promise!Next1 = n + (s - n) + 1
      BY <2>2 DEF Promise!Next1
    <3> HIDE DEF n, s
    <3> QED BY <2>1, <3>1
  <2> HIDE DEF s
  <2>4. Promise!Ask
    BY <1>4, <2>1, <2>2, <2>3 DEF AsksNext, Promise!Ask
  <2> QED BY <2>4 DEF Promise!Next
<1>5. CASE TellsNext
  <2> DEFINE s == Seen
  <2>1. Len(told') = n + 1
    BY <1>5, AppendProperties DEF TellsNext
  <2>2. /\ OnTheWire = Upto(n, s) /\ OnTheWire' = Upto(n + 1, s)
        /\ n \in Nat /\ s \in Nat /\ n < s
    BY <1>0, <1>1, <1>5, <2>1 DEF TellsNext
  <2>3. OnTheWire # <<>> /\ Head(OnTheWire) = n + 1 /\ OnTheWire' = Tail(OnTheWire)
    <3> HIDE DEF n, s
    <3>1. n \in Nat /\ s \in Nat /\ n < s /\ n <= s /\ n # s
      BY <2>2
    <3>2. Upto(n, s) # <<>>
      BY <3>1, UptoIs
    <3>3. Head(Upto(n, s)) = n + 1 /\ Tail(Upto(n, s)) = Upto(n + 1, s)
      BY <3>1, UptoShrinks
    <3> QED BY <2>2, <3>2, <3>3
  <2>4. Promise!Tell
    BY <1>5, <2>3 DEF TellsNext, Promise!Tell
  <2> QED BY <2>4 DEF Promise!Next
<1>6. CASE TellsApart
  <2>1. Len(told') = n + 1 /\ n \in Nat
    <3>1. PICK a \in {Truth(objects[n + 1]), "limit"} : told' = Append(told, a)
      BY <1>6 DEF TellsApart
    <3> QED BY <1>0, <1>6, <3>1 DEF TellsApart
  <2>2. OnTheWire' = Upto(n + 1, n + 1)
    BY <1>1, <1>6, <2>1 DEF TellsApart
  <2>3. OnTheWire' = <<>>
    <3> HIDE DEF n
    <3> QED BY <2>1, <2>2, UptoIs
  <2>4. Promise!TellApart
    BY <1>6, <2>3 DEF TellsApart, Promise!TellApart
  <2> QED BY <2>4 DEF Promise!Next
<1>7. CASE Decides
  <2>1. caller'.verdict # Undecided
    BY <1>7, UndecidedIsNoVerdict DEF Decides
  <2>2. OnTheWire' = <<>>
    BY <1>1, <2>1
  <2>3. Promise!Conclude
    BY <1>7, <2>2 DEF Decides, Promise!Conclude
  <2> QED BY <2>3 DEF Promise!Next
<1> QED BY <1>2, <1>3, <1>4, <1>5, <1>6, <1>7 DEF Promised

LEMMA StartIsPromised == Init => Promise!Init
<1> SUFFICES ASSUME Init PROVE Promise!Init
  OBVIOUS
<1>1. IInv
  BY StartsRight
<1>2. caller.verdict = Undecided /\ git.alive = TRUE /\ told = <<>>
      /\ objects \in Walks \cup Histories
  BY DEF Init, NewReader
<1>3. OnTheWire = <<>>
  <2>1. OnTheWire = Upto(Len(told), Seen)
    BY <1>1, <1>2, WiredIs DEF Wired
  <2>2. Len(told) = 0 /\ Asked = 0 /\ Seen = 0
    BY <1>2 DEF Init, Asked, Seen
  <2>3. Upto(0, 0) = <<>>
    BY UptoIs
  <2> QED BY <2>1, <2>2, <2>3
<1> QED BY <1>2, <1>3 DEF Promise!Init

\* The pipelined reader implements reads of one object at a time, whatever the
\* batch, the pipes, the threads, a deadline and a dying Git do: an answer is
\* of the object it is given for, and the comparison's verdict is theirs.
THEOREM ReadsKeepTheirPromise == Spec => ReadsAsPromised
<1>1. IInv /\ IInv' /\ [Next]_vars => [Promise!Next]_(Promise!vars)
  <2> SUFFICES ASSUME IInv, IInv', [Next]_vars PROVE [Promise!Next]_(Promise!vars)
    OBVIOUS
  <2>1. Promised
    BY StepKeeps
  <2>2. IInv => Wired
    BY WiredIs
  <2>3. IInv' => Wired'
    BY <2>2, WiredIs, PTL
  <2>4. told \in Seq(Answers)
    BY DEF IInv, Types
  <2> QED BY <2>1, <2>2, <2>3, <2>4, StepIsPromised
<1> QED BY <1>1, StartIsPromised, StreamHolds, PTL DEF Spec, ReadsAsPromised, Promise!Spec

-----------------------------------------------------------------------------
(***************************************************************************)
(* No stage holds more than its room.                                      *)
(***************************************************************************)
Rooms == /\ Len(caller.pending) <= Window
         /\ Len(input.items) <= InputRoom
         /\ Len(output) <= OutputRoom
         /\ Len(chunks) <= Queued
         /\ Len(writer.hand) <= 1
         /\ faults \in 0 .. Faults

LEMMA RoomsAre ==
    ASSUME IInv
    PROVE  /\ Len(caller.pending) \in Nat /\ Len(input.items) \in Nat /\ Len(output) \in Nat
           /\ Len(chunks) \in Nat /\ Len(writer.hand) \in Nat
           /\ Window \in Nat /\ InputRoom \in Nat /\ OutputRoom \in Nat /\ Queued \in Nat
           /\ InputRoom >= 1 /\ OutputRoom >= 1 /\ Queued >= 1 /\ Window >= 1
           /\ caller \in Callers /\ input \in Queues /\ requests \in Queues
           /\ writer \in Writers /\ pump \in Pumps /\ git \in Gits
<1>1. /\ caller \in Callers /\ input \in Queues /\ requests \in Queues
      /\ writer \in Writers /\ pump \in Pumps /\ git \in Gits
      /\ caller.pending \in Seq(Nat) /\ input.items \in Seq(Positions)
      /\ output \in Seq(Token) /\ chunks \in Seq(Seq(Token)) /\ writer.hand \in Seq(Positions)
  BY TypesAre DEF IInv
<1>2. /\ Len(caller.pending) \in Nat /\ Len(input.items) \in Nat /\ Len(output) \in Nat
      /\ Len(chunks) \in Nat /\ Len(writer.hand) \in Nat
  BY <1>1, LenProperties
<1>3. /\ Window \in Nat \ {0} /\ InputRoom \in Nat \ {0} /\ OutputRoom \in Nat \ {0}
      /\ Queued \in Nat \ {0}
  BY RoomForOne
<1> QED BY <1>1, <1>2, <1>3

\* A shorter queue fits where a longer one did.
LEMMA Shorter ==
    ASSUME NEW S, NEW q \in Seq(S), q # <<>>
    PROVE  Len(Tail(q)) \in Nat /\ Len(Tail(q)) <= Len(q)
OBVIOUS

\* The caller leaves, goes elsewhere, or takes tokens: what it asked for stays.
LEMMA CallerKeepsRooms ==
    ASSUME IInv, Rooms, Len(caller'.pending) <= Window,
           input' = input \/ input' = [input EXCEPT !.open = FALSE],
           UNCHANGED <<output, writer, faults>>, Len(chunks') <= Queued
    PROVE  Rooms'
<1>1. input'.items = input.items
  BY RoomsAre DEF Queues
<1> QED BY <1>1 DEF Rooms

\* A reader that is discarded has empty pipes.
LEMMA DiscardedHasRoom ==
    ASSUME IInv, Rooms, NEW reader, Discard(reader), faults' \in 0 .. Faults
    PROVE  Rooms'
<1>1. caller'.pending = caller.pending
  BY RoomsAre DEF Discard, Callers
<1>2. /\ input'.items = <<>> /\ writer'.hand = <<>> /\ output' = <<>> /\ chunks' = <<>>
  BY DEF Discard, NewReader
<1>3. Len(<<>>) = 0
  OBVIOUS
<1> QED BY <1>1, <1>2, <1>3, RoomsAre DEF Rooms

LEMMA CommandHasRoom ==
    ASSUME IInv, Rooms, Caller \/ CannotStart
    PROVE  Rooms'
<1>0. /\ caller \in Callers /\ caller.pending \in Seq(Nat)
      /\ Len(caller.pending) \in Nat /\ Len(caller.pending) <= Window /\ Len(chunks) <= Queued
      /\ faults \in 0 .. Faults
  BY RoomsAre, TypesAre DEF Rooms, IInv
<1>1. ASSUME NEW v, NEW pc, Leave(v, pc), UNCHANGED <<output, writer, faults, chunks>>
      PROVE  Rooms'
  <2>1. caller'.pending = caller.pending
    BY <1>0, <1>1 DEF Leave, Callers
  <2>2. input' = input \/ input' = [input EXCEPT !.open = FALSE]
    BY <1>1 DEF Leave
  <2> QED BY <1>0, <1>1, <2>1, <2>2, CallerKeepsRooms
<1>2. CASE Queue
  <2>1. CASE UNCHANGED writer /\ \E v, pc : Leave(v, pc)
    <3>1. UNCHANGED <<output, chunks, faults>>
      BY <1>2 DEF Queue
    <3> QED BY <1>1, <2>1, <3>1
  <2>2. CASE /\ requests' = [requests EXCEPT !.items = Append(@, caller.next)]
             /\ writer' = [writer EXCEPT !.state = "run"]
             /\ caller' = [caller EXCEPT !.next = @ + 1,
                                         !.pending = Append(@, caller.next)]
             /\ UNCHANGED input
    <3>1. caller'.pending = Append(caller.pending, caller.next) /\ caller.next \in Nat
      BY <1>0, <2>2 DEF Callers
    <3>2. Len(caller'.pending) = Len(caller.pending) + 1
      BY <1>0, <3>1, AppendProperties
    <3>3. Len(caller.pending) < Window
      BY <1>2 DEF Queue, MayFill
    <3>4. writer'.hand = writer.hand
      BY <2>2, RoomsAre DEF Writers
    <3>5. UNCHANGED <<output, chunks, faults>>
      BY <1>2 DEF Queue
    <3> QED BY <1>0, <2>2, <3>2, <3>3, <3>4, <3>5, RoomsAre DEF Rooms
  <2> QED BY <1>2, <2>1, <2>2 DEF Queue
<1>3. CASE Pop
  <2>1. CASE Leave("clean", "drain")
    BY <1>1, <1>3, <2>1 DEF Pop
  <2>2. CASE Goto("header") /\ UNCHANGED <<requests, input>>
    <3>1. caller'.pending = caller.pending
      BY <1>0, <2>2 DEF Goto, Callers
    <3> QED BY <1>0, <1>3, <2>2, <3>1, CallerKeepsRooms DEF Pop
  <2> QED BY <1>3, <2>1, <2>2 DEF Pop
<1>4. CASE WalkHeader
  <2>1. CASE \E v, pc : Leave(v, pc)
    BY <1>1, <1>4, <2>1 DEF WalkHeader
  <2>2. CASE /\ caller' = [caller EXCEPT !.unread = Take(1), !.pc = "content"]
             /\ UNCHANGED <<requests, input>>
    <3>1. caller'.pending = caller.pending
      BY <1>0, <2>2 DEF Callers
    <3> QED BY <1>0, <1>4, <2>2, <3>1, CallerKeepsRooms DEF WalkHeader
  <2> QED BY <1>4, <2>1, <2>2 DEF WalkHeader
<1>5. CASE WalkContent
  <2>1. CASE \E v, pc : Leave(v, pc)
    BY <1>1, <1>5, <2>1 DEF WalkContent
  <2>2. CASE /\ caller' = [caller EXCEPT !.unread = Take(objects[Due].size + 1),
                                         !.pending = Tail(@), !.pc = "fill"]
             /\ UNCHANGED <<requests, input>>
    <3>1. caller'.pending = Tail(caller.pending)
      BY <1>0, <2>2 DEF Callers
    <3>2. caller.pending # <<>>
      <4>1. /\ caller.pc = "content" /\ caller.pc \in Working /\ client = "walk"
        BY <1>5 DEF WalkContent, Working
      <4> DEFINE n == Len(told)
                 m == caller.next - 1
      <4>2. caller.pending = Upto(n, m) /\ n + 1 < caller.next
        BY <4>1 DEF IInv, Walking
      <4>3. n \in Nat /\ m \in Nat /\ n <= m /\ n # m
        BY <4>2, TypesAre DEF IInv
      <4> HIDE DEF n, m
      <4> QED BY <4>2, <4>3, UptoIs
    <3>3. Len(Tail(caller.pending)) \in Nat /\ Len(Tail(caller.pending)) <= Len(caller.pending)
      BY <1>0, <3>2, Shorter
    <3>4. Len(caller'.pending) <= Window
      BY <1>0, <3>1, <3>3, RoomsAre
    <3>5. UNCHANGED <<input, output, writer, chunks, faults>>
      BY <1>5, <2>2 DEF WalkContent
    <3> QED BY <1>0, <3>4, <3>5, CallerKeepsRooms
  <2> QED BY <1>5, <2>1, <2>2 DEF WalkContent
<1>6. CASE Receive
  <2>1. CASE Leave("apart", "stop") /\ UNCHANGED <<chunks, told>>
    BY <1>1, <1>6, <2>1 DEF Receive
  <2>2. CASE /\ chunks # <<>>
             /\ caller' = [caller EXCEPT !.unread = @ \o Head(chunks)]
             /\ chunks' = Tail(chunks)
             /\ UNCHANGED <<requests, input, told>>
    <3>1. caller'.pending = caller.pending
      BY <1>0, <2>2 DEF Callers
    <3>2. Len(Tail(chunks)) \in Nat /\ Len(Tail(chunks)) <= Len(chunks)
      BY <2>2, TypesAre, Shorter DEF IInv
    <3>3. Len(chunks') <= Queued
      BY <1>0, <2>2, <3>2, RoomsAre
    <3> QED BY <1>0, <1>6, <2>2, <3>1, <3>3, CallerKeepsRooms DEF Receive
  <2> QED BY <1>6, <2>1, <2>2 DEF Receive
<1>7. CASE Drain
  <2>1. UNCHANGED <<input, output, writer, faults>>
    BY <1>7 DEF Drain, threads
  <2>2. caller'.pending = caller.pending
    BY <1>0, <1>7 DEF Drain, Goto, Callers
  <2>3. Len(chunks') <= Queued
    <3>1. CASE chunks # <<>> /\ chunks' = Tail(chunks)
      <4>1. Len(Tail(chunks)) \in Nat /\ Len(Tail(chunks)) <= Len(chunks)
        BY <3>1, TypesAre, Shorter DEF IInv
      <4> QED BY <1>0, <3>1, <4>1, RoomsAre
    <3>2. CASE UNCHANGED chunks
      BY <1>0, <3>2
    <3> QED BY <1>7, <3>1, <3>2 DEF Drain
  <2> QED BY <1>0, <2>1, <2>2, <2>3, CallerKeepsRooms
<1>8. CASE Stop
  <2>1. caller'.pending = caller.pending /\ UNCHANGED <<input, output, writer, chunks, faults>>
    BY <1>0, <1>8 DEF Stop, Goto, Callers, threads, pipes
  <2> QED BY <1>0, <2>1, CallerKeepsRooms
<1>9. ASSUME Keep, UNCHANGED faults PROVE Rooms'
  <2>1. caller'.pending = caller.pending /\ UNCHANGED <<input, output, writer, chunks>>
    BY <1>0, <1>9 DEF Keep, Goto, Callers, threads, pipes
  <2> QED BY <1>0, <1>9, <2>1, CallerKeepsRooms
<1>10. ASSUME NEW reader, Discard(reader), UNCHANGED faults PROVE Rooms'
  BY <1>0, <1>10, DiscardedHasRoom
<1>11. ASSUME NEW pc, NEW u, caller' = [caller EXCEPT !.unread = u, !.pc = pc],
              UNCHANGED <<threads, git, pipes, faults>>
       PROVE  Rooms'
  <2>1. caller'.pending = caller.pending /\ UNCHANGED <<input, output, writer, chunks, faults>>
    BY <1>0, <1>11 DEF Callers, threads, pipes
  <2> QED BY <1>0, <2>1, CallerKeepsRooms
<1>12. CASE Ask
  <2>1. CASE \E reader : Discard(reader)
    BY <1>10, <1>12, <2>1 DEF Ask
  <2>2. CASE Keep
    BY <1>9, <1>12, <2>2 DEF Ask
  <2>3. CASE /\ Len(input.items) < InputRoom
             /\ input' = [input EXCEPT !.items = Append(@, Len(told) + 1)]
             /\ caller' = [caller EXCEPT !.reader = "running", !.pc = "header"]
             /\ UNCHANGED <<threads, git, output, chunks, told>>
    <3>1. caller'.pending = caller.pending /\ UNCHANGED <<output, writer, chunks, faults>>
      BY <1>0, <1>12, <2>3 DEF Ask, Callers, threads
    <3>2. input'.items = Append(input.items, Len(told) + 1)
      BY <2>3, RoomsAre DEF Queues
    <3>3. input.items \in Seq(Nat) /\ Len(told) + 1 \in Nat
      <4>1. input.items \in Seq(Positions) /\ Len(told) \in Nat
        BY TypesAre DEF IInv
      <4>2. Positions \subseteq Nat
        BY DEF Positions
      <4>3. input.items \in Seq(Nat)
        BY <4>1, <4>2, Widened
      <4> QED BY <4>1, <4>3
    <3>4. Len(input'.items) = Len(input.items) + 1
      BY <3>2, <3>3, AppendProperties
    <3> QED BY <2>3, <3>1, <3>4, RoomsAre DEF Rooms
  <2> QED BY <1>12, <2>1, <2>2, <2>3 DEF Ask
<1>13. CASE HistoryHeader
  <2>1. CASE \E reader : Discard(reader)
    BY <1>10, <1>13, <2>1 DEF HistoryHeader
  <2>2. CASE /\ \E pc : caller' = [caller EXCEPT !.unread = Take(1), !.pc = pc]
             /\ UNCHANGED <<threads, git, pipes>>
    BY <1>11, <1>13, <2>2 DEF HistoryHeader
  <2> QED BY <1>13, <2>1, <2>2 DEF HistoryHeader
<1>14. CASE HistoryContent
  <2>1. CASE \E reader : Discard(reader)
    BY <1>10, <1>14, <2>1 DEF HistoryContent
  <2>2. CASE /\ caller' = [caller EXCEPT !.unread = Take(objects[Due].size + 1), !.pc = "ask"]
             /\ UNCHANGED <<threads, git, pipes>>
    BY <1>11, <1>14, <2>2 DEF HistoryContent
  <2> QED BY <1>14, <2>1, <2>2 DEF HistoryContent
<1>15. CASE GiveUp
  BY <1>10, <1>15 DEF GiveUp
<1>16. CASE End
  <2>1. caller'.pending = caller.pending /\ UNCHANGED <<input, output, writer, chunks, faults>>
    BY <1>0, <1>16 DEF End, Callers, threads, pipes
  <2> QED BY <1>0, <2>1, CallerKeepsRooms
<1>17. CASE CannotStart
  <2>1. faults' \in 0 .. Faults
    BY <1>0, <1>17, RoomForOne DEF CannotStart
  <2>2. CASE \E reader : Discard(reader)
    BY <2>1, <2>2, DiscardedHasRoom
  <2>3. CASE /\ caller' = [caller EXCEPT !.pc = "done", !.verdict = "apart"]
             /\ UNCHANGED <<threads, git, pipes, told>>
    <3>1. caller'.pending = caller.pending /\ UNCHANGED <<input, output, writer, chunks>>
      BY <1>0, <2>3 DEF Callers, threads, pipes
    <3> QED BY <2>1, <3>1 DEF Rooms
  <2> QED BY <1>17, <2>2, <2>3 DEF CannotStart
<1> QED
  BY <1>2, <1>3, <1>4, <1>5, <1>6, <1>7, <1>8, <1>12, <1>13, <1>14, <1>15, <1>16, <1>17
     DEF Caller

LEMMA OthersHaveRoom ==
    ASSUME IInv, Rooms, Writer \/ Pump \/ Git \/ GitDies
    PROVE  Rooms'
<1>0. /\ Len(input.items) \in Nat /\ Len(output) \in Nat /\ Len(chunks) \in Nat
      /\ input \in Queues /\ writer \in Writers /\ pump \in Pumps
      /\ input.items \in Seq(Positions) /\ writer.hand \in Seq(Positions)
      /\ output \in Seq(Token) /\ chunks \in Seq(Seq(Token)) /\ pump.hand \in Seq(Token)
      /\ Len(writer.hand) \in Nat
  BY RoomsAre, TypesAre DEF IInv
<1>1. CASE Writer
  <2>1. UNCHANGED <<caller, output, chunks, faults>>
    BY <1>1 DEF Writer
  <2>2. CASE /\ writer' = [writer EXCEPT !.hand = <<Head(requests.items)>>] /\ UNCHANGED input
    <3>1. writer'.hand = <<Head(requests.items)>>
      BY <1>0, <2>2 DEF Writers
    <3>2. Len(<<Head(requests.items)>>) = 1
      OBVIOUS
    <3> QED BY <2>1, <2>2, <3>1, <3>2 DEF Rooms
  <2>3. CASE /\ Len(input.items) < InputRoom
             /\ input' = [input EXCEPT !.items = @ \o writer.hand]
             /\ writer' = [writer EXCEPT !.hand = <<>>]
    <3>1. input'.items = input.items \o writer.hand
      BY <1>0, <2>3 DEF Queues
    <3>2. Len(input'.items) = Len(input.items) + Len(writer.hand)
      BY <1>0, <3>1, ConcatProperties
    <3>3. writer'.hand = <<>> /\ Len(<<>>) = 0
      BY <1>0, <2>3 DEF Writers
    <3>4. Len(input'.items) <= InputRoom
      <4>1. Len(writer.hand) <= 1 /\ InputRoom \in Nat
        BY RoomsAre DEF Rooms
      <4>2. Len(input.items) < InputRoom
        BY <2>3
      <4>3. Len(input.items) \in Nat /\ Len(writer.hand) \in Nat
        BY <1>0
      <4> DEFINE a == Len(input.items)
                 b == Len(writer.hand)
                 c == Len(input'.items)
      <4>4. a \in Nat /\ b \in Nat /\ a < InputRoom /\ b <= 1 /\ c = a + b
        BY <3>2, <4>1, <4>2, <4>3
      <4> HIDE DEF a, b, c
      <4>5. c <= InputRoom
        BY <4>1, <4>4
      <4> QED BY <4>5 DEF c
    <3>5. Len(writer'.hand) <= 1
      BY <3>3
    <3> QED BY <2>1, <3>4, <3>5 DEF Rooms
  <2>4. CASE /\ writer' = [state |-> "gone", hand |-> <<>>]
             /\ input' = [input EXCEPT !.open = FALSE]
    <3>1. input'.items = input.items /\ writer'.hand = <<>> /\ Len(<<>>) = 0
      BY <1>0, <2>4 DEF Queues
    <3> QED BY <2>1, <3>1 DEF Rooms
  <2> QED BY <1>1, <2>2, <2>3, <2>4 DEF Writer
<1>2. CASE Pump
  <2>1. UNCHANGED <<caller, input, writer, faults>>
    BY <1>2 DEF Pump
  <2>2. CASE output' = <<>> /\ UNCHANGED chunks
    <3>1. Len(<<>>) = 0
      OBVIOUS
    <3> QED BY <2>1, <2>2, <3>1, RoomsAre DEF Rooms
  <2>3. CASE /\ Len(chunks) < Queued
             /\ chunks' = Append(chunks, pump.hand)
             /\ UNCHANGED output
    <3>1. Len(chunks') = Len(chunks) + 1
      BY <1>0, <2>3, AppendProperties
    <3> QED BY <1>0, <2>1, <2>3, <3>1, RoomsAre DEF Rooms
  <2>4. CASE UNCHANGED <<output, chunks>>
    BY <2>1, <2>4 DEF Rooms
  <2> QED BY <1>2, <2>2, <2>3, <2>4 DEF Pump
<1>3. CASE Git
  <2>1. UNCHANGED <<caller, writer, chunks, faults>>
    BY <1>3 DEF Git, threads
  <2>2. CASE /\ input.items # <<>>
             /\ input' = [input EXCEPT !.items = Tail(@)] /\ UNCHANGED output
    <3>1. input'.items = Tail(input.items)
      BY <1>0, <2>2 DEF Queues
    <3>2. Len(Tail(input.items)) \in Nat /\ Len(Tail(input.items)) <= Len(input.items)
      BY <1>0, <2>2, Shorter
    <3> QED BY <1>0, <2>1, <2>2, <3>1, <3>2, RoomsAre DEF Rooms
  <2>3. CASE /\ git.out # <<>> /\ Len(output) < OutputRoom
             /\ output' = Append(output, Head(git.out)) /\ UNCHANGED input
    <3>1. Head(git.out) \in Token
      BY <2>3, TypesAre DEF IInv
    <3>2. Len(output') = Len(output) + 1
      BY <1>0, <2>3, <3>1, AppendProperties
    <3> QED BY <1>0, <2>1, <2>3, <3>2, RoomsAre DEF Rooms
  <2>4. CASE UNCHANGED <<input, output>>
    BY <2>1, <2>4 DEF Rooms
  <2> QED BY <1>3, <2>2, <2>3, <2>4 DEF Git
<1>4. CASE GitDies
  <2>1. UNCHANGED <<caller, input, output, chunks, writer>> /\ faults' \in 0 .. Faults
    BY <1>4, RoomForOne DEF GitDies, threads, pipes, Rooms
  <2> QED BY <2>1 DEF Rooms
<1> QED BY <1>1, <1>2, <1>3, <1>4

\* No pipe, channel or window ever holds more than its room: the raw
\* comparison's requests wait in the window, not in a pipe (RAW_WINDOW).
THEOREM PipesKeepTheirRooms == Spec => []TypeOK
<1>1. Init => Rooms
  <2>1. Len(<<>>) = 0
    OBVIOUS
  <2> QED BY <2>1, RoomForOne DEF Init, NewReader, Rooms
<1>2. IInv /\ Rooms /\ [Next]_vars => Rooms'
  <2>1. ASSUME IInv, Rooms, UNCHANGED vars PROVE Rooms'
    BY <2>1 DEF vars, threads, pipes, Rooms
  <2> QED BY <2>1, CommandHasRoom, OthersHaveRoom DEF Next
<1>3. IInv /\ Rooms => TypeOK
  <2> SUFFICES ASSUME IInv, Rooms PROVE TypeOK
    OBVIOUS
  <2>1. /\ client \in {"walk", "history"}
        /\ caller.pc \in Working \cup {"drain", "stop", "done"}
        /\ caller.verdict \in Verdicts \cup {Undecided}
        /\ caller.reader \in {"idle", "running", "unavailable"}
        /\ writer \in Writers /\ git \in Gits /\ pump \in Pumps
    BY TypesAre DEF IInv
  <2> QED BY <2>1 DEF TypeOK, Rooms, Working, Verdicts, Writers, Gits, Pumps
<1> QED BY <1>1, <1>2, <1>3, StreamHolds, PTL DEF Spec
=============================================================================
