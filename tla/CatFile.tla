------------------------------- MODULE CatFile -------------------------------
(***************************************************************************)
(* One long-running `git cat-file --batch` process and its two users.  The *)
(* raw comparison keeps many requests ahead of the answers, and a writer   *)
(* thread sends them, so that no pipe size makes both sides wait.  The     *)
(* historical reader sends one request at a time, under a limit and a      *)
(* deadline, and discards the process whenever an answer is not read to    *)
(* its end.  A third thread moves Git's output into a bounded channel.     *)
(*                                                                         *)
(* The streams carry tokens <<i, part>>: answer i is its header (part 0)   *)
(* and, for an object with content, one token per unit of size and the     *)
(* line feed.  The caller counts tokens as the code counts bytes; which    *)
(* object a token belongs to is known to the model only.                   *)
(***************************************************************************)
EXTENDS Integers, Sequences, SequencesExt

CONSTANTS
    Walks,      \* sequences of index entries the raw comparison may meet
    Histories,  \* sequences of objects a history may read
    Window,     \* RAW_WINDOW: entries requested ahead of their answers
    InputRoom,  \* requests the input pipe holds
    OutputRoom, \* tokens the output pipe holds
    Queued,     \* QUEUED_CHUNKS: chunks the channel holds
    DrainLimit, \* DRAIN_LIMIT: unread tokens read before Git is stopped
    Limit,      \* the size a historical read accepts
    Faults,     \* bound on Git processes that die
    Undecided   \* no verdict yet

ASSUME RoomForOne == /\ {Window, InputRoom, OutputRoom, Queued} \subseteq Nat \ {0}
                     /\ {DrainLimit, Limit, Faults} \subseteq Nat

\* A batch is a sequence of objects, each with what a reader tells apart.
Batch(b, use) ==
    /\ b \in Seq({b[i] : i \in DOMAIN b})
    /\ \A i \in DOMAIN b : /\ b[i].use = use
                           /\ b[i].kind \in {"blob", "missing", "other"}
                           /\ b[i].size \in Nat
                           /\ b[i].local \in {"fits", "changed"}

ASSUME BatchesAreObjects == /\ \A b \in Walks : Batch(b, "walk")
                            /\ \A b \in Histories : Batch(b, "history")

ASSUME UndecidedIsNoVerdict == Undecided \notin {"clean", "dirty", "apart", "end"}

VARIABLES
    client,   \* "walk" or "history"
    objects,  \* what it reads, in order
    caller,   \* the calling thread
    requests, \* queue: the channel to the writer thread, [items, open]
    writer,   \* the writer thread: "none", "run" or "gone", and the line in hand
    input,    \* Git's stdin: requests written, and whether it is open
    git,      \* the process: alive, and the tokens it has yet to write
    output,   \* Git's stdout
    pump,     \* the stdout thread: running, and the chunk in hand
    chunks,   \* the bounded channel
    told,     \* the answers the caller has, in order
    faults

threads == <<requests, writer, pump>>
pipes == <<input, output, chunks>>
vars == <<client, objects, caller, threads, git, pipes, told, faults>>

Min2(a, b) == IF a < b THEN a ELSE b

\* The tokens of answer i: a header, the content and its line feed.
Response(i) ==
    IF objects[i].kind = "missing" THEN << <<i, 0>> >>
    ELSE [k \in 1..(objects[i].size + 2) |-> <<i, k - 1>>]

\* What a read of one object alone tells.  A tag peels to its blob there.
Truth(o) ==
    CASE o.use = "walk" ->
            IF o.kind = "missing" \/ o.local = "changed" \/ o.differs # "no"
            THEN "differs" ELSE "same"
      [] o.use = "history" /\ o.kind = "missing" -> "none"
      [] o.use = "history" /\ o.kind # "missing" /\ o.size > Limit -> "limit"
      [] OTHER -> o.name

NewReader == [requests |-> [items |-> <<>>, open |-> TRUE],
              writer   |-> [state |-> "none", hand |-> <<>>],
              input    |-> [items |-> <<>>, open |-> TRUE],
              git      |-> [alive |-> TRUE, out |-> <<>>],
              output   |-> <<>>, chunks |-> <<>>,
              pump     |-> [run |-> TRUE, hand |-> <<>>]]

Init ==
    /\ \/ client = "walk" /\ objects \in Walks
       \/ client = "history" /\ objects \in Histories
    /\ caller = [pc |-> IF client = "walk" THEN "fill" ELSE "ask", next |-> 1,
                 pending |-> <<>>, unread |-> <<>>, reader |-> "idle",
                 verdict |-> Undecided, drained |-> 0]
    /\ requests = NewReader.requests /\ writer = NewReader.writer
    /\ input = NewReader.input /\ git = NewReader.git
    /\ output = <<>> /\ chunks = <<>> /\ pump = NewReader.pump
    /\ told = <<>> /\ faults = 0

Goto(pc) == caller' = [caller EXCEPT !.pc = pc]

\* The caller is done with the comparison and drops the reader, which closes
\* the input after the requests already queued.
Leave(verdict, pc) ==
    /\ caller' = [caller EXCEPT !.verdict = verdict, !.pc = pc]
    /\ requests' = [requests EXCEPT !.open = FALSE]
    /\ input' = IF writer.state = "none" THEN [input EXCEPT !.open = FALSE] ELSE input

(***************************************************************************)
(* The raw comparison (index_entries_differ_batched).                      *)
(***************************************************************************)
MayFill == /\ caller.next <= Len(objects)
           /\ Len(caller.pending) < Window

\* A mutant: the caller writes its requests itself, as `send` does.
QueueBySending ==
    /\ client = "walk" /\ caller.pc = "fill" /\ MayFill
    /\ objects[caller.next].local = "fits"
    /\ Len(input.items) < InputRoom \/ ~git.alive
    /\ input' = [input EXCEPT !.items = IF git.alive THEN Append(@, caller.next) ELSE @]
    /\ caller' = [caller EXCEPT !.next = @ + 1, !.pending = Append(@, caller.next)]
    /\ UNCHANGED <<client, objects, requests, writer, pump, git, output, chunks, told, faults>>

\* The checks of an entry that need no object, then the request for it.
Queue ==
    /\ client = "walk" /\ caller.pc = "fill" /\ MayFill
    /\ \/ /\ objects[caller.next].local = "changed"
          /\ Leave("dirty", "drain") /\ UNCHANGED writer
       \/ /\ objects[caller.next].local = "fits" /\ writer.state # "gone"
          /\ requests' = [requests EXCEPT !.items = Append(@, caller.next)]
          /\ writer' = [writer EXCEPT !.state = "run"]
          /\ caller' = [caller EXCEPT !.next = @ + 1,
                                      !.pending = Append(@, caller.next)]
          /\ UNCHANGED input
       \/ /\ objects[caller.next].local = "fits" /\ writer.state = "gone"
          /\ Leave("apart", "stop") /\ UNCHANGED writer
    /\ UNCHANGED <<client, objects, pump, git, output, chunks, told, faults>>

Pop ==
    /\ client = "walk" /\ caller.pc = "fill" /\ ~MayFill
    /\ IF caller.pending = <<>> THEN Leave("clean", "drain")
       ELSE Goto("header") /\ UNCHANGED <<requests, input>>
    /\ UNCHANGED <<client, objects, writer, pump, git, output, chunks, told, faults>>

\* The object whose answer is due.
Due == IF client = "walk" THEN Head(caller.pending) ELSE Len(told) + 1

Take(n) == SubSeq(caller.unread, n + 1, Len(caller.unread))

\* read_header: an answer that a line feed or content begins is refused, a
\* missing one must name the request, an object need not.
HeaderOk == LET token == Head(caller.unread)
            IN  token[2] = 0 /\ (objects[token[1]].kind = "missing" => token[1] = Due)

WalkHeader ==
    /\ client = "walk" /\ caller.pc = "header" /\ caller.unread # <<>>
    /\ LET o == objects[Head(caller.unread)[1]]
       IN  \/ ~HeaderOk /\ Leave("apart", "stop")
           \/ HeaderOk /\ o.kind = "missing" /\ Leave("dirty", "drain")
           \/ HeaderOk /\ o.kind = "other" /\ Leave("apart", "drain")
           \/ HeaderOk /\ o.kind = "blob" /\ objects[Due].differs = "size"
                /\ Leave("dirty", "drain")
           \/ /\ HeaderOk /\ o.kind = "blob" /\ objects[Due].differs # "size"
              /\ caller' = [caller EXCEPT !.unread = Take(1), !.pc = "content"]
              /\ UNCHANGED <<requests, input>>
    /\ UNCHANGED <<client, objects, writer, pump, git, output, chunks, told, faults>>

\* read_content: as many tokens as the header announced, and a line feed.
Whole == Len(caller.unread) > objects[Due].size

Terminated == LET end == caller.unread[objects[Due].size + 1]
              IN  end[2] = objects[end[1]].size + 1

WalkContent ==
    /\ client = "walk" /\ caller.pc = "content" /\ Whole
    /\ LET of == Head(caller.unread)[1]
       IN  \/ ~Terminated /\ Leave("apart", "stop") /\ UNCHANGED told
           \/ /\ Terminated /\ (of # Due \/ objects[Due].differs # "no")
              /\ Leave("dirty", "drain") /\ UNCHANGED told
           \/ /\ Terminated /\ of = Due /\ objects[Due].differs = "no"
              /\ told' = Append(told, "same")
              /\ caller' = [caller EXCEPT !.unread = Take(objects[Due].size + 1),
                                          !.pending = Tail(@), !.pc = "fill"]
              /\ UNCHANGED <<requests, input>>
    /\ UNCHANGED <<client, objects, writer, pump, git, output, chunks, faults>>

Waiting == \/ caller.pc = "header" /\ caller.unread = <<>>
           \/ caller.pc = "content" /\ ~Whole

\* receive: one more chunk, or the end of the output.
Receive ==
    /\ Waiting
    /\ \/ /\ chunks # <<>>
          /\ caller' = [caller EXCEPT !.unread = @ \o Head(chunks)]
          /\ chunks' = Tail(chunks)
          /\ UNCHANGED <<requests, input, told>>
       \/ /\ chunks = <<>> /\ ~pump.run /\ client = "walk"
          /\ Leave("apart", "stop") /\ UNCHANGED <<chunks, told>>
    /\ UNCHANGED <<client, objects, writer, pump, git, output, faults>>

(***************************************************************************)
(* Dropping the comparison's reader.  It stays in its caller's group and   *)
(* reads to the end of the output, unless the stream is broken or long.    *)
(***************************************************************************)
Drain ==
    /\ caller.pc = "drain"
    /\ \/ /\ chunks # <<>> /\ caller.drained + Len(Head(chunks)) <= DrainLimit
          /\ chunks' = Tail(chunks)
          /\ caller' = [caller EXCEPT !.drained = @ + Len(Head(chunks))]
          /\ UNCHANGED git
       \/ /\ chunks # <<>> /\ caller.drained + Len(Head(chunks)) > DrainLimit
          /\ chunks' = Tail(chunks) /\ Goto("stop") /\ UNCHANGED git
       \/ /\ chunks = <<>> /\ ~pump.run /\ ~git.alive
          /\ Goto("done") /\ UNCHANGED <<git, chunks>>
    /\ UNCHANGED <<client, objects, threads, input, output, told, faults>>

Stop ==
    /\ caller.pc = "stop"
    /\ git' = [alive |-> FALSE, out |-> <<>>]
    /\ Goto("done")
    /\ UNCHANGED <<client, objects, threads, pipes, told, faults>>

(***************************************************************************)
(* The historical reader (batched_historical_blob): its process is its own *)
(* group and is discarded as a whole.                                      *)
(***************************************************************************)
Discard(reader) ==
    /\ caller' = [caller EXCEPT !.pc = "ask", !.unread = <<>>, !.reader = reader]
    /\ requests' = NewReader.requests /\ writer' = NewReader.writer
    /\ input' = NewReader.input /\ git' = NewReader.git
    /\ output' = <<>> /\ chunks' = <<>> /\ pump' = NewReader.pump

Keep == /\ Goto("ask") /\ UNCHANGED <<threads, git, pipes>>

Tell(a) == told' = Append(told, a)

\* The answer of a read of the object alone, in what is left of the deadline.
ReadAlone == \E a \in {Truth(objects[Len(told) + 1]), "limit"} : Tell(a)

Ask ==
    LET i == Len(told) + 1
    IN  /\ client = "history" /\ caller.pc = "ask" /\ i <= Len(objects)
        /\ \/ Tell("limit") /\ Keep  \* the deadline has passed
           \/ caller.reader = "unavailable" /\ ReadAlone /\ Keep
           \/ /\ caller.reader # "unavailable" /\ git.alive
              /\ Len(input.items) < InputRoom
              /\ input' = [input EXCEPT !.items = Append(@, i)]
              /\ caller' = [caller EXCEPT !.reader = "running", !.pc = "header"]
              /\ UNCHANGED <<threads, git, output, chunks, told>>
           \/ /\ caller.reader = "running" /\ ~git.alive  \* the write fails
              /\ ReadAlone /\ Discard("unavailable")
        /\ UNCHANGED <<client, objects, faults>>

\* Git cannot be started: every object is read alone.
CannotStart ==
    /\ caller.reader = "idle" /\ faults < Faults /\ faults' = faults + 1
    /\ \/ /\ client = "history" /\ caller.pc = "ask" /\ Len(told) < Len(objects)
          /\ ReadAlone /\ Discard("unavailable")
       \/ /\ client = "walk" /\ caller.pc = "fill" /\ caller.next = 1
          /\ caller' = [caller EXCEPT !.pc = "done", !.verdict = "apart"]
          /\ UNCHANGED <<threads, git, pipes, told>>
    /\ UNCHANGED <<client, objects>>

\* A mutant: a reader whose object was refused is used again.
HistoryHeaderKeeps ==
    /\ client = "history" /\ caller.pc = "header" /\ caller.unread # <<>>
    /\ LET o == objects[Head(caller.unread)[1]]
       IN  \/ ~HeaderOk /\ ReadAlone /\ Discard("unavailable")
           \/ HeaderOk /\ o.kind = "missing" /\ Tell("none")
                /\ caller' = [caller EXCEPT !.unread = Take(1), !.pc = "ask"]
                /\ UNCHANGED <<threads, git, pipes>>
           \/ HeaderOk /\ o.kind = "other" /\ ReadAlone /\ Discard("idle")
           \/ HeaderOk /\ o.kind = "blob" /\ o.size > Limit /\ Tell("limit")
                /\ caller' = [caller EXCEPT !.unread = Take(Min2(Len(@), o.size + 2)),
                                            !.pc = "ask"]
                /\ UNCHANGED <<threads, git, pipes>>
           \/ /\ HeaderOk /\ o.kind = "blob" /\ o.size <= Limit
              /\ caller' = [caller EXCEPT !.unread = Take(1), !.pc = "content"]
              /\ UNCHANGED <<threads, git, pipes, told>>
    /\ UNCHANGED <<client, objects, faults>>

HistoryHeader ==
    /\ client = "history" /\ caller.pc = "header" /\ caller.unread # <<>>
    /\ LET o == objects[Head(caller.unread)[1]]
       IN  \/ ~HeaderOk /\ ReadAlone /\ Discard("unavailable")
           \/ HeaderOk /\ o.kind = "missing" /\ Tell("none")
                /\ caller' = [caller EXCEPT !.unread = Take(1), !.pc = "ask"]
                /\ UNCHANGED <<threads, git, pipes>>
           \/ HeaderOk /\ o.kind = "other" /\ ReadAlone /\ Discard("idle")
           \/ HeaderOk /\ o.kind = "blob" /\ o.size > Limit
                /\ Tell("limit") /\ Discard("idle")
           \/ /\ HeaderOk /\ o.kind = "blob" /\ o.size <= Limit
              /\ caller' = [caller EXCEPT !.unread = Take(1), !.pc = "content"]
              /\ UNCHANGED <<threads, git, pipes, told>>
    /\ UNCHANGED <<client, objects, faults>>

HistoryContent ==
    /\ client = "history" /\ caller.pc = "content" /\ Whole
    /\ \/ /\ Terminated /\ Tell(objects[Head(caller.unread)[1]].name)
          /\ caller' = [caller EXCEPT !.unread = Take(objects[Due].size + 1),
                                      !.pc = "ask"]
          /\ UNCHANGED <<threads, git, pipes>>
       \/ ~Terminated /\ ReadAlone /\ Discard("unavailable")
    /\ UNCHANGED <<client, objects, faults>>

\* A wait ends with the deadline, or with the output of a process that died.
GiveUp ==
    /\ client = "history" /\ Waiting
    /\ \/ Tell("limit") /\ Discard("idle")
       \/ chunks = <<>> /\ ~pump.run /\ ReadAlone /\ Discard("unavailable")
    /\ UNCHANGED <<client, objects, faults>>

End ==
    /\ client = "history" /\ caller.pc = "ask" /\ Len(told) = Len(objects)
    /\ caller' = [caller EXCEPT !.pc = "done", !.verdict = "end"]
    /\ UNCHANGED <<client, objects, threads, git, pipes, told, faults>>

(***************************************************************************)
(* The writer thread, the stdout thread and Git.                           *)
(***************************************************************************)
Writer ==
    /\ writer.state = "run"
    /\ \/ /\ writer.hand = <<>> /\ requests.items # <<>>
          /\ writer' = [writer EXCEPT !.hand = <<Head(requests.items)>>]
          /\ requests' = [requests EXCEPT !.items = Tail(@)]
          /\ UNCHANGED input
       \/ /\ writer.hand # <<>> /\ git.alive /\ Len(input.items) < InputRoom
          /\ input' = [input EXCEPT !.items = @ \o writer.hand]
          /\ writer' = [writer EXCEPT !.hand = <<>>]
          /\ UNCHANGED requests
       \/ /\ \/ writer.hand # <<>> /\ ~git.alive
             \/ writer.hand = <<>> /\ requests = [items |-> <<>>, open |-> FALSE]
          /\ writer' = [state |-> "gone", hand |-> <<>>]
          /\ input' = [input EXCEPT !.open = FALSE]
          /\ UNCHANGED requests
    /\ UNCHANGED <<client, objects, caller, pump, git, output, chunks, told, faults>>

Pump ==
    /\ pump.run
    /\ \/ /\ pump.hand = <<>> /\ output # <<>>
          /\ pump' = [pump EXCEPT !.hand = output] /\ output' = <<>>
          /\ UNCHANGED chunks
       \/ /\ pump.hand # <<>> /\ Len(chunks) < Queued
          /\ chunks' = Append(chunks, pump.hand)
          /\ pump' = [pump EXCEPT !.hand = <<>>] /\ UNCHANGED output
       \/ /\ pump.hand = <<>> /\ output = <<>> /\ ~git.alive
          /\ pump' = [pump EXCEPT !.run = FALSE] /\ UNCHANGED <<output, chunks>>
    /\ UNCHANGED <<client, objects, caller, requests, writer, input, git, told, faults>>

Git ==
    /\ git.alive
    /\ \/ /\ git.out = <<>> /\ input.items # <<>>
          /\ git' = [git EXCEPT !.out = Response(Head(input.items))]
          /\ input' = [input EXCEPT !.items = Tail(@)] /\ UNCHANGED output
       \/ /\ git.out # <<>> /\ Len(output) < OutputRoom
          /\ output' = Append(output, Head(git.out))
          /\ git' = [git EXCEPT !.out = Tail(@)] /\ UNCHANGED input
       \/ /\ git.out = <<>> /\ input = [items |-> <<>>, open |-> FALSE]
          /\ git' = [git EXCEPT !.alive = FALSE] /\ UNCHANGED <<input, output>>
    /\ UNCHANGED <<client, objects, caller, threads, chunks, told, faults>>

GitDies ==
    /\ git.alive /\ caller.pc # "done" /\ faults < Faults
    /\ caller.reader = "running" \/ client = "walk"
    /\ git' = [alive |-> FALSE, out |-> <<>>]
    /\ faults' = faults + 1
    /\ UNCHANGED <<client, objects, caller, threads, pipes, told>>

Caller == \/ Queue \/ Pop \/ WalkHeader \/ WalkContent \/ Receive \/ Drain \/ Stop
          \/ Ask \/ HistoryHeader \/ HistoryContent \/ GiveUp \/ End

Next == Caller \/ Writer \/ Pump \/ Git \/ GitDies \/ CannotStart

\* Every thread and Git run on; a deadline may come but need not.
Fairness == /\ WF_vars(Caller) /\ WF_vars(Writer) /\ WF_vars(Pump) /\ WF_vars(Git)

Spec == Init /\ [][Next]_vars
FairSpec == Spec /\ Fairness

-----------------------------------------------------------------------------
\* Every pipe and every channel holds no more than its room.
TypeOK ==
    /\ client \in {"walk", "history"}
    /\ caller.pc \in {"fill", "header", "content", "drain", "stop", "ask", "done"}
    /\ caller.verdict \in {Undecided, "clean", "dirty", "apart", "end"}
    /\ caller.reader \in {"idle", "running", "unavailable"}
    /\ Len(caller.pending) <= Window
    /\ Len(input.items) <= InputRoom
    /\ Len(output) <= OutputRoom
    /\ Len(chunks) <= Queued
    /\ writer.state \in {"none", "run", "gone"} /\ Len(writer.hand) <= 1
    /\ git.alive \in BOOLEAN /\ pump.run \in BOOLEAN
    /\ faults \in 0..Faults

\* Everything a command asked of its reader comes to an end: the comparison,
\* the history, and dropping a reader with answers still unread, however
\* small the pipes are and whenever Git dies (CatFileBatch::queue: "neither
\* side waits on the other, whatever the pipe capacity").
ReadsEnd == <>(caller.pc = "done")

(***************************************************************************)
(* The promise.  What is outstanding is read off the stages between the    *)
(* writer and the caller: tokens on their way, then requests.  A dead Git  *)
(* answers no request it has not written about.                            *)
(***************************************************************************)
Tokens == caller.unread \o FlattenSeq(chunks) \o pump.hand \o output \o git.out

\* The answers the tokens belong to, from the first token's to the last one's.
Answering ==
    LET tokens == Tokens
        first == Head(tokens)[1]
        last == tokens[Len(tokens)][1]
    IN  IF tokens = <<>> THEN <<>> ELSE [k \in 1 .. last - first + 1 |-> first + k - 1]

OnTheWire == IF caller.verdict # Undecided THEN <<>>
             ELSE IF git.alive
                  THEN Answering \o input.items \o writer.hand \o requests.items
                  ELSE Answering

Promise == INSTANCE ObjectReads
               WITH None <- Undecided, Batches <- Walks \cup Histories, verdict <- caller.verdict,
                    outstanding <- OnTheWire, lost <- ~git.alive

\* The pipelined reader implements reads of one object at a time: whatever
\* the pipes, the threads, a deadline and a dying Git do, an answer is of the
\* object it is given for, and the comparison's verdict is theirs.
ReadsAsPromised == Promise!Spec
=============================================================================
