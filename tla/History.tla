------------------------------- MODULE History -------------------------------
(***************************************************************************)
(* The bounded search of local Git history for bytes that a review read:   *)
(* one input in the recorded commit and in recent ones (lookup), one       *)
(* commit that covers a whole manifest (coverage), and every input of a    *)
(* manifest at one named commit, in rounds (cover_at).                     *)
(*                                                                         *)
(* A read is one step.  What carries it is left out: it may fail, and the  *)
(* deadline may pass before it.  A hash is the content itself.             *)
(***************************************************************************)
EXTENDS Sections, SequencesExt

CONSTANTS
    Subject,    \* the document under review
    ReadLimit,  \* READS: reads one history makes
    ByteLimit,  \* BYTES: bytes one history reads
    Candidates, \* CANDIDATES: recent commits one history looks into
    Troubles    \* bound: failed reads and passed deadlines

ASSUME LimitsAreNumbers == {ReadLimit, ByteLimit, Candidates, Troubles} \subseteq Nat

ASSUME NoneIsNoAnswer == None \notin {"complete", "incomplete", "exhausted", "uncovered"}

VARIABLES
    search,  \* what is searched: its kind, its entries and the Git objects
    history, \* the budgets and the flags of the running History
    pc,      \* the place in the search
    item,    \* the entry that is looked for
    place,   \* coverage: the candidate that is read; lookup: 1 when other
             \* bytes than the reviewed ones were at the recorded commit
    commits, \* coverage: the candidates so far; lookup: those tried
    hits,    \* the entries verified: all of them, or those at this candidate
    misses,  \* entry -> why it was not found
    round,   \* cover_at: the reads of this round
    answer,  \* None, or how the search ended
    trouble, \* how much more may go wrong
    reads    \* history: how often each entry was read

searchVars == <<search, history, pc, item, place, commits, hits, misses,
                round, answer, trouble, reads>>

NewHistory == [reads |-> 0, remaining |-> ByteLimit, candidates |-> None,
               truncated |-> FALSE, exhausted |-> FALSE, failed |-> FALSE]

\* entries: every reviewed input of a manifest.
Entries(manifest) ==
    LET file(f)   == [path |-> f.key, export |-> None, expected |-> f.hash]
        import(f) == [path |-> f.key.document, export |-> f.key.export,
                      expected |-> f.hash]
    IN  <<[path |-> Subject, export |-> None, expected |-> manifest.document]>>
            \o [i \in DOMAIN manifest.files |-> file(manifest.files[i])]
            \o [i \in DOMAIN manifest.imports |-> import(manifest.imports[i])]

-----------------------------------------------------------------------------
\* The body that an object holds of an entry: itself, or one of its exports.
Body(content, export) ==
    LET bodies == {e.body : e \in {x \in content.exports : x.id = export}}
    IN  IF export = None THEN content
        ELSE IF "document" \in content.issues \/ bodies = {} THEN None
        ELSE CHOOSE b \in bodies : TRUE

\* A mutant: a read that no longer fits the budget looks like an absent input.
OutcomeSilent(commit, entry, event) ==
    LET content == search.trees[commit][entry.path]
        counted == [history EXCEPT !.reads = @ + 1]
        unread  == \/ event # "none" \/ history.reads >= ReadLimit
                   \/ content = None
    IN  IF unread THEN [value |-> None, history |-> counted]
        ELSE IF content.size > history.remaining
          THEN [value |-> None, history |-> counted]
        ELSE [value   |-> Body(content, entry.export),
              history |-> [counted EXCEPT !.remaining = @ - content.size]]

(***************************************************************************)
(* read and at.  `event` is what happens to this read: nothing, a failure, *)
(* or the deadline before it.                                              *)
(***************************************************************************)
Outcome(commit, entry, event) ==
    LET content == search.trees[commit][entry.path]
        counted == [history EXCEPT !.reads = @ + 1]
        over    == \/ history.exhausted
                   \/ history.reads >= ReadLimit
                   \/ event = "deadline"
        tooMuch == content # None /\ content.size > history.remaining
    IN  CASE over ->
               [value |-> None, history |-> [history EXCEPT !.exhausted = TRUE]]
          [] ~over /\ event = "failure" ->
               [value |-> None, history |-> [counted EXCEPT !.failed = TRUE]]
          [] ~over /\ event = "none" /\ tooMuch ->
               [value |-> None, history |-> [counted EXCEPT !.exhausted = TRUE]]
          [] ~over /\ event = "none" /\ content = None ->
               [value |-> None, history |-> counted]
          [] OTHER ->
               [value   |-> Body(content, entry.export),
                history |-> [counted EXCEPT !.remaining = @ - content.size]]

Events == {"none"} \cup (IF trouble > 0 THEN {"failure", "deadline"} ELSE {})

Happens(event) == trouble' = IF event = "none" THEN trouble ELSE trouble - 1

Entry == search.entries[item]

Missed(why) ==
    [i \in DOMAIN misses \cup {item} |-> IF i = item THEN why ELSE misses[i]]

\* One read of the current entry in one commit.
Read(event) == reads' = [reads EXCEPT ![item] = @ + 1] /\ Happens(event)

(***************************************************************************)
(* candidates: the recent commits, listed once.                            *)
(***************************************************************************)
Listed(event) ==
    CASE history.candidates # None -> history
      [] history.candidates = None /\ event = "none" ->
            [history EXCEPT
                !.candidates = SubSeq(search.recent, 1,
                                  IF Len(search.recent) > Candidates
                                    THEN Candidates ELSE Len(search.recent)),
                !.truncated  = Len(search.recent) > Candidates]
      [] history.candidates = None /\ event = "deadline" ->
            [history EXCEPT !.candidates = <<>>, !.exhausted = TRUE]
      [] OTHER ->
            [history EXCEPT !.candidates = <<>>, !.failed = TRUE]

-----------------------------------------------------------------------------
(***************************************************************************)
(* lookup, for one entry after another under one budget.                   *)
(***************************************************************************)
NextItem(found, why) ==
    /\ hits' = IF found THEN hits \cup {item} ELSE hits
    /\ misses' = IF found THEN misses ELSE Missed(why)
    /\ item' = item + 1 /\ place' = 0
    /\ pc' = "lookup"
    /\ UNCHANGED answer

EndLookups ==
    /\ pc = "lookup" /\ item > Len(search.entries)
    /\ pc' = "done" /\ answer' = "looked"
    /\ UNCHANGED <<search, history, item, place, commits, hits, misses, round,
                   trouble, reads>>

LookReference ==
    /\ pc = "lookup" /\ item <= Len(search.entries)
    /\ \/ /\ search.base = None
          /\ pc' = "list" /\ place' = 0
          /\ UNCHANGED <<history, item, hits, misses, answer, trouble, reads>>
       \/ /\ search.base # None
          /\ \E event \in Events :
                LET out == Outcome(search.base, Entry, event)
                IN  /\ Read(event) /\ history' = out.history
                    /\ \/ /\ out.value = Entry.expected
                          /\ NextItem(TRUE, None)
                       \/ /\ out.value # Entry.expected
                          /\ pc' = "list"
                          /\ place' = IF out.value = None THEN 0 ELSE 1
                          /\ UNCHANGED <<item, hits, misses, answer>>
    /\ UNCHANGED <<search, commits, round>>

ListCandidates ==
    /\ pc = "list"
    /\ \E event \in (IF history.candidates = None THEN Events ELSE {"none"}) :
          history' = Listed(event) /\ Happens(event)
    /\ pc' = "walk" /\ commits' = <<>>
    /\ UNCHANGED <<search, item, place, hits, misses, round, answer, reads>>

\* The code of the reason, in the order in which the code asks.
Why ==
    CASE history.exhausted \/ history.truncated -> "history_limit_exceeded"
      [] ~history.exhausted /\ ~history.truncated /\ history.failed -> "git_read_failed"
      [] OTHER ->
            IF search.base = None THEN "no_base_commit"
            ELSE IF place = 1 THEN "reviewed_bytes_mismatch"
            ELSE "blob_unavailable"

\* The first candidate that was not tried; `commits` holds those that were.
Untried == {i \in DOMAIN history.candidates :
                /\ history.candidates[i] # search.base
                /\ history.candidates[i] \notin ToSet(commits)}

LookCandidate ==
    /\ pc = "walk"
    /\ \/ \E i \in Untried, event \in Events :
             LET commit == history.candidates[i]
                 out    == Outcome(commit, Entry, event)
             IN  /\ \A j \in Untried : i <= j
                 /\ Read(event) /\ history' = out.history
                 /\ commits' = Append(commits, commit)
                 /\ \/ /\ out.value = Entry.expected
                       /\ NextItem(TRUE, None)
                    \/ /\ out.value # Entry.expected /\ out.history.exhausted
                       /\ NextItem(FALSE, "history_limit_exceeded")
                    \/ /\ out.value # Entry.expected /\ ~out.history.exhausted
                       /\ UNCHANGED <<pc, item, place, hits, misses, answer>>
       \/ /\ Untried = {}
          /\ NextItem(FALSE, Why)
          /\ UNCHANGED <<history, commits, trouble, reads>>
    /\ UNCHANGED <<search, round>>

-----------------------------------------------------------------------------
(***************************************************************************)
(* coverage: HEAD first, then the recent commits; the first commit that    *)
(* holds every entry is taken.                                             *)
(***************************************************************************)
Matches(value) == value = Entry.expected

\* The candidates, and those of the listed commits that are not among them.
Joined(known, listed) ==
    LET joined[n \in 0..Len(listed)] ==
            IF n = 0 THEN known
            ELSE IF listed[n] \in ToSet(joined[n - 1]) THEN joined[n - 1]
            ELSE Append(joined[n - 1], listed[n])
    IN  joined[Len(listed)]

NextCommit ==
    /\ pc = "coverage" /\ place > Len(commits)
    /\ IF place > 2
         THEN /\ pc' = "done" /\ answer' = "uncovered"
              /\ UNCHANGED <<history, commits, trouble>>
         ELSE \E event \in (IF history.candidates = None THEN Events ELSE {"none"}) :
                /\ history' = Listed(event) /\ Happens(event)
                /\ commits' = Joined(commits, Listed(event).candidates)
                /\ \/ /\ Len(commits') = Len(commits)
                      /\ pc' = "done" /\ answer' = "uncovered"
                   \/ Len(commits') # Len(commits) /\ UNCHANGED <<pc, answer>>
    /\ UNCHANGED <<search, item, place, hits, misses, round, reads>>

ReadCovered ==
    /\ pc = "coverage" /\ place <= Len(commits)
    /\ \E event \in Events :
          LET out  == Outcome(commits[place], Entry, event)
              now  == IF Matches(out.value) THEN hits \cup {item} ELSE hits
              last == \/ item = Len(search.entries)
                      \/ out.history.exhausted
                      \/ place > 1 /\ now = {}
          IN  /\ Read(event) /\ history' = out.history
              /\ \/ /\ ~last
                    /\ item' = item + 1 /\ hits' = now
                    /\ UNCHANGED <<pc, place, answer>>
                 \/ /\ last /\ now = DOMAIN search.entries
                    /\ pc' = "done" /\ answer' = commits[place] /\ hits' = now
                    /\ UNCHANGED <<item, place>>
                 \/ /\ last /\ now # DOMAIN search.entries /\ out.history.exhausted
                    /\ pc' = "done" /\ answer' = "uncovered" /\ hits' = now
                    /\ UNCHANGED <<item, place>>
                 \/ /\ last /\ now # DOMAIN search.entries /\ ~out.history.exhausted
                    /\ item' = 1 /\ place' = place + 1 /\ hits' = {}
                    /\ UNCHANGED <<pc, answer>>
    /\ UNCHANGED <<search, commits, misses, round>>

-----------------------------------------------------------------------------
\* A round is over: the next begins with the entry it stopped at.
NextRound(out) ==
    /\ \/ /\ round = 0
          /\ pc' = "done" /\ answer' = "exhausted" /\ history' = out
       \/ /\ round > 0
          \* what failed in any round is kept
          /\ history' = [NewHistory EXCEPT !.failed = out.failed]
          /\ UNCHANGED <<pc, answer>>
    /\ round' = 0
    /\ UNCHANGED <<item, hits, misses>>

(***************************************************************************)
(* cover_at: every entry at `base`, in rounds with budgets of their own.   *)
(***************************************************************************)
ReadCover ==
    /\ pc = "cover" /\ item <= Len(search.entries)
    /\ \E event \in Events :
          LET out == Outcome(search.base, Entry, event)
          IN  /\ Read(event)
              /\ \/ out.history.exhausted /\ NextRound(out.history)
                 \/ /\ ~out.history.exhausted
                    /\ history' = out.history /\ round' = round + 1
                    /\ hits' = IF Matches(out.value) THEN hits \cup {item} ELSE hits
                    /\ misses' = IF Matches(out.value) THEN misses ELSE Missed("differs")
                    /\ item' = item + 1
                    /\ UNCHANGED <<pc, answer>>
    /\ UNCHANGED <<search, place, commits>>

EndCover ==
    /\ pc = "cover" /\ item > Len(search.entries)
    /\ pc' = "done"
    /\ answer' = IF hits = DOMAIN search.entries THEN "complete" ELSE "incomplete"
    /\ UNCHANGED <<search, history, item, place, commits, hits, misses, round,
                   trouble, reads>>

-----------------------------------------------------------------------------
(***************************************************************************)
(* What a search is given: the inputs of a manifest, the document first;   *)
(* the commit that is asked about; the recent ones; and what each holds of *)
(* each path.                                                              *)
(***************************************************************************)
Searchable(wanted) ==
    LET asked   == ToSet(wanted.recent) \cup ({wanted.base} \ {None})
        entries == wanted.entries
    IN  /\ wanted.kind \in {"lookup", "coverage", "cover"}
        /\ wanted.recent \in Seq(asked) /\ asked \cap {None, "uncovered"} = {}
        /\ entries \in Seq({entries[i] : i \in DOMAIN entries})
        /\ wanted.kind # "lookup" => entries # <<>>
        /\ wanted.kind = "cover" => wanted.base # None
        /\ \A i \in DOMAIN entries : entries[i].expected # None
        /\ \A i \in DOMAIN entries, c \in asked :
              LET content == wanted.trees[c][entries[i].path]
              IN  content # None => content.size \in Nat
        /\ None \notin Seq(asked)

InitSearch(wanted) ==
    /\ search = wanted /\ history = NewHistory
    /\ pc = wanted.kind /\ item = 1 /\ round = 0
    /\ place = IF wanted.kind = "coverage" THEN 1 ELSE 0
    /\ commits = IF wanted.kind = "coverage" /\ wanted.base # None
                   THEN <<wanted.base>> ELSE <<>>
    /\ hits = {} /\ misses = <<>> /\ answer = None /\ trouble = Troubles
    /\ reads = [i \in DOMAIN wanted.entries |-> 0]

Lookup == EndLookups \/ LookReference \/ ListCandidates \/ LookCandidate
Coverage == NextCommit \/ ReadCovered
CoverAt == ReadCover \/ EndCover

Searching == Lookup \/ Coverage \/ CoverAt

-----------------------------------------------------------------------------
Holds(commit, entry) ==
    /\ search.trees[commit][entry.path] # None
    /\ Body(search.trees[commit][entry.path], entry.export) = entry.expected

HoldsAll(commit) == \A i \in DOMAIN search.entries : Holds(commit, search.entries[i])

Reachable == ToSet(search.recent) \cup ({search.base} \ {None})

(***************************************************************************)
(* A search tells the truth, whatever budget ran out and whatever read     *)
(* failed on the way.  What it found is in Git; what it says is not there, *)
(* without naming a limit or a failure, is in no commit it may look into;  *)
(* and the check of one commit says "complete" or "incomplete" of that     *)
(* commit, over all rounds, and "exhausted" only of an input that is too   *)
(* large or hit by trouble in a fresh round (lookup, coverage, cover_at).  *)
(***************************************************************************)
LookupsTellTheTruth ==
    /\ \A i \in hits : \E c \in Reachable : Holds(c, search.entries[i])
    /\ \A i \in DOMAIN misses :
          CASE misses[i] = "no_base_commit" ->
                  search.base = None /\ \A c \in Reachable : ~Holds(c, search.entries[i])
            [] misses[i] \in {"blob_unavailable", "reviewed_bytes_mismatch"} ->
                  search.base # None /\ \A c \in Reachable : ~Holds(c, search.entries[i])
            [] misses[i] = "git_read_failed" -> trouble < Troubles
            [] OTHER -> history.exhausted \/ history.truncated

CoverageTellsTheTruth ==
    /\ answer # "uncovered" => HoldsAll(answer)
    /\ (answer = "uncovered" /\ ~history.exhausted /\ ~history.truncated /\ ~history.failed)
          => \A c \in Reachable : ~HoldsAll(c)

\* "Every input is read at most twice" (history.rs, cover_at): a round that ends
\* at an input it did not read starts the next one there, and an input too large
\* for a fresh round ends the check.
CoverTellsTheTruth ==
    /\ \A i \in DOMAIN reads : reads[i] <= 2
    /\ answer = "complete" => HoldsAll(search.base)
    /\ (answer = "incomplete" /\ ~history.failed) => ~HoldsAll(search.base)
    /\ (answer = "exhausted" /\ trouble = Troubles) =>
          LET content == search.trees[search.base][Entry.path]
          IN  ReadLimit = 0 \/ (content # None /\ content.size > ByteLimit)

SearchesTellTheTruth ==
    CASE search.kind = "lookup"  -> LookupsTellTheTruth
      [] search.kind = "coverage" /\ answer # None -> CoverageTellsTheTruth
      [] search.kind = "cover"   -> CoverTellsTheTruth
      [] OTHER -> TRUE
=============================================================================
