------------------------------ MODULE Snapshot ------------------------------
(***************************************************************************)
(* snapshot::build: the project is collected file by file while people     *)
(* save files, Git checks out a lock file and older tools leave their      *)
(* state behind; two equal collections, or the last two of three, are      *)
(* analyzed into documents, coverage, import graph, manifests and review   *)
(* status.                                                                 *)
(*                                                                         *)
(* A content is a value: a hash is the content itself.  Guidance, section  *)
(* maps, symlinks, nested repositories and installed skill packages are    *)
(* left out, and so are the wordings of the diagnostics.                   *)
(***************************************************************************)
EXTENDS Imports

CONSTANTS
    Versions, \* bound: path -> the contents the path may have
    Saves,    \* bound: the <<path, content>> that somebody may save meanwhile
    Origins   \* bound: worktrees to start from, with how much may happen

ASSUME VersionsOfPaths == DOMAIN Versions = Paths

ASSUME OwnFilesArePaths == {ConfigPath, StatePath, LegacyPath} \subseteq Paths

ASSUME OriginsAreWorktrees ==
    \A origin \in Origins :
        /\ origin.disk = [p \in Paths |-> origin.disk[p]]
        /\ \A p \in Paths : origin.disk[p] \in Versions[p] \cup {None}
        /\ origin.edits \in Nat

ASSUME SavesAreVersions ==
    \A save \in Saves : save[1] \in Paths /\ save[2] \in Versions[save[1]] \cup {None}

ASSUME DocumentsImport ==
    \A p \in Paths : IsReadme(p) \/ MayOptIn(p) =>
        \A doc \in Versions[p] : doc.imports \in Seq([provider : Paths, export : Nat])

\* What a state file may hold: reviews with their manifests, and invalidations.
ASSUME StatesHoldReviews ==
    \A state \in Versions[StatePath] :
        /\ IsFiniteSet(state.invalidations)
        /\ \A d \in DOMAIN state.reviews :
              LET review == state.reviews[d]
              IN  /\ review = [policy |-> review.policy, document |-> review.document,
                               files |-> review.files, imports |-> review.imports]
                  /\ review.files \in Seq(ToSet(review.files))
                  /\ review.imports \in Seq(ToSet(review.imports))

VARIABLES
    disk,        \* path -> content or None
    outcome,     \* idle, running, built or failed
    pass,        \* the collection that runs, 1 to 3
    seen,        \* what this collection has read so far
    previous,    \* what the collection before it read
    edits,       \* how many more times somebody may change a file
    seam,        \* history: the worktree between the last two collections
    overwritten, \* history: the contents that were replaced meanwhile
    restored     \* history: a file got back a content, or was there again

project == <<disk, edits, overwritten, restored>>
building == <<outcome, pass, seen, previous, seam>>
snapshotVars == <<disk, outcome, pass, seen, previous, edits, seam,
                  overwritten, restored>>

-----------------------------------------------------------------------------
(***************************************************************************)
(* What a collection `c` has read, and what it has to read next.  `config` *)
(* and `listed` are None before they are read, `state` is empty.           *)
(***************************************************************************)
Blank == [config |-> None, listed |-> None, kinds |-> <<>>, files |-> <<>>,
          rules |-> <<>>, hasLock |-> None, hasLegacy |-> None, state |-> {}]

Present(c) == {p \in DOMAIN c.kinds : c.kinds[p] = "regular"}

Readmes(c) == {p \in Present(c) : IsReadme(p)}

\* A sidecar without its README is an error and is not read.
Sidecars(c) ==
    LET readmes == Readmes(c)
    IN  {p \in Present(c) :
            IsSidecar(p) /\ Append(Directory(p), "README.md") \in readmes}

Orphans(c) == {p \in Present(c) : IsSidecar(p)} \ Sidecars(c)

RuleScopes(c) ==
    {RuleScope(Root, 0, c.config)}
        \cup {RuleScope(Directory(p), Len(p), c.files[p]) : p \in Sidecars(c)}

SelectedFiles(c) ==
    LET scopes == RuleScopes(c)
    IN  {p \in Present(c) : Selected(p, scopes)}

RuleFiles(c) == {p \in Paths : IsGitignore(p) /\ Entered(Directory(p), c.rules)}

Stage(c) ==
    LET unread(S) == S \ DOMAIN c.files # {}
    IN  IF c.config = None                        THEN "config"
        ELSE IF c.listed = None                   THEN "list"
        ELSE IF c.listed \ DOMAIN c.kinds # {}    THEN "stat"
        ELSE IF unread(Sidecars(c))               THEN "sidecars"
        ELSE IF unread(SelectedFiles(c))          THEN "sources"
        ELSE IF RuleFiles(c) \ DOMAIN c.rules # {} THEN "rules"
        ELSE IF unread(Readmes(c))                THEN "readmes"
        ELSE IF c.hasLock = None                  THEN "state"
        ELSE IF c.hasLegacy = None                THEN "legacy"
        ELSE IF c.state = {}                      THEN "load"
        ELSE "complete"

\* git ls-files: the index, and the other files that no rule ignores.
Listing(worktree) ==
    LET there == {p \in Paths : worktree[p] # None}
        rules == [g \in {p \in there : IsGitignore(p)} |-> worktree[g]]
        scopes == GitScopes(rules)
    IN  Tracked \cup {p \in there : /\ ~Excluded(p, scopes)
                                    /\ Entered(Directory(p), rules)}

Kind(worktree, p) == IF worktree[p] = None THEN "missing" ELSE "regular"

-----------------------------------------------------------------------------
(***************************************************************************)
(* collect: one action per call that reads the worktree.                   *)
(***************************************************************************)
Collecting(stage) == outcome = "running" /\ Stage(seen) = stage

Note(c) == seen' = c /\ UNCHANGED <<outcome, pass, previous, seam>>

Give(result) ==
    outcome' = result /\ UNCHANGED <<pass, seen, previous, seam>>

ReadConfig ==
    /\ Collecting("config")
    /\ IF disk[ConfigPath] = None
         THEN Give("failed")
         ELSE Note([seen EXCEPT !.config = disk[ConfigPath]])
    /\ UNCHANGED project

\* Git may also fail, or the index may hold unmerged entries.
ListPaths ==
    /\ Collecting("list")
    /\ \/ Note([seen EXCEPT !.listed = Listing(disk)])
       \/ Give("failed")
    /\ UNCHANGED project

Stat ==
    /\ Collecting("stat")
    /\ LET p == Least(seen.listed \ DOMAIN seen.kinds)
       IN  Note([seen EXCEPT !.kinds = With(@, p, Kind(disk, p))])
    /\ UNCHANGED project

\* A file that has gone since its kind was looked up is an I/O error.
ReadFile(stage, files) ==
    /\ Collecting(stage)
    /\ LET p == Least(files \ DOMAIN seen.files)
       IN  IF disk[p] = None
             THEN Give("failed")
             ELSE Note([seen EXCEPT !.files = With(@, p, disk[p])])
    /\ UNCHANGED project

ReadSidecar == ReadFile("sidecars", Sidecars(seen))
ReadSource  == ReadFile("sources", SelectedFiles(seen))
ReadReadme  == ReadFile("readmes", Readmes(seen))

\* Folder by folder from the root: the rules above decide what is entered.
ReadRules ==
    /\ Collecting("rules")
    /\ LET unread == RuleFiles(seen) \ DOMAIN seen.rules
           g == Least({x \in unread : \A y \in unread : Len(x) <= Len(y)})
       IN  Note([seen EXCEPT !.rules = With(@, g, disk[g])])
    /\ UNCHANGED project

\* choose: is memoria.lock there, and then, is the legacy file?
LookForState ==
    /\ Collecting("state")
    /\ Note([seen EXCEPT !.hasLock = Kind(disk, StatePath)])
    /\ UNCHANGED project

\* A legacy file ends the command, whether memoria.lock is there or not.
LookForLegacy ==
    /\ Collecting("legacy")
    /\ IF disk[LegacyPath] # None
         THEN Give("failed")
         ELSE Note([seen EXCEPT !.hasLegacy = "missing",
                                !.state = IF seen.hasLock = "missing"
                                            THEN {None} ELSE {}])
    /\ UNCHANGED project

LoadState ==
    /\ Collecting("load")
    /\ IF disk[StatePath] = None
         THEN Give("failed")
         ELSE Note([seen EXCEPT !.state = {disk[StatePath]}])
    /\ UNCHANGED project

(***************************************************************************)
(* build: two equal collections in a row, the second and the third at the  *)
(* latest.                                                                 *)
(***************************************************************************)
\* A mutant: the documents and sources are compared, the rest is not.
SameFiles(first, second) == first.files = second.files

Same(first, second) == first = second

Begin ==
    /\ outcome = "idle"
    /\ outcome' = "running" /\ pass' = 1 /\ seen' = Blank
    /\ UNCHANGED <<previous, seam, project>>

\* A mutant: a project that keeps changing is collected again and again.
EndPassAgain ==
    /\ Collecting("complete")
    /\ IF pass > 1 /\ Same(previous, seen)
         THEN Give("built")
         ELSE /\ pass' = pass + 1 /\ previous' = seen /\ seen' = Blank
              /\ seam' = disk
              /\ UNCHANGED outcome
    /\ UNCHANGED project

EndPass ==
    /\ Collecting("complete")
    /\ \/ /\ pass > 1 /\ Same(previous, seen)
          /\ Give("built")
       \/ /\ pass = 1 \/ (pass = 2 /\ ~Same(previous, seen))
          /\ pass' = pass + 1 /\ previous' = seen /\ seen' = Blank
          /\ seam' = disk
          /\ UNCHANGED outcome
       \/ /\ pass = 3 /\ ~Same(previous, seen)
          /\ Give("failed")
    /\ UNCHANGED project

Collect ==
    \/ ReadConfig \/ ListPaths \/ Stat \/ ReadSidecar \/ ReadSource
    \/ ReadRules \/ ReadReadme \/ LookForState \/ LookForLegacy \/ LoadState
    \/ EndPass

\* Somebody saves, deletes or checks out a file, while it matters.
Edit(p, content) ==
    /\ outcome = "running" /\ edits > 0
    /\ content # disk[p]
    /\ disk' = [disk EXCEPT ![p] = content]
    /\ edits' = edits - 1
    /\ overwritten' = overwritten \cup {<<p, disk[p]>>}
    /\ restored' = (restored \/ \E old \in overwritten :
                        old[1] = p /\ (disk[p] = None \/ old[2] = content))
    /\ UNCHANGED building

Edits == \E save \in Saves : Edit(save[1], save[2])

-----------------------------------------------------------------------------
(***************************************************************************)
(* analyze, over a complete collection.                                    *)
(***************************************************************************)
OptedIn(c) == {p \in SelectedFiles(c) : MayOptIn(p) /\ c.files[p].marked}

Documents(c) == Readmes(c) \cup OptedIn(c)

Sources(c) == SelectedFiles(c) \ OptedIn(c)

Docs(c) == [d \in Documents(c) |-> c.files[d]]

References(c) ==
    UNION {{[from |-> d, target |-> t] :
               t \in c.files[d].links
                     \cup {c.files[d].imports[i].provider :
                               i \in DOMAIN c.files[d].imports}} :
           d \in Documents(c)}

HandoffsOf(c) == Handoffs(Documents(c), References(c))

Uncovered(c) ==
    {s \in Sources(c) : CoveredBy(s, Documents(c), HandoffsOf(c)) = {}}

Broken(c) ==
    \/ \E d \in Documents(c) : ImportErrors(d, Docs(c)) # {}
    \/ FindCycles(Providers(Docs(c))) # {}

\* A scope without rules is no policy scope, the configuration always is.
Policy(c, d) ==
    LET region(dir) == InRegion(d, dir, HandoffsOf(c))
        ruled(s)    == s.ignore \cup s.include # {}
    IN  [git     |-> {s \in GitScopes(c.rules) : region(s.dir) /\ ruled(s)},
         memoria |-> {s \in RuleScopes(c) : region(s.dir) /\ (s.place = 0 \/ ruled(s))}]

\* export_body: the current body of an export.
ExportBody(c, import) ==
    (CHOOSE e \in c.files[import.provider].exports : e.id = import.export).body

ImportKeys(c, d) ==
    {[document |-> c.files[d].imports[i].provider, export |-> c.files[d].imports[i].export] :
        i \in DOMAIN c.files[d].imports}

Manifest(c, d) ==
    LET entry(p)   == [key |-> p, hash |-> c.files[p]]
        import(k)  == [key  |-> k,
                       hash |-> ExportBody(c, [provider |-> k.document, export |-> k.export])]
        files      == InOrder(ScopeOf(d, Sources(c), Documents(c), HandoffsOf(c)))
        imports    == InImportOrder(ImportKeys(c, d))
    IN  [policy   |-> Policy(c, d),
         document |-> c.files[d],
         files    |-> [i \in DOMAIN files |-> entry(files[i])],
         imports  |-> [i \in DOMAIN imports |-> import(imports[i])]]

Manifests(c) == [d \in Documents(c) |-> Manifest(c, d)]

EmptyState == [reviews |-> <<>>, invalidations |-> {}]

StateOf(c) == IF c.state = {None} THEN EmptyState ELSE CHOOSE s \in c.state : TRUE

Statuses(c) ==
    LET providers == Providers(Docs(c))
    IN  IF Broken(c) THEN <<>>
        ELSE Schedule(TopologicalOrder(Documents(c), providers), providers,
                      StateOf(c), Manifests(c))

\* The structural errors that make review, render and check impossible.
Invalid(c) ==
    \/ <<"README.md">> \notin Documents(c)
    \/ Orphans(c) # {}
    \/ Uncovered(c) # {}
    \/ Broken(c)

-----------------------------------------------------------------------------
\* What one collection of a worktree that stands still reads.
Whole(worktree) ==
    LET listed  == Listing(worktree)
        rules   == [g \in {p \in Paths : IsGitignore(p)} |-> worktree[g]]
        read(S) == [p \in S |-> worktree[p]]
        with(files) ==
            [config    |-> worktree[ConfigPath],
             listed    |-> listed,
             kinds     |-> [p \in listed |-> Kind(worktree, p)],
             files     |-> files,
             rules     |-> read({x \in DOMAIN rules : Entered(Directory(x), rules)}),
             hasLock   |-> Kind(worktree, StatePath),
             hasLegacy |-> Kind(worktree, LegacyPath),
             state     |-> {worktree[StatePath]}]
        scoped  == with(read(Sidecars(with(<<>>))))
    IN  with(read(Sidecars(scoped) \cup SelectedFiles(scoped) \cup Readmes(scoped)))

TypeOKSnapshot ==
    /\ \A p \in Paths : disk[p] \in Versions[p] \cup {None}
    /\ outcome \in {"idle", "running", "built", "failed"}
    /\ pass \in 0 .. 3
    /\ edits \in Nat
    /\ restored \in BOOLEAN
    /\ \A c \in {seen, previous} :
          /\ c.config \in Versions[ConfigPath] \cup {None}
          /\ c.listed = None \/ c.listed \subseteq Paths
          /\ \A p \in DOMAIN c.kinds :
                p \in c.listed /\ c.kinds[p] \in {"regular", "missing"}
          /\ \A p \in DOMAIN c.files : p \in Present(c) /\ c.files[p] \in Versions[p]
          /\ \A g \in DOMAIN c.rules : c.rules[g] \in Versions[g] \cup {None}
          /\ c.state = {} \/ c.state \subseteq Versions[StatePath] \cup {None}

InitSnapshot(origin) ==
    /\ disk = origin.disk /\ seam = origin.disk /\ edits = origin.edits
    /\ outcome = "idle" /\ pass = 0
    /\ seen = Blank /\ previous = Blank
    /\ overwritten = {} /\ restored = FALSE
-----------------------------------------------------------------------------
\* Everything that `c` has read is as `worktree` shows it.
Shows(worktree, c) ==
    /\ c.config = worktree[ConfigPath]
    /\ \A p \in DOMAIN c.kinds : c.kinds[p] = Kind(worktree, p)
    /\ \A p \in DOMAIN c.files : c.files[p] = worktree[p]
    /\ \A g \in DOMAIN c.rules : c.rules[g] = worktree[g]
    /\ c.hasLock = Kind(worktree, StatePath)
    /\ c.hasLegacy = Kind(worktree, LegacyPath)
    /\ c.state = {worktree[StatePath]}

\* Git reads the ignore files for the listing, Memoria its own rules later.
IgnoresStood == \A old \in overwritten : ~IsGitignore(old[1])

(***************************************************************************)
(* A snapshot is of one moment.  Files are read one after another while    *)
(* others write (snapshot.rs:140).  If no file got back a content it had   *)
(* before, and none came back that had been there, then everything that    *)
(* was read is what the worktree showed between the two equal collections. *)
(* If no ignore file changed either, nothing was left out: a collection of *)
(* the worktree standing still at that moment reads exactly this.          *)
(***************************************************************************)
SnapshotOfOneMoment ==
    (outcome = "built" /\ ~restored) =>
        /\ Shows(seam, seen)
        /\ IgnoresStood => seen = Whole(seam)

(***************************************************************************)
(* Below a tracked root document every selected source is covered          *)
(* (scope.rs:12, "coverage never has a gap below a tracked root            *)
(* document"), and the schedule calls a document that covers it current    *)
(* only with a stored review of the content that the source has now.       *)
(***************************************************************************)
EveryChangeIsSeen ==
    (outcome = "built" /\ ~Broken(seen) /\ <<"README.md">> \in Documents(seen)) =>
        LET covering(s) == CoveredBy(s, Documents(seen), HandoffsOf(seen))
            statuses    == Statuses(seen)
        IN  \A s \in Sources(seen) :
                /\ covering(s) # {}
                /\ \A d \in covering(s) :
                      statuses[d].causes = {} =>
                          [key |-> s, hash |-> seen.files[s]]
                              \in ToSet(StateOf(seen).reviews[d].files)

\* A cycle is reported exactly when a document reaches itself over imports,
\* every reported path is a cycle of the graph, and without one the order has
\* every document once, after all its providers.
CyclesAreReported ==
    outcome = "built" =>
        LET docs      == Documents(seen)
            providers == Providers(Docs(seen))
            further(to) == [d \in docs |-> to[d] \cup UNION {to[p] : p \in to[d]}]
            reach[n \in 0 .. Cardinality(docs)] ==
                IF n = 0 THEN providers ELSE further(reach[n - 1])
            cyclic    == \E d \in docs : d \in reach[Cardinality(docs)][d]
            order     == TopologicalOrder(docs, providers)
        IN  /\ (FindCycles(providers) # {}) = cyclic
            /\ \A path \in FindCycles(providers) :
                  /\ Cardinality(ToSet(path)) = Len(path)
                  /\ \A i \in DOMAIN path :
                        path[(i % Len(path)) + 1] \in providers[path[i]]
            /\ ~cyclic =>
                  /\ ToSet(order) = docs /\ Len(order) = Cardinality(docs)
                  /\ \A i \in DOMAIN order : \A p \in providers[order[i]] :
                        \E j \in 1 .. i - 1 : order[j] = p

\* A document is pending exactly when it has no review, its review is of
\* another manifest or an invalidation names it, and waits exactly when some
\* document it depends on, however far away, is pending.
StatusesAreRight ==
    (outcome = "built" /\ ~Broken(seen)) =>
        LET docs      == Documents(seen)
            state     == StateOf(seen)
            statuses  == Statuses(seen)
            pending   == {d \in docs :
                            \/ d \notin DOMAIN state.reviews
                            \/ state.reviews[d] # Manifest(seen, d)
                            \/ \E i \in state.invalidations : d \in i}
            providers == Providers(Docs(seen))
            further(of) == [d \in docs |-> providers[d] \cup UNION {of[p] : p \in providers[d]}]
            upstream[n \in 0 .. Cardinality(docs)] ==
                IF n = 0 THEN providers ELSE further(upstream[n - 1])
        IN  /\ DOMAIN statuses = docs
            /\ \A d \in docs :
                  /\ (statuses[d].causes # {}) = (d \in pending)
                  /\ (statuses[d].waiting # {})
                        = (upstream[Cardinality(docs)][d] \cap pending # {})

(***************************************************************************)
(* What the search for cycles (graph.rs:253), the order of the documents,  *)
(* the merge of sorted manifests and the one pass of the scheduler         *)
(* (schedule.rs:66) compute comes to its definition.                       *)
(***************************************************************************)
ScheduleIsRight == CyclesAreReported /\ StatusesAreRight
=============================================================================
