---------------------------- MODULE MCGitEvidence ----------------------------
(* Both layers of reading Git: the pipelined reader of objects on its own,  *)
(* and the searches and reviews on top of it, in which a read is one step.  *)
(* A command does one of them at a time, so a behaviour has one of them.    *)
EXTENDS ReviewAdvice, CatFile, TLC

CONSTANTS n1, n2, n3, v1, v2, e1, e2, p1, p2, g1, g2, r1, r2, c1, c2, c3

-----------------------------------------------------------------------------
(* Batches of up to three objects, through pipes of one request and of two  *)
(* tokens: an object is larger than every stage between Git and its reader. *)
WalkEntry(name, kind, size, local, differs) ==
    [use |-> "walk", name |-> name, kind |-> kind, size |-> size,
     local |-> local, differs |-> differs]

FirstEntries == {WalkEntry(n1, "blob", size, "fits", "no") : size \in {0, 3}}
LastEntries(name) ==
    {WalkEntry(name, "blob", 3, "fits", differs) : differs \in {"no", "size", "content"}}
        \cup {WalkEntry(name, "blob", 1, "changed", "no"),
              WalkEntry(name, "missing", 0, "fits", "no"),
              WalkEntry(name, "other", 3, "fits", "no")}
SomeWalks ==
    {<<>>} \cup {<<a, b, c>> : a \in FirstEntries, b \in LastEntries(n2),
                              c \in LastEntries(n3)}

Object(name, kind, size) == [use |-> "history", name |-> name, kind |-> kind,
                             size |-> size, local |-> "fits", differs |-> "no"]
Objects(name) == {Object(name, "blob", size) : size \in {0, 1, 3}}
                     \cup {Object(name, "missing", 0), Object(name, "other", 1)}
SomeHistories ==
    {<<>>} \cup {<<a, b, c>> : a \in Objects(n1), b \in Objects(n2), c \in Objects(n3)}

-----------------------------------------------------------------------------
(* A project: the root README, a document in lib/, a source beside each.    *)
README == <<"README.md">>
Lib    == <<"lib", "README.md">>
Main   == <<"a">>
Part   == <<"lib", "b">>
Added  == <<"c">>
ByteOrder == <<README, Main, Added, Lib, Part>>

File(content, size) == [name |-> content, size |-> size, exports |-> {}, issues |-> {}]
Exporting(body) == {[id |-> 1, body |-> body]}
Document(sections, links, imports, exports, issues) ==
    [size |-> 1, sections |-> sections, links |-> links, imports |-> imports,
     exports |-> exports, issues |-> issues]

Literal  == Section("s", {Main}, {}, {})
Pattern  == Section("s", {}, {{Main, Part}}, {})
TwoParts == {Section("s", {Main}, {{Main, Part}}, {{Part}}), Section("t", {}, {{Part}}, {})}
Import   == <<[provider |-> Lib, export |-> 1]>>

Project(text, lib, a, b) ==
    [docs    |-> (README :> text) @@ lib,
     sources |-> (Main :> a) @@ (Part :> b),
     policy  |-> p1, guidance |-> g1, around |-> r1, invalidations |-> {},
     reviewed |-> {README}]

Provider(body) == (Lib :> Document({}, {}, <<>>, Exporting(body), {}))

Root0 == Document({Pattern}, {}, <<>>, {}, {})
Texts == {Root0,
          Document({Literal}, {Lib}, <<>>, {}, {}),
          Document({Literal}, {}, Import, {}, {}),
          Document(TwoParts, {}, <<>>, {}, {})}

Then == {Project(t, Provider(e1), File(v1, 1), File(v1, 2)) : t \in Texts}

(* What may have happened to it since, often and more rarely.               *)
At(p, s, file) == [p EXCEPT !.sources = (s :> file) @@ @]
Text(p, field, value) == [p EXCEPT !.docs[README] = [@ EXCEPT ![field] = value]]

Often(p) ==
    {p, At(p, Main, File(v2, 2)), At(p, Added, File(v2, 1))}
        \cup {Text(p, "links", l) : l \in {{}, {Lib}}}
        \cup {Text(p, "sections", {Pattern})}

Rarely(p) ==
    {At(p, Part, File(v2, 1)),
     [p EXCEPT !.sources = [x \in DOMAIN @ \ {Part} |-> @[x]]],
     [p EXCEPT !.docs = [d \in {README} |-> @[d]], !.sources = @ @@ (Lib :> File(v1, 1))],
     [p EXCEPT !.docs = Provider(e2) @@ @],
     [p EXCEPT !.policy = p2], [p EXCEPT !.guidance = g2], [p EXCEPT !.around = r2],
     [p EXCEPT !.invalidations = {1}], [p EXCEPT !.reviewed = @ \cup {Added}]}
        \cup {Text(p, "sections", s) : s \in {{}, {Literal}, TwoParts}}
        \cup {Text(p, "imports", i) : i \in {<<>>, Import}}
        \cup {Text(p, "issues", {"section"})}

(* Two edits, and a structure without errors, or nothing is reviewed.       *)
Usable(p) ==
    LET imports == p.docs[README].imports
    IN  \A i \in DOMAIN imports : imports[i].provider \in DOMAIN p.docs

Now(then) ==
    {q \in UNION {Often(p) : p \in Often(then) \cup Rarely(then)} : Usable(q)}

Tree(p) == [x \in Paths |-> IF x \in DOMAIN p.docs THEN p.docs[x]
                            ELSE IF x \in DOMAIN p.sources THEN p.sources[x]
                            ELSE None]

(* The reviewed bytes are in the recorded commit, in another one, in parts  *)
(* or nowhere.                                                              *)
Repositories(then, now) ==
    LET was == Tree(then) is == Tree(now)
        half == [was EXCEPT ![README] = is[README]]
        part == [half EXCEPT ![Part] = None]
        holding(base, trees, recent) == [base |-> base, trees |-> trees, recent |-> recent]
    IN  {holding(c1, (c1 :> was), <<c1>>),
         holding(None, (c1 :> is) @@ (c2 :> was), <<c1, c2>>),
         holding(c1, (c1 :> half) @@ (c2 :> was), <<c1, c2>>),
         holding(c1, (c1 :> part) @@ (c2 :> part), <<c2, c1>>),
         holding(None, (c1 :> is) @@ (c2 :> half), <<c1, c2>>),
         holding(c1, (c1 :> [x \in Paths |-> None]) @@ (c2 :> is) @@ (c3 :> was),
                 <<c2, c1, c3>>)}

Releases == {[release |-> "current", revision |-> 1, cleared |-> {}],
             [release |-> "0.7", revision |-> 1, cleared |-> {}],
             [release |-> "0.7", revision |-> 2, cleared |-> {}],
             [release |-> "0.7", revision |-> 1, cleared |-> {1}],
             [release |-> "0.6", revision |-> 1, cleared |-> {}],
             [release |-> "never", revision |-> 1, cleared |-> {}]}

ASSUME ProjectsAreReviewable ==
    \A then \in Then : \A now \in Now(then) : \A r \in Releases :
        Reviewable([then |-> then, now |-> now] @@ r)

InitReview ==
    \E then \in Then : \E now \in Now(then) :
        \E g \in Repositories(then, now), r \in Releases :
            InitAdvice([then |-> then, now |-> now, git |-> g] @@ r)

(* Searches of a manifest of four inputs, one of them an export.            *)
Reviewed ==
    LET project == Project(Document({}, {}, Import, {}, {}), Provider(e1),
                           File(v1, 1), File(v1, 2))
    IN  [project EXCEPT !.sources = (Added :> File(v1, 2)) @@ @]

Bytes(x) == {Tree(Reviewed)[x]} \cup (IF x = Part THEN {} ELSE {None}) \cup
            (CASE x = README -> {Root0}
               [] x = Main   -> {File(v2, 2), File(v1, 10)}
               [] x = Lib    -> {Provider(e2)[Lib]}
               [] x = Added  -> {File(v2, 7)}
               [] x = Part   -> {})

Trees == {t \in [Paths -> UNION {Bytes(x) : x \in Paths}] : \A x \in Paths : t[x] \in Bytes(x)}

Stored(part) == [Tree(Reviewed) EXCEPT ![Added] = IF part THEN None ELSE @]

ManifestSearches ==
    LET wanted == [entries |-> Entries(ManifestOf(Reviewed))]
    IN  {[kind |-> "cover", base |-> c1, recent |-> <<>>, trees |-> (c1 :> t)] @@ wanted :
            t \in Trees}
        \cup {[kind |-> "coverage", base |-> base, recent |-> <<c1, c2>>,
               trees |-> (c1 :> t) @@ (c2 :> Stored(part))] @@ wanted :
                  t \in Trees, base \in {c1, None}, part \in {TRUE, FALSE}}

ASSUME ManifestsAreSearchable == \A wanted \in ManifestSearches : Searchable(wanted)

InitManifestSearch ==
    /\ review = None /\ advice = None
    /\ \E wanted \in ManifestSearches : InitSearch(wanted)

-----------------------------------------------------------------------------
readerVars == <<client, objects, caller, threads, git, pipes, told, faults>>
evidenceVars == <<searchVars, adviceVars>>

NoSearch == [kind |-> "lookup", entries |-> <<>>, base |-> None, recent |-> <<>>,
             trees |-> <<>>]

(* A command that compares the index or reads objects, and searches none;  *)
(* or one that searches, its reader idle.                                  *)
InitGit == \/ Init /\ InitSearch(NoSearch) /\ review = None /\ advice = None
           \/ /\ Init /\ client = "history" /\ objects = <<>>
              /\ InitReview \/ InitManifestSearch

Searches == caller.pc = "done" /\ Evidence

NextGit == \/ Next /\ UNCHANGED evidenceVars
           \/ Searches /\ UNCHANGED readerVars

(* Every thread and Git run on, and so does the command.                   *)
GitSpec == /\ InitGit /\ [][NextGit]_<<readerVars, evidenceVars>>
           /\ WF_readerVars(Caller /\ UNCHANGED evidenceVars)
           /\ WF_readerVars(Writer /\ UNCHANGED evidenceVars)
           /\ WF_readerVars(Pump /\ UNCHANGED evidenceVars)
           /\ WF_readerVars(Git /\ UNCHANGED evidenceVars)
=============================================================================
