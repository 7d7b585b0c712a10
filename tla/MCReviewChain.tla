---------------------------- MODULE MCReviewChain ----------------------------
(* Two questions of one state file.  Three documents in a chain: the root  *)
(* imports the guide, the guide imports the page; one command at a time,   *)
(* so that the hazard is in the depth of the import graph.  And the text   *)
(* that a state has in memoria.lock, which another writer may put there.   *)
(* A behaviour has one of the two.                                         *)
EXTENDS ReviewCycle, LockCodec, TLC

CONSTANTS root, guide, page, p1, t1, t2, f1, f2, api1, api2, g1, g2, because
CONSTANTS
    edits, hands, guides, tracks, checkouts, inits, invalidations, crashes, busies

ChainDocs == {root, guide, page}
ChainImports ==
    [d \in ChainDocs |-> CASE d = root  -> {guide}
                           [] d = guide -> {page}
                           [] d = page  -> {}]

Texts == {t1, t2}
TextExport == [t \in Texts |-> IF t = t1 THEN api1 ELSE api2]

AnyDocument == {{d} : d \in ChainDocs}

Bounds ==
    {[k \in EventKinds |->
         CASE k = "edit"       -> edits
           [] k = "hand"       -> hands
           [] k = "guide"      -> guides
           [] k = "track"      -> tracks
           [] k = "checkout"   -> checkouts
           [] k = "init"       -> inits
           [] k = "invalidate" -> invalidations
           [] k = "crash"      -> crashes
           [] k = "busy"       -> busies]}

-----------------------------------------------------------------------------
(* Names and texts: the readme of a folder, another document, sources, and *)
(* texts that share their beginnings.                                      *)
README == <<MD>>
Readme == <<README>>
Lib    == <<<<8>>, README>>
Deep   == <<<<8>>, <<8, 9>>, README>>
Other  == <<<<8>>, <<9, MD>>>>

Date(year, month, day) == [year |-> year, month |-> month, day |-> day]
Dates == {Date(1, 1, 1), Date(1969, 12, 31), Date(2024, 2, 29), Date(9999, 12, 31)}

Record(at, note, inputs, imports) ==
    [revision |-> 1, policy |-> 3, token |-> 9, content |-> <<5, 7>>, guidance |-> 4,
     at |-> at, reviewer |-> <<8>>, note |-> note, result |-> 0,
     git |-> [dirty |-> 0, base |-> <<>>], cleared |-> <<>>, coverage |-> {{}},
     files |-> inputs, imports |-> imports]

Open(id, kind, path, targets, pending) ==
    [id |-> id, scope |-> [kind |-> kind, path |-> path], at |-> Date(2024, 2, 29),
     reason |-> <<8, 9>>, targets |-> targets, pending |-> pending]

Kept(revision, next, reviews, opened) ==
    [revision |-> revision, next |-> next, reviews |-> reviews, invalidations |-> opened]

Plainest(at) == Record(at, <<8>>, << >>, << >>)
InRoot  == (<<<<8>>>> :> <<1, 2>>) @@ (<<<<8, 9>>>> :> <<5, 7>>)
InLib   == (<<<<8>>, <<8, 9>>>> :> <<5, 7>>) @@ (<<<<8>>, <<9>>>> :> <<9, 2>>)
                @@ (<<<<8>>, <<8>>, <<9>>>> :> <<1, 2>>)
ofLib   == (<<Lib, <<8>>>> :> <<5, 7>>) @@ (<<Deep, <<8, 9>>>> :> <<20, 2>>)

Long(git, cleared, coverage) ==
    [Record(Date(2024, 2, 29), <<8, Space, 9>>, InLib, ofLib)
        EXCEPT !.git = git, !.cleared = cleared, !.coverage = coverage,
               !.reviewer = <<8, Space, 8>>, !.result = 1, !.revision = 9]
Git(dirty, base) == [dirty |-> dirty, base |-> base]

Opened == <<Open(1, 0, <<>>, {Readme, Lib}, {Lib}),
            Open(2, 1, Lib, {Lib}, {Lib}),
            Open(9, 2, <<<<8>>>>, {Lib, Deep}, {Lib, Deep})>>

SomeStates ==
    {Empty, Kept(1, 1, << >>, <<>>), Kept(9, 10, << >>, <<>>)}
      \cup {Kept(1, 1, Readme :> Plainest(at), <<>>) : at \in Dates}
      \cup {Kept(3, 3, Readme :> Record(Date(2024, 2, 29), <<8, 9>>, InRoot, << >>), <<>>)}
      \cup {Kept(12, 11, (Readme :> Record(Date(2024, 3, 1), <<8, 9>>, InRoot, ofLib)) @@
                          (Lib :> Long(Git(1, <<7, 7>>), <<1, 3, 10>>, c)), Opened) :
                c \in {{}, {{<<<<8>>, <<8>>>>, <<<<8>>, <<8, 9>>>>}}}}
      \cup {Kept(12, 11, (Lib :> Long(Git(1, <<7>>), <<>>, {{}})) @@
                          (Other :> Plainest(Date(2000, 2, 29))) @@
                          (Readme :> Plainest(Date(1, 1, 1))), <<>>)}

-----------------------------------------------------------------------------
(* The commands run on the empty state that `init` saves.                   *)
Rendered == [d \in Docs |-> [i \in Imports[d] |-> api1]]

InitChainOrText ==
    /\ Init /\ InitLock(SomeStates)
    /\ saved # Empty => body = Rendered

ChainOrText ==
    \/ saved = Empty /\ Next /\ UNCHANGED <<saved, lock>>
    \/ WrittenElsewhere /\ UNCHANGED vars

ChainOrTextSpec == InitChainOrText /\ [][ChainOrText]_<<vars, saved, lock>>
=============================================================================
