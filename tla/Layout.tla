------------------------------- MODULE Layout -------------------------------
(***************************************************************************)
(* Where things are in a worktree: paths and folders, which files the      *)
(* rules select as review inputs, and which documents cover a file.        *)
(*                                                                         *)
(* A path is the sequence of its names.  A pattern is the set of paths it  *)
(* matches; a glob's text and its matching are left out.                   *)
(***************************************************************************)
EXTENDS Naturals, Sequences, FiniteSets

CONSTANTS
    PathOrder, \* bound: the paths there may be, in byte order
    Tracked,   \* the paths in Git's index, deleted or not
    None       \* no file

Paths == {PathOrder[i] : i \in DOMAIN PathOrder}

ASSUME OrderIsSequence == PathOrder \in Seq(Paths)

ASSUME PathsAreNamed == \A p \in Paths : p \in Seq(STRING) \ {<<>>}

ASSUME TrackedArePaths == Tracked \subseteq Paths

Rank(p) == CHOOSE i \in DOMAIN PathOrder : PathOrder[i] = p

Least(S) == CHOOSE p \in S : \A q \in S : Rank(p) <= Rank(q)

InOrder(S) ==
    LET kept[n \in 0 .. Len(PathOrder)] ==
            IF n = 0 THEN <<>>
            ELSE IF PathOrder[n] \in S THEN Append(kept[n - 1], PathOrder[n])
            ELSE kept[n - 1]
    IN  kept[Len(PathOrder)]

\* What was read, and one more.
With(read, p, value) ==
    [q \in DOMAIN read \cup {p} |-> IF q = p THEN value ELSE read[q]]

Root == <<>>
Name(p) == p[Len(p)]
Directory(p) == SubSeq(p, 1, Len(p) - 1)

IsWithin(dir, outer) == /\ Len(outer) <= Len(dir)
                        /\ SubSeq(dir, 1, Len(outer)) = outer

\* The folder itself and every folder above it.
Ancestors(dir) == {SubSeq(dir, 1, n) : n \in 0 .. Len(dir)}

ConfigPath == <<"memoria.toml">>
StatePath  == <<"memoria.lock">>
LegacyPath == <<".memoria", "state.json">>

IsReadme(p)    == Name(p) = "README.md"
IsSidecar(p)   == Name(p) = "README.memoria.toml"
IsGitignore(p) == Name(p) = ".gitignore"

\* A Markdown file that a marker may turn into a document.
MayOptIn(p) == Name(p) \in {"notes.md"}

\* reserved_category: never a source, whatever the rules say.
Reserved(p) ==
    \/ p[1] \in {".git", ".memoria"}
    \/ p \in {ConfigPath, StatePath}
    \/ IsSidecar(p) \/ IsGitignore(p) \/ IsReadme(p)

-----------------------------------------------------------------------------
(***************************************************************************)
(* Selection.  A rule scope is what one configuration declares: the folder *)
(* it applies to, its place in the order from the root inwards, and what   *)
(* it ignores and includes.                                                *)
(***************************************************************************)
RuleScope(dir, place, file) ==
    [dir |-> dir, place |-> place, ignore |-> file.ignore, include |-> file.include]

Matching(p, scopes) ==
    {s \in scopes : /\ IsWithin(Directory(p), s.dir)
                    /\ p \in s.ignore \cup s.include}

\* The innermost scope with a matching rule decides, and there includes win.
Excluded(p, scopes) ==
    LET hits == Matching(p, scopes)
    IN  /\ hits # {}
        /\ p \notin (CHOOSE s \in hits : \A t \in hits : t.place <= s.place).include

Selected(p, scopes) == ~Reserved(p) /\ ~Excluded(p, scopes)

\* A repository's own ignore rules: one scope for each .gitignore.
GitScopes(rules) ==
    {RuleScope(Directory(g), Len(g), rules[g]) :
        g \in {x \in DOMAIN rules : rules[x] # None}}

\* Git enters a folder when no rule above it ignores it or one of its parents.
Entered(dir, rules) ==
    LET scopes == GitScopes(rules)
    IN  \A a \in Ancestors(dir) \ {Root} : ~Excluded(a, scopes)

-----------------------------------------------------------------------------
(***************************************************************************)
(* The handoff rule.  `documents` are the tracked documents, `references`  *)
(* their links and imports, resolved.                                      *)
(***************************************************************************)
\* A mutant: a reference hands a folder off whether its target is tracked or not.
HandoffsToAnything(documents, references) ==
    {[parent |-> r.from, subtree |-> Directory(r.target), target |-> r.target] :
        r \in {x \in references :
                 /\ x.from \in documents
                 /\ Directory(x.target) # Directory(x.from)
                 /\ IsWithin(Directory(x.target), Directory(x.from))}}

Handoffs(documents, references) ==
    {[parent |-> r.from, subtree |-> Directory(r.target), target |-> r.target] :
        r \in {x \in references :
                 /\ {x.from, x.target} \subseteq documents
                 /\ Directory(x.target) # Directory(x.from)
                 /\ IsWithin(Directory(x.target), Directory(x.from))}}

SubtreesOf(d, handoffs) == {h.subtree : h \in {x \in handoffs : x.parent = d}}

\* The folders from the source's own up to the document's, that one left out.
FoldersBelow(d, source) ==
    {a \in Ancestors(Directory(source)) : Len(a) > Len(Directory(d))}

CoveredBy(source, documents, handoffs) ==
    {d \in documents :
        /\ Directory(d) \in Ancestors(Directory(source))
        /\ FoldersBelow(d, source) \cap SubtreesOf(d, handoffs) = {}}

ScopeOf(d, sources, documents, handoffs) ==
    {s \in sources : d \in CoveredBy(s, documents, handoffs)}

CoversDir(d, dir, handoffs) ==
    /\ IsWithin(dir, Directory(d))
    /\ \A subtree \in SubtreesOf(d, handoffs) : ~IsWithin(dir, subtree)

\* The folders whose rules belong to a document's policy.
InRegion(d, dir, handoffs) ==
    \/ dir \in Ancestors(Directory(d))
    \/ CoversDir(d, dir, handoffs)
=============================================================================
