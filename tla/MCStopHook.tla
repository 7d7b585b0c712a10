----------------------------- MODULE MCStopHook -----------------------------
(* A root document, one in a folder, a note that may opt in below it, and *)
(* two sources, in every combination of imports, links and stored reviews. *)
EXTENDS StopHook, TLC

README == <<"README.md">>
InnerReadme == <<"a", "README.md">>
Notes == <<"a", "b", "notes.md">>
Ignores == <<".gitignore">>
InnerIgnores == <<"a", ".gitignore">>
Sidecar == <<"a", "README.memoria.toml">>
Inner == <<"a", "x.rs">>
Outer == <<"main.rs">>

ByteOrder == <<Ignores, LegacyPath, README, InnerIgnores, InnerReadme,
               Sidecar, Notes, Inner, Outer, StatePath, ConfigPath>>

InTheIndex == {README, InnerReadme, Outer}

Doc(text, marked, links, imports, body) ==
    [text |-> text, marked |-> marked, links |-> links,
     imports |-> [i \in DOMAIN imports |-> [provider |-> imports[i], export |-> 1]],
     exports |-> {[id |-> 1, body |-> body]}]

Import(d) == <<d>>
Rules(ignore, include) == [ignore |-> ignore, include |-> include]
NoRules == Rules({}, {})
Text(t) == [text |-> t]

Roots  == {Doc(1, TRUE, {InnerReadme}, Import(InnerReadme), 1),
           Doc(1, TRUE, {Notes}, <<>>, 1),
           Doc(1, TRUE, {}, Import(Notes), 1),
           None}
Inners == {Doc(1, TRUE, {}, <<>>, 1),
           Doc(1, TRUE, {Notes}, Import(Notes), 1),
           Doc(1, TRUE, {}, <<README, Notes>>, 1),
           None}
Noted  == {Doc(1, FALSE, {}, <<>>, 1),
           Doc(1, TRUE, {}, <<>>, 1),
           Doc(1, TRUE, {}, Import(README), 1),
           Doc(1, TRUE, {}, Import(InnerReadme), 1)}

\* Sidecars and ignore rules, as few pairs.
RuleSets ==
    {[sidecar |-> None, git |-> None, innerGit |-> None],
     [sidecar |-> Rules({Inner}, {}), git |-> Rules({<<"a", "b">>}, {}), innerGit |-> NoRules],
     [sidecar |-> Rules({}, {Inner}), git |-> Rules({<<"a">>}, {}),
      innerGit |-> Rules({Inner}, {})]}

Tree(root, inner, note, rules) ==
    [p \in Paths |->
        CASE p = README       -> root
          [] p = InnerReadme  -> inner
          [] p = Notes        -> note
          [] p = Sidecar      -> rules.sidecar
          [] p = Ignores      -> rules.git
          [] p = InnerIgnores -> rules.innerGit
          [] p = ConfigPath   -> NoRules
          [] p \in {Inner, Outer} -> Text(1)
          [] OTHER            -> None]

NoRuleFiles == CHOOSE r \in RuleSets : r.git = None

\* The root imports from the folder, the folder from the note.
Chain == Tree(Doc(1, TRUE, {InnerReadme}, Import(InnerReadme), 1),
              Doc(1, TRUE, {Notes}, Import(Notes), 1),
              Doc(1, TRUE, {}, <<>>, 1), NoRuleFiles)

Flat == Tree(Doc(1, TRUE, {Notes}, <<>>, 1), Doc(1, TRUE, {}, <<>>, 1),
             Doc(1, FALSE, {}, <<>>, 1), NoRuleFiles)

\* Notes that are listed but not read, since a sidecar excludes them.
Unread == Tree(Doc(1, TRUE, {InnerReadme}, Import(InnerReadme), 1),
               Doc(1, TRUE, {}, <<>>, 1), Doc(1, TRUE, {}, <<>>, 1),
               [sidecar |-> Rules({Notes}, {}), git |-> None, innerGit |-> None])

\* Notes that Git ignores until the ignore file changes.
Ignored == [Tree(Doc(1, TRUE, {InnerReadme}, Import(InnerReadme), 1),
                 Doc(1, TRUE, {}, <<>>, 1), Doc(1, TRUE, {}, <<>>, 1),
                 [sidecar |-> None, git |-> Rules({<<"a", "b">>}, {}), innerGit |-> None])
               EXCEPT ![Inner] = None]

\* The state after a review of everything in `tree`.
Reviewed(tree) == [reviews |-> Manifests(Whole(tree)), invalidations |-> {}]

Locked(tree, state) == [tree EXCEPT ![StatePath] = state]

OldNote == [Chain EXCEPT ![Notes].text = 2]

States == {None, Reviewed(Chain), Reviewed(OldNote), Reviewed(Flat),
           [Reviewed(Chain) EXCEPT !.invalidations = {{Notes}}]}

AllVersions ==
    [p \in Paths |->
        CASE p = README       -> (Roots \ {None}) \cup {Doc(2, TRUE, {}, <<>>, 2)}
          [] p = InnerReadme  -> Inners \ {None}
          [] p = Notes        -> Noted \cup {OldNote[Notes]}
          [] p = Sidecar      -> ({r.sidecar : r \in RuleSets} \ {None}) \cup {Unread[Sidecar]}
          [] p = Ignores      -> ({r.git : r \in RuleSets} \ {None}) \cup {Rules({Inner}, {})}
          [] p = InnerIgnores -> {r.innerGit : r \in RuleSets} \ {None}
          [] p = ConfigPath   -> {NoRules}
          [] p = StatePath    -> States \ {None}
          [] p = LegacyPath   -> {"old"}
          [] OTHER            -> {Text(1), Text(2)}]

\* What may be saved while the endpoint runs.
SomeSaves ==
    {<<Outer, Text(2)>>, <<Outer, Text(1)>>,
     <<Notes, Doc(1, FALSE, {}, <<>>, 1)>>,
     <<Notes, None>>, <<Ignores, Rules({Inner}, {})>>,
     <<StatePath, Reviewed(Flat)>>, <<LegacyPath, "old">>}

From(tree, state, edit, tempo, heard) ==
    [disk |-> Locked(tree, state), edits |-> edit, pace |-> tempo, events |-> heard]

Quiet(rules, states) ==
    {From(Tree(r, i, n, rules), s, 0, "calm", {"stop"}) :
        r \in Roots, i \in Inners, n \in Noted, s \in states}

\* Projects of every kind that stand still, one that people edit, one on a
\* machine that is slow.
Projects ==
    Quiet(NoRuleFiles, {Reviewed(Chain)})
    \cup UNION {Quiet(rules, {None}) : rules \in RuleSets}
    \cup {From(tree, s, 0, "calm", {"stop"}) :
             tree \in {Chain, OldNote, Flat}, s \in States}
    \cup {From(Chain, Reviewed(Chain), 2, "calm", {"stop"}),
          From(Unread, None, 2, "calm", {"stop"}),
          From(Ignored, None, 2, "calm", {"stop"}),
          From(Flat, None, 0, "calm", Events \ {"held"}),
          From(Flat, Reviewed(Flat), 0, "late", Events)}
=============================================================================
