---------------------------- MODULE ReviewAdvice ----------------------------
(***************************************************************************)
(* requirements::build: what a review must read, and why it cannot read    *)
(* less.  The stored record of the last review is compared with the        *)
(* project as it is now, and the old text comes out of Git's history if a  *)
(* search finds it.  A record of an older release does not say which       *)
(* folders were handed off: they are proven from its token or unknown.     *)
(*                                                                         *)
(* A project is what a snapshot knows: tracked documents, sources, policy, *)
(* guidance, and `around`, all that the token binds of consumers and       *)
(* providers.  A digest is the value it is taken of.  Nested repositories  *)
(* are left out, and so are sizes, headings, labels and the wordings.      *)
(***************************************************************************)
EXTENDS History, Imports

CONSTANT
    ProofLimit \* MAX_PROOF_CANDIDATES

ASSUME ProofLimitIsNatural == ProofLimit \in Nat

VARIABLES
    review, \* None, or the project at the last review, its record, and now
    advice  \* None, or what `review` printed

adviceVars == <<review, advice>>

-----------------------------------------------------------------------------
(***************************************************************************)
(* A project and its subject.                                              *)
(***************************************************************************)
Targets(doc) ==
    doc.links \cup {doc.imports[i].provider : i \in DOMAIN doc.imports}

ReferencesIn(project) ==
    UNION {{[from |-> d, target |-> t] : t \in Targets(project.docs[d])} :
           d \in DOMAIN project.docs}

HandoffsIn(project) == Handoffs(DOMAIN project.docs, ReferencesIn(project))

HandedOff(project) == SubtreesOf(Subject, HandoffsIn(project))

SourcesOf(project) ==
    ScopeOf(Subject, DOMAIN project.sources, DOMAIN project.docs, HandoffsIn(project))

ManifestOver(project, scope) ==
    LET files   == InOrder(scope)
        doc     == project.docs[Subject]
        keys    == {[document |-> doc.imports[i].provider,
                     export   |-> doc.imports[i].export] : i \in DOMAIN doc.imports}
        imports == InImportOrder(keys)
    IN  [policy   |-> project.policy,
         document |-> doc,
         files    |-> [i \in DOMAIN files |->
                          [key |-> files[i], hash |-> project.sources[files[i]]]],
         imports  |-> [i \in DOMAIN imports |->
                          [key  |-> imports[i],
                           hash |-> Body(project.docs[imports[i].document],
                                         imports[i].export)]]]

ManifestOf(project) == ManifestOver(project, SourcesOf(project))

MapOf(project) == SectionMap(project.docs[Subject], SourcesOf(project))

ScopePaths(manifest) == {manifest.files[i].key : i \in DOMAIN manifest.files}

-----------------------------------------------------------------------------
(***************************************************************************)
(* The contexts that tokens bound: the handoffs since 0.7, the README      *)
(* boundaries of 0.6.                                                      *)
(***************************************************************************)
Context(handoffs, manifest, mapping, guidance, around) ==
    [layout |-> 2, handoffs |-> handoffs, policy |-> manifest.policy,
     scope |-> ScopePaths(manifest), mapping |-> mapping,
     guidance |-> guidance, imports |-> manifest.imports, around |-> around]

LegacyContext(boundaries, manifest, mapping, guidance, around) ==
    [layout |-> 1, descendants |-> boundaries, policy |-> manifest.policy,
     scope |-> ScopePaths(manifest), mapping |-> mapping,
     guidance |-> guidance, imports |-> manifest.imports, around |-> around]

\* compute_token_v3: injective in everything it binds.
Token(revision, manifest, baseline, context, covered) ==
    [revision |-> revision, inputs |-> manifest, baseline |-> baseline,
     context |-> context, covered |-> covered]

\* The first review of an older release: its baseline is known to be absent.
FirstToken(record, context) ==
    Token(0, record.manifest, "absent", context, {})

Below(dir) == IsWithin(dir, Directory(Subject)) /\ dir # Directory(Subject)

LeftOut(dir, record) ==
    \A p \in ScopePaths(record.manifest) : ~IsWithin(Directory(p), dir)

\* A mutant: a record that does not say what was left out left nothing out.
ProofOfNothing(record, previous, project) ==
    [folders |-> {}, why |-> "proven"]

(***************************************************************************)
(* proven_former_exclusions: the folders that the recorded review left out *)
(* of its scope.  Each set of candidates is tried; the one with which the  *)
(* recorded token comes out again was the one.                             *)
(***************************************************************************)
Proof(record, previous, project) ==
    LET mapping   == Identity(SectionMap(previous, ScopePaths(record.manifest)))
        handoffs  == {h \in {[parent |-> Subject, subtree |-> Directory(t), target |-> t] :
                               t \in Targets(previous)} :
                         Below(h.subtree) /\ LeftOut(h.subtree, record)}
        readmes   == {d \in DOMAIN project.docs :
                         /\ IsReadme(d) /\ d # Subject
                         /\ Below(Directory(d)) /\ LeftOut(Directory(d), record)}
        proven(S) == record.token = FirstToken(record,
                        Context(S, record.manifest, mapping, record.guidance,
                                project.around))
        proven06(S) == record.token = FirstToken(record,
                        LegacyContext(S, record.manifest, mapping, record.guidance,
                                      project.around))
        sets(S)   == IF Cardinality(S) <= ProofLimit THEN SUBSET S ELSE {}
        found     == {{h.subtree : h \in S} : S \in {x \in sets(handoffs) : proven(x)}}
                     \cup {{Directory(d) : d \in S} : S \in {x \in sets(readmes) : proven06(x)}}
    IN  IF record.revision # 1
          THEN [folders |-> {}, why |-> "revision_not_first"]
        ELSE IF record.cleared # {}
          THEN [folders |-> {}, why |-> "acknowledged_invalidations"]
        ELSE IF previous = None
          THEN [folders |-> {}, why |-> "previous_text_unavailable"]
        ELSE IF found # {}
          THEN [folders |-> CHOOSE f \in found : TRUE, why |-> "proven"]
        ELSE [folders |-> {},
              why |-> IF Cardinality(handoffs) > ProofLimit \/ Cardinality(readmes) > ProofLimit
                        THEN "candidate_limit" ELSE "no_matching_reconstruction"]

-----------------------------------------------------------------------------
(***************************************************************************)
(* What changed since the record.                                          *)
(***************************************************************************)
FileChanges(record, project) ==
    LET new == ManifestOf(project)
    IN  ToSet(DiffSorted(record.manifest.files, new.files,
                         PathsBefore(record.manifest.files, new.files)))

ImportChanges(record, project) ==
    LET new == ManifestOf(project)
    IN  ToSet(DiffSorted(record.manifest.imports, new.imports,
                         ImportsBefore(record.manifest.imports, new.imports)))

KeysOf(changes, kinds) == {c.key : c \in {x \in changes : x.change \in kinds}}

\* What the old release recorded of coverage, or a proof of it.
Former(record, previous, project) ==
    IF record.coverage # None THEN [folders |-> record.coverage, why |-> "recorded"]
    ELSE Proof(record, previous, project)

Within(source, folders) == \E f \in folders : IsWithin(Directory(source), f)

(***************************************************************************)
(* classify: the reason that a source which entered or left stands for.    *)
(***************************************************************************)
ReasonAdded(source, record, previous, project) ==
    LET former == Former(record, previous, project)
    IN  CASE source \in project.reviewed  -> "document_classification_changed"
          [] source \notin project.reviewed
                /\ former.why \notin {"recorded", "proven"} -> "coverage_unrecorded"
          [] OTHER -> IF Within(source, former.folders) THEN "handoff_changed"
                                                        ELSE "path_set_changed"

ReasonRemoved(source, project) ==
    CASE source \in DOMAIN project.docs -> "document_classification_changed"
      [] source \notin DOMAIN project.docs /\ Within(source, HandedOff(project)) ->
            "handoff_changed"
      [] OTHER -> "path_set_changed"

Reason(code, at) == [code |-> code, at |-> at]

When(condition, code) == {Reason(c, Subject) : c \in {x \in {code} : condition}}

\* The elements of a sequence that are in S, in their order.
Picked(seq, S) ==
    LET picked[n \in 0 .. Len(seq)] ==
            IF n = 0 THEN <<>>
            ELSE IF seq[n] \in S THEN Append(picked[n - 1], seq[n])
            ELSE picked[n - 1]
    IN  picked[Len(seq)]

\* A mutant: the previous text is not looked for.
NeededWithoutText(record, project) ==
    LET entries == Entries(record.manifest)
        gone    == KeysOf(FileChanges(record, project), {"changed", "removed"})
    IN  Picked(entries, {e \in ToSet(entries) : e.export = None /\ e.path \in gone})

(***************************************************************************)
(* gather_evidence: the bodies a comparison needs, in order, and what the  *)
(* search made of them.                                                    *)
(***************************************************************************)
Needed(record, project) ==
    LET entries == Entries(record.manifest)
        gone    == KeysOf(FileChanges(record, project), {"changed", "removed"})
        lost    == KeysOf(ImportChanges(record, project), {"changed", "removed"})
        needed(e) == \/ /\ e.path = Subject /\ e.export = None
                        /\ record.manifest.document # project.docs[Subject]
                     \/ e.path # Subject /\ e.export = None /\ e.path \in gone
                     \/ /\ e.export # None
                        /\ [document |-> e.path, export |-> e.export] \in lost
    IN  Picked(entries, {e \in ToSet(entries) : needed(e)})

\* The previous text: the current one if it is unchanged, or the one found.
Previous(record, project) ==
    IF record.manifest.document = project.docs[Subject] THEN project.docs[Subject]
    ELSE IF \E i \in hits : search.entries[i].path = Subject
                            /\ search.entries[i].export = None
      THEN record.manifest.document
    ELSE None

Verified == misses = <<>>

(***************************************************************************)
(* build.                                                                  *)
(***************************************************************************)
ReasonsFromRecord(record, project) ==
    LET files    == FileChanges(record, project)
        previous == Previous(record, project)
    IN  When(~Verified, "baseline_unavailable")
        \cup When(record.manifest.policy # project.policy, "policy_changed")
        \cup {Reason(ReasonAdded(s, record, previous, project), s) :
                 s \in KeysOf(files, {"added"})}
        \cup {Reason(ReasonRemoved(s, project), s) : s \in KeysOf(files, {"removed"})}
        \cup When(ImportChanges(record, project) # {}, "imports_changed")
        \cup When(/\ previous # None
                  /\ Identity(SectionMap(previous, SourcesOf(project)))
                        # Identity(MapOf(project)),
                  "mapping_changed")

Reasons(record, project) ==
    When(MapOf(project).kind = "invalid", "mapping_invalid")
    \cup When(record # None /\ record.guidance # project.guidance, "guidance_changed")
    \cup When(project.invalidations # {}, "semantic_invalidation")
    \cup (IF record = None THEN When(TRUE, "baseline_missing")
          ELSE ReasonsFromRecord(record, project)
               \cup {Reason("unmapped_change", s) :
                        s \in {x \in KeysOf(FileChanges(record, project), {"changed"}) :
                                  SectionsFor(MapOf(project), x) = {}}})

\* What to read first: all that changed or came, and the suggested sections.
Suggested(record, project) ==
    UNION {SectionsFor(MapOf(project), s) :
              s \in KeysOf(FileChanges(record, project), {"changed"})}

Advice(record, project) ==
    LET reasons == Reasons(record, project)
        files   == IF record = None THEN {} ELSE FileChanges(record, project)
        focused == reasons = {}
        changed == KeysOf(files, {"changed"})
        context == IF focused THEN UNION {sec.sources \cap (sec.literals \cup changed) :
                                             sec \in Suggested(record, project)}
                              ELSE {}
    IN  [mode     |-> IF focused THEN "focused" ELSE "full",
         reasons  |-> reasons,
         sections |-> IF focused THEN {s.id : s \in Suggested(record, project)} ELSE {},
         read     |-> {Subject} \cup KeysOf(files, {"added", "changed"}) \cup context,
         bodies   |-> IF record = None THEN {}
                      ELSE KeysOf(ImportChanges(record, project), {"added", "changed"})]

-----------------------------------------------------------------------------
(***************************************************************************)
(* What `ack` stored of a review of the project `then`, by the release     *)
(* that stored it.  0.6 cut a scope at every README below the document.    *)
(***************************************************************************)
Boundaries(project) ==
    {d \in DOMAIN project.docs : IsReadme(d) /\ d # Subject /\ Below(Directory(d))}

Folders(release, project) ==
    IF release = "0.6" THEN {Directory(d) : d \in Boundaries(project)}
                       ELSE HandedOff(project)

ReviewedScope(release, project) ==
    IF release = "0.6"
      THEN {s \in DOMAIN project.sources : ~Within(s, Folders(release, project))}
      ELSE SourcesOf(project)

Recorded(release, revision, cleared, then) ==
    LET scope    == ReviewedScope(release, then)
        manifest == ManifestOver(then, scope)
        mapping  == Identity(SectionMap(then.docs[Subject], scope))
        handoffs == {h \in HandoffsIn(then) : h.parent = Subject}
        context  == IF release = "0.6"
                      THEN LegacyContext(Boundaries(then), manifest, mapping,
                                         then.guidance, then.around)
                      ELSE Context(handoffs, manifest, mapping, then.guidance,
                                   then.around)
        baseline == IF revision = 1 THEN "absent" ELSE "earlier"
    IN  [manifest |-> manifest, guidance |-> then.guidance, revision |-> revision,
         cleared  |-> cleared,
         coverage |-> IF release = "current" THEN HandedOff(then) ELSE None,
         token    |-> Token(revision - 1, manifest, baseline, context, cleared)]

\* What a snapshot gives: parsed documents, the subject one of them, and sources.
IsProject(project) ==
    /\ Subject \in DOMAIN project.docs /\ project.docs[Subject] # None
    /\ DOMAIN project.sources \subseteq Paths
    /\ project.docs[Subject].imports \in Seq([provider : Paths, export : Nat])

Reviewable(wanted) ==
    /\ IsProject(wanted.then) /\ IsProject(wanted.now)
    /\ wanted.release \in {"never", "0.6", "0.7", "current"}
    /\ HandedOff(wanted.then) # None

\* `now` is the project, `git` what its repository holds of the past.
InitAdvice(wanted) ==
    LET record == IF wanted.release = "never" THEN None
                  ELSE Recorded(wanted.release, wanted.revision, wanted.cleared,
                                wanted.then)
        needed == IF record = None THEN <<>> ELSE Needed(record, wanted.now)
    IN  /\ review = [then |-> wanted.then, release |-> wanted.release,
                     record |-> record, now |-> wanted.now]
        /\ InitSearch([kind |-> "lookup", entries |-> needed, base |-> wanted.git.base,
                       recent |-> wanted.git.recent, trees |-> wanted.git.trees])
        /\ advice = None

Advise ==
    /\ review # None /\ advice = None /\ pc = "done"
    /\ advice' = Advice(review.record, review.now)
    /\ UNCHANGED <<searchVars, review>>

Evidence == \/ Searching /\ UNCHANGED adviceVars
            \/ Advise

-----------------------------------------------------------------------------
(***************************************************************************)
(* Focused reading is sound.  A reader who follows it reads, of all that   *)
(* differs between the reviewed project and this one, every changed source *)
(* and a section that describes it: nothing came or went, the selection    *)
(* policy, guidance, imported bodies and section associations are those of *)
(* the review, and nobody asked for a semantic review.  Whatever Git gave  *)
(* back, and whatever release wrote the record.                            *)
(***************************************************************************)
FocusedReadingIsSound ==
    (advice # None /\ advice.mode = "focused") =>
        LET then == review.then
            now  == review.now
            read == ReviewedScope(review.release, then)
            old  == then.docs[Subject]
        IN  /\ review.release # "never"
            /\ then.policy = now.policy /\ then.guidance = now.guidance
            /\ now.invalidations = {}
            /\ read = SourcesOf(now)
            /\ ManifestOf(then).imports = ManifestOf(now).imports
            /\ Identity(SectionMap(old, read)) = Identity(MapOf(now))
            /\ MapOf(now).kind # "invalid"
            /\ \A s \in read : then.sources[s] # now.sources[s] =>
                  /\ s \in advice.read
                  /\ \E section \in MapOf(now).sections :
                        section.id \in advice.sections /\ s \in section.sources

(***************************************************************************)
(* A handoff is told truly.  A source that entered the scope is called the *)
(* end of a handoff only when the last review left its folder to another   *)
(* document, and a new path only when it did not: for every release that   *)
(* may have written the record, the older ones of which did not say.       *)
(***************************************************************************)
HandoffsToldTruly ==
    (advice # None /\ review.record # None) =>
        LET left == Folders(review.release, review.then)
            came == SourcesOf(review.now) \ ReviewedScope(review.release, review.then)
        IN  \A s \in came :
               /\ Reason("handoff_changed", s) \in advice.reasons => Within(s, left)
               /\ Reason("path_set_changed", s) \in advice.reasons => ~Within(s, left)
               /\ Reason("coverage_unrecorded", s) \in advice.reasons =>
                     review.release # "current"
=============================================================================
