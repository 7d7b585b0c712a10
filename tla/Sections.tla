------------------------------ MODULE Sections ------------------------------
(***************************************************************************)
(* Section mappings: which sources a section of a document describes.  A   *)
(* section names sources literally, by patterns, and by exclusions; a      *)
(* pattern is the set of paths it matches.  Headings, line ranges and the  *)
(* section's own guide are no part of an association.                      *)
(***************************************************************************)
EXTENDS Layout

Section(id, literals, patterns, exclusions) ==
    [id |-> id, literals |-> literals, patterns |-> patterns,
     exclusions |-> exclusions]

(***************************************************************************)
(* SectionFiles::expand: all includes minus all exclusions, whatever their *)
(* order.  A literal that names no source in the scope is an error.        *)
(***************************************************************************)
Missing(section, scope) == section.literals \ scope

Expansion(section, scope) ==
    LET included == (section.literals \cup UNION section.patterns) \cap scope
        removed  == UNION section.exclusions
    IN  [id       |-> section.id,
         sources  |-> included \ removed,
         literals |-> section.literals \ removed]

(***************************************************************************)
(* resolve_sections and prior_identity: one unusable section makes the     *)
(* whole map invalid, because nobody can tell which advice was meant.      *)
(***************************************************************************)
SectionMap(doc, scope) ==
    LET usable == /\ "section" \notin doc.issues
                  /\ \A s \in doc.sections : Missing(s, scope) = {}
    IN  IF ~usable THEN [kind |-> "invalid", sections |-> {}]
        ELSE IF doc.sections = {} THEN [kind |-> "absent", sections |-> {}]
        ELSE [kind     |-> "valid",
              sections |-> {Expansion(s, scope) : s \in doc.sections}]

SectionsFor(map, source) == {s \in map.sections : source \in s.sources}

\* SectionMap::identity: the associations, and nothing of their wording.
Identity(map) ==
    [kind |-> map.kind, pairs |-> {<<s.id, s.sources>> : s \in map.sections}]
=============================================================================
