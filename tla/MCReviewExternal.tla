--------------------------- MODULE MCReviewExternal ---------------------------
(* Two documents of a project that other programs also write, and what the  *)
(* parser and `render` make of the texts that those programs write: the     *)
(* bodies of an export and the lines around an import.  A behaviour has one *)
(* of the two.                                                              *)
EXTENDS MCReviewCycle, Markup

Paragraph(symbols) == [kind |-> "text", body |-> symbols]
Plain(kind) == [kind |-> kind]
Fence(mark) == [kind |-> "fence", mark |-> mark]
Opening(of, name) == [kind |-> "open", of |-> of, name |-> name]
Closing(of) == [kind |-> "close", of |-> of]
Bad(of, closes) == [kind |-> "malformed", of |-> of, closes |-> closes]

Attribute(key, value) ==
    [key |-> key, value |-> value, gap |-> 1, tight |-> TRUE, usable |-> TRUE]
Source(exclude, usable) == [exclude |-> exclude, usable |-> usable]
Some  == Source(FALSE, TRUE)
Not   == Source(TRUE, TRUE)
Id(n) == Attribute("id", n)
Of(tokens) == Attribute("files", tokens)
Guide(n)   == Attribute("guidance", n)

Section(attributes) == [kind |-> "section", form |-> "exact", attributes |-> attributes]
Loose(form, attributes) == [kind |-> "section", form |-> form, attributes |-> attributes]

Doc(lines, ended) == [lines |-> lines, ended |-> ended]
Seqs(S, n) == UNION {[1..k -> S] : k \in 0..n}

Import(name, lines) == <<Opening("import", name)>> \o lines \o <<Closing("import")>>
Export(name, lines) == <<Opening("export", name)>> \o lines \o <<Closing("export")>>

A == Paragraph(<<"a">>)
Advised == Section(<<Id("s"), Guide("g")>>)

-----------------------------------------------------------------------------
(* Any two lines as an export's body, any line before and after an import.  *)
Pieces ==
    {A, Plain("blank"), Plain("heading"), Fence("tick"), Fence("tilde"), Plain("comment"),
     Opening("export", "b"), Closing("import"), Closing("section"), Bad("section", FALSE)}

Around ==
    {A, Plain("blank"), Fence("tick"), Fence("tilde"), Plain("comment"), Plain("uncomment"),
     Plain("html"), Opening("export", "b"), Closing("export"), Advised, Closing("section")}

Exporting == {Doc(Export("a", lines), TRUE) : lines \in Seqs(Pieces, 2)}
Importing ==
    {Doc(before \o Import("a", <<>>) \o after, TRUE) :
        before \in Seqs(Around, 1), after \in Seqs(Around, 1)}

(* Every short paragraph that brackets and code spans can make of a link.   *)
AllSymbols == {"[", "]", "(https)", "(path)", "(", "!", "tick", "\\", "a", " "}
Linking    == {"[", "]", "(https)", "tick", "a"}

Bracketed ==
    {Doc(Export("a", <<Paragraph(s)>>), TRUE) :
        s \in Seqs(AllSymbols, 3) \cup {<<"[">> \o m \o <<"(https)">> : m \in [1..4 -> Linking]}}
Stale == {Doc(Import("a", <<A>>), TRUE)}

-----------------------------------------------------------------------------
(* Every spelling of a section's marker, and where its section may go.      *)
Ids    == {Id("s"), Id(""), Id("?"), [Id("s") EXCEPT !.gap = 2], [Id("s") EXCEPT !.tight = FALSE]}
Lists  == {Of(<<Some>>), Of(<<>>), Of(<<Not>>), Of(<<Some, Some>>), Of(<<Some, Not>>),
           Of(<<Source(FALSE, FALSE)>>), [Of(<<Some>>) EXCEPT !.gap = 2]}
Guides == {Guide("g")} \cup {[Guide("h") EXCEPT !.gap = n] : n \in {0, 2, 9}}
           \cup {[Guide("h") EXCEPT !.tight = FALSE], [Guide("h") EXCEPT !.usable = FALSE]}

Spelled ==
    {<<i>> : i \in Ids} \cup {<<g>> : g \in Guides}
      \cup {<<i, l>> : i \in Ids, l \in Lists} \cup {<<i, g>> : i \in Ids, g \in Guides}
      \cup {<<i, l, g>> : i \in Ids, l \in Lists, g \in Guides}
      \cup {<<g, i>> : i \in Ids, g \in Guides} \cup {<<g, h>> : g, h \in Guides}

Openings ==
    {Section(attributes) : attributes \in Spelled}
      \cup {Loose(form, attributes) :
               form \in {"indented", "unclosed"}, attributes \in {<<Id("s"), Of(<<Some>>)>>, <<Guide("g")>>}}

Placed(opening) ==
    {<<opening>>, <<opening, Closing("section")>>,
     <<opening, Plain("heading"), Closing("section")>>,
     <<A, opening, Plain("heading"), Closing("section")>>,
     <<opening, Plain("heading"), Closing("section"), opening, Plain("heading"), Closing("section")>>,
     <<Advised, opening, Closing("section"), Plain("heading"), Closing("section")>>,
     <<opening, Plain("heading"), Opening("export", "b"), Closing("section"), Closing("export")>>,
     Export("b", <<opening, Closing("section")>>),
     <<Fence("tick"), opening, Fence("tick")>>, <<Fence("tilde"), opening>>}

Sectioned ==
    UNION {{Doc(lines \o Import("a", <<>>), TRUE) : lines \in Placed(opening)}
             \cup {Doc(<<opening>>, FALSE)} : opening \in Openings}
Shared == {Doc(Export("a", <<A>>), TRUE)}

-----------------------------------------------------------------------------
Copied == [d \in Docs |-> [i \in Imports[d] |-> x]]
NoText == Doc(<<>>, FALSE)

InitTexts ==
    \/ exporter = NoText /\ importer = NoText
    \/ exporter \in Exporting /\ importer \in Importing
    \/ exporter \in Bracketed /\ importer \in Stale
    \/ exporter \in Shared /\ importer \in Sectioned

InitCycleOrTexts ==
    /\ Init /\ InitTexts
    /\ importer # NoText => body = Copied

CycleOrTexts ==
    \/ importer = NoText /\ Next /\ UNCHANGED twoDocuments
    \/ importer # NoText /\ RenderCopy /\ UNCHANGED vars

CycleOrTextsSpec == InitCycleOrTexts /\ [][CycleOrTexts]_<<vars, twoDocuments>>
=============================================================================
