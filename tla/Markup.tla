------------------------------- MODULE Markup -------------------------------
(* The marker lines of a document and the copy that `render` makes          *)
(* (infrastructure markdown.rs, application render.rs): what a line is, how *)
(* the parser goes through the lines, which texts an export may have, and   *)
(* the replacement of an import's body by the export's.                     *)
(*                                                                          *)
(* A document is a sequence of lines, `ended` when the last one has a line  *)
(* feed.  A line is Markdown (text, heading, blank, fence, the beginning    *)
(* and end of a comment, the beginning of an HTML block) or a marker; the   *)
(* text of a paragraph is a sequence of symbols, of which only brackets and *)
(* what surrounds them matter.  CommonMark itself is external: which lines  *)
(* are code, which positions are code spans, which brackets are links.      *)
EXTENDS Integers, Sequences, FiniteSets

VARIABLES exporter, importer      \* a document, and one that imports from it

twoDocuments == <<exporter, importer>>

\* No block, no section, no guide, no files.
Absent == "absent"

-----------------------------------------------------------------------------
(* CommonMark's blocks, line by line: whether a line is in a fenced or an   *)
(* indented code block, or in HTML.                                         *)
Markers == {"open", "close", "section", "malformed"}

Block(lines) ==
    LET inside[i \in 0..Len(lines)] ==
          IF i = 0 THEN "none"
          ELSE LET before == inside[i - 1]
                   line == lines[i]
               IN  CASE before \in {"tick", "tilde"} ->
                          IF line.kind = "fence" /\ line.mark = before THEN "end" ELSE before
                     [] before = "comment" ->
                          IF line.kind \in Markers \cup {"uncomment"} THEN "none" ELSE before
                     [] before = "html" -> IF line.kind = "blank" THEN "none" ELSE before
                     [] line.kind = "fence" -> line.mark
                     [] line.kind \in {"comment", "html"} -> line.kind
                     [] line.kind = "section" /\ line.form = "indented"
                          /\ before # "paragraph" -> "indented"
                     [] line.kind = "text" -> "paragraph"
                     [] OTHER -> "none"
    IN  inside

CodeBlocks == {"tick", "tilde", "end", "indented"}

CodeRanges(lines) ==
    LET inside == Block(lines)
    IN  {i \in DOMAIN lines : inside[i] \in CodeBlocks}

\* A marker here begins in an HTML block that only a blank line ends.
InHtml(lines, i) == Block(lines)[i] = "html"

-----------------------------------------------------------------------------
(* The attributes of an opening section marker, each with the spaces before *)
(* it (0 when glued, 9 for a tab) and whether `=` stands without space.     *)
NamesGuide(attribute) == attribute.key = "guidance" /\ attribute.gap # 0

GuidanceAttribute(attributes) ==
    {i \in DOMAIN attributes :
        /\ NamesGuide(attributes[i])
        /\ \A j \in 1..(i - 1) : ~NamesGuide(attributes[j])}

\* A token is a path or a pattern, excluded or not, and usable or not.
ParseSectionFiles(tokens) ==
    /\ tokens # <<>>
    /\ \A i \in DOMAIN tokens : tokens[i].usable
    /\ \A i, j \in DOMAIN tokens : tokens[i] = tokens[j] => i = j
    /\ \E i \in DOMAIN tokens : ~tokens[i].exclude

WellPlaced(attribute, key) == attribute.key = key /\ attribute.gap = 1 /\ attribute.tight

\* Without files, a section only has a guide.
ParseSectionAttributes(attributes, guided) ==
    /\ attributes # <<>>
    /\ WellPlaced(attributes[1], "id")
    /\ attributes[1].value # ""
    /\ \/ guided /\ Len(attributes) = 1
       \/ /\ Len(attributes) = 2
          /\ WellPlaced(attributes[2], "files")
          /\ ParseSectionFiles(attributes[2].value)

GuideIsMalformed(attributes, i) ==
    \/ attributes[i].gap \notin {1, 2}
    \/ attributes[i].gap = (IF i = 1 THEN 1 ELSE 2)
    \/ ~attributes[i].tight
    \/ i # Len(attributes)
    \/ ~attributes[i].usable

\* A marker whose own attributes are refused keeps its guide.
ParseSectionOpen(attributes) ==
    LET named == GuidanceAttribute(attributes)
        g == CHOOSE i \in named : TRUE
        own == IF named = {} THEN attributes ELSE SubSeq(attributes, 1, g - 1)
        good == ParseSectionAttributes(own, named # {})
    IN  IF named # {} /\ GuideIsMalformed(attributes, g)
        THEN [error |-> "Guidance"]
        ELSE IF named = {} /\ ~good
        THEN [error |-> "Section"]
        ELSE [error |-> Absent, of |-> "section", opens |-> TRUE,
              id |-> IF own # <<>> /\ own[1].key = "id" /\ own[1].gap = 1 /\ own[1].tight
                     THEN own[1].value ELSE "",
              guidance |-> IF named = {} THEN Absent ELSE attributes[g].value,
              problem |-> ~good]

(* One line that is not code.  A line that tries to be a section marker and *)
(* fails is reported as such, as a guide's if it names one.                 *)
ParseMarker(line) ==
    CASE line.kind = "open" ->
            [error |-> Absent, of |-> line.of, opens |-> TRUE, name |-> line.name]
      [] line.kind = "close" ->
            [error |-> Absent, of |-> line.of, opens |-> FALSE]
      [] line.kind = "malformed" ->
            [error |-> IF line.of = "section" THEN "Section" ELSE "Structural"]
      [] line.kind = "section" /\ line.form = "exact" ->
            ParseSectionOpen(line.attributes)
      [] line.kind = "section" /\ line.form # "exact" ->
            [error |-> IF GuidanceAttribute(line.attributes) # {}
                       THEN "Guidance" ELSE "Section"]

-----------------------------------------------------------------------------
(* CommonMark's inlines: the symbols of a range of lines, "nl" between two  *)
(* lines of a paragraph and "end" between blocks; which of them are code,   *)
(* and which brackets an inline link or image has.                          *)
Symbols(lines, from, to) ==
    LET code == CodeRanges(lines)
        flat[i \in (from - 1)..to] ==
          IF i < from THEN <<>>
          ELSE LET text == IF lines[i].kind = "text" THEN lines[i].body ELSE <<"end">>
               IN  flat[i - 1] \o [n \in 1..(Len(text) + 1) |->
                     [is |-> IF n <= Len(text) THEN text[n] ELSE "nl", block |-> i \in code]]
    IN  flat[to]

Whole(b, i, j) == \A k \in i..j : b[k].is # "end"

\* Where the code span at a position ends, and whether it is escaped.
Spans(b) ==
    LET at[p \in 0..Len(b)] ==
          IF p = 0 THEN [ends |-> 0, escaped |-> FALSE]
          ELSE LET before == at[p - 1]
                   closing == {q \in (p + 1)..Len(b) : b[q].is = "tick" /\ Whole(b, p, q)}
               IN  IF p <= before.ends THEN [before EXCEPT !.escaped = FALSE]
                   ELSE IF p > 1 /\ p - 1 > before.ends /\ b[p - 1].is = "\\" /\ ~before.escaped
                   THEN [ends |-> 0, escaped |-> TRUE]
                   ELSE IF b[p].is = "tick" /\ closing # {}
                   THEN [ends |-> CHOOSE q \in closing : \A k \in closing : q <= k,
                         escaped |-> FALSE]
                   ELSE [ends |-> 0, escaped |-> FALSE]
    IN  at

Literal(b) == LET at == Spans(b) IN {p \in DOMAIN b : b[p].block \/ p <= at[p].ends}

\* The brackets that are neither code nor escaped.
Brackets(b) ==
    LET at == Spans(b)
        code == Literal(b)
    IN  {p \in DOMAIN b \ code : b[p].is \in {"[", "]"} /\ ~at[p].escaped}

\* After an odd number of backslashes.
Slashed(b, from, p) ==
    LET run == {j \in from..(p - 1) : \A k \in j..(p - 1) : b[k].is = "\\"}
    IN  Cardinality(run) % 2 = 1

Opens(b, S) == Cardinality({p \in S : b[p].is = "["})

\* BracketPairs of brackets of one paragraph, as the parser pairs them.
BracketPairs(b) ==
    LET live == Brackets(b)
    IN  {pair \in live \X live :
            LET i == pair[1]
                j == pair[2]
                between == {p \in live : i < p /\ p < j}
            IN  /\ i < j /\ b[i].is = "[" /\ b[j].is = "]" /\ Whole(b, i, j)
                /\ 2 * Opens(b, between) = Cardinality(between)
                /\ \A p \in between :
                      LET upTo == {q \in between : q <= p}
                      IN  2 * Opens(b, upTo) >= Cardinality(upTo)}

Absolute == {"(https)"}
Complete == Absolute \cup {"(path)"}

Image(b, i) == i > 1 /\ b[i - 1].is = "!" /\ ~Spans(b)[i - 1].escaped

\* A link has no link in it; an image may.
InlineLinks(b) ==
    LET complete == {pair \in BracketPairs(b) : pair[2] < Len(b) /\ b[pair[2] + 1].is \in Complete}
    IN  {pair \in complete :
            \/ Image(b, pair[1])
            \/ \A inner \in complete :
                  ~(pair[1] < inner[1] /\ inner[2] < pair[2] /\ ~Image(b, inner[1]))}

\* What a definition elsewhere in the document gives a meaning to.
References(b) ==
    LET raw == {p \in DOMAIN b : b[p].is \in {"[", "]"} /\ ~Slashed(b, 1, p)}
    IN  {pair \in BracketPairs(b) \ InlineLinks(b) :
            /\ \A p \in (pair[1] + 1)..(pair[2] - 1) : p \notin raw
            /\ \E p \in (pair[1] + 1)..(pair[2] - 1) : b[p].is \notin {" ", "nl"}}

-----------------------------------------------------------------------------
(* The texts that an export may have.                                       *)

\* The scan of the bytes, which knows of code only at the opening bracket.
MatchingBracket(b, open) ==
    LET at[i \in open..Len(b)] ==
          IF i = open THEN [depth |-> 1, skip |-> FALSE]
          ELSE LET before == at[i - 1]
               IN  IF before.skip \/ before.depth = 0 THEN [before EXCEPT !.skip = FALSE]
                   ELSE CASE b[i].is = "\\" -> [before EXCEPT !.skip = TRUE]
                          [] b[i].is = "[" -> [before EXCEPT !.depth = @ + 1]
                          [] b[i].is = "]" -> [before EXCEPT !.depth = @ - 1]
                          [] OTHER -> before
        closes == {i \in (open + 1)..Len(b) : at[i].depth = 0}
    IN  IF closes = {} THEN 0 ELSE CHOOSE i \in closes : \A j \in closes : i <= j

\* Mutant: the text of a link is taken as it is.
NoNestedBracket(b, from, to, literal) == FALSE

HasUnescapedBracket(b, from, to, literal) ==
    \E i \in from..to :
        /\ b[i].is \in {"[", "]"} /\ i \notin literal
        /\ ~Slashed(b, from, i)

Larger(m, n) == IF m > n THEN m ELSE n

AtLineStart(b, i) ==
    \E n \in 0..3 : /\ \A k \in (i - n)..(i - 1) : k >= 1 /\ b[k].is = " "
                    /\ i - n = 1 \/ (i - n > 1 /\ b[i - n - 1].is \in {"nl", "end"})

\* reference_syntax_problems: whether it finds any.
HasReferenceSyntax(b, links, literal) ==
    LET found[i \in 1..(Len(b) + 2)] ==
          IF i > Len(b) THEN FALSE
          ELSE IF i \in literal THEN found[i + 1]
          ELSE IF b[i].is = "\\" THEN found[i + 2]
          ELSE IF b[i].is # "[" THEN found[i + 1]
          ELSE \E close \in {MatchingBracket(b, i)}, link \in {{l \in links : l[1] = i}} :
                  IF close = 0 THEN found[i + 1]
                  ELSE CASE b[close + 1].is \in Complete \cup {"("} ->
                              \/ link = {}
                              \/ HasUnescapedBracket(b, i + 1, close - 1, literal)
                              \/ \E l \in link : found[Larger(l[2] + 2, close + 1)]
                         [] b[close + 1].is = "[" -> TRUE
                         [] b[close + 1].is = ":" /\ AtLineStart(b, i) -> TRUE
                         [] OTHER ->
                              \/ \E k \in (i + 1)..(close - 1) : b[k].is \notin {" ", "nl"}
                              \/ found[close + 1]
    IN  found[1]

\* validate_export_range.
ExportIsInvalid(lines, from, to) ==
    \/ \E i \in from..to : i \notin CodeRanges(lines)
                             /\ lines[i].kind \in Markers \cup {"comment", "html"}
    \/ \E b \in {Symbols(lines, from, to)} : \E links \in {InlineLinks(b)} :
          \/ \E link \in links : b[link[2] + 1].is \notin Absolute
          \/ HasReferenceSyntax(b, links, Literal(b))

-----------------------------------------------------------------------------
(* The parser, line by line.  One block and one section may be open; an     *)
(* opening marker of a section that was refused swallows the next close.    *)
NoMarker == [of |-> Absent]
ExportNames == {"a", "b"}      \* names that ExportId::parse takes
SectionNames == {"s", "t"}

Start ==
    [block |-> NoMarker, section |-> NoMarker, recovering |-> FALSE,
     exports |-> <<>>, imports |-> <<>>, sections |-> <<>>, guides |-> {},
     issues |-> {}, advice |-> {}]

Issue(r, code, at) == [r EXCEPT !.issues = @ \cup {[code |-> code, at |-> at]}]
Advise(r, at) == [r EXCEPT !.advice = @ \cup {at}]

\* The guide of a section applies whatever else is wrong with the section.
Hear(r, section, at) ==
    IF section.guidance = Absent THEN r
    ELSE [r EXCEPT !.guides = @ \cup {[token |-> section.guidance, at |-> at]}]

Malformed(r, i, error, closes) ==
    CASE error = "Section"  -> [Advise(r, i) EXCEPT !.recovering = ~closes]
      [] error = "Guidance" ->
            [Issue(r, "section_guidance_invalid", i) EXCEPT !.recovering = ~closes]
      [] error = "Structural" -> Issue(r, "marker_malformed", i)

ReadSectionOpen(r, i, marker, fed) ==
    IF r.section.of # Absent \/ r.block.of # Absent
    THEN [Advise(Hear(r, marker, i), i) EXCEPT !.recovering = TRUE]
    ELSE IF ~fed
    THEN Advise(Hear(r, marker, i), i)
    ELSE [(IF marker.problem THEN Advise(r, i) ELSE r) EXCEPT
              !.section = [of |-> "section", id |-> marker.id, guidance |-> marker.guidance,
                           problem |-> marker.problem, at |-> i]]

\* The first block of a section is a heading.
LeadingHeading(lines, from, to) ==
    \E i \in from..to : /\ lines[i].kind = "heading"
                        /\ \A j \in from..(i - 1) : lines[j].kind = "blank"

ReadSectionClose(lines, r, i) ==
    LET current == r.section
        closed  == [r EXCEPT !.section = NoMarker]
        heard   == Hear(closed, current, current.at)
    IN  IF current.of = Absent
        THEN IF r.recovering THEN [r EXCEPT !.recovering = FALSE] ELSE Advise(r, i)
        ELSE IF r.block.of # Absent
        THEN Advise(heard, current.at)
        ELSE IF current.problem
        THEN heard
        ELSE IF \/ \E n \in DOMAIN r.sections : r.sections[n].id = current.id
                \/ current.id \notin SectionNames
                \/ ~LeadingHeading(lines, current.at + 1, i - 1)
        THEN Advise(heard, current.at)
        ELSE [heard EXCEPT !.sections =
                  Append(@, [id |-> current.id, from |-> current.at + 1, to |-> i - 1])]

ReadBlockOpen(r, i, marker, fed) ==
    IF r.block.of # Absent THEN Issue(r, "marker_nested", i)
    ELSE IF ~fed THEN Issue(r, "marker_malformed", i)
    ELSE [r EXCEPT !.block = [of |-> marker.of, name |-> marker.name, at |-> i]]

ReadBlockClose(lines, r, i, marker) ==
    LET current == r.block
        closed  == [r EXCEPT !.block = NoMarker]
        body    == [name |-> current.name, from |-> current.at + 1, to |-> i - 1]
        checked == IF ExportIsInvalid(lines, body.from, body.to)
                   THEN Issue(closed, "export_invalid", current.at) ELSE closed
    IN  IF current.of # marker.of
        THEN Issue(closed, "marker_mismatch", i)
        ELSE IF marker.of = "import"
        THEN [closed EXCEPT !.imports = Append(@, body)]
        ELSE IF body.name \notin ExportNames
        THEN Issue(closed, "export_invalid", current.at)
        ELSE IF \E n \in DOMAIN r.exports : r.exports[n].name = body.name
        THEN Issue(closed, "export_duplicate", current.at)
        ELSE [checked EXCEPT !.exports = Append(@, body)]

\* `fed`: the line ends with a line feed.
ReadMarker(lines, r, i, marker, fed) ==
    IF marker.error # Absent
    THEN Malformed(r, i, marker.error, lines[i].kind = "malformed" /\ lines[i].closes)
    ELSE IF marker.of = "section"
    THEN IF marker.opens THEN ReadSectionOpen(r, i, marker, fed) ELSE ReadSectionClose(lines, r, i)
    ELSE IF marker.opens THEN ReadBlockOpen(r, i, marker, fed)
    ELSE ReadBlockClose(lines, r, i, marker)

\* Mutant: the guide of a section that nothing closes is forgotten.
CloseSilently(r) ==
    LET block == IF r.block.of = Absent THEN r ELSE Issue(r, "marker_unclosed", r.block.at)
    IN  IF r.section.of = Absent THEN block ELSE Advise(block, r.section.at)

Close(r) ==
    LET block == IF r.block.of = Absent THEN r ELSE Issue(r, "marker_unclosed", r.block.at)
    IN  IF r.section.of = Absent THEN block
        ELSE Advise(Hear(block, r.section, r.section.at), r.section.at)

\* The parser's state after each line, in a set of one.
Read(doc) ==
    LET code == CodeRanges(doc.lines)
        read[i \in 0..Len(doc.lines)] ==
          IF i = 0 THEN {Start}
          ELSE IF i \in code \/ doc.lines[i].kind \notin Markers THEN read[i - 1]
          ELSE {ReadMarker(doc.lines, r, i, marker, i < Len(doc.lines) \/ doc.ended) :
                   r \in read[i - 1], marker \in {ParseMarker(doc.lines[i])}}
    IN  read[Len(doc.lines)]

\* One invalid section withdraws the advice of the whole document.
Outcome(r) ==
    [exports |-> r.exports, imports |-> r.imports, guides |-> r.guides,
     issues |-> r.issues, advice |-> r.advice,
     sections |-> IF r.advice = {} THEN r.sections ELSE <<>>]

Parse(doc) == {Outcome(r) : r \in {Close(last) : last \in Read(doc)}}

-----------------------------------------------------------------------------
(* `render` on the importer, whose imports are of the exporter's exports.   *)
Body(doc, block) == SubSeq(doc.lines, block.from, block.to)

\* The bodies that differ are replaced from the last to the first.
RenderDocument(doc, imports, exported) ==
    LET replaced[n \in 0..Len(imports)] ==
          IF n = Len(imports) THEN doc.lines
          ELSE LET i == imports[n + 1]
               IN  SubSeq(replaced[n + 1], 1, i.from - 1) \o exported[i.name]
                     \o SubSeq(replaced[n + 1], i.to + 1, Len(replaced[n + 1]))
    IN  [doc EXCEPT !.lines = replaced[0]]

Exported(doc, exports) ==
    [name \in {exports[n].name : n \in DOMAIN exports} |->
        Body(doc, exports[CHOOSE n \in DOMAIN exports : exports[n].name = name])]

Valid(doc) == {p \in Parse(doc) : p.issues = {}}

\* What `render` makes of the importer, if both documents are valid and every
\* import has its export.
Rendered(from, to) ==
    UNION {{RenderDocument(to, theirs.imports, exported) :
               exported \in {e \in {Exported(from, ours.exports)} :
                   \A n \in DOMAIN theirs.imports : theirs.imports[n].name \in DOMAIN e}} :
           ours \in Valid(from), theirs \in Valid(to)}

RenderCopy ==
    /\ importer' \in Rendered(exporter, importer)
    /\ UNCHANGED exporter

-----------------------------------------------------------------------------
\* No guide is dropped in silence (markdown.rs:42-46): a line outside code that
\* names one makes it a guide of the document, whatever is wrong with its
\* section, its neighbours or the end of the document, or is reported itself.
GuidesAreHeard ==
    \A r \in Parse(importer), code \in {CodeRanges(importer.lines)} :
        \A i \in DOMAIN importer.lines \ code :
            LET line == importer.lines[i]
                heard == {g \in r.guides : g.at = i}
                reported == {e \in r.issues : e.at = i /\ e.code = "section_guidance_invalid"}
            IN  line.kind = "section" =>
                  \A n \in GuidanceAttribute(line.attributes) :
                      \/ heard = {[token |-> line.attributes[n].value, at |-> i]} /\ reported = {}
                      \/ heard = {} /\ reported # {}

\* An import in an HTML block that nothing ended is copied into HTML.
Sheltered(doc, imports) ==
    \A n \in DOMAIN imports : ~InHtml(doc.lines, imports[n].from - 1)

SameBlocks(doc, blocks, other, others) ==
    /\ Len(blocks) = Len(others)
    /\ \A n \in DOMAIN blocks : /\ blocks[n].name = others[n].name
                                /\ Body(doc, blocks[n]) = Body(other, others[n])

\* What an export's text is in its own document: the lines that are code.
CodeOf(doc, block) ==
    {n \in 1..(block.to + 1 - block.from) : block.from + n - 1 \in CodeRanges(doc.lines)}

MeansTheSame(from, export, to, import) ==
    /\ Body(to, import) = Body(from, export)
    /\ CodeOf(to, import) = CodeOf(from, export)
    /\ \A b \in {Symbols(to.lines, import.from, import.to)} : References(b) = {}

KeepsMeaning(from, before, after) ==
    \A ours \in Parse(from), was \in Parse(before), is \in Parse(after) :
        Sheltered(before, was.imports) =>
            /\ is.issues = {}
            /\ SameBlocks(before, was.exports, after, is.exports)
            /\ [n \in DOMAIN is.sections |-> is.sections[n].id]
                   = [n \in DOMAIN was.sections |-> was.sections[n].id]
            /\ {g.token : g \in is.guides} = {g.token : g \in was.guides}
            /\ Len(is.imports) = Len(was.imports)
            /\ \A n \in DOMAIN is.imports :
                  \E k \in DOMAIN ours.exports :
                      /\ ours.exports[k].name = was.imports[n].name
                      /\ MeansTheSame(from, ours.exports[k], after, is.imports[n])
            /\ Rendered(from, after) = {after}

\* A copy means in the importer what the export means in its own document: no
\* text that passed as an export becomes a marker, a block that reaches beyond
\* it, or a reference that the importer's definitions resolve; the importer's
\* other blocks, sections and guides stay; a second `render` changes nothing.
RenderingKeepsMeaning == [][KeepsMeaning(exporter, importer, importer')]_twoDocuments
=============================================================================
