----------------------------- MODULE LockCodec -----------------------------
(***************************************************************************)
(* The text of memoria.lock: one state is one sequence of bytes.  Repeated *)
(* strings, paths, contents, guidance, Git contexts and vectors of numbers *)
(* are rows of tables in a fixed order, and the records hold their indexes.*)
(* The reader is to refuse any other way of writing a state.               *)
(*                                                                         *)
(* A byte has four bits here, so that a number takes three in each.  A     *)
(* letter of a text, a hash and half of a commit's id are a byte each; a   *)
(* time is its day.  A path is the sequence of its names.                  *)
(***************************************************************************)
EXTENDS Integers, Sequences, FiniteSets

LOCAL INSTANCE TLC
LOCAL INSTANCE FiniteSetsExt
LOCAL INSTANCE SequencesExt

CONSTANTS
    Width,          \* bits of a stored number; one more than a multiple of 3
    ExpandedValues, \* MAX_EXPANDED_VALUES
    ExpandedBytes,  \* MAX_EXPANDED_STRING_BYTES
    PacksFrom       \* a payload of so many bytes gets smaller when compressed

ASSUME NumbersAreGroups == Width \in Nat /\ Width % 3 = 1

VARIABLES
    saved, \* the state a command saves
    lock   \* memoria.lock

\* The letters with a meaning of their own, in the order of their bytes.
Space == 0
Dot   == 1
Slash == 2
MD    == 3 \* README.md, or the end of another document's name

-----------------------------------------------------------------------------
LOCAL Before(s, t) ==
    \E i \in 1..Len(t) :
        /\ i - 1 <= Len(s) /\ SubSeq(s, 1, i - 1) = SubSeq(t, 1, i - 1)
        /\ i - 1 < Len(s) => s[i] < t[i]

LOCAL Ascending(S, Less(_, _)) ==
    LET rank == [x \in S |-> Cardinality({y \in S : Less(y, x)})]
    IN  [n \in 1..Cardinality(S) |-> CHOOSE x \in S : rank[x] = n - 1]

LOCAL InOrderOf(S) == Ascending(S, Before)

LOCAL Rises(s) == \A i \in 2..Len(s) : Before(s[i - 1], s[i])

LOCAL Place(s, x) == CHOOSE i \in DOMAIN s : s[i] = x

LOCAL Cat(n, Op(_)) ==
    LET first[i \in 0..n] == IF i = 0 THEN <<>> ELSE first[i - 1] \o Op(i)
    IN  first[n]

LOCAL Shared(s, t) ==
    Max({n \in 0..Min({Len(s), Len(t)}) : SubSeq(s, 1, n) = SubSeq(t, 1, n)})

-----------------------------------------------------------------------------
(***************************************************************************)
(* Days of the proleptic Gregorian calendar, counted from 1970-01-01.      *)
(***************************************************************************)
IsLeap(year) == (year % 4 = 0 /\ year % 100 # 0) \/ year % 400 = 0

IsDate(date) ==
    /\ date.year \in 1..9999 /\ date.month \in 1..12
    /\ date.day \in 1..(CASE date.month \in {4, 6, 9, 11} -> 30
                          [] date.month = 2 -> IF IsLeap(date.year) THEN 29 ELSE 28
                          [] OTHER -> 31)

DaysFromCivil(date) ==
    LET y   == IF date.month <= 2 THEN date.year - 1 ELSE date.year
        era == y \div 400
        yoe == y - era * 400
        doy == (153 * ((date.month + 9) % 12) + 2) \div 5 + date.day - 1
    IN  era * 146097 + yoe * 365 + yoe \div 4 - yoe \div 100 + doy - 719468

\* Mutant: the last day of four centuries is not taken off.
CivilFromDaysOfCommonYears(days) ==
    LET z   == days + 719468
        doe == z % 146097
        yoe == (doe - doe \div 1460 + doe \div 36524) \div 365
        doy == doe - (365 * yoe + yoe \div 4 - yoe \div 100)
        mp  == (5 * doy + 2) \div 153
        month == IF mp < 10 THEN mp + 3 ELSE mp - 9
        year  == yoe + (z \div 146097) * 400
    IN  [year  |-> IF month <= 2 THEN year + 1 ELSE year, month |-> month,
         day   |-> doy - (153 * mp + 2) \div 5 + 1]

CivilFromDays(days) ==
    LET z   == days + 719468
        era == z \div 146097
        doe == z - era * 146097
        yoe == (doe - doe \div 1460 + doe \div 36524 - doe \div 146096) \div 365
        doy == doe - (365 * yoe + yoe \div 4 - yoe \div 100)
        mp  == (5 * doy + 2) \div 153
        month == IF mp < 10 THEN mp + 3 ELSE mp - 9
        year  == yoe + era * 400
    IN  [year  |-> IF month <= 2 THEN year + 1 ELSE year, month |-> month,
         day   |-> doy - (153 * mp + 2) \div 5 + 1]

(***************************************************************************)
(* Paths and texts.                                                        *)
(***************************************************************************)
Joined(path) ==
    Cat(Len(path), LAMBDA i : IF i = 1 THEN path[i] ELSE <<Slash>> \o path[i])

\* path_key: the depth, then the bytes.
ByDepth(p, q) ==
    Len(p) < Len(q) \/ (Len(p) = Len(q) /\ Before(Joined(p), Joined(q)))

Home(document) == Front(document)

Below(path, folder) == IsStrictPrefix(folder, path)

IsDocument(path) == path # <<>> /\ Last(Last(path)) = MD

Covers(scope, document) ==
    CASE scope.kind = 0 -> TRUE
      [] scope.kind = 1 -> document = scope.path
      [] scope.kind = 2 -> Below(document, scope.path)

\* The parts of a text between its slashes.
Split(text) ==
    LET cuts == {0, Len(text) + 1} \cup {i \in DOMAIN text : text[i] = Slash}
        cut  == Ascending(cuts, <)
    IN  [i \in 1..(Len(cut) - 1) |-> SubSeq(text, cut[i] + 1, cut[i + 1] - 1)]

\* DirPath::join: the one path a relative text names, or none.
Resolve(folder, text) ==
    LET ends  == text # <<>> /\ Last(text) = Slash
        parts == Split(IF ends THEN Front(text) ELSE text)
        step(paths, part) ==
            CASE part = <<Dot>>      -> paths
              [] part = <<Dot, Dot>> -> {Front(p) : p \in paths \ {<<>>}}
              [] OTHER               -> {Append(p, part) : p \in paths}
    IN  IF <<>> \in ToSet(parts) THEN {} ELSE FoldLeft(step, {folder}, parts) \ {<<>>}

\* What the parsers of names and notes make of a text.
Trimmed(text) ==
    LET kept == {i \in DOMAIN text : text[i] # Space}
    IN  IF kept = {} THEN <<>> ELSE SubSeq(text, Min(kept), Max(kept))

IsExportId(text) == text # <<>> /\ \A i \in DOMAIN text : text[i] > MD

-----------------------------------------------------------------------------
(***************************************************************************)
(* The tables of a state.  The coverage of a record is a set of at most    *)
(* one set of folders: none when its release did not record it.            *)
(***************************************************************************)
Relative(document, path) == Joined(SubSeq(path, Len(document), Len(path)))

GitWire(git) == <<git.dirty + 2 * Len(git.base)>> \o git.base

Occurrences(s, content) ==
    MapThenSumSet(LAMBDA d :
            LET r == s.reviews[d]
            IN  (IF r.content = content THEN 1 ELSE 0)
                + Cardinality({f \in DOMAIN r.files : r.files[f] = content})
                + Cardinality({i \in DOMAIN r.imports : r.imports[i] = content}),
        DOMAIN s.reviews)

ContentsOf(s) ==
    UNION {{r.content} \cup {r.files[f] : f \in DOMAIN r.files}
                       \cup {r.imports[i] : i \in DOMAIN r.imports} :
               r \in {s.reviews[d] : d \in DOMAIN s.reviews}}

\* Every named path and its ancestors; the root has no row.
PathsOf(s) ==
    LET records == {s.reviews[d] : d \in DOMAIN s.reviews}
        opened  == ToSet(s.invalidations)
        named   == DOMAIN s.reviews
                     \cup UNION {UNION r.coverage : r \in records}
                     \cup UNION {{i[1] : i \in DOMAIN r.imports} : r \in records}
                     \cup UNION {i.targets \cup i.pending \cup {i.scope.path} : i \in opened}
    IN  UNION {{SubSeq(p, 1, n) : n \in 1..Len(p)} : p \in named}

StringsOf(s) ==
    LET names(d) == LET r == s.reviews[d]
                    IN  {r.reviewer, r.note} \cup {Relative(d, f) : f \in DOMAIN r.files}
                                             \cup {i[2] : i \in DOMAIN r.imports}
    IN  UNION {names(d) : d \in DOMAIN s.reviews}
          \cup {i.reason : i \in ToSet(s.invalidations)}
          \cup UNION {ToSet(p) : p \in PathsOf(s)}

DatesOf(s) == {s.reviews[d].at : d \in DOMAIN s.reviews} \cup {i.at : i \in ToSet(s.invalidations)}

Times(s) == {DaysFromCivil(date) : date \in DatesOf(s)}

PathId(paths, p) == IF p = <<>> THEN 0 ELSE Place(paths, p)

Ids(paths, S) == Ascending({PathId(paths, p) : p \in S}, <)

VectorsOf(s, paths) ==
    LET records == {s.reviews[d] : d \in DOMAIN s.reviews}
    IN  {r.cleared : r \in records}
          \cup UNION {{Ids(paths, folders) : folders \in r.coverage} : r \in records}
          \cup UNION {{Ids(paths, i.targets), Ids(paths, i.pending)} :
                          i \in ToSet(s.invalidations)}

\* build_tables.
Tables(s) ==
    LET records == {s.reviews[d] : d \in DOMAIN s.reviews}
        paths   == Ascending(PathsOf(s), ByDepth)
    IN  [strings  |-> InOrderOf(StringsOf(s)),
         paths    |-> paths,
         contents |-> InOrderOf({c \in ContentsOf(s) : Occurrences(s, c) > 1}),
         guidance |-> Ascending({r.guidance : r \in records}, <),
         gits     |-> InOrderOf({GitWire(r.git) : r \in records}),
         vectors  |-> InOrderOf(VectorsOf(s, paths)),
         base     |-> IF Times(s) = {} THEN 0 ELSE Min(Times(s))]

-----------------------------------------------------------------------------
(***************************************************************************)
(* The writer, over any tables.                                            *)
(***************************************************************************)
PutU[n \in Nat] == IF n < 8 THEN <<n>> ELSE <<8 + (n % 8)>> \o PutU[n \div 8]

PutZ(n) == PutU[IF n < 0 THEN -2 * n - 1 ELSE 2 * n]

Deltas(numbers) ==
    [i \in DOMAIN numbers |-> IF i = 1 THEN numbers[i] ELSE numbers[i] - numbers[i - 1]]

PutNumbers(numbers) == PutU[Len(numbers)] \o Cat(Len(numbers), LAMBDA i : PutU[numbers[i]])

PutTables(t) ==
    LET suffix(i) ==
            LET n == IF i = 1 THEN 0 ELSE Shared(t.strings[i - 1], t.strings[i])
            IN  PutU[n] \o PutU[Len(t.strings[i]) - n]
                  \o SubSeq(t.strings[i], n + 1, Len(t.strings[i]))
        branch(i) == PutU[PathId(t.paths, Front(t.paths[i]))]
                       \o PutU[Place(t.strings, Last(t.paths[i])) - 1]
    IN  PutU[Len(t.strings)] \o Cat(Len(t.strings), suffix)
          \o PutU[Len(t.paths)] \o Cat(Len(t.paths), branch)
          \o PutU[Len(t.contents)]
          \o Cat(Len(t.contents), LAMBDA i : PutU[t.contents[i][1]] \o <<t.contents[i][2]>>)
          \o PutU[Len(t.guidance)] \o t.guidance
          \o PutU[Len(t.gits)] \o FlattenSeq(t.gits)
          \o PutU[Len(t.vectors)]
          \o Cat(Len(t.vectors), LAMBDA i : PutNumbers(Deltas(t.vectors[i])))

PutContent(t, content) ==
    IF content \in ToSet(t.contents) THEN PutU[Place(t.contents, content)]
    ELSE PutU[0] \o PutU[content[1]] \o <<content[2]>>

String(t, text)   == PutU[Place(t.strings, text) - 1]
Vector(t, vector) == Place(t.vectors, vector)

PutReview(s, t, version, d, delta) ==
    LET r == s.reviews[d]
        named(text) == {f \in DOMAIN r.files : Relative(d, f) = text}
        files   == SelectSeq(t.strings, LAMBDA text : named(text) # {})
        steps   == Deltas([i \in DOMAIN files |-> Place(t.strings, files[i]) - 1])
        imports == Ascending(DOMAIN r.imports, LAMBDA i, j :
                       Before(<<PathId(t.paths, i[1]), Place(t.strings, i[2])>>,
                              <<PathId(t.paths, j[1]), Place(t.strings, j[2])>>))
    IN  PutU[delta] \o PutU[r.revision] \o <<r.policy>> \o PutContent(t, r.content)
          \o PutU[Place(t.guidance, r.guidance) - 1]
          \o PutU[DaysFromCivil(r.at) - t.base]
          \o String(t, r.reviewer) \o <<r.result>> \o String(t, r.note)
          \o PutU[Place(t.gits, GitWire(r.git)) - 1] \o <<r.token>>
          \o PutU[Vector(t, r.cleared) - 1]
          \o (IF version = 2 THEN <<>>
              ELSE PutU[IF r.coverage = {} THEN 0
                        ELSE Vector(t, Ids(t.paths, UNION r.coverage))])
          \o PutU[Len(files)]
          \o Cat(Len(files), LAMBDA i :
                 PutU[steps[i]] \o PutContent(t, r.files[CHOOSE f \in named(files[i]) : TRUE]))
          \o PutU[Len(imports)]
          \o Cat(Len(imports), LAMBDA i :
                 PutU[PathId(t.paths, imports[i][1])] \o String(t, imports[i][2])
                   \o PutContent(t, r.imports[imports[i]]))

PutInvalidation(t, i, delta) ==
    PutU[delta] \o <<i.scope.kind>>
      \o (IF i.scope.kind = 0 THEN <<>> ELSE PutU[PathId(t.paths, i.scope.path)])
      \o PutU[DaysFromCivil(i.at) - t.base] \o String(t, i.reason)
      \o PutU[Vector(t, Ids(t.paths, i.targets)) - 1]
      \o PutU[Vector(t, Ids(t.paths, i.pending)) - 1]

Empty == [revision |-> 0, next |-> 1, reviews |-> << >>, invalidations |-> << >>]

\* encode_payload; another writer may have other tables, or an older format.
Written(s, t, version) ==
    LET ids  == Ids(t.paths, DOMAIN s.reviews)
        opened == s.invalidations
        open == Deltas([i \in DOMAIN opened |-> opened[i].id])
    IN  PutU[s.revision] \o PutU[s.next] \o PutZ(t.base) \o PutTables(t)
          \o PutU[Len(ids)]
          \o Cat(Len(ids), LAMBDA i : PutReview(s, t, version, t.paths[ids[i]], Deltas(ids)[i]))
          \o PutU[Len(opened)] \o Cat(Len(opened), LAMBDA i : PutInvalidation(t, opened[i], open[i]))

Payload(s) ==
    IF s = Empty THEN <<>> ELSE CHOOSE text \in {Written(s, t, 3) : t \in {Tables(s)}} : TRUE

-----------------------------------------------------------------------------
(***************************************************************************)
(* The reader's primitives.  A cursor is where the reader is, what it read *)
(* there and the values it spent; a reader that fails is nowhere.          *)
(***************************************************************************)
Nowhere == [at |-> 0, value |-> 0, spent |-> 0]

Reader(at, value, spent) == [at |-> at, value |-> value, spent |-> spent]

\* Reader::u: the shortest form of a number that fits.
Number(b, at) ==
    LET ends   == {i \in at..Len(b) : b[i] < 8}
        last   == Min(ends)
        groups == last - at
        sum[i \in 0..groups] ==
            (b[last - i] % 8) + (IF i = 0 THEN 0 ELSE 8 * sum[i - 1])
    IN  IF \/ ends = {}
           \/ 3 * groups >= Width
           \/ 3 * groups = Width - 1 /\ b[last] > 1
           \/ groups > 0 /\ b[last] = 0
        THEN Nowhere ELSE Reader(last + 1, sum[groups], 1)

Bytes(b, at, n) ==
    IF at + n - 1 > Len(b) THEN Nowhere ELSE Reader(at + n, SubSeq(b, at, at + n - 1), 0)

\* What stands in a payload, in order: fields, rows behind their number, and
\* the few forms that depend on a tag.
Kind(kind) == [kind |-> kind]
U      == Kind("u")
H      == Kind("byte")
Rows(row)   == [kind |-> "rows", of |-> row]
Row(fields) == [kind |-> "row", of |-> fields]

FileRow == Row(<<<<"delta", U>>, <<"content", Kind("content")>>>>)
ImportRow == Row(<<<<"provider", U>>, <<"export", U>>, <<"content", Kind("content")>>>>)
ReviewRow(version) ==
    Row(<<<<"delta", U>>, <<"revision", U>>, <<"policy", H>>, <<"content", Kind("content")>>,
          <<"guidance", U>>, <<"at", U>>, <<"reviewer", U>>, <<"result", H>>, <<"note", U>>,
          <<"git", U>>, <<"token", H>>, <<"cleared", U>>>>
        \o (IF version = 2 THEN <<>> ELSE <<<<"coverage", U>>>>)
        \o <<<<"files", Rows(FileRow)>>, <<"imports", Rows(ImportRow)>>>>)
OpenRow == Row(<<<<"delta", U>>, <<"scope", Kind("scope")>>, <<"at", U>>, <<"reason", U>>,
                 <<"targets", U>>, <<"pending", U>>>>)
Form(version) ==
    Row(<<<<"revision", U>>, <<"next", U>>, <<"base", U>>,
          <<"strings", Rows(Row(<<<<"shared", U>>, <<"suffix", Kind("suffix")>>>>))>>,
          <<"paths", Rows(Row(<<<<"parent", U>>, <<"leaf", U>>>>))>>,
          <<"contents", Rows(Row(<<<<"size", U>>, <<"hash", H>>>>))>>,
          <<"guidance", Rows(H)>>, <<"gits", Rows(Kind("git"))>>,
          <<"vectors", Rows(Rows(U))>>,
          <<"reviews", Rows(ReviewRow(version))>>, <<"opened", Rows(OpenRow)>>>>)

\* The rest of a form that began with `tag`.
Tagged(b, tag, node, value) ==
    CASE node.kind = "suffix" -> Bytes(b, tag.at, value)
      [] node.kind = "git" ->
            IF value > 5 THEN Nowhere
            ELSE LET id == Bytes(b, tag.at, value \div 2)
                 IN  [id EXCEPT !.value = IF id.at = 0 THEN 0 ELSE <<value>> \o @]
      [] node.kind = "scope" ->
            IF value = 0 THEN Reader(tag.at, [kind |-> 0, path |-> 0], 0)
            ELSE LET path == Number(b, tag.at)
                 IN  IF value > 2 THEN Nowhere
                     ELSE [path EXCEPT !.value = [kind |-> value, path |-> @]]
      [] node.kind = "content" ->
            IF value > 0 THEN Reader(tag.at, [row |-> value, inline |-> <<>>], 2)
            ELSE LET size == Number(b, tag.at)
                     hash == Bytes(b, size.at, 1)
                 IN  IF size.at = 0 \/ hash.at = 0 THEN Nowhere
                     ELSE Reader(hash.at, [row |-> 0, inline |-> <<size.value>> \o hash.value], 2)

RECURSIVE Parse(_, _, _)
Parse(b, at, node) ==
    LET first == IF node.kind \in {"byte", "git", "scope"}
                 THEN LET one == Bytes(b, at, 1)
                      IN  IF one.at = 0 THEN one ELSE Reader(one.at, one.value[1], 1)
                 ELSE Number(b, at)
        also(before, after, value) ==
            IF after.at = 0 THEN Nowhere
            ELSE Reader(after.at, value, before.spent + after.spent)
        nextField(before, field) ==
            IF before.at = 0 THEN before
            ELSE LET after == Parse(b, before.at, field[2])
                 IN  also(before, after, (field[1] :> after.value) @@ before.value)
        nextRow(before, i) ==
            IF before.at = 0 THEN before
            ELSE LET after == Parse(b, before.at, node.of)
                 IN  also(before, after, Append(before.value, after.value))
    IN  CASE node.kind = "row" -> FoldLeft(nextField, Reader(at, << >>, 0), node.of)
          [] node.kind = "rows" ->
                IF first.at = 0 \/ first.value > Len(b) THEN Nowhere
                ELSE FoldLeft(nextRow, [first EXCEPT !.value = <<>>],
                              [i \in 1..first.value |-> i])
          [] first.at = 0 \/ node.kind \in {"u", "byte"} -> first
          [] OTHER -> LET rest == Tagged(b, first, node, first.value)
                      IN  also(first, rest, rest.value)

-----------------------------------------------------------------------------
(***************************************************************************)
(* What was read: tables, then the rows that refer to them.  `p` is the    *)
(* layout with its fields.                                                 *)
(***************************************************************************)
Sums(deltas) ==
    LET sum[i \in 0..Len(deltas)] == IF i = 0 THEN 0 ELSE sum[i - 1] + deltas[i]
    IN  [i \in DOMAIN deltas |-> sum[i]]

\* Numbers written as steps: none is zero but the first, and the sum fits.
Climbs(deltas) ==
    /\ \A i \in DOMAIN deltas : i = 1 \/ deltas[i] # 0
    /\ deltas # <<>> => Last(Sums(deltas)) < 2 ^ Width

DeltasOf(rows) == [i \in DOMAIN rows |-> rows[i].delta]

StringsIn(p) ==
    LET text[i \in 0..Len(p.strings)] ==
            IF i = 0 THEN <<>>
            ELSE SubSeq(text[i - 1], 1, Min({p.strings[i].shared, Len(text[i - 1])}))
                   \o p.strings[i].suffix
    IN  [i \in DOMAIN p.strings |-> text[i]]

StringsAccepted(p, strings) ==
    /\ Rises(strings)
    /\ \A i \in DOMAIN strings :
          p.strings[i].shared = IF i = 1 THEN 0 ELSE Shared(strings[i - 1], strings[i])

PathsIn(p, strings) ==
    LET path[i \in 0..Len(p.paths)] ==
            IF i = 0 THEN <<>> ELSE Append(path[p.paths[i].parent], strings[p.paths[i].leaf + 1])
    IN  [i \in DOMAIN p.paths |-> path[i]]

BranchesAccepted(p, strings) ==
    \A i \in DOMAIN p.paths :
        /\ p.paths[i].parent < i /\ p.paths[i].leaf < Len(strings)
        /\ LET leaf == strings[p.paths[i].leaf + 1]
           IN  leaf \notin {<<>>, <<Dot>>, <<Dot, Dot>>} /\ Slash \notin ToSet(leaf)

TablesIn(p) ==
    LET strings == StringsIn(p)
    IN  [strings  |-> strings,
         paths    |-> PathsIn(p, strings),
         contents |-> [i \in DOMAIN p.contents |-> <<p.contents[i].size, p.contents[i].hash>>],
         guidance |-> p.guidance,
         gits     |-> p.gits,
         vectors  |-> [i \in DOMAIN p.vectors |-> Sums(p.vectors[i])],
         base     |-> IF p.base % 2 = 0 THEN p.base \div 2 ELSE -((p.base + 1) \div 2)]

TablesAccepted(p, t) ==
    /\ StringsAccepted(p, t.strings)
    /\ \A i \in 2..Len(t.paths) : ByDepth(t.paths[i - 1], t.paths[i])
    /\ Rises(t.contents) /\ Rises(t.gits) /\ Rises(t.vectors)
    /\ Rises([i \in DOMAIN t.guidance |-> <<t.guidance[i]>>])
    /\ \A i \in DOMAIN p.vectors : Climbs(p.vectors[i])

-----------------------------------------------------------------------------
(***************************************************************************)
(* The rows of reviews and invalidations as they are stored: how often     *)
(* each table is referred to, and that every reference is to a row.        *)
(***************************************************************************)
Each(rows, Field(_)) == [i \in DOMAIN rows |-> Field(rows[i])]

ReviewRows(p) == ToSet(p.reviews)
OpenedRows(p) == ToSet(p.opened)

StringRefs(p) ==
    {row.leaf : row \in ToSet(p.paths)}
      \cup UNION {{r.reviewer, r.note} \cup ToSet(Sums(DeltasOf(r.files)))
                    \cup {i.export : i \in ToSet(r.imports)} : r \in ReviewRows(p)}
      \cup {i.reason : i \in OpenedRows(p)}

\* The vectors of paths; those of cleared invalidations are numbers.
CoverageOf(row) == IF "coverage" \in DOMAIN row THEN row.coverage ELSE 0

PathVectors(p) ==
    {CoverageOf(r) - 1 : r \in {x \in ReviewRows(p) : CoverageOf(x) # 0}}
      \cup UNION {{i.targets, i.pending} : i \in OpenedRows(p)}

VectorRefs(p) == {r.cleared : r \in ReviewRows(p)} \cup PathVectors(p)

PathRefs(p, vectors) ==
    {row.parent : row \in ToSet(p.paths)}
      \cup ToSet(Sums(DeltasOf(p.reviews)))
      \cup UNION {{i.provider : i \in ToSet(r.imports)} : r \in ReviewRows(p)}
      \cup {i.scope.path : i \in OpenedRows(p)}
      \cup UNION {ToSet(vectors[v + 1]) : v \in PathVectors(p)}

ContentRefs(p) ==
    FlattenSeq(Each(p.reviews, LAMBDA r :
        <<r.content>> \o Each(r.files, LAMBDA f : f.content)
                      \o Each(r.imports, LAMBDA i : i.content)))

Rows0(table) == 0..(Len(table) - 1)

\* Mutant: references are looked up, and a row without one is not noticed.
ReferencesInRange(p, t) ==
    /\ StringRefs(p) \subseteq Rows0(t.strings)
    /\ {r.guidance : r \in ReviewRows(p)} \subseteq Rows0(t.guidance)
    /\ {r.git : r \in ReviewRows(p)} \subseteq Rows0(t.gits)
    /\ VectorRefs(p) \subseteq Rows0(t.vectors)
    /\ PathRefs(p, t.vectors) \subseteq 0..Len(t.paths)
    /\ {c.row : c \in ToSet(ContentRefs(p))} \subseteq 0..Len(t.contents)

\* `index` everywhere, and check_uses.
ReferencesAccepted(p, t) ==
    LET contents == ContentRefs(p)
        inline   == SelectSeq(contents, LAMBDA c : c.row = 0)
        inlined  == {c.inline : c \in ToSet(inline)}
    IN  /\ StringRefs(p) = Rows0(t.strings)
        /\ {r.guidance : r \in ReviewRows(p)} = Rows0(t.guidance)
        /\ {r.git : r \in ReviewRows(p)} = Rows0(t.gits)
        /\ VectorRefs(p) = Rows0(t.vectors)
        /\ PathRefs(p, t.vectors) \cup {0} = 0..Len(t.paths)
        /\ {c.row : c \in ToSet(contents)} \ {0} = DOMAIN t.contents
        /\ Cardinality(inlined) = Len(inline)
        /\ inlined \cap ToSet(t.contents) = {}

-----------------------------------------------------------------------------
(***************************************************************************)
(* From rows to a state.                                                   *)
(***************************************************************************)
PathAt(t, id) == IF id = 0 THEN <<>> ELSE t.paths[id]

ContentAt(t, c) == IF c.row = 0 THEN c.inline ELSE t.contents[c.row]

DateAt(t, delta) == CivilFromDays(t.base + delta)

FilesOf(t, document, row) ==
    LET ids == Sums(DeltasOf(row.files))
    IN  [i \in DOMAIN ids |-> Resolve(Home(document), t.strings[ids[i] + 1])]

ReviewAccepted(t, document, row) ==
    LET files     == FilesOf(t, document, row)
        imports   == Each(row.imports, LAMBDA i : <<i.provider, i.export>>)
        cleared   == t.vectors[row.cleared + 1]
        folders   == IF CoverageOf(row) = 0 THEN {}
                     ELSE {PathAt(t, id) : id \in ToSet(t.vectors[CoverageOf(row)])}
    IN  /\ IsDocument(document)
        /\ DateAt(t, row.at).year \in 1..9999
        /\ Trimmed(t.strings[row.reviewer + 1]) # <<>>
        /\ Trimmed(t.strings[row.note + 1]) # <<>>
        /\ row.result \in {0, 1}
        /\ \A folder \in folders : folder # Home(document) /\ Below(folder, Home(document))
        /\ Climbs(DeltasOf(row.files))
        /\ \A i \in DOMAIN files : \E f \in files[i] : Below(f, Home(document))
        /\ Cardinality(ToSet(files)) = Len(files)
        /\ Rises(imports)
        /\ \A i \in ToSet(row.imports) : /\ IsDocument(PathAt(t, i.provider))
                                         /\ IsExportId(t.strings[i.export + 1])

OpenedAccepted(t, row) ==
    LET documents(vector) == {PathAt(t, id) : id \in ToSet(t.vectors[vector + 1])}
    IN  /\ row.scope.kind = 1 => IsDocument(PathAt(t, row.scope.path))
        /\ DateAt(t, row.at).year \in 1..9999
        /\ Trimmed(t.strings[row.reason + 1]) # <<>>
        /\ \A d \in documents(row.targets) \cup documents(row.pending) : IsDocument(d)
        /\ documents(row.pending) # {}

RecordOf(t, document, row) ==
    LET files == FilesOf(t, document, row)
        file(f) == CHOOSE i \in DOMAIN files : f \in files[i]
        key(i) == <<PathAt(t, i.provider), t.strings[i.export + 1]>>
        git == t.gits[row.git + 1]
    IN  [revision |-> row.revision, policy |-> row.policy, token |-> row.token,
         content  |-> ContentAt(t, row.content),
         guidance |-> t.guidance[row.guidance + 1],
         at       |-> DateAt(t, row.at),
         reviewer |-> Trimmed(t.strings[row.reviewer + 1]),
         note     |-> Trimmed(t.strings[row.note + 1]),
         result   |-> row.result,
         git      |-> [dirty |-> git[1] % 2, base |-> Tail(git)],
         cleared  |-> t.vectors[row.cleared + 1],
         coverage |-> IF CoverageOf(row) = 0 THEN {}
                      ELSE {{PathAt(t, id) : id \in ToSet(t.vectors[CoverageOf(row)])}},
         files    |-> [f \in UNION ToSet(files) |-> ContentAt(t, row.files[file(f)].content)],
         imports  |-> [k \in {key(i) : i \in ToSet(row.imports)} |->
                          ContentAt(t, (CHOOSE i \in ToSet(row.imports) : key(i) = k).content)]]

OpenOf(t, id, row) ==
    LET documents(vector) == {PathAt(t, d) : d \in ToSet(t.vectors[vector + 1])}
    IN  [id |-> id, scope |-> [row.scope EXCEPT !.path = PathAt(t, @)],
         at |-> DateAt(t, row.at), reason |-> Trimmed(t.strings[row.reason + 1]),
         targets |-> documents(row.targets), pending |-> documents(row.pending)]

StateOfRows(p, t) ==
    LET ids    == Sums(DeltasOf(p.reviews))
        opened == Sums(DeltasOf(p.opened))
        row(d) == p.reviews[CHOOSE i \in DOMAIN ids : PathAt(t, ids[i]) = d]
    IN  [revision |-> p.revision, next |-> p.next,
         reviews  |-> [d \in {PathAt(t, id) : id \in ToSet(ids)} |-> RecordOf(t, d, row(d))],
         invalidations |-> [i \in DOMAIN opened |-> OpenOf(t, opened[i], p.opened[i])]]

\* ReviewState::validate, of what the rows can still get wrong.
Valid(s) ==
    /\ s.next > 0 /\ s.next < 2 ^ Width - 1 /\ s.revision < 2 ^ Width - 1
    /\ s.revision >= s.next - 1
    /\ \A i \in ToSet(s.invalidations) :
          /\ 0 < i.id /\ i.id < s.next
          /\ i.targets # {} /\ i.pending \subseteq i.targets
          /\ \A d \in i.targets : Covers(i.scope, d)
    /\ \A d \in DOMAIN s.reviews :
          LET r == s.reviews[d]
          IN  /\ 0 < r.revision /\ r.revision <= s.revision
              /\ \A id \in ToSet(r.cleared) : 0 < id /\ id < s.next

-----------------------------------------------------------------------------
(***************************************************************************)
(* The budget of an expansion: values and bytes of every text the reader   *)
(* makes, as often as it makes it.                                         *)
(***************************************************************************)
Total(numbers) ==
    LET first[i \in 0..Len(numbers)] == IF i = 0 THEN 0 ELSE first[i - 1] + numbers[i]
    IN  first[Len(numbers)]
Length(text) == Len(Joined(text))

\* The reader's charges; its cursor has the values of what it read.
BytesSpent(p, t) ==
    LET path(id) == Length(PathAt(t, id))
        text(id) == Len(t.strings[id + 1])
        vector(v) == 8 * Len(t.vectors[v + 1])
        paths(v) == vector(v) + Total(Each(t.vectors[v + 1], path))
        ids == Sums(DeltasOf(p.reviews))
        review(i) ==
            LET r == p.reviews[i]
                owner == Length(Home(PathAt(t, ids[i])))
            IN  path(ids[i]) + text(r.reviewer) + text(r.note)
                  + 2 * (Len(t.gits[r.git + 1]) - 1) + vector(r.cleared)
                  + (IF CoverageOf(r) = 0 THEN 0 ELSE paths(CoverageOf(r) - 1))
                  + Total(Each(Sums(DeltasOf(r.files)), LAMBDA f : text(f) + owner))
                  + Total(Each(r.imports, LAMBDA m : path(m.provider) + text(m.export)))
    IN  Total(Each(t.strings, Len)) + Total(Each(t.paths, Length))
          + Total([i \in DOMAIN p.reviews |-> review(i)])
          + Total(Each(p.opened, LAMBDA i :
                path(i.scope.path) + text(i.reason) + paths(i.targets) + paths(i.pending)))

ValuesSpent(p, t) ==
    LET vector(v) == Len(t.vectors[v + 1])
    IN  Total(Each(p.reviews, LAMBDA r : vector(r.cleared) +
                  (IF CoverageOf(r) = 0 THEN 0 ELSE vector(CoverageOf(r) - 1))))
          + Total(Each(p.opened, LAMBDA i : vector(i.targets) + vector(i.pending)))

\* measure_expansion: the walk over the state before anything is written.
MeasuredBytes(s) ==
    LET all(paths) == MapThenSumSet(LAMBDA x : 8 + Length(x), paths)
        review(d) ==
            LET r == s.reviews[d]
            IN  Length(d) + 2 * Len(r.git.base) + Len(r.reviewer) + Len(r.note)
                  + 8 * Len(r.cleared) + all(UNION r.coverage)
                  + MapThenSumSet(LAMBDA f : Len(Relative(d, f)) + Length(Home(d)),
                                  DOMAIN r.files)
                  + MapThenSumSet(LAMBDA m : Length(m[1]) + Len(m[2]), DOMAIN r.imports)
    IN  MapThenSumSet(review, DOMAIN s.reviews)
          + Total(Each(s.invalidations, LAMBDA i :
                Len(i.reason) + Length(i.scope.path) + all(i.targets) + all(i.pending)))

MeasuredValues(s) ==
    MapThenSumSet(LAMBDA d : Len(s.reviews[d].cleared)
                               + Cardinality(UNION s.reviews[d].coverage), DOMAIN s.reviews)
      + Total(Each(s.invalidations, LAMBDA i : Cardinality(i.targets) + Cardinality(i.pending)))

-----------------------------------------------------------------------------
(***************************************************************************)
(* decode_payload: the states a payload denotes, at most one.              *)
(***************************************************************************)
Stated(p, t, spent) ==
    LET documents == Sums(DeltasOf(p.reviews))
    IN  IF /\ TablesAccepted(p, t)
           /\ Climbs(DeltasOf(p.reviews)) /\ Climbs(DeltasOf(p.opened))
           /\ ReferencesAccepted(p, t)
           /\ \A i \in DOMAIN documents :
                 ReviewAccepted(t, PathAt(t, documents[i]), p.reviews[i])
           /\ \A row \in OpenedRows(p) : OpenedAccepted(t, row)
           /\ spent + ValuesSpent(p, t) <= ExpandedValues
           /\ BytesSpent(p, t) <= ExpandedBytes
        THEN {s \in {StateOfRows(p, t)} :
                /\ s # Empty
                /\ t.base = IF Times(s) = {} THEN 0 ELSE Min(Times(s))
                /\ Valid(s)}
        ELSE {}

Denoted(payload, version) ==
    IF payload = <<>> THEN {Empty}
    ELSE UNION {Stated(read.value, TablesIn(read.value), read.spent) :
                  read \in {r \in {Parse(payload, 1, Form(version))} :
                              /\ r.at = Len(payload) + 1
                              /\ BranchesAccepted(r.value, StringsIn(r.value))}}

(***************************************************************************)
(* The frame.  A checksum holds or not, and a compressed body is one frame *)
(* of the profile or not.                                                  *)
(***************************************************************************)
Frame(payload) ==
    [version |-> 3, codec |-> IF payload # <<>> /\ Len(payload) >= PacksFrom THEN "zstd" ELSE "raw",
     declared |-> Len(payload), inner |-> Len(payload), profile |-> TRUE, intact |-> TRUE,
     payload |-> payload]

Decode(file) ==
    IF /\ file.version \in {2, 3} /\ file.codec \in {"raw", "zstd"}
       /\ file.intact
       /\ file.declared = Len(file.payload)
       /\ file.codec = "zstd" => file.profile /\ file.inner = file.declared
    THEN Denoted(file.payload, file.version) ELSE {}

\* encode: measured first, and read back before it is used.
Encode(s) ==
    LET file == Frame(Payload(s))
    IN  IF /\ MeasuredValues(s) <= ExpandedValues /\ MeasuredBytes(s) <= ExpandedBytes
           /\ \A date \in DatesOf(s) : IsDate(date)
           /\ Decode(file) # {}
        THEN {file} ELSE {}

-----------------------------------------------------------------------------
(***************************************************************************)
(* A file that was written elsewhere: one byte of the payload changed, one *)
(* lost or one more, or a number in a longer form, with a frame that fits; *)
(* the same rows over other tables; texts a writer did not trim, or a path *)
(* it did not normalize; a frame that is not of the profile.               *)
(***************************************************************************)
Damaged(b) ==
    UNION {{[b EXCEPT ![i] = 0], [b EXCEPT ![i] = (@ + 1) % 16], [b EXCEPT ![i] = (@ + 8) % 16],
            RemoveAt(b, i), InsertAt(b, i, 0),
            InsertAt([b EXCEPT ![i] = 8 + (@ % 8)], i + 1, 0)} : i \in DOMAIN b}

Swapped(s, i) == [s EXCEPT ![i] = s[i + 1], ![i + 1] = s[i]]

OtherTables(s) ==
    LET t == Tables(s)
        ordered(paths) ==
            [t EXCEPT !.paths = paths, !.vectors = InOrderOf(VectorsOf(s, paths))]
    IN  {[t EXCEPT !.base = @ - 1],
         [t EXCEPT !.strings = InOrderOf(ToSet(@) \cup {<<15, 15>>})],
         [t EXCEPT !.contents = InOrderOf(ContentsOf(s))],
         [t EXCEPT !.contents = <<>>],
         [t EXCEPT !.vectors = InOrderOf(ToSet(@) \cup {<<>>})]}
          \cup {ordered(Swapped(t.paths, i)) : i \in 1..(Len(t.paths) - 1)}
          \cup {[t EXCEPT !.strings = Swapped(@, i)] : i \in 1..(Len(t.strings) - 1)}
          \cup {[t EXCEPT !.vectors = Swapped(@, i)] : i \in 1..(Len(t.vectors) - 1)}

Padded(text) == <<Space>> \o text

Dotted(d, files) ==
    LET around(f) == SubSeq(f, 1, Len(d) - 1) \o <<<<Dot>>>> \o SubSeq(f, Len(d), Len(f))
        ended(f) == [f EXCEPT ![Len(f)] = Append(@, Slash)]
        renamed(Op(_)) == [g \in {Op(f) : f \in DOMAIN files} |->
                              files[CHOOSE f \in DOMAIN files : Op(f) = g]]
    IN  {renamed(around), renamed(ended)}

Untidy(s) ==
    {[s EXCEPT !.reviews[d].note = Padded(@)] : d \in DOMAIN s.reviews}
      \cup {[s EXCEPT !.reviews[d].reviewer = Padded(@)] : d \in DOMAIN s.reviews}
      \cup UNION {{[s EXCEPT !.reviews[d].files = named] : named \in Dotted(d, s.reviews[d].files)} :
                      d \in DOMAIN s.reviews}
      \cup {[s EXCEPT !.invalidations[i].reason = Padded(@)] : i \in DOMAIN s.invalidations}

OtherFrames(file) ==
    {[file EXCEPT !.codec = "raw"], [file EXCEPT !.codec = "zstd"],
     [file EXCEPT !.codec = "zstd", !.profile = FALSE], [file EXCEPT !.inner = @ + 1],
     [file EXCEPT !.declared = @ + 1], [file EXCEPT !.intact = FALSE],
     [file EXCEPT !.version = 4], [file EXCEPT !.version = 2]}

InitLock(states) ==
    /\ saved \in states
    /\ lock \in Encode(saved)

WrittenElsewhere ==
    /\ saved # Empty /\ lock \in Encode(saved)
    /\ lock' \in {Frame(b) : b \in Damaged(lock.payload)}
                \cup {Frame(Written(saved, t, 3)) : t \in OtherTables(saved)}
                \cup {Frame(Written(s, Tables(s), 3)) : s \in Untidy(saved)}
                \cup {[Frame(Written(saved, Tables(saved), 2)) EXCEPT !.version = 2]}
                \cup OtherFrames(lock)
    /\ UNCHANGED saved

-----------------------------------------------------------------------------
\* What a command saves is read back as it is, whatever tables, prefixes and
\* vectors it shares, and the walk before the writing never charges more than
\* the reader does (the comments of measure_expansion and of encode).
SavedIsReadBack ==
    LET s == saved
        payload == Payload(s)
        p == Parse(payload, 1, Form(3))
        t == TablesIn(p.value)
    IN  (s # Empty /\ lock \in Encode(s)) =>
            /\ Decode(lock) = {s}
            /\ MeasuredBytes(s) <= BytesSpent(p.value, t)
            /\ MeasuredValues(s) <= p.spent + ValuesSpent(p.value, t)

\* The exceptions the reader makes: a content in the table that is used once,
\* a text with spaces around it, a path with a name that means no step or
\* with a slash at its end.
Plain(payload) ==
    LET p == Parse(payload, 1, Form(3)).value
        t == TablesIn(p)
        contents == ContentRefs(p)
    IN  /\ \A row \in DOMAIN t.contents :
              Cardinality({i \in DOMAIN contents : contents[i].row = row}) > 1
        /\ \A i \in DOMAIN t.strings :
              Trimmed(t.strings[i]) = t.strings[i]
                /\ ToSet(Split(t.strings[i])) \cap {<<>>, <<Dot>>, <<Dot, Dot>>} = {}

\* A changed byte, other tables or an older format never make a second text
\* of a state: what the reader accepts, those exceptions apart, is what the
\* writer would write (lock_codec.rs:11, "rejects noncanonical encodings").
AcceptedTextIsCanonical ==
    \A s \in Decode(lock) :
        (lock.version = 3 /\ lock.payload # <<>> /\ Plain(lock.payload)) =>
            lock.payload = Payload(s)
=============================================================================
