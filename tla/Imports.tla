------------------------------ MODULE Imports -------------------------------
(***************************************************************************)
(* The import graph of one snapshot's documents, the comparison of two     *)
(* manifests, and the review status of every document: the algorithms as   *)
(* the code runs them, loop by loop.                                       *)
(***************************************************************************)
EXTENDS Layout, SequencesExt

(***************************************************************************)
(* ImportGraph::build.  `docs` maps each tracked document to its parsed    *)
(* content: the sequence of its imports and the exports it declares.       *)
(***************************************************************************)
ExportIds(doc) == {e.id : e \in doc.exports}

ImportErrors(d, docs) ==
    LET imports == docs[d].imports
        bad(i) == \/ imports[i].provider = d
                  \/ \E j \in 1 .. i - 1 : imports[j] = imports[i]
                  \/ imports[i].provider \notin DOMAIN docs
                  \/ imports[i].export \notin ExportIds(docs[imports[i].provider])
    IN  {i \in DOMAIN imports : bad(i)}

\* The providers of each document, missing exports included.
Providers(docs) ==
    [d \in DOMAIN docs |->
        {docs[d].imports[i].provider : i \in DOMAIN docs[d].imports}
            \cap (DOMAIN docs \ {d})]

(***************************************************************************)
(* find_cycles: a depth-first search in byte order.  A dependency that is  *)
(* on the stack closes a cycle, which is reported from its least document. *)
(***************************************************************************)
Position(seq, x) == CHOOSE i \in DOMAIN seq : seq[i] = x

Rotated(path) ==
    LET first == Position(path, Least({path[i] : i \in DOMAIN path}))
    IN  SubSeq(path, first, Len(path)) \o SubSeq(path, 1, first - 1)

\* One step: the innermost call looks at its next dependency or returns, or the
\* search starts again from the first document that it has not come to.
Visit(search, providers) ==
    LET docs  == DOMAIN providers
        white == {d \in docs : search.colour[d] = "white"}
        stack == search.stack
        node  == stack[Len(stack)]
        dep   == Least(search.left[node])
        less  == [search.left EXCEPT ![node] = @ \ {dep}]
        at(colour, left, trail, cycles) ==
            [colour |-> colour, left |-> left, stack |-> trail, cycles |-> cycles]
        enter(d, left) ==
            at([search.colour EXCEPT ![d] = "grey"], left, Append(stack, d), search.cycles)
    IN  IF stack = <<>>
          THEN IF white = {} THEN search ELSE enter(Least(white), search.left)
        ELSE IF search.left[node] = {}
          THEN at([search.colour EXCEPT ![node] = "black"], search.left,
                  SubSeq(stack, 1, Len(stack) - 1), search.cycles)
        ELSE IF search.colour[dep] = "white"
          THEN enter(dep, less)
        ELSE IF search.colour[dep] = "grey"
          THEN at(search.colour, less, stack, search.cycles \cup
                     {Rotated(SubSeq(stack, Position(stack, dep), Len(stack)))})
        ELSE at(search.colour, less, stack, search.cycles)

FindCycles(providers) ==
    LET docs  == DOMAIN providers
        steps == Cardinality(docs) * (Cardinality(docs) + 2)
        start == [colour |-> [d \in docs |-> "white"], left |-> providers,
                  stack  |-> <<>>, cycles |-> {}]
        search[n \in 0 .. steps] ==
            IF n = 0 THEN start ELSE Visit(search[n - 1], providers)
    IN  search[steps].cycles

\* topological_order: again and again the first whose providers are all out.
TopologicalOrder(documents, providers) ==
    LET extended(out) ==
            LET free == {d \in documents \ ToSet(out) : providers[d] \subseteq ToSet(out)}
            IN  IF free = {} THEN out ELSE Append(out, Least(free))
        order[n \in 0 .. Cardinality(documents)] ==
            IF n = 0 THEN <<>> ELSE extended(order[n - 1])
    IN  order[Cardinality(documents)]

-----------------------------------------------------------------------------
(***************************************************************************)
(* diff_sorted: a merge of two sequences that are sorted by key.  An entry *)
(* is a key and a hash; `before` is the set of the pairs of keys of which  *)
(* the first comes first, `i` and `j` are the entries that come next.      *)
(***************************************************************************)
Merge(m, old, new, before) ==
    LET b == old[m.i]
        a == new[m.j]
        gone  == m.i <= Len(old) /\ (m.j <= Len(new) => <<b.key, a.key>> \in before)
        fresh == m.j <= Len(new) /\ (m.i <= Len(old) => <<a.key, b.key>> \in before)
        same  == m.i <= Len(old) /\ m.j <= Len(new)
        out(change, key) == Append(m.out, [change |-> change, key |-> key])
    IN  IF gone       THEN [i |-> m.i + 1, j |-> m.j, out |-> out("removed", b.key)]
        ELSE IF fresh THEN [i |-> m.i, j |-> m.j + 1, out |-> out("added", a.key)]
        ELSE IF same  THEN [i |-> m.i + 1, j |-> m.j + 1,
                            out |-> IF b = a THEN m.out ELSE out("changed", b.key)]
        ELSE m

DiffSorted(old, new, before) ==
    LET merge[n \in 0 .. Len(old) + Len(new)] ==
            IF n = 0 THEN [i |-> 1, j |-> 1, out |-> <<>>]
            ELSE Merge(merge[n - 1], old, new, before)
    IN  merge[Len(old) + Len(new)].out

Keys(old, new) == {old[i].key : i \in DOMAIN old} \cup {new[j].key : j \in DOMAIN new}

PathsBefore(old, new) ==
    {pair \in Keys(old, new) \X Keys(old, new) : Rank(pair[1]) < Rank(pair[2])}

ImportBefore(a, b) ==
    \/ Rank(a.document) < Rank(b.document)
    \/ a.document = b.document /\ a.export < b.export

InImportOrder(keys) ==
    LET first(rest) == CHOOSE k \in rest : \A other \in rest \ {k} : ImportBefore(k, other)
        extended(out) == Append(out, first(keys \ ToSet(out)))
        taken[n \in 0 .. Cardinality(keys)] ==
            IF n = 0 THEN <<>> ELSE extended(taken[n - 1])
    IN  taken[Cardinality(keys)]

ImportsBefore(old, new) ==
    {pair \in Keys(old, new) \X Keys(old, new) : ImportBefore(pair[1], pair[2])}

\* InputManifest::diff, and inputs_changed of it.
InputsChanged(old, new) ==
    \/ old.policy # new.policy
    \/ DiffSorted(old.files, new.files, PathsBefore(old.files, new.files)) # <<>>
    \/ DiffSorted(old.imports, new.imports,
                  ImportsBefore(old.imports, new.imports)) # <<>>

-----------------------------------------------------------------------------
(***************************************************************************)
(* schedule: one pass over the documents in dependency order.              *)
(***************************************************************************)
Causes(d, state, manifests) ==
    (IF d \notin DOMAIN state.reviews THEN {"never_reviewed"}
     ELSE (IF InputsChanged(state.reviews[d], manifests[d])
             THEN {"input_changed"} ELSE {})
          \cup (IF state.reviews[d].document # manifests[d].document
             THEN {"document_changed"} ELSE {}))
    \cup {"explicit_invalidation" : i \in {x \in state.invalidations : d \in x}}

\* A mutant: only a provider that is pending itself is waited for.
WaitsOnPending(provider, statuses) ==
    \/ provider \notin DOMAIN statuses
    \/ statuses[provider].causes # {}

WaitsOn(provider, statuses) ==
    \/ provider \notin DOMAIN statuses
    \/ statuses[provider].causes # {}
    \/ statuses[provider].waiting # {}

Schedule(order, providers, state, manifests) ==
    LET judged(before, d) ==
            With(before, d, [causes  |-> Causes(d, state, manifests),
                               waiting |-> {p \in providers[d] : WaitsOn(p, before)}])
        statuses[n \in 0 .. Len(order)] ==
            IF n = 0 THEN <<>> ELSE judged(statuses[n - 1], order[n])
    IN  statuses[Len(order)]
=============================================================================
