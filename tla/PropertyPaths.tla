--------------------------- MODULE PropertyPaths ---------------------------
(***************************************************************************)
(* SPARQL property paths (src/query/path.rs, src/query/walk.rs and         *)
(* scoped_triple_from_path) over a store that RDFS materialization         *)
(* (src/inference/reasonable.rs) writes inferred rows into.                *)
(*                                                                         *)
(* The two meet in the shortcut: a + or * of rdfs:subClassOf reads the     *)
(* stored rows instead of walking them when an inferred row of that        *)
(* predicate is there.  The steps of one materialization and the sessions  *)
(* beside it are in QuadStatements; here it is one step.                   *)
(***************************************************************************)
EXTENDS Integers, Sequences, FiniteSets

CONSTANTS Iri, Blank, Literal,              \* the terms
          Type, SubClassOf, SubPropertyOf, DomainOf, RangeOf, SameAs,
          Graph,                            \* graph ids, 0 the default graph
          MaxDepth, MaxPairs,               \* pgrdf.path_max_depth, path_max_pairs
          Insertable,                       \* bound: <<triple, graph>> a load may add
          MaxRows,                          \* bound: asserted rows a load leaves
          Stored,                           \* the databases met: sets of <<triple, graph>>
          Paths, Ends                       \* bounds: the paths and endpoints asked

ASSUME PathAssumption ==
    /\ {Type, SubClassOf, SubPropertyOf, DomainOf, RangeOf, SameAs} \subseteq Iri
    /\ Iri \cap Blank = {} /\ Iri \cap Literal = {} /\ Blank \cap Literal = {}
    /\ 0 \in Graph /\ MaxDepth \in Nat \ {0} /\ MaxPairs \in Nat \ {0}
    /\ Insertable \subseteq ((Iri \cup Blank) \X Iri \X (Iri \cup Blank \cup Literal)) \X Graph

VARIABLE rows       \* of _pgrdf_quads: [t |-> <<s, p, o>>, g |-> graph, inf |-> is_inferred]

RowOf(t, g, inf) == [t |-> t, g |-> g, inf |-> inf]
TriplesOf(g) == {r.t : r \in {r \in rows : r.g = g}}
Asserted(g)  == {r.t : r \in {r \in rows : r.g = g /\ ~r.inf}}

-----------------------------------------------------------------------------
\* rdfs_closure: the six rules, round after round until none adds a triple.
\* Schema relations hold between IRIs; a literal gets no type.

Schema(C, p) == {<<t[1], t[3]>> : t \in {t \in C : t[2] = p /\ t[1] \in Iri /\ t[3] \in Iri}}
Round(C) ==
    LET sub  == Schema(C, SubClassOf)
        prop == Schema(C, SubPropertyOf)
        dom  == Schema(C, DomainOf)
        ran  == Schema(C, RangeOf)
        chained(R, p) == {<<x[1][1], p, x[2][2]>> : x \in {x \in R \X R : x[1][2] = x[2][1]}} IN
    chained(sub, SubClassOf) \cup chained(prop, SubPropertyOf)
    \cup UNION {{<<t[1], e[2], t[3]>> : e \in {e \in prop : e[1] = t[2]}} : t \in C}
    \cup UNION {IF t[2] = Type THEN {<<t[1], Type, e[2]>> : e \in {e \in sub : e[1] = t[3]}}
                ELSE {<<t[1], Type, e[2]>> : e \in {e \in dom : e[1] = t[2]}} \cup
                     {<<t[3], Type, e[2]>> : e \in {e \in ran : e[1] = t[2] /\ t[3] \notin Literal}}
                : t \in C}
RECURSIVE RdfsClosure(_)
\* (Mutant: one round.)
OneRound(C) == C \cup Round(C)
RdfsClosure(C) == IF Round(C) \subseteq C THEN C ELSE RdfsClosure(C \cup Round(C))

-----------------------------------------------------------------------------
\* A path: a predicate, an inverse, a repetition, an alternative or a sequence.

Pred(p)   == [k |-> "pred", p |-> p]
Inv(i)    == [k |-> "inv", i |-> i]
Plus(i)   == [k |-> "plus", i |-> i]
Star(i)   == [k |-> "star", i |-> i]
Opt(i)    == [k |-> "opt", i |-> i]
Alt(l, r) == [k |-> "alt", l |-> l, r |-> r]
Seq2(l, r) == [k |-> "seq", l |-> l, r |-> r]

\* fold_plain_predicate and flatten_alternation: the predicates of a step,
\* each with its direction; {} when the path is no such step.
RECURSIVE PlainStep(_, _), Steps(_, _)
PlainStep(e, swapped) ==
    CASE e.k = "inv"  -> PlainStep(e.i, ~swapped)
      [] e.k = "pred" -> {<<e.p, swapped>>}
      [] OTHER -> {}
Steps(e, swapped) ==
    IF e.k # "alt" THEN PlainStep(e, swapped)
    ELSE LET l == Steps(e.l, swapped)
             r == Steps(e.r, swapped) IN
         IF {} \in {l, r} \/ {s[2] : s \in l} # {s[2] : s \in r} THEN {} ELSE l \cup r

\* classify_path.
NoPlan == [kind |-> "refused", preds |-> {}, swapped |-> FALSE]
PlanOf(kind, steps) ==
    IF steps = {} THEN NoPlan
    ELSE [kind |-> kind, preds |-> {s[1] : s \in steps}, swapped |-> (CHOOSE s \in steps : TRUE)[2]]
RECURSIVE Classify(_, _)
Classify(e, swapped) ==
    CASE e.k = "inv"  -> Classify(e.i, ~swapped)
      [] e.k = "pred" -> PlanOf("triple", {<<e.p, swapped>>})
      [] e.k \in {"plus", "star", "opt"} -> PlanOf(e.k, Steps(e.i, swapped))
      [] e.k = "alt"  -> PlanOf("alt", Steps(e, swapped))
      [] e.k = "seq"  -> NoPlan

-----------------------------------------------------------------------------
\* Where a path looks: all graphs, one, or each named graph (GRAPH ?g).

Scopes == {[k |-> "all", g |-> -1], [k |-> "each", g |-> -1]} \cup {[k |-> "one", g |-> g] : g \in Graph}
InScope(scope, g) == CASE scope.k = "all" -> TRUE
                       [] scope.k = "one" -> g = scope.g
                       [] scope.k = "each" -> g # 0
\* The graph column of a relation: only GRAPH ?g has one.
Tag(scope, g) == IF scope.k = "each" THEN g ELSE -1
Visible(scope) == {r \in rows : InScope(scope, r.g)}

\* The hops of a step: <<from, to, graph>>.
Hops(preds, scope, inverse) ==
    {IF inverse THEN <<r.t[3], r.t[1], Tag(scope, r.g)>> ELSE <<r.t[1], r.t[3], Tag(scope, r.g)>> :
        r \in {r \in Visible(scope) : r.t[2] \in preds}}
\* zero_length_node_set_sql.
Loops(scope) == UNION {{<<n, n, Tag(scope, r.g)>> : n \in {r.t[1], r.t[3]}} : r \in Visible(scope)}

\* path_walk: level by level from one start; what it reached, and whether the
\* level after the last would have reached more.
\* (Mutant: whether there was a level after the last.)
Levels(hops, frontier, visited) == frontier # {}
MoreBeyond(hops, frontier, visited) == \E h \in hops : h[1] \in frontier /\ h[2] \notin visited
RECURSIVE Walk(_, _, _, _)
Walk(hops, frontier, visited, depth) ==
    IF frontier = {} \/ depth = MaxDepth
    THEN [reached |-> visited, cut |-> frontier # {} /\ MoreBeyond(hops, frontier, visited)]
    ELSE LET next == {h[2] : h \in {h \in hops : h[1] \in frontier}} \ visited IN
         Walk(hops, next, visited \cup next, depth + 1)

\* An endpoint: free, a constant of the query, or a variable bound before.
Free == [k |-> "free", x |-> ""]
Const(x) == [k |-> "const", x |-> x]
Joined(x) == [k |-> "joined", x |-> x]

\* The end a walk starts at: a constant before a variable, the subject before
\* the object; GRAPH ?g is never seeded.
SeedEnd(scope, s, o) ==
    IF scope.k = "each" \/ {s.k, o.k} = {"free"} THEN "none"
    ELSE IF s.k = "const" \/ (s.k = "joined" /\ o.k # "const") THEN "subject"
    ELSE "object"

\* WalkSpec::render: from the object the walk goes against the path.
\* (Mutant: along the path from either end.)
AlwaysAlong(swapped, fromObject) == swapped
Inverse(swapped, fromObject) == swapped # fromObject
Reaching(plan, scope, s, o) ==
    LET seeded     == SeedEnd(scope, s, o) # "none"
        fromObject == SeedEnd(scope, s, o) = "object"
        seed       == IF fromObject THEN o.x ELSE s.x
        hops       == Hops(plan.preds, scope, Inverse(plan.swapped, fromObject))
        starts     == IF seeded THEN {<<seed, -1>>} ELSE {<<h[1], h[3]>> : h \in hops}
        from(st)   == Walk({h \in hops : h[3] = st[2]}, {st[1]}, {}, 0)
        pairs      == UNION {{IF fromObject THEN <<n, st[1], st[2]>> ELSE <<st[1], n, st[2]>> :
                                 n \in from(st).reached} : st \in starts}
        zero       == IF seeded THEN {<<seed, seed, -1>>} ELSE Loops(scope) IN
    [pairs |-> IF plan.kind = "star" THEN pairs \cup zero ELSE pairs,
     cut |-> \E st \in starts : from(st).cut,
     refused |-> Cardinality(pairs) > MaxPairs]

\* is_well_known_transitive and inferred_closure_present.
Transitive == {SubClassOf, SubPropertyOf, SameAs}
\* (Mutant: one of the predicates is enough.)
AnyTransitive(plan, scope) ==
    /\ plan.kind \in {"plus", "star"} /\ plan.preds \cap Transitive # {}
    /\ \E r \in Visible(scope) : r.t[2] \in plan.preds /\ r.inf
Shortcut(plan, scope) ==
    /\ plan.kind \in {"plus", "star"} /\ Cardinality(plan.preds) = 1 /\ plan.preds \subseteq Transitive
    /\ \E r \in Visible(scope) : r.t[2] \in plan.preds /\ r.inf

\* scoped_triple_from_path: the relation a path is, then bind_subject and
\* bind_object keep the rows of the endpoints.
Direct(plan, scope) ==
    [pairs |-> Hops(plan.preds, scope, plan.swapped), cut |-> FALSE, refused |-> FALSE]
WithLoops(rel, scope, s, o) ==
    [rel EXCEPT !.pairs = @ \cup Loops(scope) \cup
        (IF scope.k = "each" THEN {} ELSE {<<e.x, e.x, -1>> : e \in {e \in {s, o} : e.k = "const"}})]
Relation(e, scope, s, o) ==
    LET plan == Classify(e, FALSE) IN
    CASE plan.kind = "refused" -> [pairs |-> {}, cut |-> FALSE, refused |-> TRUE]
      [] plan.kind \in {"triple", "alt"} -> Direct(plan, scope)
      [] plan.kind = "opt" -> WithLoops(Direct(plan, scope), scope, s, o)
      [] plan.kind \in {"plus", "star"} ->
            IF ~Shortcut(plan, scope) THEN Reaching(plan, scope, s, o)
            ELSE IF plan.kind = "plus" THEN Direct(plan, scope)
            ELSE WithLoops(Direct(plan, scope), scope, s, o)
Kept(pairs, s, o) == {r \in pairs : (s.k = "free" \/ r[1] = s.x) /\ (o.k = "free" \/ r[2] = o.x)}
Answer(e, scope, s, o) == LET rel == Relation(e, scope, s, o) IN
                          [rel EXCEPT !.pairs = Kept(@, s, o)]

-----------------------------------------------------------------------------
\* What changes the store: a load, a delete of a triple, a materialization.

Load(t, g) ==
    /\ Cardinality({r \in rows : ~r.inf}) < MaxRows
    /\ \A r \in rows : r.inf \/ <<r.t, r.g>> \in Insertable     \* bound: no load into a Stored database
    /\ RowOf(t, g, FALSE) \notin rows
    /\ rows' = rows \cup {RowOf(t, g, FALSE)}
\* DELETE DATA takes the row whether it is inferred or not.
Delete(t, g) ==
    /\ t \in TriplesOf(g)
    /\ rows' = {r \in rows : ~(r.g = g /\ r.t = t)}
Materialized(g) ==
    {r \in rows : ~(r.g = g /\ r.inf)} \cup
    {RowOf(t, g, TRUE) : t \in RdfsClosure(Asserted(g)) \ Asserted(g)}
Materialize(g) == rows' = Materialized(g)

\* What earlier loads have left.
Init == \E d \in Stored : rows = {RowOf(x[1], x[2], FALSE) : x \in d}
Next == \/ \E g \in Graph : Materialize(g)
        \/ \E x \in Insertable : Load(x[1], x[2])
        \/ \E x \in Insertable \cup UNION Stored : Delete(x[1], x[2])
Spec == Init /\ [][Next]_rows

-----------------------------------------------------------------------------
\* What SPARQL says a path relates (section 18.4).

Links(E, p) == {<<t[1], t[3]>> : t \in {t \in E : t[2] = p}}
Compose(R, S) == {<<x[1][1], x[2][2]>> : x \in {x \in R \X S : x[1][2] = x[2][1]}}
RECURSIVE Closed(_), Related(_, _, _)
Closed(R) == IF Compose(R, R) \subseteq R THEN R ELSE Closed(R \cup Compose(R, R))
Related(e, E, nodes) ==
    LET self == {<<n, n>> : n \in nodes} IN
    CASE e.k = "pred" -> Links(E, e.p)
      [] e.k = "inv"  -> {<<x[2], x[1]>> : x \in Related(e.i, E, nodes)}
      [] e.k = "plus" -> Closed(Related(e.i, E, nodes))
      [] e.k = "star" -> Closed(Related(e.i, E, nodes)) \cup self
      [] e.k = "opt"  -> Related(e.i, E, nodes) \cup self
      [] e.k = "alt"  -> Related(e.l, E, nodes) \cup Related(e.r, E, nodes)
      [] e.k = "seq"  -> Compose(Related(e.l, E, nodes), Related(e.r, E, nodes))
\* The active graphs of a scope, each as <<tag, triples>>.
Active(scope) ==
    IF scope.k = "each" THEN {<<g, TriplesOf(g)>> : g \in Graph \ {0}}
    ELSE {<<-1, {r.t : r \in Visible(scope)}>>}
NodesOf(E) == {t[1] : t \in E} \cup {t[3] : t \in E}
Expected(e, scope, s, o) ==
    UNION {LET nodes == NodesOf(a[2]) \cup {x.x : x \in {x \in {s, o} : x.k = "const"}} IN
           {<<x[1], x[2], a[1]>> : x \in Related(e, a[2], nodes)} : a \in Active(scope)}

-----------------------------------------------------------------------------
\* The endpoints the zero-length rules agree on: under GRAPH ?g a constant,
\* and a variable bound elsewhere, is a node of the graphs looked at.
Ordinary(e, scope, s, o) ==
    e.k \in {"star", "opt", "inv"} => \A x \in {s, o} :
        (x.k = "joined" \/ (x.k = "const" /\ scope.k = "each")) =>
            \A a \in Active(scope) : x.x \in NodesOf(a[2])

\* A walk finds exactly the pairs SPARQL relates, from whichever end it
\* starts, and when it stops at the depth limit it finds no other pair.
WalksAreSparql == \A e \in Paths, scope \in Scopes, se \in Ends :
    LET s == se[1]
        o == se[2]
        plan == Classify(e, FALSE)
        got == Answer(e, scope, s, o)
        all == Kept(Expected(e, scope, s, o), s, o) IN
    (~got.refused /\ ~Shortcut(plan, scope) /\ Ordinary(e, scope, s, o)) =>
        got.pairs \subseteq all /\ (~got.cut => got.pairs = all)

\* A truncation is noted exactly when the walk misses a pair (walk.rs:15:
\* "truncation is exact").
CutsAreExact == \A e \in Paths, scope \in Scopes, se \in Ends :
    LET plan == Classify(e, FALSE)
        rel  == Relation(e, scope, se[1], se[2])
        seed == SeedEnd(scope, se[1], se[2])
        s    == IF seed = "subject" THEN se[1] ELSE Free
        o    == IF seed = "object" THEN se[2] ELSE Free IN
    (plan.kind = "plus" /\ ~rel.refused /\ ~Shortcut(plan, scope)) =>
        (rel.cut <=> rel.pairs # Kept(Expected(e, scope, s, o), s, o))

\* The shortcut answers as the walk would, in a scope of one graph whose
\* inferred rows are those of its asserted ones (scoped_triple_from_path on
\* materialize).
Fresh(g) == TriplesOf(g) = RdfsClosure(Asserted(g))
AllNamed(E) == NodesOf(E) \subseteq Iri
ShortcutIsClosure == \A e \in Paths, g \in Graph, se \in Ends :
    LET scope == [k |-> "one", g |-> g]
        got == Answer(e, scope, se[1], se[2]) IN
    (/\ Shortcut(Classify(e, FALSE), scope) /\ Fresh(g) /\ AllNamed(TriplesOf(g))
     /\ Ordinary(e, scope, se[1], se[2])) =>
        got.pairs = Kept(Expected(e, scope, se[1], se[2]), se[1], se[2])

\* Materialization derives the types that subclass chains, and the domains and
\* ranges of a property's superproperties, give, and no other.
ClosureIsEntailment == \A g \in Graph :
    LET A == Asserted(g)
        up(p) == Related(Star(Pred(p)), A, Iri)
        holds == {<<y[1][1], y[2][2], y[1][3]>> :
                     y \in {y \in A \X up(SubPropertyOf) : y[1][2] = y[2][1]}}
        sides(p, i) == {<<y[1][i], y[2][3]>> :
                     y \in {y \in holds \X A : y[2][2] = p /\ y[2][1] = y[1][2] /\ y[1][i] \notin Literal}}
        types == Links(holds, Type) \cup sides(DomainOf, 1) \cup sides(RangeOf, 3) IN
    Links(RdfsClosure(A), Type) = Compose(types, up(SubClassOf))
=============================================================================
