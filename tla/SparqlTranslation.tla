------------------------- MODULE SparqlTranslation -------------------------
(***************************************************************************)
(* The translation of a SPARQL query to one SQL statement                  *)
(* (src/query/executor.rs): BIND substitution, the walk that flattens the  *)
(* pattern tree into the parts of one SELECT, the join order, and what the *)
(* generated FROM, WHERE, GROUP BY and ORDER BY clauses return.            *)
(*                                                                         *)
(* A column of the SQL statement that stands for a variable (an anchor) is *)
(* the variable's entry in a row: the code's first occurrence anchors it,  *)
(* every later one is an equality, and NULL equals nothing.  The walk      *)
(* gives up (refused) where the code panics or raises an error.            *)
(***************************************************************************)
EXTENDS SparqlAlgebra, TLC

CONSTANTS Lex,          \* the lexical value of each term: what a row shows
          LexRank,      \* the order of the lexical values, byte by byte
          Queries,      \* bound: the queries tried
          Datasets      \* bound: the quads they are tried on

ASSUME LexAssumption == Lex \in [Term -> STRING] /\ LexRank \in [Range(Lex) -> Nat]

VARIABLES query, quads, answer
vars == <<query, quads, answer>>

\* A set in some order.
Listed(S) == FoldSet(LAMBDA x, s : Append(s, x), <<>>, S)

-----------------------------------------------------------------------------
\* substitute_binds: a BIND of a variable or a term replaces its variable in
\* what comes after it.

Put(m, v, x)     == Plus(Fun(v, x), m)
SubstTerm(x, m)  == IF x \in DOMAIN m THEN m[x] ELSE x
SubstTriple(t, m) == [i \in DOMAIN t |-> SubstTerm(t[i], m)]

RECURSIVE SubstExpr(_, _), Subst(_, _)
SubstExpr(e, m) ==
    CASE e.f \in {"eq", "less"} -> [e EXCEPT !.a = SubstTerm(@, m), !.b = SubstTerm(@, m)]
      [] e.f \in {"and", "or"}  -> [e EXCEPT !.l = SubstExpr(@, m), !.r = SubstExpr(@, m)]
      [] e.f = "not"            -> [e EXCEPT !.l = SubstExpr(@, m)]
      [] e.f \in {"bound", "true"} -> e

\* The pattern, and the binds known after it: those of an OPTIONAL, of the
\* arms of a UNION and of the right side of a MINUS end with it.
Subst(p, m) ==
    CASE p.op = "bgp" ->
            [p |-> [p EXCEPT !.ts = [i \in DOMAIN @ |-> SubstTriple(@[i], m)]], m |-> m]
      [] p.op = "extend" ->
            LET s == Subst(p.i, m)
                x == SubstTerm(p.x, s.m) IN
            [p |-> [p EXCEPT !.i = s.p, !.x = x], m |-> Put(s.m, p.v, x)]
      [] p.op = "filter" ->
            LET s == Subst(p.i, m) IN
            [p |-> [p EXCEPT !.i = s.p, !.e = SubstExpr(@, s.m)], m |-> s.m]
      [] p.op = "join" ->
            LET l == Subst(p.l, m)
                r == Subst(p.r, l.m) IN
            [p |-> [p EXCEPT !.l = l.p, !.r = r.p], m |-> r.m]
      [] p.op \in {"leftjoin", "minus"} ->
            LET l == Subst(p.l, m)
                q == [p EXCEPT !.l = l.p, !.r = Subst(@, l.m).p] IN
            [p |-> IF p.op = "minus" THEN q ELSE [q EXCEPT !.e = SubstExpr(@, l.m)], m |-> l.m]
      [] p.op = "union" ->
            [p |-> [p EXCEPT !.l = Subst(@, m).p, !.r = Subst(@, m).p], m |-> m]
      [] p.op = "graph" -> LET s == Subst(p.i, m) IN [p |-> [p EXCEPT !.i = s.p], m |-> s.m]
      [] p.op = "values" -> [p |-> p, m |-> m]

-----------------------------------------------------------------------------
\* distribute_unions: a UNION moves up through joins, FILTER and GRAPH, not
\* through OPTIONAL, MINUS or BIND.

RECURSIVE Distribute(_), Arms(_)
Distribute(p) ==
    LET OverUnion(u, F(_)) == Union(Distribute(F(u.l)), Distribute(F(u.r))) IN
    CASE p.op = "union" -> Union(Distribute(p.l), Distribute(p.r))
      [] p.op = "join" ->
            LET l == Distribute(p.l)
                r == Distribute(p.r) IN
            IF l.op = "union" THEN OverUnion(l, LAMBDA x : Join(x, r))
            ELSE IF r.op = "union" THEN OverUnion(r, LAMBDA x : Join(l, x))
            ELSE Join(l, r)
      [] p.op \in {"filter", "graph"} ->
            LET i == Distribute(p.i) IN
            IF i.op = "union" THEN OverUnion(i, LAMBDA x : [p EXCEPT !.i = x])
            ELSE [p EXCEPT !.i = i]
      [] OTHER -> p
Arms(p) == IF p.op = "union" THEN Arms(p.l) \o Arms(p.r) ELSE <<p>>

-----------------------------------------------------------------------------
\* The parts of one SELECT (ParsedSelect, UnionBranch, OptionalBlock).

Parts == [bgp |-> <<>>, filters |-> <<>>, opts |-> <<>>, minuses |-> <<>>, values |-> <<>>,
          arms |-> <<>>, binds |-> NoBindings, scopes |-> 0, refused |-> FALSE]
Refuse(ps) == [ps EXCEPT !.refused = TRUE]

\* Where a triple looks: anywhere, in one graph (-1: no graph of that name),
\* or in a graph that ?g names; every GRAPH ?g block is a scope of its own.
Anywhere == [k |-> "any"]
MakeScope(n, ps) ==
    IF n \in Term
    THEN [k |-> "one", g |-> IF \E g \in Named : IriOf[g] = n
                             THEN CHOOSE g \in Named : IriOf[g] = n ELSE -1]
    ELSE [k |-> "each", v |-> n, n |-> ps.scopes + 1]

\* What may stand in the query's own group, in an arm of a UNION, and in an OPTIONAL.
SelectOps   == {"bgp", "join", "filter", "leftjoin", "minus", "graph", "values", "union", "extend"}
BranchOps   == SelectOps \ {"union", "extend"}
OptionalOps == BranchOps \ {"minus"}

RECURSIVE Walk(_, _, _, _)

OptionalOf(p, e, ps, sc) ==
    LET block == Walk(p, [Parts EXCEPT !.scopes = ps.scopes], sc, OptionalOps) IN
    [ps EXCEPT !.opts = Append(@, [part |-> block, on |-> e]),
               !.scopes = block.scopes, !.refused = @ \/ block.refused]

\* Only a basic graph pattern, or one GRAPH block around one.
MinusOf(p, ps, sc) ==
    CASE p.op = "bgp" -> [ps EXCEPT !.minuses = Append(@, [ts |-> p.ts, sc |-> sc])]
      [] p.op = "graph" ->
            IF p.i.op = "bgp"
            THEN [ps EXCEPT !.minuses = Append(@, [ts |-> p.i.ts, sc |-> MakeScope(p.n, ps)]),
                            !.scopes = IF p.n \in Var THEN @ + 1 ELSE @]
            ELSE Refuse(ps)
      [] OTHER -> Refuse(ps)

RECURSIVE WalkArms(_, _, _)
WalkArms(arms, ps, sc) ==
    IF arms = <<>> THEN ps
    ELSE LET arm == Walk(Head(arms), [Parts EXCEPT !.scopes = ps.scopes], sc, BranchOps) IN
         WalkArms(Tail(arms), [ps EXCEPT !.arms = Append(@, arm), !.scopes = arm.scopes,
                                         !.refused = @ \/ arm.refused], sc)

Walk(p, ps, sc, ops) ==
    IF ps.refused \/ p.op \notin ops THEN Refuse(ps) ELSE
    CASE p.op = "bgp" ->
            [ps EXCEPT !.bgp = @ \o [i \in DOMAIN p.ts |-> [t |-> p.ts[i], sc |-> sc]]]
      [] p.op = "values" -> [ps EXCEPT !.values = Append(@, p)]
      [] p.op = "filter" -> Walk(p.i, [ps EXCEPT !.filters = Append(@, p.e)], sc, ops)
      [] p.op = "join" -> Walk(p.r, Walk(p.l, ps, sc, ops), sc, ops)
      [] p.op = "graph" ->
            Walk(p.i, [ps EXCEPT !.scopes = IF p.n \in Var THEN @ + 1 ELSE @],
                 MakeScope(p.n, ps), ops)
      [] p.op = "leftjoin" -> OptionalOf(p.r, p.e, Walk(p.l, ps, sc, ops), sc)
      [] p.op = "minus" -> MinusOf(p.r, Walk(p.l, ps, sc, ops), sc)
      [] p.op = "union" -> WalkArms(Arms(Distribute(p.l)) \o Arms(Distribute(p.r)), ps, sc)
      [] p.op = "extend" ->
            LET i == Walk(p.i, ps, sc, ops) IN [i EXCEPT !.binds = Put(@, p.v, p.x)]

Parse(q) == Walk(Subst(q.p, NoBindings).p, Parts, Anywhere, SelectOps)

-----------------------------------------------------------------------------
\* connected_order: three or more triples are joined most-bound first, then
\* always one that shares a variable with those placed, if there is one.

Boundness(st) == 3 - Cardinality(VarsIn(st.t))
VarsOf(bgp, S) == UNION {VarsIn(bgp[i].t) : i \in S}
First(S, Key(_)) ==
    LET best == {i \in S : \A j \in S : Key(j) <= Key(i)} IN CHOOSE i \in best : \A j \in best : i <= j

RECURSIVE Place(_, _)
Place(bgp, order) ==
    LET placed == Range(order)
        left   == DOMAIN bgp \ placed
        shared(i) == Cardinality(VarsIn(bgp[i].t) \cap VarsOf(bgp, placed))
        joins  == {i \in left : shared(i) > 0} IN
    IF left = {} THEN order
    ELSE Place(bgp, Append(order,
            IF joins # {} THEN First(joins, LAMBDA i : 4 * shared(i) + Boundness(bgp[i]))
            ELSE First(left, LAMBDA i : Boundness(bgp[i]))))
\* (Mutant: the most bound triple next, joined or not.)
BoundFirst(bgp) == SortSeq([i \in DOMAIN bgp |-> i],
                           LAMBDA i, j : Boundness(bgp[i]) > Boundness(bgp[j]))
ConnectedOrder(bgp) ==
    IF Len(bgp) <= 2 THEN [i \in DOMAIN bgp |-> i] ELSE Place(bgp, <<>>)
Reordered(bgp) == [i \in DOMAIN bgp |-> bgp[ConnectedOrder(bgp)[i]]]

-----------------------------------------------------------------------------
\* The rows of FROM: b the anchors, g the graph of each GRAPH ?g scope.

FirstRow == [b |-> NoBindings, g |-> NoBindings, id |-> <<>>]

\* bind_var and the constants: an anchor, an equality with one, or a constant.
BindVar(b, x, v) ==
    IF x \in Term THEN IF x = v THEN {b} ELSE {}
    ELSE IF x \in DOMAIN b THEN IF b[x] = v THEN {b} ELSE {} ELSE {Plus(b, Fun(x, v))}
PatternClauses(b, t, q) ==
    UNION {UNION {BindVar(b2, t[3], q[3]) : b2 \in BindVar(b1, t[2], q[2])} :
              b1 \in BindVar(b, t[1], q[1])}

\* ScopePlan: a GRAPH ?g scope never holds the default graph, and all its
\* triples are of one graph.
InScope(g, sc, q) ==
    CASE sc.k = "any"  -> TRUE
      [] sc.k = "one"  -> q[4] = sc.g
      [] sc.k = "each" -> q[4] # 0 /\ (sc.n \in DOMAIN g => g[sc.n] = q[4])
ScopeOf(g, sc, q) == IF sc.k = "each" THEN Plus(g, Fun(sc.n, q[4])) ELSE g

Scan(R, st, D) ==
    UNION {UNION {{[b |-> b, g |-> ScopeOf(r.g, st.sc, q), id |-> Append(r.id, q)] :
                      b \in PatternClauses(r.b, st.t, q)} :
                 q \in {q \in D : InScope(r.g, st.sc, q)}} : r \in R}
ScanAll(R, bgp, D) == FoldLeft(LAMBDA S, st : Scan(S, st, D), R, bgp)

\* Two GRAPH ?g blocks of one variable are of one graph.
ScopesNamed(bgp, v) == {bgp[i].sc.n : i \in {i \in DOMAIN bgp : bgp[i].sc.k = "each" /\ bgp[i].sc.v = v}}
SameGraph(R, bgp) ==
    {r \in R : \A v \in Var : \A m, n \in ScopesNamed(bgp, v) : r.g[m] = r.g[n]}

\* emit_values_table: a cross join; a cell is UNDEF, or equals the anchor.
\* (Mutant: UNDEF is a value like another.)
CellIsAnchor(cell, x) == cell = x
CellMatches(cell, x) == cell = Null \/ (cell = x /\ x # Null)
ValuesTable(R, vb) ==
    UNION {{[r EXCEPT !.b = Plus(@, [v \in Range(vb.vs) |-> vb.rs[i][CHOOSE k \in DOMAIN vb.vs : vb.vs[k] = v]]),
                      !.id = Append(@, Mark("row", i))] :
               i \in {i \in DOMAIN vb.rs : \A k \in DOMAIN vb.vs :
                        vb.vs[k] \in DOMAIN r.b => CellMatches(vb.rs[i][k], r.b[vb.vs[k]])}} :
              r \in R}

\* translate_filter: three-valued, on dictionary ids; numbers where both are.
RECURSIVE SqlTruth(_, _)
SqlTruth(e, b) ==
    LET at(x) == IF x \in Term THEN x ELSE b[x] IN
    CASE e.f = "true"  -> "true"
      [] e.f = "eq"    -> IF Null \in {at(e.a), at(e.b)} THEN "null" ELSE Holds(at(e.a) = at(e.b))
      [] e.f = "less"  -> IF {at(e.a), at(e.b)} \subseteq Numeral
                          THEN Holds(ValueOf[at(e.a)] < ValueOf[at(e.b)]) ELSE "null"
      [] e.f = "bound" -> Holds(e.v \in DOMAIN b /\ b[e.v] # Null)
      [] e.f = "not"   -> LET a == SqlTruth(e.l, b) IN
                          IF a = "null" THEN "null" ELSE Holds(a = "false")
      [] e.f = "and"   -> LET ab == {SqlTruth(e.l, b), SqlTruth(e.r, b)} IN
                          IF "false" \in ab THEN "false" ELSE IF "null" \in ab THEN "null" ELSE "true"
      [] e.f = "or"    -> LET ab == {SqlTruth(e.l, b), SqlTruth(e.r, b)} IN
                          IF "true" \in ab THEN "true" ELSE IF "null" \in ab THEN "null" ELSE "false"
RECURSIVE Translatable(_, _)
Translatable(e, A) ==
    CASE e.f \in {"eq", "less"}    -> {e.a, e.b} \subseteq Term \cup A
      [] e.f \in {"and", "or"}     -> Translatable(e.l, A) /\ Translatable(e.r, A)
      [] e.f = "not"               -> Translatable(e.l, A)
      [] e.f \in {"bound", "true"} -> TRUE

\* emit_optional_lateral: the group of the OPTIONAL for one row.
RECURSIVE BlockVars(_), GroupRows(_, _, _), OptionalJoin(_, _, _)
BlockVars(part) ==
    UNION {VarsIn(part.bgp[i].t) : i \in DOMAIN part.bgp} \cup
    UNION {Range(part.values[i].vs) : i \in DOMAIN part.values} \cup
    UNION {BlockVars(part.opts[i].part) : i \in DOMAIN part.opts}
GroupRows(r, opt, D) ==
    LET scanned == ScanAll({[r EXCEPT !.id = <<>>]}, opt.part.bgp, D)
        valued  == FoldLeft(ValuesTable, scanned, opt.part.values)
        nested  == FoldLeft(LAMBDA S, o : OptionalJoin(S, o, D), valued, opt.part.opts) IN
    {x \in nested : /\ \A i \in DOMAIN opt.part.filters : SqlTruth(opt.part.filters[i], x.b) = "true"
                    /\ SqlTruth(opt.on, x.b) = "true"}
OptionalJoin(R, opt, D) ==
    UNION {LET group == GroupRows(r, opt, D)
               new   == BlockVars(opt.part) \ DOMAIN r.b IN
           IF group = {}
           THEN {[r EXCEPT !.b = Plus(@, [v \in new |-> Null]), !.id = Append(@, Mark("none", 0))]}
           ELSE {[r EXCEPT !.b = Plus(@, [v \in new |-> x.b[v]]), !.id = @ \o x.id] : x \in group} :
              r \in R}

\* translate_minus: NOT EXISTS, when a variable of it has an anchor.
\* (Mutant: also when none has.)
AlwaysMinus(m, A) == TRUE
MinusApplies(m, A) == UNION {VarsIn(m.ts[i]) : i \in DOMAIN m.ts} \cap A # {}
MinusRows(r, m, D) ==
    ScanAll({[r EXCEPT !.g = NoBindings]}, [i \in DOMAIN m.ts |-> [t |-> m.ts[i], sc |-> m.sc]], D)

-----------------------------------------------------------------------------
\* What the translation refuses: an error instead of an answer.

ScopeIds(bgp)  == {bgp[i].sc.n : i \in {i \in DOMAIN bgp : bgp[i].sc.k = "each"}}
ScopeVars(bgp) == {bgp[i].sc.v : i \in {i \in DOMAIN bgp : bgp[i].sc.k = "each"}}
\* An OPTIONAL: an expression over a column that is not there, or a GRAPH ?g
\* that begins inside it.
RECURSIVE GroupFails(_, _, _)
GroupFails(opt, A, ids) ==
    LET part == opt.part
        here == A \cup UNION {VarsIn(part.bgp[i].t) : i \in DOMAIN part.bgp}
                  \cup UNION {Range(part.values[i].vs) : i \in DOMAIN part.values}
        upTo(i) == here \cup UNION {BlockVars(part.opts[j].part) : j \in 1 .. i - 1} IN
    \/ ScopeIds(part.bgp) \ ids # {}
    \/ \E i \in DOMAIN part.opts : GroupFails(part.opts[i], upTo(i), ids)
    \/ ~Translatable(opt.on, A \cup BlockVars(part))
    \/ \E i \in DOMAIN part.filters : ~Translatable(part.filters[i], A \cup BlockVars(part))
\* One FROM: no triple to begin with, or an expression as above.
FromFails(part) ==
    LET before(i) == BlockVars([part EXCEPT !.opts = SubSeq(@, 1, i - 1)]) IN
    \/ part.bgp = <<>>
    \/ \E i \in DOMAIN part.opts : GroupFails(part.opts[i], before(i), ScopeIds(part.bgp))
    \/ \E i \in DOMAIN part.filters : ~Translatable(part.filters[i], BlockVars(part))

\* refuse_values_on_graph_variable: VALUES of a variable that names a GRAPH.
ValuesOf(part) == UNION {Range(part.values[i].vs) : i \in DOMAIN part.values}
GraphVars(part) == ScopeVars(part.bgp) \cup
                   UNION {ScopeVars(part.opts[i].part.bgp) : i \in DOMAIN part.opts}
\* (Mutant: not the values of an arm.)
ValuesOutside(ps) == \E i \in DOMAIN ps.arms : ValuesOf(ps) \cap GraphVars(ps.arms[i]) # {}
ValuesOnGraph(ps) ==
    LET armsOf(F(_)) == UNION {F(ps.arms[i]) : i \in DOMAIN ps.arms}
        scopes == GraphVars(ps) \cup armsOf(GraphVars) IN
    scopes \cap (ValuesOf(ps) \cup armsOf(ValuesOf)
                 \cup UNION {ValuesOf(ps.opts[i].part) : i \in DOMAIN ps.opts}) # {}
\* refuse_group_constructs_over_union: something of the query's own group
\* beside a UNION.
\* (Mutant: it is let through, and not applied.)
NothingBeside(ps) == FALSE
BesideUnion(ps) == ps.arms # <<>> /\
    (\E part \in {ps.bgp, ps.filters, ps.opts, ps.minuses, ps.values} : part # <<>>)

-----------------------------------------------------------------------------
\* The rows of one SELECT, and of the arms of a UNION ALL, as the values of
\* the variables asked for.

FromWhere(part, D) ==
    LET joined == SameGraph(ScanAll({FirstRow}, Reordered(part.bgp), D), part.bgp)
        valued == FoldLeft(ValuesTable, joined, part.values)
        all    == FoldLeft(LAMBDA S, o : OptionalJoin(S, o, D), valued, part.opts) IN
    {r \in all : /\ \A i \in DOMAIN part.filters : SqlTruth(part.filters[i], r.b) = "true"
                 /\ \A i \in DOMAIN part.minuses :
                        MinusApplies(part.minuses[i], DOMAIN r.b) => MinusRows(r, part.minuses[i], D) = {}}

Column(r, part, v) ==
    LET named == ScopesNamed(part.bgp, v)
        x == IF v \in DOMAIN part.binds THEN part.binds[v] ELSE v IN
    IF v \notin DOMAIN part.binds /\ named # {}
    THEN IriOf[r.g[CHOOSE n \in named : \A m \in named : n <= m]]
    ELSE IF x \in Term THEN x ELSE IF x \in DOMAIN r.b THEN r.b[x] ELSE Null
Shows(part, v) == v \in DOMAIN part.binds \cup ScopeVars(part.bgp) \cup BlockVars(part)

Selected(part, V, D, mark) ==
    {[b |-> [v \in V |-> Column(r, part, v)], id |-> <<mark>> \o r.id] : r \in FromWhere(part, D)}
RawRows(ps, V, D) ==
    IF ps.arms = <<>> THEN Selected(ps, V, D, Mark("all", 0))
    ELSE UNION {Selected(ps.arms[i], V, D, Mark("arm", i)) : i \in DOMAIN ps.arms}

-----------------------------------------------------------------------------
\* GROUP BY, the aggregates and HAVING, on lexical values and numbers.

LexOf(x)  == IF x = Null THEN Null ELSE Lex[x]
Sum(S, F(_)) == FoldLeft(LAMBDA n, x : n + F(x), 0, Listed(S))
NumbersOf(R, v) == {r \in R : r.b[v] \in Numeral}
Least(S, Key(_)) == CHOOSE x \in S : \A y \in S : Key(x) <= Key(y)
AggregateOf(a, R) ==
    CASE a.fn = "count*" -> ToString(Cardinality(R))
      [] a.fn = "count"  -> ToString(Cardinality(
                                IF a.distinct THEN {r.b[a.v] : r \in R} \ {Null}
                                ELSE {r \in R : r.b[a.v] # Null}))
      [] a.fn = "sum"    -> IF NumbersOf(R, a.v) = {} THEN Null
                            ELSE ToString(Sum(NumbersOf(R, a.v), LAMBDA r : ValueOf[r.b[a.v]]))
      [] a.fn = "min"    ->
            LET values == {r.b[a.v] : r \in R} \ {Null} IN
            IF values = {} THEN Null
            ELSE IF values \cap Numeral # {} THEN Lex[Least(values \cap Numeral, LAMBDA x : ValueOf[x])]
            ELSE Least({Lex[x] : x \in values}, LAMBDA x : LexRank[x])
GroupKey(r, G) == [v \in G |-> LexOf(r.b[v])]
GroupsOf(R, G) == IF G = {} THEN {R}
                  ELSE {{r \in R : GroupKey(r, G) = k} : k \in {GroupKey(r, G) : r \in R}}
AggRow(q, R) ==
    [v \in Range(q.select) |->
        IF v \in Range(q.group) THEN LET r == CHOOSE r \in R : TRUE IN LexOf(r.b[v])
        ELSE AggregateOf(q.aggs[CHOOSE i \in DOMAIN q.aggs : q.aggs[i].out = v], R)]
Having(q, R) == \A i \in DOMAIN q.having :
    \E k \in DOMAIN q.aggs : /\ q.aggs[k].out = q.having[i].out
                             /\ AggregateOf(q.aggs[k], R) = q.having[i].is
Grouped(q, R) ==
    LET groups == Listed({S \in GroupsOf(R, Range(q.group)) : Having(q, S)}) IN
    [i \in DOMAIN groups |-> AggRow(q, groups[i])]
Needed(q) == Range(q.group) \cup {q.aggs[i].v : i \in {i \in DOMAIN q.aggs : q.aggs[i].fn # "count*"}}

-----------------------------------------------------------------------------
\* DISTINCT, ORDER BY, OFFSET and LIMIT.

\* type_aware_order_terms: numbers by value, then the rest byte by byte, and
\* NULL last in both directions.
NumLex == {Lex[n] : n \in Numeral}
NumberOf(l) == ValueOf[CHOOSE n \in Numeral : Lex[n] = l]
\* (Mutant: all byte by byte.)
ByText(x, y, asc) ==
    x # Null /\ (y = Null \/ IF asc THEN LexRank[x] < LexRank[y] ELSE LexRank[y] < LexRank[x])
Before(x, y, asc) ==
    LET kind(l) == IF l \in NumLex THEN 0 ELSE 3
        less(k, l) == \/ kind(k) < kind(l)
                      \/ kind(k) = kind(l) /\ kind(k) = 0 /\ NumberOf(k) < NumberOf(l)
                      \/ kind(k) = kind(l) /\ kind(k) = 3 /\ LexRank[k] < LexRank[l] IN
    x # Null /\ (y = Null \/ IF asc THEN less(x, y) ELSE less(y, x))
RECURSIVE RowBefore(_, _, _)
RowBefore(a, b, order) ==
    order # <<>> /\ LET k == Head(order) IN
        \/ Before(a[k.v], b[k.v], k.asc)
        \/ ~Before(b[k.v], a[k.v], k.asc) /\ RowBefore(a, b, Tail(order))
Ordered(rows, order) == SortSeq(rows, LAMBDA a, b : RowBefore(a, b, order))
Sliced(rows, q) ==
    LET from == IF q.offset > Len(rows) THEN Len(rows) ELSE q.offset
        to   == IF q.limit = -1 \/ from + q.limit > Len(rows) THEN Len(rows) ELSE from + q.limit IN
    SubSeq(rows, from + 1, to)

OrderVars(q) == {q.order[i].v : i \in DOMAIN q.order}
Shown(row, q) == [v \in Range(q.select) |-> row[v]]
PlainRows(q, R) ==
    LET lexed == LET s == Listed(R) IN
                 [i \in DOMAIN s |-> [v \in DOMAIN s[i].b |-> LexOf(s[i].b[v])]]
        wanted == IF q.distinct THEN Listed({Shown(lexed[i], q) : i \in DOMAIN lexed}) ELSE lexed
        page   == Sliced(Ordered(wanted, q.order), q) IN
    [i \in DOMAIN page |-> Shown(page[i], q)]

-----------------------------------------------------------------------------
\* translate and execute.

NeedsFail(q, ps) ==
    IF q.aggs # <<>> THEN
         \/ OrderVars(q) \ Range(q.select) # {}
         \/ \E v \in Range(q.select) : v \notin Range(q.group) \cup {q.aggs[i].out : i \in DOMAIN q.aggs}
         \/ ps.arms = <<>> /\ \E v \in Needed(q) :
                v \notin BlockVars(ps) \cup (IF v \in Range(q.group) THEN ScopeVars(ps.bgp) ELSE {})
         \/ \E i, j \in DOMAIN ps.arms : \E v \in Needed(q) :
                v \in BlockVars(ps.arms[i]) /\ v \in ScopeVars(ps.arms[j].bgp) \ BlockVars(ps.arms[j])
    ELSE \/ (q.distinct \/ ps.arms # <<>>) /\ OrderVars(q) \ Range(q.select) # {}
         \/ ps.arms = <<>> /\ \E v \in Range(q.select) \cup OrderVars(q) : ~Shows(ps, v)
Fails(q, ps) ==
    \/ ps.refused \/ ValuesOnGraph(ps) \/ BesideUnion(ps)
    \/ (IF ps.arms = <<>> THEN FromFails(ps) ELSE \E i \in DOMAIN ps.arms : FromFails(ps.arms[i]))
    \/ q.form = "select" /\ NeedsFail(q, ps)

Rows(q, ps, D) ==
    CASE q.form = "ask" -> <<Fun("_ask", ToString(RawRows(ps, {}, D) # {}))>>
      [] q.form = "select" /\ q.aggs # <<>> ->
            Sliced(Ordered(Grouped(q, RawRows(ps, Needed(q), D)), q.order), q)
      [] q.form = "select" /\ q.aggs = <<>> ->
            PlainRows(q, RawRows(ps, Range(q.select) \cup OrderVars(q), D))

Answered(q, D) ==
    LET ps == Parse(q) IN
    IF Fails(q, ps) THEN [refused |-> TRUE, rows |-> <<>>]
    ELSE [refused |-> FALSE, rows |-> Rows(q, ps, D)]

Init == query \in Queries /\ quads \in Datasets /\ answer = <<>>
Answer ==
    /\ answer = <<>>
    /\ answer' = <<Answered(query, quads)>>
    /\ UNCHANGED <<query, quads>>
Next == Answer
Spec == Init /\ [][Next]_vars

-----------------------------------------------------------------------------
\* The queries the answer is SPARQL's for.  Outside them the code answers too,
\* and differently; the README lists how.

RECURSIVE GraphNames(_), PlainVars(_), HasMinus(_), Scoped(_), TripleVars(_), Within(_, _, _)
GraphNames(p) ==
    CASE p.op = "graph" -> GraphNames(p.i) \cup ({p.n} \cap Var)
      [] p.op \in {"join", "union", "minus", "leftjoin"} -> GraphNames(p.l) \cup GraphNames(p.r)
      [] p.op \in {"filter", "extend"} -> GraphNames(p.i)
      [] p.op \in {"bgp", "values"} -> {}
PlainVars(p) ==
    CASE p.op = "bgp" -> Vars(p)
      [] p.op = "values" -> {}
      [] p.op \in {"join", "union", "minus"} -> PlainVars(p.l) \cup PlainVars(p.r)
      [] p.op = "leftjoin" -> PlainVars(p.l) \cup PlainVars(p.r) \cup ExprVars(p.e)
      [] p.op = "filter" -> PlainVars(p.i) \cup ExprVars(p.e)
      [] p.op = "extend" -> PlainVars(p.i) \cup ({p.v, p.x} \cap Var)
      [] p.op = "graph"  -> PlainVars(p.i)
\* Variables a triple of the group itself binds.
TripleVars(p) ==
    CASE p.op = "bgp" -> Vars(p)
      [] p.op = "join" -> TripleVars(p.l) \cup TripleVars(p.r)
      [] p.op \in {"minus", "leftjoin"} -> TripleVars(p.l)
      [] p.op \in {"filter", "graph", "extend"} -> TripleVars(p.i)
      [] p.op \in {"union", "values"} -> {}
HasMinus(p) ==
    CASE p.op = "minus" -> TRUE
      [] p.op \in {"join", "union", "leftjoin"} -> HasMinus(p.l) \/ HasMinus(p.r)
      [] p.op \in {"filter", "graph", "extend"} -> HasMinus(p.i)
      [] p.op \in {"bgp", "values"} -> FALSE
\* A GRAPH ?g group has a triple of its own and no MINUS, and no MINUS has one.
Scoped(p) ==
    CASE p.op = "graph" ->
            Scoped(p.i) /\ (p.n \in Var => ~HasMinus(p.i) /\ Walk(p.i, Parts, Anywhere, SelectOps).bgp # <<>>)
      [] p.op \in {"join", "union", "leftjoin"} -> Scoped(p.l) /\ Scoped(p.r)
      [] p.op = "minus" -> Scoped(p.l) /\ GraphNames(p.r) = {}
      [] p.op \in {"filter", "extend"} -> Scoped(p.i)
      [] p.op \in {"bgp", "values"} -> TRUE
\* A variable of an OPTIONAL, a MINUS, a FILTER or an UNDEF that is also
\* used outside is bound before it.  out: the variables of the query outside
\* p; sure: those that a triple beside it binds.
Within(p, out, sure) ==
    LET sides(l, r) == /\ Within(l, out \cup Vars(r), sure \cup TripleVars(r))
                       /\ Within(r, out \cup Vars(l), sure \cup TripleVars(l)) IN
    CASE p.op = "bgp"    -> TRUE
      [] p.op = "values" -> Range(p.vs) \cap out \subseteq Certain(p) \cup sure
      [] p.op = "join"   -> sides(p.l, p.r)
      [] p.op = "union"  -> Within(p.l, out, {}) /\ Within(p.r, out, {})
      [] p.op \in {"minus", "leftjoin"} ->
            /\ Within(p.l, out \cup Vars(p.r), sure)
            /\ Within(p.r, out \cup Vars(p.l), TripleVars(p.l))
            /\ Vars(p.r) \cap (out \cup Vars(p.l)) \subseteq Certain(p.l)
            /\ p.op = "leftjoin" => ExprVars(p.e) \subseteq Vars(p.l) \cup Vars(p.r)
      [] p.op = "filter" ->
            /\ Within(p.i, out, sure)
            /\ ExprVars(p.e) \subseteq Vars(p.i) /\ ExprVars(p.e) \cap out \subseteq Certain(p.i)
      [] p.op = "graph"  -> Within(p.i, out, sure)
      [] p.op = "extend" ->
            /\ Within(p.i, out \cup {p.v}, sure)
            /\ p.v \notin Vars(p.i) /\ {p.x} \cap Var \subseteq Certain(p.i) /\ p.i.op # "union"
\* Of the modifiers: no DISTINCT with aggregates, and SUM and MIN of numbers.
Conforms(q, S) ==
    /\ Within(q.p, {}, {}) /\ Scoped(q.p) /\ PlainVars(q.p) \cap GraphNames(q.p) = {}
    /\ q.aggs # <<>> => ~q.distinct
    /\ \A i \in DOMAIN q.aggs : q.aggs[i].fn \in {"sum", "min"} =>
        S # {} /\ \A s \in S : ValueAt(q.aggs[i].v, s.b) \in Numeral

-----------------------------------------------------------------------------
\* What SPARQL says of the modifiers, on the solutions S of the pattern.

Seen(s, q) == [v \in Range(q.select) |-> LexOf(ValueAt(v, s.b))]
Amount(a, S) ==
    LET bound == {s \in S : ValueAt(a.v, s.b) # Null}
        all   == {ValueAt(a.v, s.b) : s \in bound} IN
    CASE a.fn = "count*" -> ToString(Cardinality(S))
      [] a.fn = "count"  -> ToString(Cardinality(IF a.distinct THEN all ELSE bound))
      [] a.fn = "sum"    -> ToString(Sum(S, LAMBDA s : ValueOf[ValueAt(a.v, s.b)]))
      [] a.fn = "min"    -> Lex[CHOOSE n \in all : \A k \in all : ValueOf[n] <= ValueOf[k]]
Partition(q, S) ==
    IF q.group = <<>> THEN {S}
    ELSE {{s \in S : \A v \in Range(q.group) : ValueAt(v, s.b) = ValueAt(v, r.b)} : r \in S}
OfGroup(q, S) ==
    [v \in Range(q.select) |->
        IF v \in Range(q.group) THEN Seen(CHOOSE s \in S : TRUE, q)[v]
        ELSE Amount(q.aggs[CHOOSE i \in DOMAIN q.aggs : q.aggs[i].out = v], S)]
Kept(q, S) == \A i \in DOMAIN q.having :
    \E k \in DOMAIN q.aggs : q.aggs[k].out = q.having[i].out /\ Amount(q.aggs[k], S) = q.having[i].is

\* How often each row is in the whole answer.
Bagged(S, Row(_)) == [row \in {Row(s) : s \in S} |-> Cardinality({s \in S : Row(s) = row})]
Expected(q, S) ==
    CASE q.form = "ask" -> Bagged({TRUE}, LAMBDA x : Fun("_ask", ToString(S # {})))
      [] q.form = "select" /\ q.aggs # <<>> ->
            Bagged({X \in Partition(q, S) : Kept(q, X)}, LAMBDA X : OfGroup(q, X))
      [] q.form = "select" /\ q.aggs = <<>> /\ q.distinct -> [row \in {Seen(s, q) : s \in S} |-> 1]
      [] q.form = "select" /\ q.aggs = <<>> /\ ~q.distinct -> Bagged(S, LAMBDA s : Seen(s, q))
PageSize(q, n) ==
    LET rest == IF q.offset > n THEN 0 ELSE n - q.offset IN
    IF q.limit = -1 \/ q.limit > rest THEN rest ELSE q.limit

-----------------------------------------------------------------------------
Columns(q) == IF q.form = "ask" THEN {"_ask"} ELSE Range(q.select)
Times(row, rows) == Cardinality({i \in DOMAIN rows : rows[i] = row})
Answers == IF answer = <<>> \/ query.form \notin {"select", "ask"} THEN {} ELSE {answer[1]} \ {[refused |-> TRUE, rows |-> <<>>]}
TheSolutions == Solutions(query.p, quads, Graph)

\* An answer holds the rows SPARQL defines, each as often as SPARQL does, and
\* a page holds as many of them as it has room for: what the substitution of
\* BINDs, the flattening of the pattern, the join order, the anchors, the
\* lateral OPTIONALs and the NOT EXISTS of MINUS come to (execute).
AnswersAreSparql == \A a \in Answers :
    LET S == TheSolutions
        expected == Expected(query, S) IN
    Conforms(query, S) =>
        /\ \A k \in DOMAIN a.rows : /\ a.rows[k] \in DOMAIN expected
                                    /\ Times(a.rows[k], a.rows) <= expected[a.rows[k]]
        /\ Len(a.rows) = PageSize(query, Sum(DOMAIN expected, LAMBDA row : expected[row]))

\* The rows of a page are those an ORDER BY on numbers puts there
\* (type_aware_order_terms): sorted as values, not as their text, before
\* OFFSET and LIMIT are taken.
PagesAreOrdered == \A a \in Answers :
    (query.order # <<>> /\ query.aggs = <<>> /\ ~query.distinct) =>
        LET S == TheSolutions
            k == Head(query.order)
            keys == [i \in 1 .. Cardinality(S) |-> ValueAt(k.v, Listed(S)[i].b)]
            sorted == SortSeq(keys, LAMBDA m, n : IF k.asc THEN ValueOf[m] < ValueOf[n]
                                                  ELSE ValueOf[n] < ValueOf[m]) IN
        (Conforms(query, S) /\ Range(keys) \subseteq Numeral /\ k.v \in Range(query.select)) =>
            \A i \in DOMAIN a.rows : a.rows[i][k.v] = Lex[sorted[query.offset + i]]

\* The join order keeps every triple, and joins a triple that shares no
\* variable with those before it only when none does (connected_order).
RECURSIVE Groups(_)
Groups(part) ==
    {part.bgp} \cup UNION {Groups(part.opts[i].part) : i \in DOMAIN part.opts}
               \cup UNION {Groups(part.arms[i]) : i \in DOMAIN part.arms}
JoinsStayConnected == \A bgp \in Groups(Parse(query)) :
    LET order == ConnectedOrder(bgp)
        joined(i, k) == VarsIn(bgp[order[i]].t) \cap VarsOf(bgp, {order[j] : j \in 1 .. k}) # {} IN
    /\ Len(order) = Len(bgp) /\ Range(order) = DOMAIN bgp
    /\ Len(bgp) > 2 => \A k \in 1 .. Len(bgp) - 1 :
        joined(k + 1, k) \/ \A i \in k + 1 .. Len(bgp) : ~joined(i, k)
=============================================================================
