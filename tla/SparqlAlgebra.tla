--------------------------- MODULE SparqlAlgebra ---------------------------
(***************************************************************************)
(* What a SPARQL query asks for: its pattern as a tree of algebra          *)
(* operators, and the bag of solutions of that tree over a set of quads,   *)
(* by the definitions of SPARQL 1.1 (section 18).  The translation of the  *)
(* tree to SQL, in SparqlTranslation, is checked against it.               *)
(*                                                                         *)
(* A position of a triple pattern is a variable or a term; a quad is       *)
(* <<s, p, o, g>> with a graph number, 0 for the default graph.  A bag is  *)
(* a set of records whose id tells two equal solutions apart.              *)
(*                                                                         *)
(* A pattern outside GRAPH matches the quads of every graph: that is the   *)
(* dataset pgRDF serves, where the default graph of a query is all of them.*)
(***************************************************************************)
EXTENDS Integers, Sequences, FiniteSets, SequencesExt

CONSTANTS Var, Term,
          Numeral, ValueOf,   \* the numeric literals, and the number each denotes
          Named, IriOf,       \* the named graphs, and the IRI term of each
          Null                \* unbound

ASSUME TermAssumption ==
    /\ Var \cap Term = {} /\ Null \notin Var \cup Term
    /\ Numeral \subseteq Term /\ ValueOf \in [Numeral -> Int]
    /\ \A m, n \in Numeral : ValueOf[m] = ValueOf[n] => m = n
    /\ 0 \notin Named /\ IriOf \in [Named -> Term \ Numeral]
    /\ \A g, h \in Named : IriOf[g] = IriOf[h] => g = h

Graph == Named \cup {0}
Fun(v, x) == [w \in {v} |-> x]
\* The bindings of f, and those of h it does not have.
Plus(f, h) == [v \in DOMAIN f \cup DOMAIN h |-> IF v \in DOMAIN f THEN f[v] ELSE h[v]]
NoBindings == [v \in {} |-> Null]
VarsIn(t) == {t[i] : i \in DOMAIN t} \cap Var

\* The operators.
Bgp(ts)           == [op |-> "bgp", ts |-> ts]
Join(l, r)        == [op |-> "join", l |-> l, r |-> r]
Union(l, r)       == [op |-> "union", l |-> l, r |-> r]
Minus(l, r)       == [op |-> "minus", l |-> l, r |-> r]
LeftJoin(l, r, e) == [op |-> "leftjoin", l |-> l, r |-> r, e |-> e]
Filter(e, i)      == [op |-> "filter", e |-> e, i |-> i]
GraphOf(n, i)     == [op |-> "graph", n |-> n, i |-> i]
Extend(i, v, x)   == [op |-> "extend", i |-> i, v |-> v, x |-> x]
Values(vs, rs)    == [op |-> "values", vs |-> vs, rs |-> rs]

Eq(a, b)  == [f |-> "eq", a |-> a, b |-> b]
Less(a, b) == [f |-> "less", a |-> a, b |-> b]
IsBound(v) == [f |-> "bound", v |-> v]
And(l, r) == [f |-> "and", l |-> l, r |-> r]
Or(l, r)  == [f |-> "or", l |-> l, r |-> r]
Not(l)    == [f |-> "not", l |-> l]
Always    == [f |-> "true"]

RECURSIVE ExprVars(_), Vars(_), Visible(_), Certain(_)
ExprVars(e) ==
    CASE e.f \in {"eq", "less"} -> {e.a, e.b} \cap Var
      [] e.f = "bound"          -> {e.v}
      [] e.f \in {"and", "or"}  -> ExprVars(e.l) \cup ExprVars(e.r)
      [] e.f = "not"            -> ExprVars(e.l)
      [] e.f = "true"           -> {}
Vars(p) ==
    CASE p.op = "bgp"     -> UNION {VarsIn(p.ts[i]) : i \in DOMAIN p.ts}
      [] p.op \in {"join", "union", "minus", "leftjoin"} -> Vars(p.l) \cup Vars(p.r)
      [] p.op = "filter"  -> Vars(p.i)
      [] p.op = "graph"   -> Vars(p.i) \cup ({p.n} \cap Var)
      [] p.op = "extend"  -> Vars(p.i) \cup {p.v}
      [] p.op = "values"  -> Range(p.vs)
\* The variables a solution may bind: a MINUS hides its right side's.
Visible(p) ==
    CASE p.op \in {"bgp", "values"} -> Vars(p)
      [] p.op \in {"join", "union", "leftjoin"} -> Visible(p.l) \cup Visible(p.r)
      [] p.op = "minus"  -> Visible(p.l)
      [] p.op \in {"filter", "graph", "extend"} -> Visible(p.i) \cup (Vars(p) \ Vars(p.i))
\* The variables every solution binds.
Certain(p) ==
    CASE p.op = "bgp"     -> Vars(p)
      [] p.op = "join"    -> Certain(p.l) \cup Certain(p.r)
      [] p.op = "union"   -> Certain(p.l) \cap Certain(p.r)
      [] p.op \in {"minus", "leftjoin"} -> Certain(p.l)
      [] p.op = "filter"  -> Certain(p.i)
      [] p.op = "graph"   -> Certain(p.i) \cup ({p.n} \cap Var)
      [] p.op = "extend"  -> Certain(p.i) \cup
                             (IF p.x \in Term \cup Certain(p.i) THEN {p.v} ELSE {})
      [] p.op = "values"  -> {v \in Range(p.vs) : \A i \in DOMAIN p.rs :
                                \A k \in DOMAIN p.vs : p.vs[k] = v => p.rs[i][k] # Null}

-----------------------------------------------------------------------------
\* The truth of an expression: TRUE, FALSE or an error.

ValueAt(x, b) == IF x \in Term THEN x ELSE IF x \in DOMAIN b THEN b[x] ELSE Null
Holds(c)      == IF c THEN "true" ELSE "false"

RECURSIVE Truth(_, _)
Truth(e, b) ==
    CASE e.f = "true"  -> "true"
      [] e.f = "eq"    -> IF Null \in {ValueAt(e.a, b), ValueAt(e.b, b)} THEN "error"
                          ELSE Holds(ValueAt(e.a, b) = ValueAt(e.b, b))
      [] e.f = "less"  -> IF {ValueAt(e.a, b), ValueAt(e.b, b)} \subseteq Numeral
                          THEN Holds(ValueOf[ValueAt(e.a, b)] < ValueOf[ValueAt(e.b, b)])
                          ELSE "error"
      [] e.f = "bound" -> Holds(e.v \in DOMAIN b)
      [] e.f = "not"   -> CASE Truth(e.l, b) = "true"  -> "false"
                            [] Truth(e.l, b) = "false" -> "true"
                            [] OTHER -> "error"
      [] e.f = "and"   -> LET both == {Truth(e.l, b), Truth(e.r, b)} IN
                          IF "false" \in both THEN "false"
                          ELSE IF "error" \in both THEN "error" ELSE "true"
      [] e.f = "or"    -> LET both == {Truth(e.l, b), Truth(e.r, b)} IN
                          IF "true" \in both THEN "true"
                          ELSE IF "error" \in both THEN "error" ELSE "false"

-----------------------------------------------------------------------------
\* The solutions of a pattern over the quads D in the graphs G.

Compatible(m, n) == \A v \in DOMAIN m \cap DOMAIN n : m[v] = n[v]
Agrees(t, q) ==
    /\ \A i \in 1 .. 3 : t[i] \in Term => t[i] = q[i]
    /\ \A i, j \in 1 .. 3 : t[i] = t[j] => q[i] = q[j]
Binding(t, q) == [v \in VarsIn(t) |-> q[CHOOSE i \in 1 .. 3 : t[i] = v]]

Matches(t, D, G) == {[b |-> Binding(t, q), id |-> <<q>>] :
                        q \in {q \in D : q[4] \in G /\ Agrees(t, q)}}
Both(l, r) == [b |-> Plus(l.b, r.b), id |-> l.id \o r.id]
Joined(L, R) == {Both(x[1], x[2]) : x \in {x \in L \X R : Compatible(x[1].b, x[2].b)}}
Marked(S, mark) == {[s EXCEPT !.id = <<mark>> \o @] : s \in S}
Mark(name, n) == <<name, "", "", n>>

RowBinding(vs, cells) ==
    [v \in {vs[k] : k \in {k \in DOMAIN vs : cells[k] # Null}} |->
        cells[CHOOSE k \in DOMAIN vs : vs[k] = v]]

RECURSIVE Solutions(_, _, _)
Solutions(p, D, G) ==
    CASE p.op = "bgp" ->
            FoldLeft(LAMBDA S, t : Joined(S, Matches(t, D, G)), {[b |-> NoBindings, id |-> <<>>]}, p.ts)
      [] p.op = "join" -> Joined(Solutions(p.l, D, G), Solutions(p.r, D, G))
      [] p.op = "union" -> Marked(Solutions(p.l, D, G), Mark("left", 0)) \cup
                           Marked(Solutions(p.r, D, G), Mark("right", 0))
      [] p.op = "minus" ->
            LET R == Solutions(p.r, D, G) IN
            {l \in Solutions(p.l, D, G) :
                ~\E r \in R : Compatible(l.b, r.b) /\ DOMAIN l.b \cap DOMAIN r.b # {}}
      [] p.op = "leftjoin" ->
            LET L == Solutions(p.l, D, G)
                J == {x \in L \X Solutions(p.r, D, G) :
                        Compatible(x[1].b, x[2].b) /\ Truth(p.e, Plus(x[1].b, x[2].b)) = "true"} IN
            {Both(x[1], x[2]) : x \in J} \cup
            {[l EXCEPT !.id = Append(@, Mark("none", 0))] : l \in {l \in L : \A x \in J : x[1] # l}}
      [] p.op = "filter" -> {s \in Solutions(p.i, D, G) : Truth(p.e, s.b) = "true"}
      [] p.op = "graph" ->
            IF p.n \in Term THEN Solutions(p.i, D, {g \in Named : IriOf[g] = p.n})
            ELSE UNION {Joined({[b |-> Fun(p.n, IriOf[g]), id |-> <<Mark("graph", g)>>]},
                               Solutions(p.i, D, {g})) : g \in Named}
      [] p.op = "extend" ->
            {IF ValueAt(p.x, s.b) = Null THEN s
             ELSE [s EXCEPT !.b = Plus(@, Fun(p.v, ValueAt(p.x, s.b)))] : s \in Solutions(p.i, D, G)}
      [] p.op = "values" -> {[b |-> RowBinding(p.vs, p.rs[i]), id |-> <<Mark("row", i)>>] :
                                i \in DOMAIN p.rs}
=============================================================================
