------------------------- MODULE ConstructDescribe -------------------------
(***************************************************************************)
(* CONSTRUCT and DESCRIBE (construct and describe of                       *)
(* src/query/executor.rs), over the translation of their WHERE, and the    *)
(* way back: put_construct_rows (src/storage/construct_ingest.rs) stores a *)
(* captured answer, which the next query then sees.                        *)
(*                                                                         *)
(* A row is a triple of cells [type, value, dt], as in the JSON.  A        *)
(* template position is a variable, a term or a label: a blank node of the *)
(* template.                                                               *)
(***************************************************************************)
EXTENDS SparqlTranslation

CONSTANTS Blank, Text,   \* the blank nodes and the string literals among the terms
          Label,         \* the blank nodes of the templates
          MaxQuads       \* bound: quads after an ingest

ASSUME FormAssumption ==
    /\ Blank \cup Text \subseteq Term /\ Blank \cap Text = {} /\ (Blank \cup Text) \cap Numeral = {}
    /\ Label \cap (Term \cup Var) = {}

Cell(type, value, dt) == [type |-> type, value |-> value, dt |-> dt]
\* encode_dict_term.
EncodeTerm(x) ==
    CASE x \in Numeral -> Cell("literal", Lex[x], "integer")
      [] x \in Text    -> Cell("literal", Lex[x], "string")
      [] x \in Blank   -> Cell("bnode", Lex[x], "")
      [] OTHER         -> Cell("iri", Lex[x], "")
\* bind_lexical_datatype: a BIND comes as text, and its type is guessed.
EncodeLexical(x) == Cell("literal", Lex[x], IF Lex[x] \in NumLex THEN "integer" ELSE "string")

-----------------------------------------------------------------------------
\* The template.

Positions(q)    == UNION {Range(q.template[i]) : i \in DOMAIN q.template}
TemplateVars(q) == Positions(q) \cap Var
IsConstant(q)   == Positions(q) \subseteq Term

\* BNodeMinter: one label per solution and template label, in order of use.
\* (Mutant: the solution is not in the label.)
MintPerCall(i, k) == "b1_" \o ToString(k)
Mint(i, k) == "b" \o ToString(i) \o "_" \o ToString(k)
LabelsUsed(ts) ==
    FoldLeft(LAMBDA s, x : IF x \in Label /\ x \notin Range(s) THEN Append(s, x) ELSE s,
             <<>>, FlattenSeq(ts))

\* execute_construct_per_solution_path: the template triples of one solution
\* that have no unbound variable.
SolutionRows(q, ps, sol, i) ==
    LET bound(t) == \A v \in Range(t) \cap Var : sol[v] # Null
        kept == SelectSeq(q.template, bound)
        labels == LabelsUsed(kept)
        encode(x) ==
            CASE x \in Label -> Cell("bnode", Mint(i, CHOOSE k \in DOMAIN labels : labels[k] = x), "")
              [] x \in Term  -> EncodeTerm(x)
              [] x \in Var   -> IF x \in DOMAIN ps.binds THEN EncodeLexical(sol[x]) ELSE EncodeTerm(sol[x]) IN
    [n \in DOMAIN kept |-> [m \in 1 .. 3 |-> encode(kept[n][m])]]

\* dedup_construct_rows.
\* (Mutant: a row may come again.)
KeepAll(rows) == rows
Deduped(rows) == FoldLeft(LAMBDA s, r : IF r \in Range(s) THEN s ELSE Append(s, r), <<>>, rows)

-----------------------------------------------------------------------------
\* construct.

Projected(ps) ==
    LET of(part) == BlockVars(part) \cup GraphVars(part) IN
    IF ps.arms # <<>> THEN UNION {of(ps.arms[i]) : i \in DOMAIN ps.arms} ELSE of(ps)
\* A constant template goes through build_bgp_sql, with its refusals; any
\* other through one SELECT of the group alone.
ConstructFails(q, ps) ==
    \/ ps.refused \/ (ps.bgp = <<>> /\ ps.arms = <<>>)
    \/ TemplateVars(q) \ (Projected(ps) \cup DOMAIN ps.binds) # {}
    \/ IF IsConstant(q) /\ Projected(ps) # {}
       THEN Fails([q EXCEPT !.form = "ask"], ps)
       ELSE FromFails(ps) \/ \E v \in TemplateVars(q) : ~Shows(ps, v)
Constructed(q, ps, D) ==
    IF IsConstant(q)
    THEN LET n == IF Projected(ps) = {} THEN Cardinality(FromWhere(ps, D))
                  ELSE Len(Sliced(Listed(RawRows(ps, {}, D)), q)) IN
         FlattenSeq([i \in 1 .. n |-> SolutionRows(q, ps, NoBindings, i)])
    ELSE LET sols == Listed(Selected(ps, TemplateVars(q), D, Mark("all", 0))) IN
         FlattenSeq([i \in DOMAIN sols |-> SolutionRows(q, ps, sols[i].b, i)])
Construct ==
    /\ query.form = "construct" /\ answer = <<>>
    /\ LET ps == Parse(query)
           fails == ConstructFails(query, ps) IN
       answer' = << [refused |-> fails,
                     rows |-> IF fails THEN <<>> ELSE Deduped(Constructed(query, ps, quads))] >>
    /\ UNCHANGED <<query, quads>>

-----------------------------------------------------------------------------
\* describe.

\* literal_graph_scope: the graph of a WHERE that is one GRAPH block, or 0.
RECURSIVE LiteralScope(_)
LiteralScope(p) ==
    CASE p.op = "graph"  -> IF p.n \in Term THEN MakeScope(p.n, Parts).g ELSE 0
      [] p.op = "filter" -> LiteralScope(p.i)
      [] OTHER           -> 0
\* closure_one_hop: in one graph, or in all.
OneHop(x, scope, D) == {<<q[1], q[2], q[3]>> : q \in {q \in D : q[1] = x /\ (scope = 0 \/ q[4] = scope)}}

\* describe_closure: depth first, through blank nodes; a triple emitted
\* before, for this root or another, is passed over with what is behind it.
\* (Mutant: through every object.)
Follow(x) == TRUE
Goes(x) == x \in Blank
RECURSIVE Closure(_, _, _, _, _)
Closure(frontier, visited, out, scope, D) ==
    IF frontier = <<>> THEN out
    ELSE LET new  == OneHop(Last(frontier), scope, D) \ Range(out)
             next == {t[3] : t \in {t \in new : Goes(t[3])}} \ visited IN
         Closure(Front(frontier) \o Listed(next), visited \cup next, out \o Listed(new), scope, D)

\* collect_describe_var_bindings: of the variables the group anchors.
Described(q, D) ==
    LET ps == Parse(q)
        shown == {v \in q.vars : v \in BlockVars(ps) /\ v \notin ScopeVars(ps.bgp)}
        found == IF shown = {} THEN {}
                 ELSE UNION {{r.b[v] : v \in shown} : r \in FromWhere(ps, D)} \ {Null} IN
    q.roots \o Listed(found \ Range(q.roots))
DescribeFails(q, ps) ==
    q.vars # {} /\ (ps.refused \/
        ((ps.bgp # <<>> \/ ps.arms # <<>>) /\ q.vars \cap Projected(ps) # {} /\ FromFails(ps)))
Describe ==
    /\ query.form = "describe" /\ answer = <<>>
    /\ LET ps == Parse(query)
           fails == DescribeFails(query, ps)
           scope == LiteralScope(query.p)
           triples == FoldLeft(LAMBDA out, x : Closure(<<x>>, {x}, out, scope, quads),
                               <<>>, Described(query, quads)) IN
       answer' = << [refused |-> fails,
                     rows |-> IF fails THEN <<>>
                              ELSE [i \in DOMAIN triples |-> [m \in 1 .. 3 |-> EncodeTerm(triples[i][m])]]] >>
    /\ UNCHANGED <<query, quads>>

-----------------------------------------------------------------------------
\* put_construct_rows: each cell is decoded to the term it encodes, a blank
\* node by its label; a literal that is no object ends the call.

Known(row) == \A m \in 1 .. 3 : \E x \in Term : EncodeTerm(x) = row[m]
\* (Mutant: a literal loses its datatype.)
DecodeUntyped(c) == CHOOSE x \in Term : EncodeTerm(x).value = c.value /\ EncodeTerm(x).type = c.type
Decode(c) == CHOOSE x \in Term : EncodeTerm(x) = c
PutConstructRows(g) ==
    /\ query.form = "construct" /\ answer # <<>>
    /\ LET rows == Range(answer[1].rows)
           new  == quads \cup {<<Decode(r[1]), Decode(r[2]), Decode(r[3]), g>> : r \in rows} IN
       /\ \A r \in rows : Known(r)             \* bound: of the terms there are
       /\ \A r \in rows : r[1].type # "literal" /\ r[2].type # "literal"
       /\ Cardinality(new) <= MaxQuads
       /\ quads' = new
    /\ answer' = <<>>
    /\ UNCHANGED query

FormsNext ==
    \/ query.form \in {"select", "ask"} /\ Answer
    \/ Construct
    \/ Describe
    \/ \E g \in Graph : PutConstructRows(g)
FormsSpec == Init /\ [][FormsNext]_vars

-----------------------------------------------------------------------------
Captured(form) == IF answer = <<>> \/ query.form # form THEN {}
                  ELSE {answer[1]} \ {[refused |-> TRUE, rows |-> <<>>]}

\* What the answer is SPARQL's for: no UNION beside the group or on its own,
\* no VALUES of a GRAPH variable, no LIMIT, no variable that a BIND of
\* something else than a number gives, no literal or blank node where the
\* triple may not have one.
ConstructConforms(q, ps, S) ==
    LET at(t, s, i) == IF t[i] \in Label THEN Null ELSE ValueAt(t[i], s.b) IN
    /\ Within(q.p, {}, {}) /\ Scoped(q.p) /\ PlainVars(q.p) \cap GraphNames(q.p) = {}
    /\ ps.arms = <<>> /\ ~ValuesOnGraph(ps) /\ q.limit = -1
    /\ \A v \in TemplateVars(q) \cap DOMAIN ps.binds : \A s \in S : ValueAt(v, s.b) \in Numeral \cup {Null}
    /\ \A i \in DOMAIN q.template : \A s \in S :
        /\ at(q.template[i], s, 1) \notin Numeral \cup Text
        /\ at(q.template[i], s, 2) \notin Numeral \cup Text \cup Blank

\* The triples SPARQL (section 16.2) makes of one solution, a label for
\* itself: the labels stand for new blank nodes of this solution.
Instances(q, s) ==
    LET cell(x) == IF x \in Label THEN Cell("bnode", x, "") ELSE EncodeTerm(ValueAt(x, s.b))
        whole(t) == \A v \in Range(t) \cap Var : ValueAt(v, s.b) # Null IN
    {[m \in 1 .. 3 |-> cell(q.template[i][m])] : i \in {i \in DOMAIN q.template : whole(q.template[i])}}
\* The rows that name a blank node of X, and the same rows for any other
\* names: two sets of rows differ only by those names if these are equal.
Naming(rows, X) == {r \in rows : \E m \in 1 .. 3 : r[m].type = "bnode" /\ r[m].value \in X}
UpToNames(rows, X) ==
    {{[m \in 1 .. 3 |-> IF r[m].type = "bnode" /\ r[m].value \in X THEN [r[m] EXCEPT !.value = h[@]] ELSE r[m]] :
         r \in rows} : h \in Bijection(X, Label)}
NewNames(i) == {"b" \o ToString(i) \o "_" \o ToString(k) : k \in 1 .. Cardinality(Label)}
StoredNames(D) == {Lex[x] : x \in Blank \cap UNION {{q[1], q[3]} : q \in D}}

\* CONSTRUCT gives each triple of SPARQL's answer once, up to the names of
\* the blank nodes it makes: one per solution and label of the template, and
\* no two of them the same (construct, BNodeMinter, dedup_construct_rows).
ConstructIsSparql == \A a \in Captured("construct") :
    LET S == TheSolutions
        n == Cardinality(S)
        rows == Range(a.rows)
        labelled(s) == Naming(Instances(query, s), Label)
        new == UNION {NewNames(i) : i \in 1 .. n} IN
    (ConstructConforms(query, Parse(query), S) /\ StoredNames(quads) \cap new = {}) =>
        /\ Len(a.rows) = Cardinality(rows)
        /\ rows \ Naming(rows, new) = UNION {Instances(query, s) \ labelled(s) : s \in S}
        /\ Bagged({i \in 1 .. n : Naming(rows, NewNames(i)) # {}},
                  LAMBDA i : UpToNames(Naming(rows, NewNames(i)), NewNames(i)))
           = Bagged({s \in S : labelled(s) # {}}, LAMBDA s : UpToNames(labelled(s), Label))

\* DESCRIBE gives, each once, the triples of the resources asked for and of
\* the blank nodes those lead to, in the graph the WHERE names or in all.
RECURSIVE Reach(_, _, _)
Reach(X, scope, D) ==
    LET more == X \cup ({t[3] : t \in UNION {OneHop(x, scope, D) : x \in X}} \cap Blank) IN
    IF more = X THEN X ELSE Reach(more, scope, D)
DescribeIsClosure == \A a \in Captured("describe") :
    LET S == IF query.vars = {} THEN {} ELSE TheSolutions
        asked == Range(query.roots) \cup (UNION {{ValueAt(v, s.b) : v \in query.vars} : s \in S} \ {Null})
        scope == LiteralScope(query.p)
        triples == UNION {OneHop(x, scope, quads) : x \in Reach(asked, scope, quads)} IN
    (Within(query.p, {}, {}) /\ Scoped(query.p) /\ query.vars \cap GraphNames(query.p) = {}) =>
        /\ Len(a.rows) = Cardinality(Range(a.rows))
        /\ Range(a.rows) = {[m \in 1 .. 3 |-> EncodeTerm(t[m])] : t \in triples}

\* A copy of a graph by CONSTRUCT and put_construct_rows holds the triples of
\* the graph, term for term, and nothing else changes (construct_ingest.rs).
IsCopy(q) == q.form = "construct" /\ q.p.op = "graph" /\ q.limit = -1 /\
             q.template \in Seq(Var \X Var \X Var) /\ q.p.i = Bgp(q.template) /\ Len(q.template) = 1
RoundTripIsExact ==
    [][\A g \in Graph : (IsCopy(query) /\ answer # <<>> /\ PutConstructRows(g)) =>
        LET from == LiteralScope(query.p) IN
        from \in Named =>
            quads' = quads \cup {<<t[1], t[2], t[3], g>> : t \in {q \in quads : q[4] = from}}]_vars

\* Something of the group beside a UNION is refused, never dropped
\* (refuse_group_constructs_over_union, CHANGELOG.md:533).
BesideUnionIsRefused == \A a \in Captured("construct") : ~BesideUnion(Parse(query))
=============================================================================
