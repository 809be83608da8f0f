---------------------------- MODULE UpdateWhere ----------------------------
(***************************************************************************)
(* INSERT, DELETE and DELETE/INSERT with a WHERE (the DeleteInsert arm of  *)
(* src/query/executor.rs), over the translation of the WHERE: its          *)
(* solutions are read once, and each one then deletes its instances of one *)
(* template and inserts its instances of the other.                        *)
(*                                                                         *)
(* A template quad is <<s, p, o, n>>, n the IRI of a graph, a variable or  *)
(* Null for the default graph.  WITH <iri> is in the templates already, as *)
(* the parser leaves it, and in the field with.  The locks and the fence a *)
(* written row meets are in QuadStatements, new graph ids in GraphCatalog. *)
(***************************************************************************)
EXTENDS ConstructDescribe

\* with_iri_from_using and scope_pattern_to_graph: WITH <iri> puts the WHERE
\* in GRAPH <iri>.
WherePattern(q) == IF q.with = Null THEN q.p ELSE GraphOf(q.with, q.p)

\* collect_ground_template_vars, collect_template_vars.
QuadVars(ts)  == UNION {VarsIn(ts[i]) : i \in DOMAIN ts}
UpdateVars(q) == QuadVars(q.del) \cup QuadVars(q.ins)

\* What is refused before any row: a UNION, a WHERE without a triple, and a
\* template variable that no triple, VALUES or OPTIONAL of it anchors.
WhereFails(q, ps) ==
    \/ ps.refused \/ ps.arms # <<>> \/ FromFails(ps)
    \/ UpdateVars(q) \ BlockVars(ps) # {}

-----------------------------------------------------------------------------
\* The templates, for one solution b.

Literal == Numeral \cup Text
GraphId(n) == CASE n = Null -> 0
                [] n \in Term /\ (\E g \in Named : IriOf[g] = n) -> CHOOSE g \in Named : IriOf[g] = n
                [] OTHER -> -1
Instance(t, b) == <<ValueAt(t[1], b), ValueAt(t[2], b), ValueAt(t[3], b), GraphId(t[4])>>

\* instantiate_template_quad: no literal as a constant subject, no label, no
\* GRAPH variable.
InsertRefused(t) == t[1] \in Literal \cup Label \/ t[3] \in Label \/ t[4] \in Var
InsertQuads(ts, b) == {Instance(ts[i], b) : i \in DOMAIN ts}

\* instantiate_ground_template_quad: a quad of a graph that is not there is
\* passed over.
DeleteRefused(t) == t[1] \in Literal \/ t[4] \in Var
DeleteQuads(ts, b) == {q \in {Instance(ts[i], b) : i \in DOMAIN ts} : q[4] # -1}

\* A solution that leaves a variable of a template unbound is skipped whole.
Complete(q, b) == \A v \in UpdateVars(q) : b[v] # Null

\* One solution: what it deletes goes before what it inserts comes, rows that
\* went are counted, and so are the inserts tried.
InsertWhere(w, ts, b) ==
    [w EXCEPT !.quads = @ \cup InsertQuads(ts, b), !.inserted = @ + Len(ts)]
DeleteWhere(w, ts, b) ==
    LET gone == DeleteQuads(ts, b) IN
    [w EXCEPT !.quads = @ \ gone, !.deleted = @ + Cardinality(gone \cap w.quads)]
\* (Mutant: the other way around.)
InsertFirst(q, w, b) == DeleteWhere(InsertWhere(w, q.ins, b), q.del, b)
Apply(q, w, b)       == InsertWhere(DeleteWhere(w, q.del, b), q.ins, b)

\* The rows of the WHERE, in any order the SQL statement may give them.
Orders(S) == LET s == Listed(S) IN {[i \in DOMAIN s |-> f[s[i]]] : f \in Permutations(S)}

Update ==
    /\ query.form = "update" /\ answer = <<>>
    /\ LET ps == Parse([query EXCEPT !.p = WherePattern(query)])
           rows == IF WhereFails(query, ps) THEN {}
                   ELSE {r \in FromWhere(ps, quads) : Complete(query, r.b)}
           fails == \/ WhereFails(query, ps)
                    \/ rows # {} /\ ((\E t \in Range(query.del) : DeleteRefused(t))
                                     \/ \E t \in Range(query.ins) : InsertRefused(t)) IN
       \E order \in Orders(IF fails THEN {} ELSE rows) :
           LET w == FoldLeft(LAMBDA w, r : Apply(query, w, r.b),
                             [quads |-> quads, deleted |-> 0, inserted |-> 0], order) IN
           /\ quads' = w.quads
           /\ answer' = << [refused |-> fails, rows |-> <<w.deleted, w.inserted>>] >>
    /\ UNCHANGED query

UpdateNext == FormsNext \/ Update
UpdateSpec == Init /\ [][UpdateNext]_vars

-----------------------------------------------------------------------------
\* What W3C SPARQL 1.1 Update (section 3.1.3) makes of the quads D: all that
\* the solutions delete goes, then all that they insert comes.

Whole(x) == \A m \in 1 .. 3 : x[m] # Null
Gone(q, s) == {x \in {Instance(q.del[i], s.b) : i \in DOMAIN q.del} : Whole(x)}
Come(q, s) == {x \in {Instance(q.ins[i], s.b) : i \in DOMAIN q.ins} : Whole(x)}
\* WITH <iri> makes its graph the default graph of the WHERE.
UpdateSolutions(q, D) ==
    Solutions(q.p, D, IF q.with = Null THEN Graph ELSE {g \in Named : IriOf[g] = q.with})
AllGone(q, S) == UNION {Gone(q, s) : s \in S}
AllCome(q, S) == UNION {Come(q, s) : s \in S}

\* What the code does that for: the WHERE is one that Conforms describes; a
\* solution binds all the variables of the templates or gives no quad; no
\* quad is one that a solution deletes and another inserts; no literal or
\* blank node is where a triple may not have one.
UpdateConforms(q, S) ==
    /\ Within(q.p, {}, {}) /\ Scoped(q.p) /\ PlainVars(q.p) \cap GraphNames(q.p) = {}
    /\ \A s \in S : (\E v \in UpdateVars(q) : ValueAt(v, s.b) = Null) => Gone(q, s) \cup Come(q, s) = {}
    /\ \A s, t \in S : s # t => Gone(q, s) \cap Come(q, t) = {}
    /\ \A x \in AllCome(q, S) : x[1] \notin Literal /\ x[2] \notin Literal \cup Blank

\* An update with a WHERE leaves the quads that SPARQL says, whatever order
\* its solutions are taken in, and counts the rows that went; one that is
\* refused leaves the quads as they were (execute_delete_insert_where: "both
\* halves resolve against the same WHERE solutions").
UpdatesAreSparql ==
    [][(query.form = "update" /\ answer # answer') =>
        LET S == UpdateSolutions(query, quads) IN
        IF answer'[1].refused THEN quads' = quads
        ELSE UpdateConforms(query, S) =>
                /\ quads' = (quads \ AllGone(query, S)) \cup AllCome(query, S)
                /\ answer'[1].rows[1] = Cardinality(quads \cap AllGone(query, S))]_vars
=============================================================================
