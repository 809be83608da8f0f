--------------------------- MODULE QuadStatements ---------------------------
(***************************************************************************)
(* The statements that change the quads of a graph one row at a time:      *)
(* SPARQL UPDATE (src/query/executor.rs, execute_update), materialize      *)
(* (src/inference/reasonable.rs) and its freshness stamp                   *)
(* (src/storage/freshness.rs, inventory.rs), next to the appending writers *)
(* (put_quad and the loaders) and lock_graph.                              *)
(*                                                                         *)
(* A statement is one transaction.  It works through a list of SQL         *)
(* statements, each of which sees what is committed when it starts and     *)
(* what its own transaction wrote (READ COMMITTED), and may wait for rows  *)
(* another transaction has deleted.  The quad table has no unique key: a   *)
(* row is a copy of a quad, numbered.                                      *)
(*                                                                         *)
(* A quad is a graph and a triple; terms, and the translation of a WHERE   *)
(* clause to its solutions (SparqlAlgebra), are left out: a modify         *)
(* operation gives the triples its pattern matches and what its templates  *)
(* make of each.  Graph 0 is the default graph, which is always there.     *)
(***************************************************************************)
EXTENDS Integers, Sequences, FiniteSets, SequencesExt

CONSTANTS Session, NoSession,
          Named,              \* named graphs
          Triple,
          Entails,            \* pairs <<premise, conclusion>>: what the reasoner derives
          Updates,            \* bound: the UPDATE statements tried, sequences of operations
          Appended,           \* bound: the quads <<g, t>> the other writers append
          Materialized,       \* bound: the graphs materialize is called for
          Lockable,           \* bound: the graphs lock_graph is called for
          MaxCopy             \* bound: copies of one quad

Graph == Named \cup {0}
Row   == [g : Graph, t : Triple, inf : BOOLEAN, by : {"update", "append", "reason"},
          n : 1 .. MaxCopy]

\* The operations of an UPDATE; a modify operation gives each solution the
\* triples it deletes and inserts; CLEAR and DROP are of a graph, of the
\* named graphs or of all.
Modify    == [do : {"modify"}, g : Graph, where : SUBSET Triple,
              del : [Triple -> SUBSET Triple], ins : [Triple -> SUBSET Triple]]
Operation == Modify
    \cup [do : {"insertData", "deleteData"}, g : Graph, t : Triple]
    \cup [do : {"create"}, g : Named, silent : BOOLEAN]
    \cup [do : {"clear", "drop"}, of : {"graph", "named", "all"}, g : Graph, silent : BOOLEAN]

ASSUME StatementAssumption ==
    /\ NoSession \notin Session /\ 0 \notin Named
    /\ IsFiniteSet(Named) /\ IsFiniteSet(Triple)
    /\ Updates \subseteq Seq(Operation)
    /\ MaxCopy \in Nat \ {0}
    /\ Entails \subseteq Triple \X Triple
    /\ Appended \subseteq Graph \X Triple

VARIABLES
    rows,       \* committed rows of _pgrdf_quads
    bound,      \* named graphs with a registry row and a partition
    locked,     \* graphs locked
    stamp,      \* materialized_base_count per graph, -1 before the first
    gate,       \* holder of the partition-DDL gate
    sess,       \* the statement each session runs
    disturbed   \* history: graphs that lost a row since they were materialized

vars == <<rows, bound, locked, stamp, gate, sess, disturbed>>

\* work: the SQL statements to come; todo: the solutions of the modify
\* operation op; targets: rows a DELETE found; ins, del: rows written and
\* removed; made, gone: graphs bound and dropped; wrote, read, excl: table
\* locks; touched, here: graphs fenced by the statement and by op; base: the
\* rows materialize read, stamps: the graph it stamped.
Idle == [kind |-> "idle", work |-> <<>>, todo |-> {}, op |-> <<>>, targets |-> {},
         ins |-> {}, del |-> {}, made |-> {}, gone |-> {}, wrote |-> {}, read |-> {},
         excl |-> {}, touched |-> {}, here |-> {}, base |-> {}, stamps |-> {}]

Init ==
    /\ rows = {} /\ bound = {} /\ locked = {} /\ gate = NoSession
    /\ stamp = [g \in Graph |-> -1]
    /\ sess = [s \in Session |-> Idle]
    /\ disturbed = {}

-----------------------------------------------------------------------------
\* What a transaction sees and may do.

View(s)    == (rows \ sess[s].del) \cup sess[s].ins
BoundOf(s) == ((bound \cup sess[s].made) \ sess[s].gone) \cup {0}
Others(s)  == Session \ {s}
RowsOf(R, g) == {r \in R : r.g = g}
SetOf(R)     == {r.t : r \in R}

\* A copy number no row has that anybody might still mean.
InUse == rows \cup UNION {sess[s].ins \cup sess[s].targets \cup sess[s].del : s \in Session}
Copies(g, t, inf, by) ==
    {r \in [g : {g}, t : {t}, inf : {inf}, by : {by}, n : 1 .. MaxCopy] : r \notin InUse}
NewRow(g, t, inf, by) ==
    CHOOSE r \in Copies(g, t, inf, by) : \A q \in Copies(g, t, inf, by) : r.n <= q.n

\* Table locks: TRUNCATE and DROP keep everybody else out to the end.
Open(s, g)      == \A o \in Others(s) : g \notin sess[o].excl
Unused(s, g)    == \A o \in Others(s) : g \notin sess[o].wrote \cup sess[o].read \cup sess[o].excl
NoWriter(g)     == \A o \in Session : g \notin sess[o].wrote \cup sess[o].excl
\* The refuse-triggers of a locked partition; the default graph has none.
Refused(g)      == g \in locked /\ g # 0
\* require_unlocked.
Fenced(g)       == g \in locked

Rest(s) == Tail(sess[s].work)
Do(s, what) == /\ sess[s].targets = {}
               /\ sess[s].work # <<>> /\ Head(sess[s].work).do = what
Abort(s) ==
    /\ sess' = [sess EXCEPT ![s] = Idle]
    /\ gate' = IF gate = s THEN NoSession ELSE gate
    /\ UNCHANGED <<rows, bound, locked, stamp, disturbed>>
Goes(s, new) ==
    /\ sess' = [sess EXCEPT ![s] = new]
    /\ UNCHANGED <<rows, bound, locked, stamp, gate, disturbed>>

-----------------------------------------------------------------------------
\* execute_update: the SQL statements of each operation, in program order.

Ins(g, t)     == [do |-> "insert", g |-> g, t |-> t]
Del(g, T, I)  == [do |-> "delete", g |-> g, ts |-> T, infs |-> I]
Touch(g)      == [do |-> "touch", g |-> g]
Each(T, F(_)) == FlattenSeq([i \in 1 .. Cardinality(T) |-> F(SetToSeq(T)[i])])

\* DELETE DATA and the DELETE templates leave a graph that is not bound alone.
DeleteQuad(g, t, B) == IF g \in B THEN <<Del(g, {t}, BOOLEAN), Touch(g)>> ELSE <<>>
InsertQuad(g, t)    == <<[do |-> "allocate", g |-> g], Ins(g, t), Touch(g)>>

\* One solution: its deletions, then its insertions.
RowWork(op, sol, B) ==
    Each(op.del[sol], LAMBDA t : DeleteQuad(op.g, t, B)) \o
    Each(op.ins[sol], LAMBDA t : InsertQuad(op.g, t))

\* execute_clear, execute_drop: the default graph's rows are deleted, a named
\* graph goes through clear_graph or drop_graph; then each is fenced.
Emptied(op, g) ==
    IF g = 0 THEN <<Del(0, Triple, BOOLEAN), Touch(0)>> ELSE <<[do |-> op.do, g |-> g], Touch(g)>>
TargetsOf(op, B) ==
    CASE op.of = "graph" -> {op.g} \cap B [] op.of = "named" -> B \ {0} [] op.of = "all" -> B
EmptyWork(op, B) ==
    (IF 0 \in TargetsOf(op, B) THEN Emptied(op, 0) ELSE <<>>) \o
    Each(TargetsOf(op, B) \ {0}, LAMBDA g : Emptied(op, g))

OpWork(op, B) ==
    CASE op.do = "insertData"       -> InsertQuad(op.g, op.t)
      [] op.do = "deleteData"       -> DeleteQuad(op.g, op.t, B)
      [] op.do = "create"           -> IF op.g \in B THEN <<Touch(op.g)>>
                                       ELSE <<[do |-> "allocate", g |-> op.g], Touch(op.g)>>
      [] op.do \in {"clear","drop"} -> EmptyWork(op, B)
      [] op.do = "modify"           -> <<op>>

\* CREATE of a bound graph, CLEAR and DROP of one that is not; SILENT lets it pass.
Fails(op, B) == \/ op.do = "create" /\ op.g \in B /\ ~op.silent
                \/ /\ op.do \in {"clear", "drop"} /\ op.of = "graph"
                   /\ op.g \in Named \ B /\ ~op.silent

\* The gate first, for the whole statement.
\* (Mutant: without it.)
AnyGate(s) == TRUE
GateFor(s) == gate = NoSession
TakesGate(s) == gate' = s

UpdateStart(s, ops) ==
    /\ sess[s].kind = "idle" /\ GateFor(s)
    /\ TakesGate(s)
    /\ sess' = [sess EXCEPT ![s] = [Idle EXCEPT !.kind = "update",
                    !.work = [i \in DOMAIN ops |-> [do |-> "op", op |-> ops[i]]]]]
    /\ UNCHANGED <<rows, bound, locked, stamp, disturbed>>

UpdateOp(s) ==
    /\ Do(s, "op") /\ sess[s].op = <<>>
    /\ LET op == Head(sess[s].work).op IN
       IF Fails(op, BoundOf(s)) THEN Abort(s)
       ELSE Goes(s, [sess[s] EXCEPT !.work = OpWork(op, BoundOf(s)) \o Rest(s)])

\* resolve_or_allocate_graph: add_graph, when the name is not bound.
AllocateGraph(s) ==
    /\ Do(s, "allocate")
    /\ LET g == Head(sess[s].work).g IN
       Goes(s, [sess[s] EXCEPT !.work = Rest(s),
                !.made = IF g \in BoundOf(s) THEN @ ELSE @ \cup {g},
                !.gone = @ \ {g}])

\* insert_quad: WHERE NOT EXISTS a row of the quad, base or inferred.
InsertRow(s) ==
    /\ Do(s, "insert")
    /\ LET x == Head(sess[s].work)
           there == \E r \in View(s) : r.g = x.g /\ r.t = x.t IN
       /\ Open(s, x.g)
       /\ IF Refused(x.g) /\ ~there THEN Abort(s)
          ELSE /\ there \/ Copies(x.g, x.t, FALSE, "update") # {}
               /\ Goes(s, [sess[s] EXCEPT !.work = Rest(s), !.wrote = @ \cup {x.g},
                       !.ins = IF there THEN @ ELSE @ \cup {NewRow(x.g, x.t, FALSE, "update")}])

\* A DELETE finds its rows ...
DeleteRows(s) ==
    /\ Do(s, "delete")
    /\ LET x == Head(sess[s].work)
           found == {r \in View(s) : r.g = x.g /\ r.t \in x.ts /\ r.inf \in x.infs} IN
       /\ Open(s, x.g)
       /\ IF found # {} /\ Refused(x.g) THEN Abort(s)
          ELSE Goes(s, [sess[s] EXCEPT !.work = Rest(s), !.wrote = @ \cup {x.g}, !.targets = found])
\* ... and waits for whoever deletes one of them, before it removes what is left.
DeleteFound(s) ==
    /\ sess[s].targets # {}
    /\ \A o \in Others(s) : sess[s].targets \cap sess[o].del = {}
    /\ Goes(s, [sess[s] EXCEPT !.targets = {}, !.ins = @ \ sess[s].targets,
                              !.del = @ \cup (sess[s].targets \cap rows)])

\* The WHERE clause, once; then its solutions in any order.
SolveWhere(s) ==
    /\ Do(s, "modify")
    /\ LET op == Head(sess[s].work) IN
       /\ Open(s, op.g)
       /\ Goes(s, [sess[s] EXCEPT !.work = Rest(s), !.op = <<op>>, !.read = @ \cup {op.g},
                                 !.todo = SetOf(RowsOf(View(s), op.g)) \cap op.where])
BetweenSolutions(s) ==
    /\ sess[s].op # <<>> /\ sess[s].targets = {}
    /\ (sess[s].work # <<>> => Head(sess[s].work).do = "op")
SolutionRow(s) ==
    /\ BetweenSolutions(s)
    /\ \E sol \in sess[s].todo :
          Goes(s, [sess[s] EXCEPT !.todo = @ \ {sol},
                    !.work = RowWork(sess[s].op[1], sol, BoundOf(s)) \o @])
\* The graphs the operation touched are fenced once more for the statement.
SolutionsEnd(s) ==
    /\ BetweenSolutions(s) /\ sess[s].todo = {}
    /\ Goes(s, [sess[s] EXCEPT !.op = <<>>, !.here = {},
                              !.work = Each(sess[s].here, LAMBDA g : <<Touch(g)>>) \o @])

\* touch_written_graph: the fence, once per graph and statement, and inside
\* a modify once per operation.
TouchGraph(s) ==
    /\ Do(s, "touch")
    /\ LET g == Head(sess[s].work).g
           inside == sess[s].op # <<>>
           known  == g \in (IF inside THEN sess[s].here ELSE sess[s].touched) IN
       IF ~known /\ Fenced(g) /\ g \notin sess[s].gone THEN Abort(s)
       ELSE Goes(s, [sess[s] EXCEPT !.work = Rest(s),
                    !.here = IF inside THEN @ \cup {g} ELSE @,
                    !.touched = IF inside THEN @ ELSE @ \cup {g}])

\* clear_graph and drop_graph: fence, ACCESS EXCLUSIVE, all rows.
TruncateGraph(s) ==
    /\ Do(s, "clear") \/ Do(s, "drop")
    /\ LET x == Head(sess[s].work)
           dropped == IF x.do = "drop" THEN {x.g} ELSE {} IN
       IF Fenced(x.g) THEN Abort(s)
       ELSE /\ Unused(s, x.g)
            /\ Goes(s, [sess[s] EXCEPT !.work = Rest(s), !.excl = @ \cup {x.g},
                   !.ins = {r \in @ : r.g # x.g}, !.del = @ \cup RowsOf(rows, x.g),
                   !.gone = @ \cup dropped, !.made = @ \ dropped])

-----------------------------------------------------------------------------
\* materialize: no gate, no lock of its own.

Derived(T) ==
    LET Closed == {C \in SUBSET Triple :
                      T \subseteq C /\ \A e \in Entails : e[1] \in C => e[2] \in C} IN
    {t \in Triple : \A C \in Closed : t \in C}

MaterializeStart(s, g) ==
    /\ sess[s].kind = "idle" /\ ~Fenced(g) /\ g \in bound \cup {0}
    /\ Goes(s, [Idle EXCEPT !.kind = "materialize",
                !.work = <<Del(g, Triple, {TRUE}), [do |-> "reason", g |-> g],
                           [do |-> "stamp", g |-> g]>>])

\* load_base_triples; what the reasoner adds is written next.
Reason(s) ==
    /\ Do(s, "reason")
    /\ LET g == Head(sess[s].work).g
           base == {r \in RowsOf(View(s), g) : ~r.inf} IN
       /\ Open(s, g)
       /\ Goes(s, [sess[s] EXCEPT !.base = base,
               !.work = <<[do |-> "infer", g |-> g,
                           ts |-> Derived(SetOf(base)) \ SetOf(base)]>> \o Rest(s)])

InferRows(s) ==
    /\ Do(s, "infer")
    /\ LET x == Head(sess[s].work) IN
       /\ Open(s, x.g)
       /\ \A t \in x.ts : Copies(x.g, t, TRUE, "reason") # {}
       /\ IF Refused(x.g) /\ x.ts # {} THEN Abort(s)
          ELSE Goes(s, [sess[s] EXCEPT !.work = Rest(s), !.wrote = @ \cup {x.g},
                        !.ins = @ \cup {NewRow(x.g, t, TRUE, "reason") : t \in x.ts}])

\* (Mutant: the stamp counts what is there at the end.)
CountNow(s, g)  == Cardinality({r \in RowsOf(View(s), g) : ~r.inf})
CountRead(s, g) == Cardinality(sess[s].base)

\* stamp_materialize; it waits for a stamp of the same row.
StampGraph(s) ==
    /\ Do(s, "stamp")
    /\ LET g == Head(sess[s].work).g IN
       /\ \A o \in Others(s) : \A p \in sess[o].stamps : p[1] # g
       /\ Goes(s, [sess[s] EXCEPT !.work = Rest(s), !.stamps = {<<g, CountRead(s, g)>>}])

-----------------------------------------------------------------------------
\* The appending writers, lock_graph and unlock_graph.

\* put_quad, the loaders: the fence, then a plain INSERT.
AppendStart(s, q) ==
    /\ sess[s].kind = "idle" /\ q[1] \in bound \cup {0} /\ ~Fenced(q[1])
    /\ Goes(s, [Idle EXCEPT !.kind = "append",
                           !.work = <<[do |-> "append", g |-> q[1], t |-> q[2]]>>])
AppendRow(s) ==
    /\ Do(s, "append")
    /\ LET x == Head(sess[s].work) IN
       /\ Open(s, x.g) /\ Copies(x.g, x.t, FALSE, "append") # {}
       /\ IF Refused(x.g) \/ x.g \notin bound \cup {0} THEN Abort(s)
          ELSE Goes(s, [sess[s] EXCEPT !.work = Rest(s), !.wrote = @ \cup {x.g},
                        !.ins = @ \cup {NewRow(x.g, x.t, FALSE, "append")}])

\* CREATE TRIGGER waits for the writers of a partition; the default graph
\* has no partition of its own, and its lock does not wait.
\* (Mutant: it never waits.)
NoWaiting(g)   == TRUE
WritersDone(g) == g = 0 \/ NoWriter(g)

LockGraph(g) ==
    /\ g \notin locked /\ g \in bound \cup {0}
    /\ \A s \in Session : \A p \in sess[s].stamps : p[1] # g
    /\ WritersDone(g)
    /\ locked' = locked \cup {g}
    /\ UNCHANGED <<rows, bound, stamp, gate, sess, disturbed>>
UnlockGraph(g) ==
    /\ g \in locked
    /\ \A s \in Session : \A p \in sess[s].stamps : p[1] # g
    /\ locked' = locked \ {g}
    /\ UNCHANGED <<rows, bound, stamp, gate, sess, disturbed>>

-----------------------------------------------------------------------------
\* The end of the transaction.

Finished(s) == /\ sess[s].kind # "idle" /\ sess[s].work = <<>>
               /\ sess[s].op = <<>> /\ sess[s].targets = {}

Commit(s) ==
    /\ Finished(s)
    /\ LET me == sess[s]
           stampOf(g) == {p[2] : p \in {q \in me.stamps : q[1] = g}} IN
       /\ rows'  = (rows \ me.del) \cup me.ins
       /\ bound' = (bound \cup me.made) \ me.gone
       /\ stamp' = [g \in Graph |-> IF g \in me.gone THEN -1
                                    ELSE IF stampOf(g) # {} THEN CHOOSE n \in stampOf(g) : TRUE
                                    ELSE stamp[g]]
       /\ disturbed' = {g \in Graph : IF stampOf(g) # {} THEN ~(me.base \subseteq rows')
                                      ELSE g \in disturbed \/ RowsOf(me.del, g) # {}}
       /\ sess'  = [sess EXCEPT ![s] = Idle]
       /\ gate'  = IF gate = s THEN NoSession ELSE gate
       /\ UNCHANGED locked

\* A cancelled statement, or the victim of PostgreSQL's deadlock detector.
Cancel(s) == sess[s].kind # "idle" /\ Abort(s)

UpdateNext(s)      == \/ \E ops \in Updates : UpdateStart(s, ops)
                      \/ UpdateOp(s) \/ AllocateGraph(s) \/ InsertRow(s)
                      \/ DeleteRows(s) \/ DeleteFound(s) \/ TruncateGraph(s)
                      \/ SolveWhere(s) \/ SolutionRow(s) \/ SolutionsEnd(s) \/ TouchGraph(s)
MaterializeNext(s) == \/ \E g \in Materialized : MaterializeStart(s, g)
                      \/ Reason(s) \/ InferRows(s) \/ StampGraph(s)
AppendNext(s)      == (\E q \in Appended : AppendStart(s, q)) \/ AppendRow(s)

Next ==
    \/ \E s \in Session : UpdateNext(s) \/ MaterializeNext(s) \/ AppendNext(s)
                          \/ Commit(s) \/ Cancel(s)
    \/ \E g \in Lockable : LockGraph(g) \/ UnlockGraph(g)

Spec == Init /\ [][Next]_vars

-----------------------------------------------------------------------------
\* graph_inventory's materialization column.
Status(g) ==
    LET asserted == Cardinality({r \in RowsOf(rows, g) : ~r.inf}) IN
    CASE stamp[g] = -1 /\ (\E r \in RowsOf(rows, g) : r.inf)  -> "unknown"
      [] stamp[g] = -1 /\ ~(\E r \in RowsOf(rows, g) : r.inf) -> "never"
      [] stamp[g] # -1 /\ asserted # stamp[g] -> "stale"
      [] OTHER -> "current"

\* SPARQL UPDATE is set-semantic although the quad table has no unique key:
\* no two UPDATEs, whatever they interleave with, leave two rows of one quad.
NoTwoFromUpdates ==
    \A r, q \in rows : (r.by = "update" /\ q.by = "update" /\ r.g = q.g /\ r.t = q.t) => r = q

\* A graph the inventory calls current, that lost no row since its base was
\* read, holds everything the reasoner derives from what it asserts: writers
\* that committed while materialize ran, or two runs of it, do not hide.
CurrentIsComplete ==
    \A g \in Graph : (Status(g) = "current" /\ g \notin disturbed) =>
        Derived(SetOf({r \in RowsOf(rows, g) : ~r.inf})) \subseteq SetOf(RowsOf(rows, g))

\* While a named graph stays locked no commit changes its rows, not even of
\* a statement that wrote before the lock was there.
LockedRowsStand ==
    [][\A g \in Named : (g \in locked /\ g \in locked') => RowsOf(rows', g) = RowsOf(rows, g)]_vars
=============================================================================
