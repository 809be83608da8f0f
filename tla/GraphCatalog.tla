--------------------------- MODULE GraphCatalog ---------------------------
(***************************************************************************)
(* The life of named graphs (src/storage/hexastore.rs, graphs.rs,          *)
(* partition.rs, lock.rs, and the RESOLVE phase of staged/phases.rs).      *)
(*                                                                         *)
(* A graph is a row of _pgrdf_graphs (its IRI and its lock) and a LIST     *)
(* partition _pgrdf_quads_g<id>; quads of an id without a partition land   *)
(* in the default partition.  Three things keep concurrent calls apart:    *)
(* the partition-DDL gate (an advisory transaction lock), the engine fence *)
(* require_unlocked, a plain read at the top of every write path, and two  *)
(* triggers that lock_graph installs on the partition of a locked graph.   *)
(* Ids come from a sequence, which no rollback undoes.                     *)
(*                                                                         *)
(* Every call is a transaction of its own.  The fence and the IRI lookup   *)
(* are read first; the call may then wait (for the gate or a table lock),  *)
(* and its effect is one step, taken with the locks it needs, except for   *)
(* move_graph, which copies first and drops afterwards.  Reads are never   *)
(* blocked and are left out.  How often a quad occurs in a graph, the      *)
(* is_inferred flag and the privilege checks are abstracted.               *)
(***************************************************************************)
EXTENDS Integers, FiniteSets

CONSTANTS Session, NoSession,
          Name,          \* graph IRIs users choose
          NoIri,
          Quad,
          MaxId,         \* bound on graph ids
          FreshInstall,  \* TRUE: CREATE EXTENSION; FALSE: upgraded with graph 1
          Calls          \* bound: the calls that need more than one step

GraphId == 0 .. MaxId
Synthetic(g) == <<"urn:pgrdf:graph", g>>
Iri == Name \cup {Synthetic(g) : g \in GraphId}

ASSUME CatalogAssumption ==
    /\ MaxId \in Nat \ {0}
    /\ NoSession \notin Session
    /\ NoIri \notin Iri
    /\ FreshInstall \in BOOLEAN

VARIABLES
    iriOf,     \* _pgrdf_graphs: the IRI bound to each id, or NoIri for no row
    lockedBy,  \* its lock: the session whose reason stands, or NoSession
    part,      \* ids with a partition of their own
    trig,      \* partitions carrying the refuse-triggers
    rows,      \* the quads of each id, wherever they are stored
    seq,       \* _pgrdf_graph_id_seq: last_value and is_called
    gate,      \* holder of the gate across steps, or NoSession
    call,      \* what each session's running call has read and still has to do
    used       \* history: ids that ever named a graph

vars == <<iriOf, lockedBy, part, trig, rows, seq, gate, call, used>>
graphVars == <<iriOf, lockedBy, part, trig, rows, seq, used>>

\* g: the graph (the source, for a copy); d: the destination; q: quads to
\* write; made: the call has created the destination's partition.
Op   == {"idle", "drop", "clear", "put", "copy", "carve", "move", "moved",
         "lock", "unlock", "staged"}
Call == [op : Op, g : GraphId, d : GraphId, q : SUBSET Quad, made : BOOLEAN]
Idle == [op |-> "idle", g |-> 0, d |-> 0, q |-> {}, made |-> FALSE]

Bound(g)  == iriOf[g] # NoIri
Locked(g) == lockedBy[g] # NoSession
Taken(i)  == \E g \in GraphId : iriOf[g] = i

\* The engine fence: require_unlocked.
Unlocked(g) == ~Locked(g)

GateFree == gate = NoSession

Init ==
    /\ iriOf = [g \in GraphId |->
                   IF g = 0 \/ (g = 1 /\ ~FreshInstall) THEN Synthetic(g) ELSE NoIri]
    /\ lockedBy = [g \in GraphId |-> NoSession]
    /\ part = IF FreshInstall THEN {} ELSE {1}
    /\ trig = {}
    /\ rows = [g \in GraphId |-> {}]
    /\ seq = [last |-> 1, called |-> ~FreshInstall]
    /\ gate = NoSession
    /\ call = [s \in Session |-> Idle]
    /\ used = {0} \cup part

Start(s, c) == c.op \in Calls /\ call[s] = Idle /\ call' = [call EXCEPT ![s] = c]
Running(s, op) == call[s].op = op
Finish(s) == call' = [call EXCEPT ![s] = Idle]

-----------------------------------------------------------------------------
\* Creating graphs.

\* create_partition_impl: the partition, and the sequence moved past its id.
\* CREATE TABLE ... PARTITION OF fails while the default partition holds rows
\* of this id.
CanPartition(g) == g \in part \/ rows[g] = {}
\* (Mutant: without setval.)
NotAdvanced(sq, g) == sq
Advanced(sq, g) == IF g > sq.last THEN [last |-> g, called |-> TRUE] ELSE sq

\* add_graph(g): INSERT the synthetic IRI ON CONFLICT (graph_id) DO NOTHING;
\* an IRI bound to another id fails the call.
CanBindSynthetic(g) == Bound(g) \/ ~Taken(Synthetic(g))
WithSynthetic(g) == IF Bound(g) THEN iriOf ELSE [iriOf EXCEPT ![g] = Synthetic(g)]

AddGraph(g) ==
    /\ GateFree
    /\ g \notin part
    /\ CanPartition(g) /\ CanBindSynthetic(g)
    /\ part' = part \cup {g}
    /\ seq' = Advanced(seq, g)
    /\ iriOf' = WithSynthetic(g)
    /\ used' = used \cup {g}
    /\ UNCHANGED <<lockedBy, trig, rows, gate, call>>

\* nextval, repeated while the id is bound or has a partition.
FirstId == IF seq.called THEN seq.last + 1 ELSE seq.last
Free(n) == ~Bound(n) /\ n \notin part
NextId(n) == n >= FirstId /\ Free(n) /\ \A m \in FirstId .. n - 1 : ~Free(m)

\* add_graph(iri) and create_graph(iri) for an IRI that is not bound: checked
\* again under the gate and the table lock, bound, then add_graph(id).  (A
\* bound IRI is answered, or refused, without any change.)
AllocateGraph(i, n) ==
    /\ GateFree
    /\ ~Taken(i)
    /\ NextId(n) /\ CanPartition(n)
    /\ iriOf' = [iriOf EXCEPT ![n] = i]
    /\ part' = part \cup {n}
    /\ seq' = Advanced([last |-> n, called |-> TRUE], n)
    /\ used' = used \cup {n}
    /\ UNCHANGED <<lockedBy, trig, rows, gate, call>>

\* add_graph(id, iri): upgrade the synthetic IRI, ...
UpgradeIri(g, i) ==
    /\ GateFree
    /\ iriOf[g] = Synthetic(g) /\ ~Taken(i)
    /\ iriOf' = [iriOf EXCEPT ![g] = i]
    /\ UNCHANGED <<lockedBy, part, trig, rows, seq, gate, call, used>>

\* ... or bind both and ensure the partition.
BindGraph(g, i) ==
    /\ GateFree
    /\ ~Bound(g) /\ ~Taken(i)
    /\ CanPartition(g)
    /\ iriOf' = [iriOf EXCEPT ![g] = i]
    /\ part' = part \cup {g}
    /\ seq' = IF g \in part THEN seq ELSE Advanced(seq, g)
    /\ used' = used \cup {g}
    /\ UNCHANGED <<lockedBy, trig, rows, gate, call>>

\* A create that fails or is rolled back leaves only the sequence moved.
AbortedCreate(n) ==
    /\ GateFree
    /\ \/ NextId(n) /\ seq' = [last |-> n, called |-> TRUE]
       \/ n \notin part /\ seq' = Advanced(seq, n)
    /\ UNCHANGED <<iriOf, lockedBy, part, trig, rows, gate, call, used>>

-----------------------------------------------------------------------------
\* Dropping, clearing and writing.

\* A mover has copied: it holds ACCESS SHARE on its source, ROW EXCLUSIVE on
\* its destination, and ACCESS EXCLUSIVE on the parent if it made the latter.
ParentFree == \A s \in Session : Running(s, "moved") => ~call[s].made
UnreadByMover(g)   == \A s \in Session : ~(Running(s, "moved") /\ call[s].g = g)
UnwrittenByMover(g) == \A s \in Session :
    ~(Running(s, "moved") /\ call[s].d = g /\ call[s].q # {})

\* drop_graph: the fence, ...
DropStart(s, g) ==
    /\ g # 0
    /\ Unlocked(g)
    /\ Start(s, [Idle EXCEPT !.op = "drop", !.g = g])
    /\ UNCHANGED <<graphVars, gate>>

\* ... then, behind the gate, DETACH + DROP TABLE + DELETE of the row (the row
\* alone when there is no partition).
\* (Mutant: the row stays.)
GoneButBound(g) == /\ UNCHANGED iriOf
                   /\ lockedBy' = [lockedBy EXCEPT ![g] = NoSession]
                   /\ trig' = trig \ {g}
Gone(g) == /\ iriOf' = [iriOf EXCEPT ![g] = NoIri]
           /\ lockedBy' = [lockedBy EXCEPT ![g] = NoSession]
           /\ trig' = trig \ {g}
DropGraph(s) ==
    /\ Running(s, "drop")
    /\ GateFree
    /\ LET g == call[s].g IN
       /\ Gone(g)
       /\ part' = part \ {g}
       /\ rows' = IF g \in part THEN [rows EXCEPT ![g] = {}] ELSE rows
    /\ Finish(s)
    /\ UNCHANGED <<seq, gate, used>>

\* clear_graph: no gate; a missing partition clears nothing.
ClearStart(s, g) ==
    /\ Unlocked(g)
    /\ Start(s, [Idle EXCEPT !.op = "clear", !.g = g])
    /\ UNCHANGED <<graphVars, gate>>
ClearGraph(s) ==
    /\ Running(s, "clear")
    /\ LET g == call[s].g IN
       /\ g \notin trig
       /\ g \in part => UnreadByMover(g) /\ UnwrittenByMover(g)
       /\ rows' = IF g \in part THEN [rows EXCEPT ![g] = {}] ELSE rows
    /\ Finish(s)
    /\ UNCHANGED <<iriOf, lockedBy, part, trig, seq, gate, used>>

\* put_quad: no gate; the row trigger fires on a locked partition.
PutStart(s, g, x) ==
    /\ Unlocked(g)
    /\ Start(s, [Idle EXCEPT !.op = "put", !.g = g, !.q = {x}])
    /\ UNCHANGED <<graphVars, gate>>
\* (Mutant: the trigger misses INSERT.)
PutQuadUnguarded(s) ==
    /\ Running(s, "put")
    /\ ParentFree
    /\ rows' = [rows EXCEPT ![call[s].g] = @ \cup call[s].q]
    /\ Finish(s)
    /\ UNCHANGED <<iriOf, lockedBy, part, trig, seq, gate, used>>
PutQuad(s) ==
    /\ Running(s, "put")
    /\ call[s].g \notin trig
    /\ ParentFree
    /\ rows' = [rows EXCEPT ![call[s].g] = @ \cup call[s].q]
    /\ Finish(s)
    /\ UNCHANGED <<iriOf, lockedBy, part, trig, seq, gate, used>>

-----------------------------------------------------------------------------
\* Copying and moving.

\* The destination's partition and binding, made by add_graph if missing.
EnsureGraph(d) ==
    /\ d \in part \/ (CanPartition(d) /\ CanBindSynthetic(d))
    /\ part' = part \cup {d}
    /\ seq' = IF d \in part THEN seq ELSE Advanced(seq, d)
    /\ used' = used \cup {d}

CopyStart(s, g, d, op) ==
    /\ Unlocked(d)
    /\ g # d
    /\ Start(s, [Idle EXCEPT !.op = op, !.g = g, !.d = d])
    /\ UNCHANGED <<graphVars, gate>>

\* copy_graph copies every row; carve_graph a part of them: the rows with a
\* predicate (it ends here if there are none), or those within some hops of the
\* seeds (perhaps none: the destination is made all the same).
CopyInto(s, Q) ==
    /\ GateFree
    /\ call[s].g \in part
    /\ LET d == call[s].d IN
       /\ EnsureGraph(d)
       /\ Q # {} => d \notin trig
       /\ iriOf' = IF d \in part THEN iriOf ELSE WithSynthetic(d)
       /\ rows' = [rows EXCEPT ![d] = @ \cup Q]
    /\ Finish(s)
    /\ UNCHANGED <<lockedBy, trig, gate>>
CopyGraph(s) == Running(s, "copy") /\ CopyInto(s, rows[call[s].g])
CarveGraph(s, Q) == Running(s, "carve") /\ Q \subseteq rows[call[s].g]
                       /\ CopyInto(s, Q)

\* move_graph: fences both graphs, takes the gate and copies, ...
MoveStart(s, g, d) == g # 0 /\ Unlocked(g) /\ CopyStart(s, g, d, "move")
MoveCopy(s) ==
    /\ Running(s, "move")
    /\ GateFree
    /\ LET g == call[s].g
           d == call[s].d IN
       /\ g \in part
       /\ rows[d] = {} /\ Unlocked(d)        \* copy_graph's own fence
       /\ d \in part \/ CanBindSynthetic(d)
       /\ rows[g] # {} => d \notin trig
       /\ call' = [call EXCEPT ![s].op = "moved", ![s].q = rows[g], ![s].made = d \notin part]
    /\ gate' = s
    /\ UNCHANGED graphVars

\* ... then calls drop_graph on the source, which fences it again, and commits.
MoveDrop(s) ==
    /\ Running(s, "moved")
    /\ LET g == call[s].g
           d == call[s].d IN
       /\ Unlocked(g)
       /\ iriOf' = [(IF d \in part THEN iriOf ELSE WithSynthetic(d)) EXCEPT ![g] = NoIri]
       /\ part' = (part \cup {d}) \ {g}
       /\ trig' = trig \ {g}
       /\ seq' = IF d \in part THEN seq ELSE Advanced(seq, d)
       /\ used' = used \cup {d}
       /\ rows' = [rows EXCEPT ![d] = @ \cup call[s].q, ![g] = {}]
    /\ gate' = NoSession
    /\ Finish(s)
    /\ UNCHANGED lockedBy

-----------------------------------------------------------------------------
\* Locks.

\* lock_graph: the row exists and is not locked, ...
LockStart(s, g) ==
    /\ Bound(g) /\ Unlocked(g)
    /\ Start(s, [Idle EXCEPT !.op = "lock", !.g = g])
    /\ UNCHANGED <<graphVars, gate>>

\* ... then UPDATE (of the row, if it is still there) and, on a partition,
\* CREATE TRIGGER, which fails if the triggers are there already.
\* (Mutant: CREATE OR REPLACE TRIGGER.)
LockGraphReplaces(s) ==
    /\ Running(s, "lock")
    /\ LET g == call[s].g IN
       /\ g \in part => UnwrittenByMover(g)
       /\ lockedBy' = IF Bound(g) THEN [lockedBy EXCEPT ![g] = s] ELSE lockedBy
       /\ trig' = IF g \in part THEN trig \cup {g} ELSE trig
    /\ Finish(s)
    /\ UNCHANGED <<iriOf, part, rows, seq, gate, used>>
LockGraph(s) ==
    /\ Running(s, "lock")
    /\ LET g == call[s].g IN
       /\ g \in part => g \notin trig /\ UnwrittenByMover(g)
       /\ lockedBy' = IF Bound(g) THEN [lockedBy EXCEPT ![g] = s] ELSE lockedBy
       /\ trig' = IF g \in part THEN trig \cup {g} ELSE trig
    /\ Finish(s)
    /\ UNCHANGED <<iriOf, part, rows, seq, gate, used>>

UnlockStart(s, g) ==
    /\ Locked(g)
    /\ Start(s, [Idle EXCEPT !.op = "unlock", !.g = g])
    /\ UNCHANGED <<graphVars, gate>>
\* (Mutant: the triggers stay.)
UnlockKeepsTriggers(s) ==
    /\ Running(s, "unlock")
    /\ lockedBy' = [lockedBy EXCEPT ![call[s].g] = NoSession]
    /\ Finish(s)
    /\ UNCHANGED <<iriOf, part, trig, rows, seq, gate, used>>
UnlockGraph(s) ==
    /\ Running(s, "unlock")
    /\ LET g == call[s].g IN
       /\ g \in part => UnreadByMover(g) /\ UnwrittenByMover(g)
       /\ lockedBy' = [lockedBy EXCEPT ![g] = NoSession]
       /\ trig' = trig \ {g}
    /\ Finish(s)
    /\ UNCHANGED <<iriOf, part, rows, seq, gate, used>>

-----------------------------------------------------------------------------
\* The staged loader: fenced before its first phase, ...
StagedStart(s, g) ==
    /\ Unlocked(g)
    /\ Start(s, [Idle EXCEPT !.op = "staged", !.g = g])
    /\ UNCHANGED <<graphVars, gate>>

\* ... RESOLVE drops the partition of that name, builds a table from the file
\* and attaches it (which fails while the default partition holds its rows).
\* It binds no IRI and leaves the sequence alone.
StagedResolve(s, Q) ==
    /\ Running(s, "staged")
    /\ GateFree
    /\ LET g == call[s].g IN
       /\ CanPartition(g)
       /\ part' = part \cup {g}
       /\ trig' = trig \ {g}
       /\ rows' = [rows EXCEPT ![g] = Q]
       /\ used' = used \cup {g}
    /\ Finish(s)
    /\ UNCHANGED <<iriOf, lockedBy, seq, gate>>

\* A call is refused, finds nothing to do, fails or is cancelled: rolled back.
\* (A move that had to make its destination leaves the sequence moved.)
EndCall(s) ==
    /\ call[s] # Idle
    /\ Finish(s)
    /\ gate' = IF gate = s THEN NoSession ELSE gate
    /\ seq' = IF call[s].made THEN Advanced(seq, call[s].d) ELSE seq
    /\ UNCHANGED <<iriOf, lockedBy, part, trig, rows, used>>

Create ==
    \E g \in GraphId : \/ AddGraph(g) \/ AbortedCreate(g)
                       \/ \E i \in Iri : AllocateGraph(i, g) \/ UpgradeIri(g, i) \/ BindGraph(g, i)
Write(s) ==
    \/ DropGraph(s) \/ ClearGraph(s) \/ PutQuad(s)
    \/ \E g \in GraphId : \/ DropStart(s, g) \/ ClearStart(s, g)
                          \/ \E x \in Quad : PutStart(s, g, x)
CopyOrMove(s) ==
    \/ CopyGraph(s) \/ MoveCopy(s) \/ MoveDrop(s)
    \/ \E Q \in SUBSET Quad : CarveGraph(s, Q)
    \/ \E g, d \in GraphId : \/ MoveStart(s, g, d)
                             \/ \E op \in {"copy", "carve"} : CopyStart(s, g, d, op)
Custody(s) ==
    \/ LockGraph(s) \/ UnlockGraph(s)
    \/ \E g \in GraphId : LockStart(s, g) \/ UnlockStart(s, g)
StagedLoad(s) ==
    \/ \E g \in GraphId : StagedStart(s, g)
    \/ \E Q \in SUBSET Quad : StagedResolve(s, Q)

Next ==
    \/ Create
    \/ \E s \in Session : \/ Write(s) \/ CopyOrMove(s) \/ Custody(s)
                          \/ StagedLoad(s) \/ EndCall(s)

Spec == Init /\ [][Next]_vars

-----------------------------------------------------------------------------
\* What the graph life cycle promises.

\* Every variable keeps its type; the gate is held exactly by a mover between
\* its copy and its drop.
TypeOK ==
    /\ iriOf \in [GraphId -> Iri \cup {NoIri}]
    /\ lockedBy \in [GraphId -> Session \cup {NoSession}]
    /\ part \subseteq GraphId /\ trig \subseteq part /\ used \subseteq GraphId
    /\ rows \in [GraphId -> SUBSET Quad]
    /\ seq \in [last : GraphId, called : BOOLEAN]
    /\ gate \in Session \cup {NoSession}
    /\ call \in [Session -> Call]
    /\ \A s \in Session : (gate = s) = Running(s, "moved")

\* The registry and the partitions agree: a graph other than the default has a
\* _pgrdf_graphs row exactly when it has a partition, whatever creates, drops
\* and moves interleave (drop_graph's "the IRI mapping converges with reality").
CatalogAgrees == \A g \in GraphId \ {0} : g \in part <=> Bound(g)

\* What graph_integrity reports as lock_custody.consistent: a partition carries
\* the refuse-triggers exactly when its graph is locked, although the flag and
\* the triggers belong to different tables and lock_graph reads before it waits.
CustodyOf(g) == g \in part => (g \in trig <=> Locked(g))
LockCustody == \A g \in GraphId \ {0} : CustodyOf(g)

\* A call that read the fence before the lock came cannot write after it: while
\* the triggers stay on a partition its quads do not change.  (Dropping or
\* replacing the table takes the triggers with it.)
TriggersHoldTheFence ==
    [][\A g \in trig : g \in trig' => rows'[g] = rows[g]]_vars

\* lock_graph: "Lock a graph against every engine write path": no step changes
\* the quads of a locked graph that has a partition (the default set aside).
LockedGraphsKeepRows ==
    [][\A g \in part \ {0} : Locked(g) => rows'[g] = rows[g]]_vars

\* "a silent re-lock would swallow the standing reason": the lock of a named
\* graph changes hands only through an unlock or a drop, although two callers may
\* both have read the graph unlocked (CREATE TRIGGER fails for the second).
ReasonKept ==
    [][\A g \in GraphId \ {0} :
          Locked(g) => lockedBy'[g] \in {lockedBy[g], NoSession}]_vars

\* add_graph(iri): "Ids are never reused: a dropped graph's id is never handed
\* out again", nor is one a caller chose or a load created.
IdsNeverReused ==
    [][\A i \in Name, n \in GraphId : AllocateGraph(i, n) => n \notin used]_vars

\* move_graph: "Migrate every quad from graph src to graph dst": what the source
\* holds when it is dropped is in the destination.
MoveLosesNothing ==
    [][\A s \in Session :
          MoveDrop(s) => rows[call[s].g] \subseteq rows'[call[s].d]]_vars
=============================================================================
