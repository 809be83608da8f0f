----------------------------- MODULE LockOrder -----------------------------
(***************************************************************************)
(* The locks the graph calls take, in program order                        *)
(* (src/storage/partition.rs, hexastore.rs, graphs.rs, lock.rs, loader.rs, *)
(* source_digest.rs).                                                      *)
(*                                                                         *)
(* Every call is one transaction: PostgreSQL keeps each lock it takes until *)
(* it commits or aborts.  The calls agree on an order, "advisory gate,     *)
(* _pgrdf_graphs, partition catalog" (partition.rs), and this module asks  *)
(* which calls are safe to run side by side.                               *)
(*                                                                         *)
(* A graph is a registry row and a partition, which come and go together   *)
(* (GraphCatalog shows that they do), and an IRI is the graph it names.    *)
(* Locks nobody ever waits for are left out: ACCESS SHARE on the registry, *)
(* the default partition's (always taken under the parent's), those of the *)
(* dictionary.  A request conflicts with locks held, not with requests     *)
(* queued before it: PostgreSQL's detector reorders a queue when that      *)
(* alone would close a cycle.                                              *)
(***************************************************************************)
EXTENDS Naturals, Sequences, FiniteSets

CONSTANTS Session,
          Graph,   \* named graphs
          Calls,   \* the calls an instance makes
          Apart    \* is destroying a graph kept apart from its custody and loads?

ASSUME LockAssumption == Graph \subseteq Nat \ {0} /\ Apart \in BOOLEAN

VARIABLES
    call,   \* the call each session runs
    phase,  \* how many of its existence checks are answered
    todo,   \* the locks it asks for until the next one, in order
    held,   \* the locks its transaction holds
    seen,   \* what the last check found of the graphs it names
    part    \* the graphs that exist, as committed

vars == <<call, phase, todo, held, seen, part>>

Op == {"put", "load", "dataset", "add", "bind", "rebind", "drop", "clear", "copy",
       "move", "lock", "unlock"}
Idle  == [op |-> "idle", g |-> 0, d |-> 0]
Named(c) == {c.g, c.d}
Finished == 3

-----------------------------------------------------------------------------
\* PostgreSQL's lock modes, as far as they occur, and their conflicts:
\* ACCESS SHARE, ROW EXCLUSIVE, SHARE ROW EXCLUSIVE, ACCESS EXCLUSIVE.
Mode == {"AS", "RX", "SRX", "AX"}
Clash == {{"AX"}, {"AX", "AS"}, {"AX", "RX"}, {"AX", "SRX"}, {"SRX"}, {"SRX", "RX"}}

\* What can be locked, of which graph (0: of none), and how.
Lock == {"gate", "graphs", "row", "quads", "part"} \X (Graph \cup {0}) \X Mode

Gate         == <<"gate", 0, "AX">>     \* pg_advisory_xact_lock
Registry(m)  == <<"graphs", 0, m>>      \* the table _pgrdf_graphs
RowOf(g)     == <<"row", g, "AX">>      \* its row of graph g
Parent(m)    == <<"quads", 0, m>>       \* _pgrdf_quads
PartOf(g, m) == <<"part", g, m>>        \* _pgrdf_quads_g<g>

Conflict(x, y) == x[1] = y[1] /\ x[2] = y[2] /\ {x[3], y[3]} \in Clash

-----------------------------------------------------------------------------
\* What the calls ask for.

\* INSERT into _pgrdf_graphs, or UPDATE or DELETE of a row.
WriteRow(g) == <<Registry("RX"), RowOf(g)>>

\* CREATE TABLE ... PARTITION OF
CreatePartition(g) == <<Parent("AX"), PartOf(g, "AX")>>

\* add_graph(g): the partition, then the row; with an IRI: the other way round.
AddBody(g, P)  == IF g \in P THEN <<>> ELSE CreatePartition(g) \o WriteRow(g)
BindBody(g, P) == IF g \in P THEN <<>> ELSE WriteRow(g) \o CreatePartition(g)

\* add_graph(g, iri) of a graph that exists: the row's IRI is upgraded.
RebindBody(g, P) == IF g \in P THEN WriteRow(g) ELSE BindBody(g, P)

\* drop_graph: the count, DETACH and DROP, DELETE of the row.
DropBody(g, P) ==
    IF g \in P
    THEN <<Parent("AS"), PartOf(g, "AS"), Parent("AX"), PartOf(g, "AX")>> \o WriteRow(g)
    ELSE WriteRow(g)

\* copy_graph.  (A copy of nothing stops one lock earlier.)
CopyBody(g, d, P) ==
    IF g \in P THEN AddBody(d, P) \o <<PartOf(g, "AS"), PartOf(d, "RX")>> ELSE <<>>

MoveBody(g, d, P) == IF g \in P THEN CopyBody(g, d, P) \o DropBody(g, P) ELSE <<>>

\* clear_graph: no gate; the count, then TRUNCATE.
ClearBody(g, P) ==
    IF g \in P THEN <<Parent("AS"), PartOf(g, "AS"), PartOf(g, "AX")>> ELSE <<>>

\* lock_graph and unlock_graph: no gate; UPDATE of the row, then the triggers.
LockBody(g, P)   == IF g \in P THEN WriteRow(g) \o <<PartOf(g, "SRX")>> ELSE <<>>
UnlockBody(g, P) == IF g \in P THEN WriteRow(g) \o <<PartOf(g, "AX")>> ELSE <<>>

\* INSERT through the parent: the partition is locked once a row is routed.
RouteTo(g, P) == IF g \in P THEN <<PartOf(g, "RX")>> ELSE <<>>

\* load_turtle: begin_source_record first, then the quads.
LoadBody(g, P) == (IF g \in P THEN WriteRow(g) ELSE <<Registry("RX")>>)
                     \o <<Parent("RX")>> \o RouteTo(g, P)

\* add_graph(iri): nothing for an IRI it can read, else the gate and the table.
Resolve(g, P) == IF g \in P THEN <<>> ELSE <<Gate, Registry("SRX")>>

-----------------------------------------------------------------------------
\* The locks before a call's first existence check (dataset: parse_trig and
\* parse_nquads, once a batch of default-graph quads is full), ...

\* (Mutants: the gate forgotten, and taken after the registry.)
FirstUngated(c) ==
    CASE c.op \in {"put", "dataset"} -> <<Parent("RX")>>
      [] c.op = "rebind" -> <<Registry("SRX")>>
      [] OTHER -> <<>>
FirstRegistry(c) ==
    CASE c.op \in {"put", "dataset"} -> <<Parent("RX")>>
      [] c.op \in {"add", "drop", "copy", "move"} -> <<Gate>>
      [] c.op = "rebind" -> <<Registry("SRX"), Gate>>
      [] OTHER -> <<>>

First(c) ==
    CASE c.op \in {"put", "dataset"} -> <<Parent("RX")>>
      [] c.op \in {"add", "drop", "copy", "move"} -> <<Gate>>
      [] c.op = "rebind" -> <<Gate, Registry("SRX")>>
      [] OTHER -> <<>>

\* ... after it, with what it found, ...
Second(c, P) ==
    CASE c.op = "put"     -> RouteTo(c.g, P)
      [] c.op = "load"    -> LoadBody(c.g, P)
      [] c.op = "dataset" -> Resolve(c.g, P) \o RouteTo(c.g, P)
      [] c.op = "add"     -> AddBody(c.g, P)
      [] c.op = "bind"    -> Resolve(c.g, P)
      [] c.op = "rebind"  -> RebindBody(c.g, P)
      [] c.op = "drop"    -> DropBody(c.g, P)
      [] c.op = "clear"   -> ClearBody(c.g, P)
      [] c.op = "copy"    -> CopyBody(c.g, c.d, P)
      [] c.op = "move"    -> MoveBody(c.g, c.d, P)
      [] c.op = "lock"    -> LockBody(c.g, P)
      [] c.op = "unlock"  -> UnlockBody(c.g, P)

\* ... and after the check add_graph(iri) makes again under the gate.
Third(c, P, gated) ==
    CASE c.op = "bind" /\ gated -> BindBody(c.g, P)
      [] c.op = "dataset" /\ gated -> BindBody(c.g, P) \o RouteTo(c.g, P \cup {c.g})
      [] OTHER -> <<>>

\* What a call that found P creates and destroys.
Made(c, P) ==
    CASE c.op \in {"add", "bind", "rebind", "dataset"} -> {c.g} \ P
      [] c.op \in {"copy", "move"} /\ c.g \in P -> {c.d} \ P
      [] OTHER -> {}
Removed(c, P) == IF c.op \in {"drop", "move"} /\ c.g \in P THEN {c.g} ELSE {}

-----------------------------------------------------------------------------
Init ==
    /\ call = [s \in Session |-> Idle]
    /\ phase = [s \in Session |-> 0]
    /\ todo = [s \in Session |-> <<>>]
    /\ held = [s \in Session |-> {}]
    /\ seen = [s \in Session |-> {}]
    /\ part \in SUBSET Graph

Running(s) == call[s] # Idle

\* The operating rule Apart states: no lock, unlock, load or clear names a
\* graph while a drop, a move or a clear of it (or a move into it) runs.
Quarrel(b, c) ==
    /\ b.op \in {"drop", "move", "clear"}
    /\ c.op \in {"lock", "unlock", "load", "clear"}
    /\ c.g \in Named(b)
Admitted(c) == Apart =>
    \A t \in Session : ~Quarrel(c, call[t]) /\ ~Quarrel(call[t], c)

Begin(s, c) ==
    /\ ~Running(s)
    /\ c.op \in Calls
    /\ c.op \in {"copy", "move"} => c.g # c.d
    /\ Admitted(c)
    /\ call' = [call EXCEPT ![s] = c]
    /\ todo' = [todo EXCEPT ![s] = First(c)]
    /\ UNCHANGED <<phase, held, seen, part>>

\* s waits for a lock that t holds.
Waits(s, t) == todo[s] # <<>> /\ \E x \in held[t] : Conflict(Head(todo[s]), x)

Acquire(s) ==
    /\ todo[s] # <<>>
    /\ \A t \in Session \ {s} : ~Waits(s, t)
    /\ held' = [held EXCEPT ![s] = @ \cup {Head(todo[s])}]
    /\ todo' = [todo EXCEPT ![s] = Tail(@)]
    /\ UNCHANGED <<call, phase, seen, part>>

\* An existence check (or, where the call makes none, going on).
Check(s) ==
    /\ Running(s)
    /\ todo[s] = <<>> /\ phase[s] < Finished - 1
    /\ phase' = [phase EXCEPT ![s] = @ + 1]
    /\ seen' = [seen EXCEPT ![s] = IF phase[s] = 0 \/ Gate \in held[s]
                                   THEN part \cap Named(call[s]) ELSE @]
    /\ todo' = [todo EXCEPT ![s] =
                   IF phase[s] = 0 THEN Second(call[s], part)
                   ELSE Third(call[s], part, Gate \in held[s])]
    /\ UNCHANGED <<call, held, part>>

EndTxn(s) ==
    /\ call' = [call EXCEPT ![s] = Idle]
    /\ phase' = [phase EXCEPT ![s] = 0]
    /\ todo' = [todo EXCEPT ![s] = <<>>]
    /\ held' = [held EXCEPT ![s] = {}]
    /\ seen' = [seen EXCEPT ![s] = {}]

Commit(s) ==
    /\ Running(s)
    /\ todo[s] = <<>> /\ phase[s] = Finished - 1
    /\ part' = (part \cup Made(call[s], seen[s])) \ Removed(call[s], seen[s])
    /\ EndTxn(s)

\* An error, a cancelled statement, or PostgreSQL's deadlock detector.
Abort(s) == Running(s) /\ EndTxn(s) /\ UNCHANGED part

Next == \E s \in Session :
    \/ Acquire(s) \/ Check(s) \/ Commit(s) \/ Abort(s)
    \/ \E op \in Op, g, d \in Graph :
          /\ op \notin {"copy", "move"} => d = g
          /\ Begin(s, [op |-> op, g |-> g, d |-> d])

Spec == Init /\ [][Next]_vars

\* A call runs on by itself.  A waiting request is served before conflicting
\* requests that come later (PostgreSQL's lock queues), so one that could be
\* granted again and again is granted.  Nothing makes a call begin or abort.
Fairness == \A s \in Session : SF_vars(Acquire(s)) /\ WF_vars(Check(s)) /\ WF_vars(Commit(s))
FairSpec == Spec /\ Fairness

-----------------------------------------------------------------------------
\* Every variable keeps its type, and only a running call holds locks.
TypeOK ==
    /\ call \in [Session -> [op : Op, g : Graph, d : Graph] \cup {Idle}]
    /\ phase \in [Session -> 0 .. Finished - 1]
    /\ todo \in [Session -> Seq(Lock)]
    /\ held \in [Session -> SUBSET Lock]
    /\ seen \in [Session -> SUBSET Graph]
    /\ part \subseteq Graph
    /\ \A s \in Session : Running(s) \/ (phase[s] = 0 /\ held[s] = {} /\ todo[s] = <<>>)

\* "one order, so all paths agree" (partition.rs): no set of sessions waits for
\* each other, whatever calls they run and wherever each of them is.
NoDeadlock == \A D \in (SUBSET Session) \ {{}} :
    \E s \in D : \A t \in D \ {s} : ~Waits(s, t)

\* "The lock makes the check + create atomic": what a call found under the gate
\* still holds when it acts and commits, and so does what put_quad's routing
\* found behind its lock on the parent.
Settled(s) ==
    \/ call[s].op \in {"put", "add", "rebind", "drop", "copy", "move"} /\ phase[s] > 0
    \/ call[s].op = "bind" /\ phase[s] = Finished - 1 /\ Gate \in held[s]
AnswerStands == \A s \in Session : Settled(s) => seen[s] = part \cap Named(call[s])

\* Every call that is not cancelled comes back: the gate is a queue, not a trap.
CallsReturn == \A s \in Session : Running(s) ~> ~Running(s)
=============================================================================
