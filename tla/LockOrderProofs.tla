-------------------------- MODULE LockOrderProofs --------------------------
(***************************************************************************)
(* Proofs about LockOrder, for every number of sessions and graphs.        *)
(*                                                                         *)
(* What a transaction holds and what it still asks for are, at every       *)
(* moment, the two parts of a plan that its call and its answers fix       *)
(* (OnPlan).  From the plans and the lock table follow that what was found *)
(* under the gate stands and, with destruction kept apart, that no sessions*)
(* wait for each other.                                                    *)
(***************************************************************************)
EXTENDS LockOrder, SequenceTheorems, TLAPS

\* The locks of a sequence.
Asked(q) == {q[i] : i \in 1 .. Len(q)}

\* A call with its arguments.
Request == [op : Op, g : Graph, d : Graph]

\* Everything a call asks for, up to and including its present phase.
Plan(c, ph, S, gated) ==
    IF ph = 0 THEN First(c)
    ELSE IF ph = 2 /\ gated /\ c.op \in {"bind", "dataset"}
         THEN (First(c) \o Second(c, {})) \o Third(c, S, TRUE)
         ELSE First(c) \o Second(c, S)

PlanOf(s) == Plan(call[s], phase[s], seen[s], Gate \in held[s])

\* The first n locks of plan p are held, the others still asked for.
Split(p, n, H, T) ==
    /\ p \in Seq(Lock) /\ T \in Seq(Lock)
    /\ n \in 0 .. Len(p)
    /\ H = {p[i] : i \in 1 .. n}
    /\ Len(T) = Len(p) - n
    /\ \A i \in 1 .. Len(T) : T[i] = p[n + i]

OnPlan(s) == Running(s) =>
    \E n \in Nat : /\ Split(PlanOf(s), n, held[s], todo[s])
                   /\ phase[s] > 0 => n >= Len(First(call[s]))

-----------------------------------------------------------------------------
\* Type correctness.


LEMMA Locks ==
    /\ Gate \in Lock
    /\ \A m \in Mode : Registry(m) \in Lock /\ Parent(m) \in Lock
    /\ \A g \in Graph : RowOf(g) \in Lock
    /\ \A g \in Graph, m \in Mode : PartOf(g, m) \in Lock
    /\ Mode = {"AS", "RX", "SRX", "AX"}
BY DEF Lock, Gate, Registry, Parent, RowOf, PartOf, Mode

LEMMA BodiesTyped ==
    ASSUME NEW g \in Graph, NEW P
    PROVE  /\ WriteRow(g) \in Seq(Lock) /\ CreatePartition(g) \in Seq(Lock)
           /\ AddBody(g, P) \in Seq(Lock) /\ BindBody(g, P) \in Seq(Lock)
           /\ RebindBody(g, P) \in Seq(Lock) /\ DropBody(g, P) \in Seq(Lock)
           /\ ClearBody(g, P) \in Seq(Lock) /\ LockBody(g, P) \in Seq(Lock)
           /\ UnlockBody(g, P) \in Seq(Lock) /\ RouteTo(g, P) \in Seq(Lock)
           /\ LoadBody(g, P) \in Seq(Lock) /\ Resolve(g, P) \in Seq(Lock)
<1>1. <<>> \in Seq(Lock)
  OBVIOUS
<1>2. WriteRow(g) \in Seq(Lock) /\ CreatePartition(g) \in Seq(Lock)
  BY Locks DEF WriteRow, CreatePartition
<1>3. AddBody(g, P) \in Seq(Lock) /\ BindBody(g, P) \in Seq(Lock)
  BY <1>1, <1>2 DEF AddBody, BindBody
<1>4. RebindBody(g, P) \in Seq(Lock)
  BY <1>2, <1>3 DEF RebindBody
<1>5. DropBody(g, P) \in Seq(Lock)
  <2>1. <<Parent("AS"), PartOf(g, "AS"), Parent("AX"), PartOf(g, "AX")>> \in Seq(Lock)
    BY Locks
  <2> QED
    BY <1>2, <2>1 DEF DropBody
<1>6. ClearBody(g, P) \in Seq(Lock)
  BY <1>1, Locks DEF ClearBody
<1>7. LockBody(g, P) \in Seq(Lock) /\ UnlockBody(g, P) \in Seq(Lock)
  <2>1. <<PartOf(g, "SRX")>> \in Seq(Lock) /\ <<PartOf(g, "AX")>> \in Seq(Lock)
    BY Locks
  <2> QED
    BY <1>1, <1>2, <2>1 DEF LockBody, UnlockBody
<1>8. RouteTo(g, P) \in Seq(Lock)
  BY <1>1, Locks DEF RouteTo
<1>9. LoadBody(g, P) \in Seq(Lock)
  <2>1. <<Registry("RX")>> \in Seq(Lock) /\ <<Parent("RX")>> \in Seq(Lock)
    BY Locks
  <2> QED
    BY <1>2, <1>8, <2>1 DEF LoadBody
<1>10. Resolve(g, P) \in Seq(Lock)
  BY <1>1, Locks DEF Resolve
<1> QED
  BY <1>2, <1>3, <1>4, <1>5, <1>6, <1>7, <1>8, <1>9, <1>10

LEMMA CopiesTyped ==
    ASSUME NEW g \in Graph, NEW d \in Graph, NEW P
    PROVE  CopyBody(g, d, P) \in Seq(Lock) /\ MoveBody(g, d, P) \in Seq(Lock)
<1>1. <<>> \in Seq(Lock) /\ <<PartOf(g, "AS"), PartOf(d, "RX")>> \in Seq(Lock)
  BY Locks
<1>2. CopyBody(g, d, P) \in Seq(Lock)
  BY <1>1, BodiesTyped DEF CopyBody
<1> QED
  BY <1>1, <1>2, BodiesTyped DEF MoveBody

LEMMA StagesTyped ==
    ASSUME NEW c \in Request, NEW P, NEW gated
    PROVE  /\ First(c) \in Seq(Lock) /\ Second(c, P) \in Seq(Lock)
           /\ Third(c, P, gated) \in Seq(Lock)
<1>1. c.op \in Op /\ c.g \in Graph /\ c.d \in Graph /\ <<>> \in Seq(Lock)
  BY DEF Request
<1>2. First(c) \in Seq(Lock)
  BY Locks, <1>1 DEF First
<1>3. Second(c, P) \in Seq(Lock)
  <2>1. Resolve(c.g, P) \o RouteTo(c.g, P) \in Seq(Lock)
    BY <1>1, BodiesTyped
  <2> QED
    BY <1>1, <2>1, BodiesTyped, CopiesTyped DEF Second, Op
<1>4. Third(c, P, gated) \in Seq(Lock)
  <2>1. BindBody(c.g, P) \o RouteTo(c.g, P \cup {c.g}) \in Seq(Lock)
    BY <1>1, BodiesTyped
  <2> QED
    BY <1>1, <2>1, BodiesTyped DEF Third
<1> QED
  BY <1>2, <1>3, <1>4

LEMMA TypeInit == ASSUME Init PROVE TypeOK
BY DEF Init, TypeOK, Running, Idle, Finished

LEMMA RunningTyped == ASSUME TypeOK, NEW s \in Session, Running(s) PROVE call[s] \in Request
BY DEF TypeOK, Running, Request

LEMMA EndTyped ==
    ASSUME TypeOK, NEW s \in Session, EndTxn(s), part' \subseteq Graph
    PROVE  TypeOK'
BY DEF EndTxn, TypeOK, Finished, Running

LEMMA TypeStep == ASSUME TypeOK, Next PROVE TypeOK'
<1>1. ASSUME NEW s \in Session, Acquire(s) PROVE TypeOK'
  <2>1. Head(todo[s]) \in Lock /\ Tail(todo[s]) \in Seq(Lock) /\ Running(s)
    BY <1>1 DEF Acquire, TypeOK
  <2> QED
    BY <1>1, <2>1 DEF Acquire, TypeOK, Running
<1>2. ASSUME NEW s \in Session, Check(s) PROVE TypeOK'
  <2>1. todo'[s] \in Seq(Lock) /\ todo' = [todo EXCEPT ![s] = todo'[s]]
    BY <1>2, RunningTyped, StagesTyped DEF Check, TypeOK
  <2>2. seen'[s] \subseteq Graph /\ seen' = [seen EXCEPT ![s] = seen'[s]]
    BY <1>2 DEF Check, TypeOK
  <2>3. phase' \in [Session -> 0 .. Finished - 1] /\ \A t \in Session \ {s} : phase'[t] = phase[t]
    <3>1. phase[s] \in 0 .. 1 /\ phase' = [phase EXCEPT ![s] = phase[s] + 1]
      BY <1>2 DEF Check, TypeOK, Finished
    <3> QED
      BY <3>1 DEF TypeOK, Finished
  <2>4. Running(s) /\ UNCHANGED <<call, held, part>>
    BY <1>2 DEF Check
  <2> QED
    BY <2>1, <2>2, <2>3, <2>4 DEF TypeOK, Running
<1>3. ASSUME NEW s \in Session, Commit(s) PROVE TypeOK'
  <2>1. call[s] \in Request
    BY <1>3, RunningTyped DEF Commit
  <2>2. part' \subseteq Graph
    BY <1>3, <2>1 DEF Commit, TypeOK, Made, Removed, Request
  <2> QED
    BY <1>3, <2>2, EndTyped DEF Commit
<1>4. ASSUME NEW s \in Session, Abort(s) PROVE TypeOK'
  BY <1>4, EndTyped DEF Abort, TypeOK
<1>5. ASSUME NEW s \in Session, NEW op \in Op, NEW g \in Graph, NEW d \in Graph,
             Begin(s, [op |-> op, g |-> g, d |-> d])
      PROVE  TypeOK'
  <2>1. [op |-> op, g |-> g, d |-> d] \in Request
    BY DEF Request
  <2>2. First([op |-> op, g |-> g, d |-> d]) \in Seq(Lock)
    BY <2>1, StagesTyped
  <2>3. [op |-> op, g |-> g, d |-> d] # Idle
    BY DEF Idle, Op
  <2> QED
    BY <1>5, <2>1, <2>2, <2>3 DEF Begin, TypeOK, Running, Request
<1> QED
  BY <1>1, <1>2, <1>3, <1>4, <1>5 DEF Next

\* Every variable keeps its type, and only a running call holds locks.
THEOREM TypeCorrect == Spec => []TypeOK
<1>1. TypeOK /\ UNCHANGED vars => TypeOK'
  BY DEF TypeOK, vars, Running
<1> QED
  BY TypeInit, TypeStep, <1>1, PTL DEF Spec

-----------------------------------------------------------------------------
\* A call keeps to its plan.

LEMMA AskedCat ==
    ASSUME NEW p \in Seq(Lock), NEW q \in Seq(Lock)
    PROVE  p \o q \in Seq(Lock) /\ Asked(p \o q) = Asked(p) \cup Asked(q)
<1>1. p \o q \in Seq(Lock) /\ Len(p \o q) = Len(p) + Len(q)
  OBVIOUS
<1>2. /\ \A i \in 1 .. Len(p) : i \in 1 .. Len(p \o q) /\ (p \o q)[i] = p[i]
      /\ \A i \in 1 .. Len(q) : i + Len(p) \in 1 .. Len(p \o q) /\ (p \o q)[i + Len(p)] = q[i]
  OBVIOUS
<1>3. \A i \in 1 .. Len(p \o q) : i \in 1 .. Len(p) \/ i - Len(p) \in 1 .. Len(q)
  BY <1>1
<1>4. ASSUME NEW x \in Asked(p \o q) PROVE x \in Asked(p) \cup Asked(q)
  <2>1. PICK i \in 1 .. Len(p \o q) : x = (p \o q)[i]
    BY DEF Asked
  <2>2. CASE i \in 1 .. Len(p)
    BY <1>2, <2>1, <2>2 DEF Asked
  <2>3. CASE i - Len(p) \in 1 .. Len(q)
    <3>1. (p \o q)[(i - Len(p)) + Len(p)] = q[i - Len(p)] /\ (i - Len(p)) + Len(p) = i
      BY <1>2, <2>3
    <3> QED
      BY <2>1, <2>3, <3>1 DEF Asked
  <2> QED
    BY <1>3, <2>2, <2>3
<1>5. Asked(p) \subseteq Asked(p \o q) /\ Asked(q) \subseteq Asked(p \o q)
  BY <1>2 DEF Asked
<1> QED
  BY <1>1, <1>4, <1>5

LEMMA AskedTuples ==
    /\ Asked(<<>>) = {}
    /\ \A x : Asked(<<x>>) = {x}
    /\ \A x, y : Asked(<<x, y>>) = {x, y}
    /\ \A x, y, z : Asked(<<x, y, z>>) = {x, y, z}
    /\ \A x, y, z, w : Asked(<<x, y, z, w>>) = {x, y, z, w}
<1>1. Asked(<<>>) = {}
  BY DEF Asked
<1>2. ASSUME NEW x PROVE Asked(<<x>>) = {x}
  BY DEF Asked
<1>3. ASSUME NEW x, NEW y PROVE Asked(<<x, y>>) = {x, y}
  BY DEF Asked
<1>4. ASSUME NEW x, NEW y, NEW z PROVE Asked(<<x, y, z>>) = {x, y, z}
  BY DEF Asked
<1>5. ASSUME NEW x, NEW y, NEW z, NEW w PROVE Asked(<<x, y, z, w>>) = {x, y, z, w}
  BY DEF Asked
<1> QED
  BY <1>1, <1>2, <1>3, <1>4, <1>5

LEMMA SplitStep ==
    ASSUME NEW p, NEW n, NEW H, NEW T, Split(p, n, H, T), T # <<>>
    PROVE  /\ n + 1 <= Len(p) /\ Head(T) = p[n + 1]
           /\ Split(p, n + 1, H \cup {Head(T)}, Tail(T))
<1>1. /\ n + 1 \in 0 .. Len(p) /\ Head(T) = p[n + 1]
      /\ Tail(T) \in Seq(Lock) /\ Len(Tail(T)) = Len(p) - (n + 1)
  BY DEF Split
<1>2. \A i \in 1 .. Len(Tail(T)) : Tail(T)[i] = p[(n + 1) + i]
  <2>1. \A i \in 1 .. Len(Tail(T)) : Tail(T)[i] = T[i + 1] /\ i + 1 \in 1 .. Len(T)
    BY DEF Split
  <2> QED
    BY <2>1 DEF Split
<1>3. H \cup {Head(T)} = {p[i] : i \in 1 .. n + 1}
  BY <1>1 DEF Split
<1> QED
  BY <1>1, <1>2, <1>3 DEF Split

LEMMA SplitDone ==
    ASSUME NEW p, NEW n, NEW H, Split(p, n, H, <<>>)
    PROVE  n = Len(p) /\ H = Asked(p)
BY DEF Split, Asked

LEMMA SplitMore ==
    ASSUME NEW p, NEW n, NEW H, Split(p, n, H, <<>>), NEW q \in Seq(Lock)
    PROVE  Split(p \o q, n, H, q)
<1>1. n = Len(p) /\ p \in Seq(Lock)
  BY SplitDone DEF Split
<1>2. p \o q \in Seq(Lock) /\ Len(p \o q) = n + Len(q)
  BY <1>1
<1>3. \A i \in 1 .. n : (p \o q)[i] = p[i]
  BY <1>1
<1>4. \A i \in 1 .. Len(q) : (p \o q)[n + i] = q[i]
  BY <1>1
<1> QED
  BY <1>1, <1>2, <1>3, <1>4 DEF Split

LEMMA SplitNone == Split(<<>>, 0, {}, <<>>)
BY DEF Split

LEMMA SplitStart == ASSUME NEW q \in Seq(Lock) PROVE Split(q, 0, {}, q)
BY DEF Split

\* A plan depends on the answers about the graphs it names only.
LEMMA OnlyNamed ==
    ASSUME NEW c \in Request, NEW P, NEW Q, P \cap Named(c) = Q \cap Named(c), NEW gated
    PROVE  Second(c, P) = Second(c, Q) /\ Third(c, P, gated) = Third(c, Q, gated)
<1>1. (c.g \in P <=> c.g \in Q) /\ (c.d \in P <=> c.d \in Q)
  BY DEF Named
<1>2. /\ AddBody(c.g, P) = AddBody(c.g, Q) /\ BindBody(c.g, P) = BindBody(c.g, Q)
      /\ AddBody(c.d, P) = AddBody(c.d, Q)
      /\ DropBody(c.g, P) = DropBody(c.g, Q) /\ RouteTo(c.g, P) = RouteTo(c.g, Q)
      /\ ClearBody(c.g, P) = ClearBody(c.g, Q) /\ LockBody(c.g, P) = LockBody(c.g, Q)
      /\ UnlockBody(c.g, P) = UnlockBody(c.g, Q) /\ Resolve(c.g, P) = Resolve(c.g, Q)
  BY <1>1 DEF AddBody, BindBody, DropBody, RouteTo, ClearBody, LockBody, UnlockBody, Resolve
<1>3. /\ RebindBody(c.g, P) = RebindBody(c.g, Q) /\ LoadBody(c.g, P) = LoadBody(c.g, Q)
      /\ CopyBody(c.g, c.d, P) = CopyBody(c.g, c.d, Q)
  BY <1>1, <1>2 DEF RebindBody, LoadBody, CopyBody
<1>4. MoveBody(c.g, c.d, P) = MoveBody(c.g, c.d, Q)
  BY <1>1, <1>2, <1>3 DEF MoveBody
<1>5. RouteTo(c.g, P \cup {c.g}) = RouteTo(c.g, Q \cup {c.g})
  BY DEF RouteTo
<1> QED
  BY <1>2, <1>3, <1>4, <1>5 DEF Second, Third

\* Which locks the plans hold: no gate for the calls made without it, and
\* gate and parent for those that create or destroy a graph.
LEMMA NotTheGate ==
    ASSUME NEW g, NEW m
    PROVE  Gate \notin {RowOf(g), Registry(m), Parent(m), PartOf(g, m)}
BY DEF Gate, RowOf, Registry, Parent, PartOf

LEMMA Ungated ==
    ASSUME NEW c \in Request, NEW S,
           c.op \in {"put", "load", "clear", "lock", "unlock"}
    PROVE  Gate \notin Asked(First(c) \o Second(c, S))
<1>1. c.g \in Graph /\ c.d \in Graph
  BY DEF Request
<1> DEFINE NoGate(q) == q \in Seq(Lock) /\ Gate \notin Asked(q)
<1>2. /\ NoGate(<<>>) /\ NoGate(WriteRow(c.g)) /\ NoGate(RouteTo(c.g, S))
      /\ NoGate(ClearBody(c.g, S)) /\ NoGate(<<Parent("RX")>>)
      /\ NoGate(<<Registry("RX")>>)
      /\ NoGate(<<PartOf(c.g, "SRX")>>) /\ NoGate(<<PartOf(c.g, "AX")>>)
  <2>1. /\ <<Parent("RX")>> \in Seq(Lock) /\ <<Registry("RX")>> \in Seq(Lock)
        /\ <<PartOf(c.g, "SRX")>> \in Seq(Lock) /\ <<PartOf(c.g, "AX")>> \in Seq(Lock)
        /\ <<>> \in Seq(Lock)
    BY <1>1, Locks
  <2>2. NoGate(<<>>) /\ NoGate(<<Parent("RX")>>) /\ NoGate(<<Registry("RX")>>)
    BY <2>1, AskedTuples, NotTheGate
  <2>3. NoGate(<<PartOf(c.g, "SRX")>>) /\ NoGate(<<PartOf(c.g, "AX")>>)
    BY <2>1, AskedTuples, NotTheGate
  <2>4. NoGate(WriteRow(c.g))
    <3>1. Asked(WriteRow(c.g)) = {Registry("RX"), RowOf(c.g)}
      BY AskedTuples DEF WriteRow
    <3> QED
      BY <1>1, <3>1, BodiesTyped, NotTheGate
  <2>5. NoGate(RouteTo(c.g, S))
    <3>1. Asked(RouteTo(c.g, S)) \subseteq {PartOf(c.g, "RX")}
      BY AskedTuples DEF RouteTo
    <3> QED
      BY <1>1, <3>1, BodiesTyped, NotTheGate
  <2>6. NoGate(ClearBody(c.g, S))
    <3>1. Asked(ClearBody(c.g, S)) \subseteq {Parent("AS"), PartOf(c.g, "AS"), PartOf(c.g, "AX")}
      BY AskedTuples DEF ClearBody
    <3> QED
      BY <1>1, <3>1, BodiesTyped, NotTheGate
  <2> QED
    BY <2>2, <2>3, <2>4, <2>5, <2>6
<1>3. ASSUME NEW p, NEW q, NoGate(p), NoGate(q) PROVE NoGate(p \o q)
  BY <1>3, AskedCat
<1> HIDE DEF NoGate
<1>4. NoGate(LockBody(c.g, S)) /\ NoGate(UnlockBody(c.g, S))
  BY <1>2, <1>3 DEF LockBody, UnlockBody
<1>5. NoGate(LoadBody(c.g, S))
  BY <1>2, <1>3 DEF LoadBody
<1>6. NoGate(First(c)) /\ NoGate(Second(c, S))
  BY <1>2, <1>4, <1>5 DEF First, Second
<1> QED
  BY <1>3, <1>6 DEF NoGate

GatedOps == {"add", "rebind", "drop", "copy", "move"}

LEMMA GateFirst ==
    ASSUME NEW c \in Request, NEW S, c.op \in GatedOps
    PROVE  Gate \in Asked(First(c)) /\ Gate \in Asked(First(c) \o Second(c, S))
<1>1. Gate \in Asked(First(c))
  BY DEF First, Asked, GatedOps
<1> QED
  BY <1>1, AskedCat, StagesTyped

LEMMA ResolveGate ==
    ASSUME NEW c \in Request, NEW S, c.op \in {"bind", "dataset"}
    PROVE  /\ c.g \notin S => /\ Second(c, S) = Second(c, {})
                              /\ Gate \in Asked(First(c) \o Second(c, S))
           /\ c.g \in S => Gate \notin Asked(First(c) \o Second(c, S))
<1>1. c.g \in Graph
  BY DEF Request
<1> DEFINE NoGate(q) == q \in Seq(Lock) /\ Gate \notin Asked(q)
<1>2. ASSUME c.g \notin S
      PROVE  Second(c, S) = Second(c, {}) /\ Gate \in Asked(First(c) \o Second(c, S))
  <2>1. Second(c, S) = Second(c, {})
    BY <1>2 DEF Second, Resolve, RouteTo
  <2>2. Gate \in Asked(Resolve(c.g, S))
    BY <1>2 DEF Resolve, Asked
  <2>3. Gate \in Asked(Second(c, S))
    BY <1>1, <2>2, AskedCat, BodiesTyped DEF Second
  <2> QED
    BY <2>1, <2>3, AskedCat, StagesTyped
<1>3. ASSUME c.g \in S
      PROVE  Gate \notin Asked(First(c) \o Second(c, S))
  <2>1. NoGate(Resolve(c.g, S)) /\ NoGate(RouteTo(c.g, S)) /\ NoGate(First(c))
    <3>1. NoGate(Resolve(c.g, S))
      BY <1>1, <1>3, BodiesTyped, AskedTuples DEF Resolve
    <3>2. NoGate(RouteTo(c.g, S))
      <4>1. Asked(RouteTo(c.g, S)) \subseteq {PartOf(c.g, "RX")}
        BY AskedTuples DEF RouteTo
      <4> QED
        BY <1>1, <4>1, BodiesTyped, NotTheGate
    <3>3. NoGate(First(c))
      <4>1. Asked(First(c)) \subseteq {Parent("RX")}
        BY AskedTuples DEF First
      <4> QED
        BY <4>1, StagesTyped, NotTheGate
    <3> QED
      BY <3>1, <3>2, <3>3
  <2>2. ASSUME NEW p, NEW q, NoGate(p), NoGate(q) PROVE NoGate(p \o q)
    BY <2>2, AskedCat
  <2> HIDE DEF NoGate
  <2>3. NoGate(Second(c, S))
    BY <2>1, <2>2 DEF Second
  <2> QED
    BY <2>1, <2>2, <2>3 DEF NoGate
<1> QED
  BY <1>2, <1>3

LEMMA Changers ==
    ASSUME NEW c \in Request, NEW S, NEW gated \in BOOLEAN,
           Made(c, S) \cup Removed(c, S) # {},
           c.op \in {"bind", "dataset"} /\ ~gated => c.g \in S
    PROVE  /\ Parent("AX") \in Asked(Plan(c, 2, S, gated))
           /\ Gate \in Asked(Plan(c, 2, S, gated))
<1>1. c.g \in Graph /\ c.d \in Graph
  BY DEF Request
<1>2. ASSUME NEW g \in Graph, g \notin S
      PROVE  Parent("AX") \in Asked(AddBody(g, S)) /\ Parent("AX") \in Asked(BindBody(g, S))
  <2>1. Parent("AX") \in Asked(CreatePartition(g))
    BY DEF CreatePartition, Asked
  <2> QED
    BY <1>2, <2>1, AskedCat, BodiesTyped, SMTT(30) DEF AddBody, BindBody
<1>3. ASSUME NEW g \in Graph, g \in S
      PROVE  Parent("AX") \in Asked(DropBody(g, S))
  <2> DEFINE q == <<Parent("AS"), PartOf(g, "AS"), Parent("AX"), PartOf(g, "AX")>>
  <2>1. q \in Seq(Lock) /\ Parent("AX") \in Asked(q)
    BY Locks DEF Asked
  <2>2. DropBody(g, S) = q \o WriteRow(g)
    BY <1>3 DEF DropBody
  <2> QED
    BY <2>1, <2>2, AskedCat, BodiesTyped
<1>4. CASE c.op \in GatedOps
  <2>1. Plan(c, 2, S, gated) = First(c) \o Second(c, S)
    <3>1. ~(2 = 0) /\ c.op \notin {"bind", "dataset"}
      BY <1>4 DEF GatedOps
    <3> QED
      BY <3>1, Zenon DEF Plan
  <2>2. Parent("AX") \in Asked(Second(c, S))
    <3>1. CASE c.op = "add"
      BY <1>1, <1>2, <3>1 DEF Second, Made, Removed
    <3>2. CASE c.op = "rebind"
      BY <1>1, <1>2, <3>2 DEF Second, RebindBody, Made, Removed
    <3>3. CASE c.op = "drop"
      BY <1>1, <1>3, <3>3 DEF Second, Made, Removed
    <3>4. CASE c.op = "copy"
      <4>1. c.g \in S /\ c.d \notin S
        BY <3>4 DEF Made, Removed
      <4> DEFINE q == <<PartOf(c.g, "AS"), PartOf(c.d, "RX")>>
      <4>2. q \in Seq(Lock)
        BY <1>1, Locks
      <4>3. Second(c, S) = AddBody(c.d, S) \o q
        BY <3>4, <4>1 DEF Second, CopyBody
      <4> HIDE DEF q
      <4> QED
        <5>1. Parent("AX") \in Asked(AddBody(c.d, S)) /\ AddBody(c.d, S) \in Seq(Lock)
          BY <1>1, <1>2, <4>1, BodiesTyped
        <5> QED
          BY <4>2, <4>3, <5>1, AskedCat
    <3>5. CASE c.op = "move"
      <4>1. c.g \in S
        BY <3>5 DEF Made, Removed
      <4>2. Second(c, S) = CopyBody(c.g, c.d, S) \o DropBody(c.g, S)
        BY <3>5, <4>1 DEF Second, MoveBody
      <4> QED
        BY <1>1, <1>3, <4>1, <4>2, AskedCat, BodiesTyped, CopiesTyped
    <3> QED
      BY <1>4, <3>1, <3>2, <3>3, <3>4, <3>5 DEF GatedOps
  <2> QED
    BY <1>4, <2>1, <2>2, GateFirst, AskedCat, StagesTyped
<1>5. CASE c.op \in {"bind", "dataset"}
  <2>1. c.g \notin S /\ gated
    BY <1>5 DEF Made, Removed
  <2>2. Plan(c, 2, S, gated) = (First(c) \o Second(c, {})) \o Third(c, S, TRUE)
    <3>1. ~(2 = 0)
      OBVIOUS
    <3> QED
      BY <1>5, <2>1, <3>1, Zenon DEF Plan
  <2>3. Parent("AX") \in Asked(Third(c, S, TRUE))
    BY <1>1, <1>2, <1>5, <2>1, AskedCat, BodiesTyped DEF Third
  <2>4. Gate \in Asked(First(c) \o Second(c, {}))
    BY <1>5, ResolveGate
  <2>5. First(c) \o Second(c, {}) \in Seq(Lock)
    BY AskedCat, StagesTyped
  <2> QED
    BY <2>2, <2>3, <2>4, <2>5, AskedCat, StagesTyped
<1> QED
  BY <1>4, <1>5 DEF Made, Removed, GatedOps

-----------------------------------------------------------------------------
\* What was found under the gate stands.

\* No two transactions hold conflicting locks.
LocksAgree == \A s, t \in Session : s # t =>
    \A x \in held[s], y \in held[t] : ~Conflict(x, y)

\* A graph that is found at the first look needs no gate, and nothing more.
FoundAtOnce == \A s \in Session :
    Running(s) /\ call[s].op \in {"bind", "dataset"} /\ phase[s] = 2 /\ Gate \notin held[s]
        => todo[s] = <<>> /\ call[s].g \in seen[s]

IInv == /\ TypeOK
        /\ \A s \in Session : OnPlan(s)
        /\ LocksAgree
        /\ FoundAtOnce
        /\ AnswerStands

LEMMA Gates == Conflict(Gate, Gate) /\ Conflict(Parent("AX"), Parent("RX"))
               /\ \A x, y : Conflict(x, y) <=> Conflict(y, x)
BY DEF Conflict, Gate, Parent, Clash

LEMMA InvInit == ASSUME Init PROVE IInv
BY TypeInit DEF Init, IInv, OnPlan, Running, LocksAgree, FoundAtOnce, AnswerStands, Settled, Idle

\* A call that changes part holds the gate and the parent.
LEMMA ChangerHolds ==
    ASSUME IInv, NEW s \in Session, Commit(s), part' # part
    PROVE  Gate \in held[s] /\ Parent("AX") \in held[s]
<1>1. call[s] \in Request /\ phase[s] = 2 /\ todo[s] = <<>> /\ Running(s)
  BY RunningTyped DEF Commit, IInv, Finished
<1>2. held[s] = Asked(PlanOf(s))
  BY <1>1, SplitDone DEF IInv, OnPlan
<1>3. Made(call[s], seen[s]) \cup Removed(call[s], seen[s]) # {}
  BY DEF Commit
<1>4. call[s].op \in {"bind", "dataset"} /\ ~(Gate \in held[s]) => call[s].g \in seen[s]
  BY <1>1 DEF IInv, FoundAtOnce
<1>5. /\ Parent("AX") \in Asked(Plan(call[s], 2, seen[s], Gate \in held[s]))
      /\ Gate \in Asked(Plan(call[s], 2, seen[s], Gate \in held[s]))
  <2> DEFINE gated == Gate \in held[s]
  <2>1. gated \in BOOLEAN
    OBVIOUS
  <2> HIDE DEF gated
  <2>2. call[s].op \in {"bind", "dataset"} /\ ~gated => call[s].g \in seen[s]
    BY <1>4 DEF gated
  <2>3. /\ Parent("AX") \in Asked(Plan(call[s], 2, seen[s], gated))
        /\ Gate \in Asked(Plan(call[s], 2, seen[s], gated))
    BY <1>1, <1>3, <2>1, <2>2, Changers
  <2> QED
    BY <2>3 DEF gated
<1> QED
  BY <1>1, <1>2, <1>5 DEF PlanOf

\* A call whose answer is settled holds the gate, or put_quad's lock.
LEMMA SettledHolds ==
    ASSUME IInv, NEW s \in Session, Settled(s)
    PROVE  Running(s) /\ (Gate \in held[s] \/ Parent("RX") \in held[s])
<1>1. Running(s) /\ call[s] \in Request /\ phase[s] > 0
  BY RunningTyped DEF IInv, TypeOK, Settled, Running, Idle, Finished
<1>2. PICK n \in Nat : Split(PlanOf(s), n, held[s], todo[s]) /\ n >= Len(First(call[s]))
  BY <1>1 DEF IInv, OnPlan
<1>3. CASE call[s].op = "bind"
  BY <1>1, <1>3 DEF Settled
<1>4. CASE call[s].op # "bind"
  <2>1. call[s].op \in {"put", "add", "rebind", "drop", "copy", "move"}
    BY <1>4 DEF Settled
  <2>2. PlanOf(s) = First(call[s]) \o Second(call[s], seen[s])
    <3>1. phase[s] # 0 /\ call[s].op \notin {"bind", "dataset"}
      BY <1>1, <2>1 DEF IInv, TypeOK
    <3> QED
      BY <3>1, Zenon DEF PlanOf, Plan
  <2>3. \A i \in 1 .. Len(First(call[s])) : First(call[s])[i] \in held[s]
    <3>1. \A i \in 1 .. Len(First(call[s])) : PlanOf(s)[i] = First(call[s])[i]
      BY <1>1, <2>2, StagesTyped
    <3>2. Len(First(call[s])) \in Nat
      BY <1>1, StagesTyped
    <3> QED
      BY <1>2, <3>1, <3>2 DEF Split
  <2>4. Gate \in Asked(First(call[s])) \/ Parent("RX") \in Asked(First(call[s]))
    BY <2>1, AskedTuples DEF First
  <2> QED
    BY <1>1, <2>3, <2>4 DEF Asked
<1> QED
  BY <1>3, <1>4

\* Nobody changes a graph under a settled answer.
LEMMA SettledSafe ==
    ASSUME IInv, NEW s \in Session, NEW t \in Session, s # t, Commit(s), Settled(t)
    PROVE  part' = part
BY ChangerHolds, SettledHolds, Gates DEF IInv, LocksAgree

\* A step of one session leaves the plans of the others alone.
OthersUnchanged(s) ==
    \A t \in Session \ {s} :
        /\ call'[t] = call[t] /\ phase'[t] = phase[t] /\ seen'[t] = seen[t]
        /\ held'[t] = held[t] /\ todo'[t] = todo[t]

LEMMA OthersOnPlan ==
    ASSUME IInv, NEW s \in Session, OthersUnchanged(s)
    PROVE  \A t \in Session \ {s} :
              /\ OnPlan(t)'
              /\ part' = part => (Settled(t) => seen[t] = part \cap Named(call[t]))'
              /\ (Running(t) /\ call[t].op \in {"bind", "dataset"} /\ phase[t] = 2
                     /\ Gate \notin held[t]
                  => todo[t] = <<>> /\ call[t].g \in seen[t])'
<1> SUFFICES ASSUME NEW t \in Session \ {s}
             PROVE  /\ OnPlan(t)'
                    /\ part' = part => (Settled(t) => seen[t] = part \cap Named(call[t]))'
                    /\ (Running(t) /\ call[t].op \in {"bind", "dataset"} /\ phase[t] = 2
                           /\ Gate \notin held[t]
                        => todo[t] = <<>> /\ call[t].g \in seen[t])'
  OBVIOUS
<1>1. /\ call'[t] = call[t] /\ phase'[t] = phase[t] /\ seen'[t] = seen[t]
      /\ held'[t] = held[t] /\ todo'[t] = todo[t]
  BY DEF OthersUnchanged
<1>2. OnPlan(t) => OnPlan(t)'
  BY <1>1, Zenon DEF OnPlan, PlanOf, Running
<1>3. part' = part => (Settled(t) => seen[t] = part \cap Named(call[t]))'
  BY <1>1 DEF IInv, AnswerStands, Settled
<1>4. (Running(t) /\ call[t].op \in {"bind", "dataset"} /\ phase[t] = 2 /\ Gate \notin held[t]
           => todo[t] = <<>> /\ call[t].g \in seen[t])'
  BY <1>1 DEF IInv, FoundAtOnce, Running
<1> QED
  BY <1>2, <1>3, <1>4 DEF IInv

\* What a step has to establish: the facts about its own session.
Own(s) == /\ OnPlan(s)
          /\ Settled(s) => seen[s] = part \cap Named(call[s])
          /\ Running(s) /\ call[s].op \in {"bind", "dataset"} /\ phase[s] = 2
                /\ Gate \notin held[s]
             => todo[s] = <<>> /\ call[s].g \in seen[s]

LEMMA OwnStep ==
    ASSUME IInv, TypeOK', NEW s \in Session, OthersUnchanged(s), part' = part,
           LocksAgree', Own(s)'
    PROVE  IInv'
<1>1. \A t \in Session : OnPlan(t)'
  BY OthersOnPlan DEF Own
<1>2. AnswerStands'
  BY OthersOnPlan DEF Own, AnswerStands
<1>3. FoundAtOnce'
  BY OthersOnPlan DEF Own, FoundAtOnce
<1> QED
  BY <1>1, <1>2, <1>3 DEF IInv

\* Locks may only be given back, or taken when nobody holds a conflicting one.
LEMMA LocksGiven ==
    ASSUME IInv, NEW s \in Session, OthersUnchanged(s),
           \A x \in held'[s] : x \in held[s] \/ \A t \in Session \ {s} :
               \A y \in held[t] : ~Conflict(x, y)
    PROVE  LocksAgree'
<1> SUFFICES ASSUME NEW u \in Session, NEW t \in Session, u # t,
                    NEW x \in held'[u], NEW y \in held'[t]
             PROVE  ~Conflict(x, y)
  BY DEF LocksAgree
<1>1. CASE u # s /\ t # s
  BY <1>1 DEF OthersUnchanged, IInv, LocksAgree
<1>2. CASE u = s
  BY <1>2 DEF OthersUnchanged, IInv, LocksAgree
<1>3. CASE t = s
  BY <1>3, Gates DEF OthersUnchanged, IInv, LocksAgree
<1> QED
  BY <1>1, <1>2, <1>3

LEMMA InvBegin ==
    ASSUME IInv, TypeOK', NEW s \in Session, NEW c \in Request, Begin(s, c)
    PROVE  IInv'
<1>1. /\ call' = [call EXCEPT ![s] = c] /\ todo' = [todo EXCEPT ![s] = First(c)]
      /\ UNCHANGED <<phase, held, seen, part>>
  BY DEF Begin
<1>2. OthersUnchanged(s) /\ call'[s] = c /\ todo'[s] = First(c)
  BY <1>1 DEF OthersUnchanged, IInv, TypeOK
<1>3. held'[s] = {} /\ phase'[s] = 0 /\ First(c) \in Seq(Lock)
  BY <1>1, StagesTyped DEF Begin, IInv, TypeOK
<1>4. LocksAgree'
  BY <1>2, <1>3, LocksGiven
<1>5. OnPlan(s)'
  <2>1. PlanOf(s)' = First(c)
    BY <1>2, <1>3 DEF PlanOf, Plan
  <2> QED
    BY <1>2, <1>3, <2>1, SplitStart DEF OnPlan
<1>6. Own(s)'
  BY <1>3, <1>5 DEF Own, Settled, Finished
<1> QED
  BY <1>1, <1>2, <1>4, <1>6, OwnStep

LEMMA InvAcquire ==
    ASSUME IInv, TypeOK', NEW s \in Session, Acquire(s)
    PROVE  IInv'
<1> DEFINE x == Head(todo[s])
<1>1. /\ held'[s] = held[s] \cup {x} /\ todo'[s] = Tail(todo[s])
      /\ todo[s] # <<>> /\ x \in Lock /\ Running(s)
      /\ UNCHANGED <<call, phase, seen, part>>
  BY DEF Acquire, IInv, TypeOK
<1>2. OthersUnchanged(s)
  BY DEF Acquire, OthersUnchanged, IInv, TypeOK
<1>3. \A t \in Session \ {s} : \A y \in held[t] : ~Conflict(x, y)
  BY <1>1 DEF Acquire, Waits
<1> HIDE DEF x
<1>4. LocksAgree'
  BY <1>1, <1>2, <1>3, LocksGiven
<1>5. \/ Gate \in held[s]
      \/ phase[s] # 2
      \/ call[s].op \notin {"bind", "dataset"}
  BY <1>1 DEF IInv, FoundAtOnce
<1>6. PlanOf(s)' = PlanOf(s)
  <2>1. PlanOf(s)' = Plan(call[s], phase[s], seen[s], Gate \in held'[s])
    BY <1>1 DEF PlanOf
  <2>2. CASE Gate \in held[s]
    BY <1>1, <2>1, <2>2, Zenon DEF PlanOf
  <2>3. CASE phase[s] # 2 \/ call[s].op \notin {"bind", "dataset"}
    BY <2>1, <2>3, Zenon DEF PlanOf, Plan
  <2> QED
    BY <1>5, <2>2, <2>3
<1>7. OnPlan(s)'
  <2>1. PICK n \in Nat : /\ Split(PlanOf(s), n, held[s], todo[s])
                         /\ phase[s] > 0 => n >= Len(First(call[s]))
    BY <1>1 DEF IInv, OnPlan
  <2>2. Split(PlanOf(s), n + 1, held[s] \cup {x}, Tail(todo[s]))
    BY <1>1, <2>1, SplitStep DEF x
  <2>3. Len(First(call[s])) \in Nat
    BY <1>1, RunningTyped, StagesTyped DEF IInv
  <2>4. n + 1 \in Nat /\ (phase'[s] > 0 => n + 1 >= Len(First(call'[s])))
    BY <1>1, <2>1, <2>3
  <2>5. Split(PlanOf(s)', n + 1, held'[s], todo'[s])
    BY <1>1, <1>6, <2>2
  <2> QED
    BY <2>4, <2>5 DEF OnPlan
<1>8. Own(s)'
  <2>1. (Settled(s) => seen[s] = part \cap Named(call[s]))'
    <3>1. CASE Settled(s)
      BY <1>1, <3>1 DEF IInv, AnswerStands
    <3>2. CASE ~Settled(s)
      BY <1>1, <1>5, <3>2 DEF Settled, Finished
    <3> QED
      BY <3>1, <3>2
  <2>2. (Running(s) /\ call[s].op \in {"bind", "dataset"} /\ phase[s] = 2 /\ Gate \notin held[s]
            => todo[s] = <<>> /\ call[s].g \in seen[s])'
    BY <1>1, <1>5
  <2> QED
    BY <1>7, <2>1, <2>2 DEF Own
<1> QED
  BY <1>1, <1>2, <1>4, <1>8, OwnStep

LEMMA InvCheck ==
    ASSUME IInv, TypeOK', NEW s \in Session, Check(s)
    PROVE  IInv'
<1> DEFINE c == call[s]
           gated == Gate \in held[s]
<1>1. /\ Running(s) /\ c \in Request /\ todo[s] = <<>> /\ phase[s] \in {0, 1}
      /\ phase'[s] = phase[s] + 1
      /\ seen'[s] = IF phase[s] = 0 \/ gated THEN part \cap Named(c) ELSE seen[s]
      /\ todo'[s] = IF phase[s] = 0 THEN Second(c, part) ELSE Third(c, part, gated)
      /\ UNCHANGED <<call, held, part>>
  BY RunningTyped DEF Check, IInv, TypeOK, Finished
<1>2. OthersUnchanged(s)
  BY DEF Check, OthersUnchanged, IInv, TypeOK
<1>3. LocksAgree'
  BY <1>1, <1>2, LocksGiven
<1>4. PICK n \in Nat : /\ Split(PlanOf(s), n, held[s], <<>>)
                       /\ phase[s] > 0 => n >= Len(First(c))
  BY <1>1 DEF IInv, OnPlan
<1>5. n = Len(PlanOf(s)) /\ held[s] = Asked(PlanOf(s))
  BY <1>4, SplitDone
<1>6. /\ First(c) \in Seq(Lock)
      /\ \A P : Second(c, P) \in Seq(Lock) /\ Third(c, P, gated) \in Seq(Lock)
  BY <1>1, StagesTyped
<1>7. PlanOf(s)' = Plan(c, phase'[s], seen'[s], gated)
  BY <1>1 DEF PlanOf
<1> HIDE DEF c, gated
<1>8. CASE phase[s] = 0
  <2>1. PlanOf(s) = First(c)
    BY <1>8 DEF PlanOf, Plan, c
  <2>2. seen'[s] = part \cap Named(c) /\ todo'[s] = Second(c, part) /\ phase'[s] = 1
    BY <1>1, <1>8
  <2>3. Second(c, part) = Second(c, seen'[s])
    <3>1. part \cap Named(c) = seen'[s] \cap Named(c)
      BY <2>2
    <3> QED
      BY <1>1, <3>1, OnlyNamed
  <2>4. PlanOf(s)' = First(c) \o Second(c, seen'[s])
    <3>1. ~(1 = 0) /\ ~(1 = 2)
      OBVIOUS
    <3> QED
      BY <1>7, <2>2, <3>1, Zenon DEF Plan
  <2>5. Split(PlanOf(s)', n, held'[s], todo'[s])
    BY <1>1, <1>4, <1>6, <2>1, <2>2, <2>3, <2>4, SplitMore
  <2>6. OnPlan(s)'
    BY <1>1, <1>5, <2>1, <2>5 DEF OnPlan, c
  <2> QED
    BY <1>1, <1>2, <1>3, <2>2, <2>6, OwnStep DEF Own, c
<1>9. CASE phase[s] = 1
  <2>1. PlanOf(s) = First(c) \o Second(c, seen[s])
    <3>1. phase[s] # 0 /\ phase[s] # 2
      BY <1>9
    <3> QED
      BY <3>1, Zenon DEF PlanOf, Plan, c
  <2>2. todo'[s] = Third(c, part, gated) /\ phase'[s] = 2
    BY <1>1, <1>9
  <2>3. CASE c.op \in {"bind", "dataset"} /\ gated
    <3>1. c.g \notin seen[s] /\ Second(c, seen[s]) = Second(c, {})
      BY <1>1, <1>5, <2>1, <2>3, ResolveGate DEF gated
    <3>2. seen'[s] = part \cap Named(c)
      BY <1>1, <2>3
    <3>3. todo'[s] = Third(c, seen'[s], TRUE)
      <4>1. gated = TRUE /\ part \cap Named(c) = seen'[s] \cap Named(c)
        BY <2>3, <3>2 DEF gated
      <4> QED
        BY <1>1, <2>2, <4>1, OnlyNamed
    <3>4. PlanOf(s)' = (First(c) \o Second(c, {})) \o Third(c, seen'[s], TRUE)
      <4>1. ~(2 = 0)
        OBVIOUS
      <4> QED
        BY <1>7, <2>2, <2>3, <4>1, Zenon DEF Plan
    <3>5. Third(c, seen'[s], TRUE) \in Seq(Lock)
      BY <1>1, StagesTyped
    <3>6. Split(PlanOf(s)', n, held'[s], todo'[s])
      <4>1. Split(First(c) \o Second(c, {}), n, held[s], <<>>)
        BY <1>1, <1>4, <2>1, <3>1
      <4>2. Split((First(c) \o Second(c, {})) \o Third(c, seen'[s], TRUE), n, held[s],
                  Third(c, seen'[s], TRUE))
        BY <3>5, <4>1, SplitMore
      <4>3. held'[s] = held[s]
        BY <1>1
      <4> QED
        BY <3>3, <3>4, <4>2, <4>3
    <3>7. OnPlan(s)'
      BY <1>1, <1>4, <1>9, <3>6 DEF OnPlan, c
    <3> QED
      BY <1>1, <1>2, <1>3, <2>3, <3>2, <3>7, OwnStep DEF Own, c, gated
  <2>4. CASE ~(c.op \in {"bind", "dataset"} /\ gated)
    <3>1. todo'[s] = <<>>
      <4>1. ~(c.op = "bind" /\ gated) /\ ~(c.op = "dataset" /\ gated)
        BY <2>4
      <4> QED
        BY <2>2, <4>1 DEF Third
    <3>2. seen'[s] = seen[s]
      <4>1. CASE ~gated
        BY <1>1, <1>9, <4>1
      <4>2. CASE gated
        <5>1. c.op \in GatedOps
          BY <1>1, <1>5, <2>1, <2>4, <4>2, Ungated DEF Request, Op, GatedOps, gated
        <5>2. Settled(s)
          BY <1>9, <5>1 DEF Settled, GatedOps, c
        <5> QED
          BY <1>1, <4>2, <5>2 DEF IInv, AnswerStands, c
      <4> QED
        BY <4>1, <4>2
    <3>3. PlanOf(s)' = PlanOf(s)
      <4>1. ~(2 = 0)
        OBVIOUS
      <4> QED
        BY <1>7, <2>1, <2>2, <2>4, <3>2, <4>1, Zenon DEF Plan
    <3>4. OnPlan(s)'
      BY <1>1, <1>4, <1>9, <3>1, <3>3 DEF OnPlan, c
    <3>5. (Settled(s) => seen[s] = part \cap Named(call[s]))'
      <4>1. CASE c.op = "bind"
        BY <1>1, <2>4, <4>1 DEF Settled, c, gated
      <4>2. CASE c.op # "bind"
        BY <1>1, <1>9, <3>2, <4>2 DEF Settled, IInv, AnswerStands, c
      <4> QED
        BY <4>1, <4>2
    <3>6. c.op \in {"bind", "dataset"} /\ ~gated => c.g \in seen'[s]
      BY <1>1, <1>5, <2>1, <3>2, ResolveGate DEF gated
    <3>7. Own(s)'
      BY <1>1, <3>1, <3>4, <3>5, <3>6 DEF Own, c, gated
    <3> QED
      BY <1>1, <1>2, <1>3, <3>7, OwnStep
  <2> QED
    BY <2>3, <2>4
<1> QED
  BY <1>1, <1>8, <1>9

\* A transaction's end.
LEMMA InvEnd ==
    ASSUME IInv, TypeOK', NEW s \in Session, EndTxn(s),
           \A t \in Session \ {s} : Settled(t) => part' = part
    PROVE  IInv'
<1>1. /\ call'[s] = Idle /\ held'[s] = {} /\ OthersUnchanged(s)
  BY DEF EndTxn, OthersUnchanged, IInv, TypeOK
<1>2. LocksAgree'
  BY <1>1, LocksGiven
<1>3. \A t \in Session : OnPlan(t)'
  <2>1. OnPlan(s)'
    BY <1>1 DEF OnPlan, Running
  <2> QED
    BY <1>1, <2>1, OthersOnPlan
<1>4. AnswerStands'
  <2>1. ~Settled(s)'
    BY <1>1 DEF Settled, Idle
  <2>2. ASSUME NEW t \in Session \ {s}, Settled(t)' PROVE seen'[t] = part' \cap Named(call'[t])
    <3>1. Settled(t)
      BY <1>1, <2>2 DEF OthersUnchanged, Settled
    <3> QED
      BY <1>1, <2>2, <3>1, OthersOnPlan
  <2> QED
    BY <2>1, <2>2 DEF AnswerStands
<1>5. FoundAtOnce'
  <2>1. ~Running(s)'
    BY <1>1 DEF Running
  <2> QED
    BY <1>1, <2>1, OthersOnPlan DEF FoundAtOnce
<1> QED
  BY <1>2, <1>3, <1>4, <1>5 DEF IInv

LEMMA InvStep == ASSUME IInv, Next PROVE IInv'
<1>0. TypeOK'
  BY TypeStep DEF IInv
<1>1. ASSUME NEW s \in Session, Acquire(s) PROVE IInv'
  BY <1>0, <1>1, InvAcquire
<1>2. ASSUME NEW s \in Session, Check(s) PROVE IInv'
  BY <1>0, <1>2, InvCheck
<1>3. ASSUME NEW s \in Session, Commit(s) PROVE IInv'
  BY <1>0, <1>3, InvEnd, SettledSafe DEF Commit
<1>4. ASSUME NEW s \in Session, Abort(s) PROVE IInv'
  BY <1>0, <1>4, InvEnd DEF Abort
<1>5. ASSUME NEW s \in Session, NEW op \in Op, NEW g \in Graph, NEW d \in Graph,
             Begin(s, [op |-> op, g |-> g, d |-> d])
      PROVE  IInv'
  <2>1. [op |-> op, g |-> g, d |-> d] \in Request
    BY DEF Request
  <2> QED
    BY <1>0, <1>5, <2>1, InvBegin
<1> QED
  BY <1>1, <1>2, <1>3, <1>4, <1>5 DEF Next

LEMMA InvStutter == ASSUME IInv, UNCHANGED vars PROVE IInv'
<1>1. /\ call' = call /\ phase' = phase /\ todo' = todo /\ held' = held
      /\ seen' = seen /\ part' = part
  BY DEF vars
<1>2. TypeOK' /\ LocksAgree' /\ FoundAtOnce' /\ AnswerStands'
  BY <1>1 DEF IInv, TypeOK, LocksAgree, FoundAtOnce, AnswerStands, Settled, Running
<1>3. \A s \in Session : OnPlan(s)'
  BY <1>1, Zenon DEF IInv, OnPlan, PlanOf, Running
<1> QED
  BY <1>2, <1>3 DEF IInv

\* "The lock makes the check + create atomic" (partition.rs): what a call found
\* under the gate, or put_quad behind its lock, holds until it commits.
THEOREM AnswersStand == Spec => []AnswerStands
<1>1. IInv => AnswerStands
  BY DEF IInv
<1> QED
  BY InvInit, InvStep, InvStutter, <1>1, PTL DEF Spec

-----------------------------------------------------------------------------
\* No sessions wait for each other.  A waiting session stands somewhere in its
\* plan: At(p, H, x) says that one that holds H, of plan p, asks for x.

At(p, H, x) == \E n \in Nat : n < Len(p) /\ H = {p[i] : i \in 1 .. n} /\ x = p[n + 1]

LEMMA AtTuples ==
    ASSUME NEW H, NEW x
    PROVE  /\ ~At(<<>>, H, x)
           /\ \A a : At(<<a>>, H, x) => H = {} /\ x = a
           /\ \A a, b : At(<<a, b>>, H, x) => (H = {} /\ x = a) \/ (H = {a} /\ x = b)
<1>1. ~At(<<>>, H, x)
  BY DEF At
<1>2. ASSUME NEW a, At(<<a>>, H, x) PROVE H = {} /\ x = a
  <2>1. PICK n \in Nat : n < 1 /\ H = {<<a>>[i] : i \in 1 .. n} /\ x = <<a>>[n + 1]
    BY <1>2 DEF At
  <2>2. n = 0
    BY <2>1
  <2> QED
    BY <2>1, <2>2
<1>3. ASSUME NEW a, NEW b, At(<<a, b>>, H, x)
      PROVE  (H = {} /\ x = a) \/ (H = {a} /\ x = b)
  <2>1. PICK n \in Nat : n < 2 /\ H = {<<a, b>>[i] : i \in 1 .. n} /\ x = <<a, b>>[n + 1]
    BY <1>3 DEF At
  <2>2. CASE n = 0
    BY <2>1, <2>2
  <2>3. CASE n = 1
    BY <2>1, <2>3
  <2> QED
    BY <2>1, <2>2, <2>3
<1> QED
  BY <1>1, <1>2, <1>3

LEMMA AtThree ==
    ASSUME NEW a, NEW b, NEW c, NEW H, NEW x, At(<<a, b, c>>, H, x)
    PROVE  (H = {} /\ x = a) \/ (H = {a} /\ x = b) \/ (H = {a, b} /\ x = c)
<1>1. PICK n \in Nat : n < 3 /\ H = {<<a, b, c>>[i] : i \in 1 .. n} /\ x = <<a, b, c>>[n + 1]
  BY DEF At
<1>2. CASE n = 0
  BY <1>1, <1>2
<1>3. CASE n = 1
  BY <1>1, <1>3
<1>4. CASE n = 2
  BY <1>1, <1>4
<1> QED
  BY <1>1, <1>2, <1>3, <1>4

LEMMA AtFour ==
    ASSUME NEW a, NEW b, NEW c, NEW d, NEW H, NEW x, At(<<a, b, c, d>>, H, x)
    PROVE  \/ (H = {} /\ x = a) \/ (H = {a} /\ x = b) \/ (H = {a, b} /\ x = c)
           \/ (H = {a, b, c} /\ x = d)
<1>1. PICK n \in Nat : /\ n < 4 /\ H = {<<a, b, c, d>>[i] : i \in 1 .. n}
                       /\ x = <<a, b, c, d>>[n + 1]
  BY DEF At
<1>2. CASE n = 0
  BY <1>1, <1>2
<1>3. CASE n = 1
  BY <1>1, <1>3
<1>4. CASE n = 2
  BY <1>1, <1>4
<1>5. CASE n = 3
  BY <1>1, <1>5
<1> QED
  BY <1>1, <1>2, <1>3, <1>4, <1>5

LEMMA AtCat ==
    ASSUME NEW p \in Seq(Lock), NEW q \in Seq(Lock), NEW H, NEW x, At(p \o q, H, x)
    PROVE  At(p, H, x) \/ \E G : At(q, G, x) /\ H = Asked(p) \cup G
<1>1. PICK n \in Nat : /\ n < Len(p \o q) /\ H = {(p \o q)[i] : i \in 1 .. n}
                       /\ x = (p \o q)[n + 1]
  BY DEF At
<1>2. /\ Len(p) \in Nat /\ Len(q) \in Nat /\ Len(p \o q) = Len(p) + Len(q)
      /\ \A i \in 1 .. Len(p) : (p \o q)[i] = p[i]
      /\ \A i \in 1 .. Len(q) : (p \o q)[Len(p) + i] = q[i]
  OBVIOUS
<1>3. CASE n < Len(p)
  <2>1. H = {p[i] : i \in 1 .. n} /\ x = p[n + 1]
    BY <1>1, <1>2, <1>3
  <2> QED
    BY <1>3, <2>1 DEF At
<1>4. CASE n >= Len(p)
  <2> DEFINE m == n - Len(p)
             G == {q[i] : i \in 1 .. m}
  <2>1. m \in Nat /\ m < Len(q) /\ n = Len(p) + m
    BY <1>1, <1>2, <1>4
  <2>2. x = q[m + 1]
    <3>1. m + 1 \in 1 .. Len(q) /\ n + 1 = Len(p) + (m + 1)
      BY <1>2, <2>1
    <3> QED
      BY <1>1, <1>2, <3>1
  <2>3. At(q, G, x)
    BY <2>1, <2>2 DEF At
  <2> HIDE DEF m, G
  <2>4. \A i \in 1 .. Len(p) : i \in 1 .. n /\ p[i] = (p \o q)[i]
    BY <1>2, <2>1
  <2>5. \A i \in 1 .. m : Len(p) + i \in 1 .. n /\ q[i] = (p \o q)[Len(p) + i]
    BY <1>2, <2>1
  <2>6. Asked(p) \cup G \subseteq H
    BY <1>1, <2>4, <2>5 DEF Asked, G
  <2>7. ASSUME NEW y \in H PROVE y \in Asked(p) \cup G
    <3>1. PICK i \in 1 .. n : y = (p \o q)[i]
      BY <1>1, <2>7
    <3>2. CASE i <= Len(p)
      <4>1. i \in 1 .. Len(p)
        BY <3>2
      <4> QED
        BY <2>4, <3>1, <4>1 DEF Asked
    <3>3. CASE i > Len(p)
      <4>1. i - Len(p) \in 1 .. m /\ i = Len(p) + (i - Len(p))
        BY <1>2, <2>1, <3>3
      <4> QED
        BY <2>5, <3>1, <4>1 DEF G
    <3> QED
      BY <1>2, <3>2, <3>3
  <2> QED
    BY <2>3, <2>6, <2>7
<1>5. n < Len(p) \/ n >= Len(p)
  BY <1>2
<1> QED
  BY <1>3, <1>4, <1>5

LEMMA WaitingAt ==
    ASSUME IInv, NEW s \in Session, todo[s] # <<>>
    PROVE  Running(s) /\ At(PlanOf(s), held[s], Head(todo[s]))
<1>1. Running(s)
  BY DEF IInv, TypeOK
<1>2. PICK n \in Nat : Split(PlanOf(s), n, held[s], todo[s])
  BY <1>1 DEF IInv, OnPlan
<1>3. n + 1 <= Len(PlanOf(s)) /\ Head(todo[s]) = PlanOf(s)[n + 1]
  BY <1>2, SplitStep
<1>4. Len(PlanOf(s)) \in Nat /\ held[s] = {PlanOf(s)[i] : i \in 1 .. n}
  BY <1>2 DEF Split
<1>5. n < Len(PlanOf(s))
  BY <1>3, <1>4
<1> QED
  BY <1>1, <1>3, <1>4, <1>5 DEF At

\* Where a call made without the gate may stand: at a row, with nothing but
\* the registry, or past it.
AtRow(c, S, H, x) == /\ x = RowOf(c.g) /\ H = {Registry("RX")}
                     /\ c.op \in {"load", "lock", "unlock"} /\ c.g \in S

PastRow(c, S, H, x) ==
    \/ /\ c.op \in {"put", "load"}
       /\ x \in {Parent("RX"), PartOf(c.g, "RX")}
       /\ H \subseteq {Registry("RX"), RowOf(c.g), Parent("RX")}
       /\ RowOf(c.g) \in H => c.op = "load" /\ c.g \in S
    \/ /\ c.op = "clear"
       /\ x \in {PartOf(c.g, "AS"), PartOf(c.g, "AX")}
       /\ H \subseteq {Parent("AS"), PartOf(c.g, "AS")} /\ Parent("AS") \in H
    \/ /\ \/ c.op = "lock" /\ x = PartOf(c.g, "SRX")
          \/ c.op = "unlock" /\ x = PartOf(c.g, "AX")
       /\ H = {Registry("RX"), RowOf(c.g)} /\ c.g \in S

\* Where the gate's holder may stand: short of the parent, or with it or at a
\* partition that it only reads or writes.
Early(c, H) ==
    /\ Gate \in H
    /\ H \subseteq {Gate, Registry("SRX"), Registry("RX"), RowOf(c.g), Parent("AS"),
                    PartOf(c.g, "AS"), PartOf(c.d, "RX")}
    /\ RowOf(c.g) \in H => Registry("SRX") \in H
    /\ PartOf(c.g, "AS") \in H \/ PartOf(c.d, "RX") \in H => c.op \in {"drop", "move"}

AtNewRow(c, S, x) == \E y \in Named(c) :
    x = RowOf(y) /\ (y \notin S \/ (c.op \in {"drop", "move"} /\ y = c.g))

Late(c, S, H, x) ==
    /\ Gate \in H /\ c.op \in {"add", "bind", "rebind", "drop", "copy", "move"}
    /\ \/ \E y \in Named(c) : x = PartOf(y, "AS") \/ x = PartOf(y, "RX")
       \/ /\ Parent("AX") \in H
          /\ \/ x \in {Parent("AS"), Parent("AX"), Registry("RX")}
             \/ \E y \in Named(c) : x = PartOf(y, "AX")
             \/ c.op # "bind" /\ AtNewRow(c, S, x)

Stance(c, S, H, x) ==
    \/ H = {}
    \/ AtRow(c, S, H, x) /\ Gate \notin H
    \/ PastRow(c, S, H, x)
    \/ Early(c, H)
    \/ Late(c, S, H, x)

\* The bodies, lock by lock.
LEMMA AddAt ==
    ASSUME NEW g \in Graph, NEW S, NEW G, NEW x, At(AddBody(g, S), G, x)
    PROVE  /\ g \notin S
           /\ \/ G = {}
              \/ /\ Parent("AX") \in G
                 /\ x \in {PartOf(g, "AX"), Registry("RX"), RowOf(g)}
<1>1. g \notin S /\ At(CreatePartition(g) \o WriteRow(g), G, x)
  BY AtTuples DEF AddBody
<1>2. \/ At(CreatePartition(g), G, x)
      \/ \E F : At(WriteRow(g), F, x) /\ G = Asked(CreatePartition(g)) \cup F
  <2>1. WriteRow(g) \in Seq(Lock) /\ CreatePartition(g) \in Seq(Lock)
    BY BodiesTyped
  <2> QED
    BY <1>1, <2>1, AtCat
<1>3. Parent("AX") \in Asked(CreatePartition(g))
  BY AskedTuples DEF CreatePartition
<1>4. CASE At(CreatePartition(g), G, x)
  <2>1. (G = {} /\ x = Parent("AX")) \/ (G = {Parent("AX")} /\ x = PartOf(g, "AX"))
    BY <1>4, AtTuples DEF CreatePartition
  <2> QED
    BY <1>1, <2>1
<1>5. ASSUME NEW F, At(WriteRow(g), F, x), G = Asked(CreatePartition(g)) \cup F
      PROVE  Parent("AX") \in G /\ x \in {Registry("RX"), RowOf(g)}
  <2>1. x = Registry("RX") \/ x = RowOf(g)
    BY <1>5, AtTuples DEF WriteRow
  <2> QED
    BY <1>3, <1>5, <2>1
<1> QED
  BY <1>1, <1>2, <1>4, <1>5

LEMMA BindAt ==
    ASSUME NEW g \in Graph, NEW S, NEW G, NEW x, At(BindBody(g, S), G, x)
    PROVE  \/ G \subseteq {Registry("RX"), RowOf(g)}
           \/ Parent("AX") \in G /\ x = PartOf(g, "AX")
<1>1. g \notin S /\ At(WriteRow(g) \o CreatePartition(g), G, x)
  BY AtTuples DEF BindBody
<1>2. \/ At(WriteRow(g), G, x)
      \/ \E F : At(CreatePartition(g), F, x) /\ G = Asked(WriteRow(g)) \cup F
  <2>1. WriteRow(g) \in Seq(Lock) /\ CreatePartition(g) \in Seq(Lock)
    BY BodiesTyped
  <2> QED
    BY <1>1, <2>1, AtCat
<1>3. Asked(WriteRow(g)) = {Registry("RX"), RowOf(g)}
  BY AskedTuples DEF WriteRow
<1>4. CASE At(WriteRow(g), G, x)
  <2>1. G = {} \/ G = {Registry("RX")}
    BY <1>4, AtTuples DEF WriteRow
  <2> QED
    BY <2>1
<1>5. ASSUME NEW F, At(CreatePartition(g), F, x), G = Asked(WriteRow(g)) \cup F
      PROVE  \/ G \subseteq {Registry("RX"), RowOf(g)}
             \/ Parent("AX") \in G /\ x = PartOf(g, "AX")
  <2>1. F = {} \/ (F = {Parent("AX")} /\ x = PartOf(g, "AX"))
    BY <1>5, AtTuples DEF CreatePartition
  <2> QED
    BY <1>3, <1>5, <2>1
<1> QED
  BY <1>2, <1>4, <1>5

LEMMA RebindAt ==
    ASSUME NEW g \in Graph, NEW S, NEW G, NEW x, At(RebindBody(g, S), G, x)
    PROVE  \/ G \subseteq {Registry("RX"), RowOf(g)}
           \/ Parent("AX") \in G /\ x = PartOf(g, "AX")
<1>1. CASE g \in S
  <2>1. G = {} \/ G = {Registry("RX")}
    BY <1>1, AtTuples DEF RebindBody, WriteRow
  <2> QED
    BY <2>1
<1>2. CASE g \notin S
  BY <1>2, BindAt DEF RebindBody
<1> QED
  BY <1>1, <1>2

LEMMA DropAt ==
    ASSUME NEW g \in Graph, NEW S, NEW G, NEW x, At(DropBody(g, S), G, x)
    PROVE  \/ /\ G \subseteq {Registry("RX")} /\ x # PartOf(g, "AS")
              /\ g \notin S /\ x \in {Registry("RX"), RowOf(g)}
           \/ /\ G \subseteq {Parent("AS"), PartOf(g, "AS")}
              /\ x \in {Parent("AS"), PartOf(g, "AS"), Parent("AX")}
           \/ /\ Parent("AX") \in G
              /\ x \in {PartOf(g, "AX"), Registry("RX"), RowOf(g)}
<1> DEFINE q == <<Parent("AS"), PartOf(g, "AS"), Parent("AX"), PartOf(g, "AX")>>
<1>1. q \in Seq(Lock) /\ Parent("AX") \in Asked(q)
  BY Locks, AskedTuples
<1>2. CASE g \notin S
  <2>1. (G = {} /\ x = Registry("RX")) \/ (G = {Registry("RX")} /\ x = RowOf(g))
    BY <1>2, AtTuples DEF DropBody, WriteRow
  <2>2. Registry("RX") # PartOf(g, "AS") /\ RowOf(g) # PartOf(g, "AS")
    BY DEF Registry, PartOf, RowOf
  <2> QED
    BY <1>2, <2>1, <2>2
<1>3. CASE g \in S
  <2>1. DropBody(g, S) = q \o WriteRow(g)
    BY <1>3 DEF DropBody
  <2>2. At(q, G, x) =>
           \/ (G = {} /\ x = Parent("AS"))
           \/ (G = {Parent("AS")} /\ x = PartOf(g, "AS"))
           \/ (G = {Parent("AS"), PartOf(g, "AS")} /\ x = Parent("AX"))
           \/ (G = {Parent("AS"), PartOf(g, "AS"), Parent("AX")} /\ x = PartOf(g, "AX"))
    BY AtFour
  <2> HIDE DEF q
  <2>3. \/ At(q, G, x)
        \/ \E F : At(WriteRow(g), F, x) /\ G = Asked(q) \cup F
    <3>1. WriteRow(g) \in Seq(Lock)
      BY BodiesTyped
    <3> QED
      BY <1>1, <2>1, <3>1, AtCat
  <2>4. ASSUME NEW F, At(WriteRow(g), F, x), G = Asked(q) \cup F
        PROVE  Parent("AX") \in G /\ x \in {Registry("RX"), RowOf(g)}
    <3>1. x = Registry("RX") \/ x = RowOf(g)
      BY <2>4, AtTuples DEF WriteRow
    <3> QED
      BY <1>1, <2>4, <3>1
  <2> QED
    BY <2>2, <2>3, <2>4
<1> QED
  BY <1>2, <1>3

LEMMA CopyAt ==
    ASSUME NEW g \in Graph, NEW d \in Graph, NEW S, NEW G, NEW x, At(CopyBody(g, d, S), G, x)
    PROVE  \/ G = {}
           \/ x \in {PartOf(g, "AS"), PartOf(d, "RX")}
           \/ /\ Parent("AX") \in G /\ d \notin S
              /\ x \in {PartOf(d, "AX"), Registry("RX"), RowOf(d)}
<1> DEFINE q == <<PartOf(g, "AS"), PartOf(d, "RX")>>
<1>1. q \in Seq(Lock)
  BY Locks
<1>2. At(AddBody(d, S) \o q, G, x)
  BY AtTuples DEF CopyBody
<1>3. ASSUME NEW F, At(q, F, x) PROVE x \in {PartOf(g, "AS"), PartOf(d, "RX")}
  BY <1>3, AtTuples
<1> HIDE DEF q
<1>4. At(AddBody(d, S), G, x) \/ \E F : At(q, F, x)
  BY <1>1, <1>2, AtCat, BodiesTyped
<1> QED
  BY <1>3, <1>4, AddAt

\* All of a copy: with the parent if it makes its destination.
LEMMA CopyAsks ==
    ASSUME NEW g \in Graph, NEW d \in Graph, NEW S, g \in S
    PROVE  \/ Parent("AX") \in Asked(CopyBody(g, d, S))
           \/ Asked(CopyBody(g, d, S)) = {PartOf(g, "AS"), PartOf(d, "RX")}
<1> DEFINE q == <<PartOf(g, "AS"), PartOf(d, "RX")>>
<1>1. q \in Seq(Lock) /\ Asked(q) = {PartOf(g, "AS"), PartOf(d, "RX")}
  BY Locks, AskedTuples
<1>2. CopyBody(g, d, S) = AddBody(d, S) \o q
  BY DEF CopyBody
<1> HIDE DEF q
<1>3. Asked(CopyBody(g, d, S)) = Asked(AddBody(d, S)) \cup Asked(q)
  BY <1>1, <1>2, AskedCat, BodiesTyped
<1>4. CASE d \in S
  BY <1>1, <1>3, <1>4, AskedTuples DEF AddBody
<1>5. CASE d \notin S
  <2>1. Parent("AX") \in Asked(CreatePartition(d))
    BY AskedTuples DEF CreatePartition
  <2>2. Parent("AX") \in Asked(AddBody(d, S))
    BY <1>5, <2>1, AskedCat, BodiesTyped DEF AddBody
  <2> QED
    BY <1>3, <2>2
<1> QED
  BY <1>4, <1>5

LEMMA MoveAt ==
    ASSUME NEW g \in Graph, NEW d \in Graph, NEW S, NEW G, NEW x, At(MoveBody(g, d, S), G, x)
    PROVE  \/ G \subseteq {Parent("AS"), PartOf(g, "AS"), PartOf(d, "RX")}
           \/ x \in {PartOf(g, "AS"), PartOf(d, "RX")}
           \/ /\ Parent("AX") \in G
              /\ \/ x \in {Parent("AS"), Parent("AX"), Registry("RX"), RowOf(g)}
                 \/ x \in {PartOf(g, "AX"), PartOf(d, "AX")}
                 \/ d \notin S /\ x = RowOf(d)
<1>1. g \in S /\ At(CopyBody(g, d, S) \o DropBody(g, S), G, x)
  BY AtTuples DEF MoveBody
<1>2. CopyBody(g, d, S) \in Seq(Lock) /\ DropBody(g, S) \in Seq(Lock)
  BY BodiesTyped, CopiesTyped
<1>3. \/ At(CopyBody(g, d, S), G, x)
      \/ \E F : At(DropBody(g, S), F, x) /\ G = Asked(CopyBody(g, d, S)) \cup F
  BY <1>1, <1>2, AtCat
<1>4. CASE At(CopyBody(g, d, S), G, x)
  BY <1>4, CopyAt
<1>5. ASSUME NEW F, At(DropBody(g, S), F, x), G = Asked(CopyBody(g, d, S)) \cup F
      PROVE  \/ G \subseteq {Parent("AS"), PartOf(g, "AS"), PartOf(d, "RX")}
             \/ x \in {PartOf(g, "AS"), PartOf(d, "RX")}
             \/ /\ Parent("AX") \in G
                /\ \/ x \in {Parent("AS"), Parent("AX"), Registry("RX"), RowOf(g)}
                   \/ x \in {PartOf(g, "AX"), PartOf(d, "AX")}
                   \/ d \notin S /\ x = RowOf(d)
  <2>1. \/ /\ F \subseteq {Parent("AS"), PartOf(g, "AS")}
           /\ x \in {Parent("AS"), PartOf(g, "AS"), Parent("AX")}
        \/ /\ Parent("AX") \in F
           /\ x \in {PartOf(g, "AX"), Registry("RX"), RowOf(g)}
    BY <1>1, <1>5, DropAt
  <2>2. \/ Parent("AX") \in Asked(CopyBody(g, d, S))
        \/ Asked(CopyBody(g, d, S)) = {PartOf(g, "AS"), PartOf(d, "RX")}
    BY <1>1, CopyAsks
  <2> QED
    BY <1>5, <2>1, <2>2
<1> QED
  BY <1>3, <1>4, <1>5

\* Locks of different kinds differ.
LEMMA Kinds ==
    /\ Gate[1] = "gate"
    /\ \A m : Registry(m)[1] = "graphs" /\ Parent(m)[1] = "quads"
    /\ \A m : Registry(m)[3] = m /\ Parent(m)[3] = m
    /\ \A g : RowOf(g)[1] = "row" /\ RowOf(g)[2] = g
    /\ \A g, m : PartOf(g, m)[1] = "part" /\ PartOf(g, m)[2] = g /\ PartOf(g, m)[3] = m
BY DEF Gate, Registry, Parent, RowOf, PartOf

LEMMA Differ ==
    ASSUME NEW g, NEW h, NEW m, NEW k
    PROVE  /\ RowOf(g) # Gate /\ RowOf(g) # Parent(m) /\ RowOf(g) # PartOf(h, m)
           /\ RowOf(g) # Registry(m)
           /\ PartOf(g, m) # Gate /\ PartOf(g, m) # Registry(k) /\ PartOf(g, m) # Parent(k)
BY Kinds

LEMMA FirstStance ==
    ASSUME NEW c \in Request, NEW H, NEW x, At(First(c), H, x)
    PROVE  H = {} \/ Early(c, H)
<1>1. CASE c.op = "rebind"
  <2>1. H = {} \/ H = {Gate}
    BY <1>1, AtTuples DEF First
  <2>2. H = {Gate} => Early(c, H)
    BY Differ DEF Early
  <2> QED
    BY <2>1, <2>2
<1>2. CASE c.op # "rebind"
  <2>1. First(c) = <<>> \/ First(c) = <<Gate>> \/ First(c) = <<Parent("RX")>>
    BY <1>2 DEF First
  <2>2. H = {}
    <3>1. CASE First(c) = <<>>
      BY <3>1, AtTuples
    <3>2. ASSUME NEW a, At(<<a>>, H, x) PROVE H = {}
      BY <3>2, AtTuples
    <3>3. CASE First(c) = <<Gate>>
      BY <3>2, <3>3, Zenon
    <3>4. CASE First(c) = <<Parent("RX")>>
      BY <3>2, <3>4, Zenon
    <3> QED
      BY <2>1, <3>1, <3>3, <3>4
  <2> QED
    BY <2>2
<1> QED
  BY <1>1, <1>2

\* The gated calls, with the gate in hand.
LEMMA GatedStance ==
    ASSUME NEW c \in Request, NEW S, NEW G, NEW x,
           c.op \in {"add", "drop", "copy", "move"}, At(Second(c, S), G, x)
    PROVE  Stance(c, S, {Gate} \cup G, x)
<1>1. c.g \in Graph /\ c.d \in Graph /\ c.g \in Named(c) /\ c.d \in Named(c)
  BY DEF Request, Named
<1> DEFINE H == {Gate} \cup G
<1>2. ASSUME G \subseteq {Registry("RX"), Parent("AS"), PartOf(c.g, "AS"), PartOf(c.d, "RX")},
             PartOf(c.g, "AS") \in G \/ PartOf(c.d, "RX") \in G => c.op \in {"drop", "move"}
      PROVE  Stance(c, S, H, x)
  <2>1. RowOf(c.g) \notin H
    BY <1>2, Differ
  <2>2. PartOf(c.g, "AS") # Gate /\ PartOf(c.d, "RX") # Gate
    BY Differ
  <2> QED
    BY <1>2, <2>1, <2>2 DEF Stance, Early
<1>3. CASE c.op = "add"
  <2>1. \/ G = {}
        \/ /\ Parent("AX") \in G /\ c.g \notin S
           /\ x \in {PartOf(c.g, "AX"), Registry("RX"), RowOf(c.g)}
    BY <1>1, <1>3, AddAt DEF Second
  <2>2. G # {} => Late(c, S, H, x)
    BY <1>1, <1>3, <2>1 DEF Late, AtNewRow
  <2> QED
    BY <1>2, <2>1, <2>2 DEF Stance
<1>4. CASE c.op = "drop"
  <2>1. \/ G \subseteq {Registry("RX")}
        \/ G \subseteq {Parent("AS"), PartOf(c.g, "AS")}
        \/ /\ Parent("AX") \in G
           /\ x \in {PartOf(c.g, "AX"), Registry("RX"), RowOf(c.g)}
    BY <1>1, <1>4, DropAt DEF Second
  <2>2. CASE /\ Parent("AX") \in G
             /\ x \in {PartOf(c.g, "AX"), Registry("RX"), RowOf(c.g)}
    BY <1>1, <1>4, <2>2 DEF Stance, Late, AtNewRow
  <2> QED
    BY <1>2, <1>4, <2>1, <2>2
<1>5. CASE c.op = "copy"
  <2>1. \/ G = {}
        \/ x \in {PartOf(c.g, "AS"), PartOf(c.d, "RX")}
        \/ /\ Parent("AX") \in G /\ c.d \notin S
           /\ x \in {PartOf(c.d, "AX"), Registry("RX"), RowOf(c.d)}
    BY <1>1, <1>5, CopyAt DEF Second
  <2>2. G # {} => Late(c, S, H, x)
    BY <1>1, <1>5, <2>1 DEF Late, AtNewRow
  <2> QED
    BY <1>2, <2>1, <2>2 DEF Stance
<1>6. CASE c.op = "move"
  <2>1. \/ G \subseteq {Parent("AS"), PartOf(c.g, "AS"), PartOf(c.d, "RX")}
        \/ x \in {PartOf(c.g, "AS"), PartOf(c.d, "RX")}
        \/ /\ Parent("AX") \in G
           /\ \/ x \in {Parent("AS"), Parent("AX"), Registry("RX"), RowOf(c.g)}
              \/ x \in {PartOf(c.g, "AX"), PartOf(c.d, "AX")}
              \/ c.d \notin S /\ x = RowOf(c.d)
    BY <1>1, <1>6, MoveAt DEF Second
  <2>2. CASE x \in {PartOf(c.g, "AS"), PartOf(c.d, "RX")}
    BY <1>1, <1>6, <2>2 DEF Stance, Late
  <2>3. CASE /\ Parent("AX") \in G
             /\ \/ x \in {Parent("AS"), Parent("AX"), Registry("RX"), RowOf(c.g)}
                \/ x \in {PartOf(c.g, "AX"), PartOf(c.d, "AX")}
                \/ c.d \notin S /\ x = RowOf(c.d)
    BY <1>1, <1>6, <2>3 DEF Stance, Late, AtNewRow
  <2> QED
    BY <1>2, <1>6, <2>1, <2>2, <2>3
<1> QED
  BY <1>3, <1>4, <1>5, <1>6

\* add_graph(id, iri) and add_graph(iri) hold the whole registry as well.
LEMMA RegistryStance ==
    ASSUME NEW c \in Request, NEW S, NEW G, NEW x, c.op \in {"bind", "rebind"},
           \/ G \subseteq {Registry("RX"), RowOf(c.g)}
           \/ Parent("AX") \in G /\ x = PartOf(c.g, "AX")
    PROVE  Stance(c, S, {Gate, Registry("SRX")} \cup G, x)
<1> DEFINE H == {Gate, Registry("SRX")} \cup G
<1>1. CASE G \subseteq {Registry("RX"), RowOf(c.g)}
  <2>1. PartOf(c.g, "AS") \notin H /\ PartOf(c.d, "RX") \notin H
    BY <1>1, Differ
  <2> QED
    BY <1>1, <2>1 DEF Stance, Early
<1>2. CASE Parent("AX") \in G /\ x = PartOf(c.g, "AX")
  BY <1>2 DEF Stance, Late, Named
<1> QED
  BY <1>1, <1>2

\* The calls made without the gate.
LEMMA UngatedStance ==
    ASSUME NEW c \in Request, NEW S, NEW H, NEW x,
           c.op \in {"put", "load", "clear", "lock", "unlock"},
           At(First(c) \o Second(c, S), H, x)
    PROVE  Stance(c, S, H, x)
<1> DEFINE g == c.g
<1>1. g \in Graph
  BY DEF Request
<1>2. Asked(WriteRow(g)) = {Registry("RX"), RowOf(g)}
  BY AskedTuples DEF WriteRow
<1>3. Gate \notin {Registry("RX")} /\ RowOf(g) \notin {Registry("RX"), Parent("RX")}
  BY Differ, Kinds
<1>4. ASSUME NEW F, At(WriteRow(g), F, x), g \in S, c.op \in {"load", "lock", "unlock"}
      PROVE  Stance(c, S, F, x)
  <2>1. F = {} \/ (F = {Registry("RX")} /\ x = RowOf(g))
    BY <1>4, AtTuples DEF WriteRow
  <2> QED
    BY <1>3, <1>4, <2>1 DEF Stance, AtRow
<1>5. CASE c.op = "put"
  <2> DEFINE p == <<Parent("RX")>>
  <2>1. p \in Seq(Lock) /\ RouteTo(g, S) \in Seq(Lock) /\ Asked(p) = {Parent("RX")}
    BY <1>1, Locks, BodiesTyped, AskedTuples
  <2>2. At(p \o RouteTo(g, S), H, x)
    BY <1>5 DEF First, Second
  <2>3. At(p, H, x) => H = {}
    BY AtTuples
  <2> HIDE DEF p
  <2>4. \/ At(p, H, x)
        \/ \E G : At(RouteTo(g, S), G, x) /\ H = Asked(p) \cup G
    BY <2>1, <2>2, AtCat
  <2>5. ASSUME NEW G, At(RouteTo(g, S), G, x), H = Asked(p) \cup G PROVE Stance(c, S, H, x)
    <3>1. G = {} /\ x = PartOf(g, "RX")
      BY <2>5, AtTuples DEF RouteTo
    <3>2. H = {Parent("RX")}
      BY <2>1, <2>5, <3>1
    <3> QED
      BY <1>3, <1>5, <3>1, <3>2 DEF Stance, PastRow
  <2> QED
    BY <2>3, <2>4, <2>5 DEF Stance
<1>6. CASE c.op \in {"lock", "unlock"}
  <2> DEFINE q == IF c.op = "lock" THEN <<PartOf(g, "SRX")>> ELSE <<PartOf(g, "AX")>>
  <2>1. q \in Seq(Lock) /\ WriteRow(g) \in Seq(Lock)
    BY <1>1, Locks, BodiesTyped
  <2>2. ASSUME NEW G, At(q, G, x)
        PROVE  G = {} /\ x = IF c.op = "lock" THEN PartOf(g, "SRX") ELSE PartOf(g, "AX")
    <3>1. CASE c.op = "lock"
      BY <2>2, <3>1, AtTuples
    <3>2. CASE c.op # "lock"
      BY <2>2, <3>2, AtTuples
    <3> QED
      BY <3>1, <3>2
  <2>3. Second(c, S) = IF g \in S THEN WriteRow(g) \o q ELSE <<>>
    BY <1>6 DEF Second, LockBody, UnlockBody
  <2> HIDE DEF q
  <2>4. Second(c, S) \in Seq(Lock) /\ First(c) = <<>>
    BY <1>6, StagesTyped DEF First
  <2>5. At(Second(c, S), H, x)
    <3>1. First(c) \o Second(c, S) = Second(c, S)
      BY <2>4
    <3> QED
      BY <3>1
  <2>6. g \in S /\ At(WriteRow(g) \o q, H, x)
    BY <2>3, <2>5, AtTuples
  <2>7. \/ At(WriteRow(g), H, x)
        \/ \E G : At(q, G, x) /\ H = Asked(WriteRow(g)) \cup G
    BY <2>1, <2>6, AtCat
  <2>8. ASSUME NEW G, At(q, G, x), H = Asked(WriteRow(g)) \cup G PROVE Stance(c, S, H, x)
    <3>1. H = {Registry("RX"), RowOf(g)}
      BY <1>2, <2>2, <2>8
    <3> QED
      BY <1>6, <2>2, <2>6, <2>8, <3>1 DEF Stance, PastRow
  <2> QED
    BY <1>4, <1>6, <2>6, <2>7, <2>8
<1>7. CASE c.op = "clear"
  <2>1. Second(c, S) \in Seq(Lock) /\ First(c) = <<>> /\ Second(c, S) = ClearBody(g, S)
    BY <1>7, StagesTyped DEF First, Second
  <2>2. At(ClearBody(g, S), H, x)
    <3>1. First(c) \o Second(c, S) = Second(c, S)
      BY <2>1
    <3> QED
      BY <2>1, <3>1
  <2>3. \/ H = {}
        \/ H = {Parent("AS")} /\ x = PartOf(g, "AS")
        \/ H = {Parent("AS"), PartOf(g, "AS")} /\ x = PartOf(g, "AX")
    <3>1. At(<<Parent("AS"), PartOf(g, "AS"), PartOf(g, "AX")>>, H, x)
      BY <2>2, AtTuples DEF ClearBody
    <3> QED
      BY <3>1, AtThree
  <2> QED
    BY <1>7, <2>3 DEF Stance, PastRow
<1>8. CASE c.op = "load"
  <2> DEFINE r == <<Registry("RX")>>
             p == <<Parent("RX")>>
             w == IF g \in S THEN WriteRow(g) ELSE r
  <2>1. p \in Seq(Lock) /\ w \in Seq(Lock) /\ RouteTo(g, S) \in Seq(Lock)
    BY <1>1, Locks, BodiesTyped
  <2>2. Asked(p) = {Parent("RX")} /\ Asked(r) = {Registry("RX")}
    BY AskedTuples
  <2>3. /\ \A F : At(p, F, x) => F = {} /\ x = Parent("RX")
        /\ \A F : At(r, F, x) => F = {}
    BY AtTuples
  <2>4. Second(c, S) = (w \o p) \o RouteTo(g, S)
    BY <1>8 DEF Second, LoadBody
  <2> HIDE DEF p, r
  <2>5. Second(c, S) \in Seq(Lock) /\ First(c) = <<>>
    BY <1>8, StagesTyped DEF First
  <2>6. At((w \o p) \o RouteTo(g, S), H, x)
    <3>1. First(c) \o Second(c, S) = Second(c, S)
      BY <2>5
    <3> QED
      BY <2>4, <3>1
  <2>7. /\ Asked(w) = IF g \in S THEN {Registry("RX"), RowOf(g)} ELSE {Registry("RX")}
        /\ At(w, H, x) => Stance(c, S, H, x)
    BY <1>2, <1>4, <1>8, <2>2, <2>3 DEF Stance
  <2> HIDE DEF w
  <2> DEFINE wp == w \o p
  <2>8. wp \in Seq(Lock) /\ Asked(wp) = Asked(w) \cup {Parent("RX")}
    BY <2>1, <2>2, AskedCat
  <2>9. \/ At(w \o p, H, x)
        \/ \E F : At(RouteTo(g, S), F, x) /\ H = Asked(wp) \cup F
    <3>1. At(wp \o RouteTo(g, S), H, x)
      BY <2>6
    <3> HIDE DEF wp
    <3>2. At(wp, H, x) \/ \E F : At(RouteTo(g, S), F, x) /\ H = Asked(wp) \cup F
      BY <2>1, <2>8, <3>1, AtCat
    <3> QED
      BY <3>2 DEF wp
  <2>10. CASE At(w \o p, H, x)
    <3>1. At(w, H, x) \/ \E F : At(p, F, x) /\ H = Asked(w) \cup F
      BY <2>1, <2>10, AtCat
    <3>2. ASSUME NEW F, At(p, F, x), H = Asked(w) \cup F PROVE Stance(c, S, H, x)
      <4>1. H = Asked(w) /\ x = Parent("RX")
        BY <2>3, <3>2
      <4> QED
        BY <1>3, <1>8, <2>7, <4>1 DEF Stance, PastRow
    <3> QED
      BY <2>7, <3>1, <3>2
  <2>11. ASSUME NEW F, At(RouteTo(g, S), F, x), H = Asked(wp) \cup F
         PROVE  Stance(c, S, H, x)
    <3>1. F = {} /\ x = PartOf(g, "RX") /\ g \in S
      <4>1. g \in S /\ At(<<PartOf(g, "RX")>>, F, x)
        BY <2>11, AtTuples DEF RouteTo
      <4> QED
        BY <4>1, AtTuples, Zenon
    <3>2. H = {Registry("RX"), RowOf(g), Parent("RX")}
      BY <2>7, <2>8, <2>11, <3>1
    <3> QED
      BY <1>8, <3>1, <3>2 DEF Stance, PastRow
  <2> QED
    BY <2>9, <2>10, <2>11
<1> QED
  BY <1>5, <1>6, <1>7, <1>8

\* A plan that starts with the gate.
LEMMA FromGate ==
    ASSUME NEW c \in Request, NEW S, NEW H, NEW x,
           c.op \in GatedOps \cup {"bind"},
           At(First(c) \o Second(c, S), H, x)
    PROVE  Stance(c, S, H, x)
<1> DEFINE one == <<Gate>>
           two == <<Gate, Registry("SRX")>>
<1>1. /\ one \in Seq(Lock) /\ two \in Seq(Lock)
      /\ Asked(one) = {Gate} /\ Asked(two) = {Gate, Registry("SRX")}
  BY Locks, AskedTuples
<1>2. ASSUME NEW F, At(one, F, x) PROVE F = {}
  BY <1>2, AtTuples
<1>3. ASSUME NEW F, At(two, F, x) PROVE F = {} \/ F = {Gate}
  BY <1>3, AtTuples
<1>4. Early(c, {Gate})
  BY Differ DEF Early
<1>5. First(c) \in Seq(Lock) /\ Second(c, S) \in Seq(Lock)
  BY StagesTyped
<1>6. CASE c.op \in {"add", "drop", "copy", "move"}
  <2>1. First(c) = one
    BY <1>6 DEF First
  <2> HIDE DEF one, two
  <2>2. At(one, H, x) \/ \E G : At(Second(c, S), G, x) /\ H = Asked(one) \cup G
    BY <1>1, <1>5, <2>1, AtCat
  <2> QED
    BY <1>1, <1>2, <1>6, <2>2, GatedStance DEF Stance
<1>7. CASE c.op = "rebind"
  <2>1. First(c) = two /\ Second(c, S) = RebindBody(c.g, S) /\ c.g \in Graph
    BY <1>7 DEF First, Second, Request
  <2> HIDE DEF one, two
  <2>2. At(two, H, x) \/ \E G : At(RebindBody(c.g, S), G, x) /\ H = Asked(two) \cup G
    BY <1>1, <1>5, <2>1, AtCat
  <2>3. ASSUME NEW G, At(RebindBody(c.g, S), G, x), H = Asked(two) \cup G
        PROVE  Stance(c, S, H, x)
    <3>1. \/ G \subseteq {Registry("RX"), RowOf(c.g)}
          \/ Parent("AX") \in G /\ x = PartOf(c.g, "AX")
      BY <2>1, <2>3, RebindAt
    <3>2. Stance(c, S, {Gate, Registry("SRX")} \cup G, x)
      BY <1>7, <3>1, RegistryStance
    <3> QED
      BY <1>1, <2>3, <3>2
  <2> QED
    BY <1>3, <1>4, <2>2, <2>3 DEF Stance
<1>8. CASE c.op = "bind"
  <2>1. First(c) \o Second(c, S) = Second(c, S)
    BY <1>5, <1>8 DEF First
  <2>2. Second(c, S) = <<>> \/ Second(c, S) = two
    BY <1>8 DEF Second, Resolve
  <2>3. ~At(<<>>, H, x)
    BY AtTuples
  <2> HIDE DEF one, two
  <2> QED
    BY <1>3, <1>4, <2>1, <2>2, <2>3 DEF Stance
<1> QED
  BY <1>6, <1>7, <1>8 DEF GatedOps

LEMMA BoundStance ==
    ASSUME NEW c \in Request, NEW S, NEW H, NEW x, c.op = "bind",
           At((First(c) \o Second(c, {})) \o Third(c, S, TRUE), H, x)
    PROVE  Stance(c, S, H, x)
<1> DEFINE two == <<Gate, Registry("SRX")>>
<1>1. two \in Seq(Lock) /\ Asked(two) = {Gate, Registry("SRX")}
  BY Locks, AskedTuples
<1>2. ASSUME NEW F, At(two, F, x) PROVE F = {} \/ F = {Gate}
  BY <1>2, AtTuples
<1>3. Early(c, {Gate})
  BY Differ DEF Early
<1>4. c.g \in Graph /\ Third(c, S, TRUE) = BindBody(c.g, S) /\ BindBody(c.g, S) \in Seq(Lock)
  BY BodiesTyped DEF Request, Third
<1>5. First(c) \o Second(c, {}) = two
  <2>1. First(c) = <<>> /\ Second(c, {}) = two
    BY DEF First, Second, Resolve
  <2> HIDE DEF two
  <2> QED
    BY <1>1, <2>1
<1> HIDE DEF two
<1>6. At(two, H, x) \/ \E G : At(BindBody(c.g, S), G, x) /\ H = Asked(two) \cup G
  <2>1. At(two \o BindBody(c.g, S), H, x)
    BY <1>4, <1>5
  <2> QED
    BY <1>1, <1>4, <2>1, AtCat
<1>7. ASSUME NEW G, At(BindBody(c.g, S), G, x), H = Asked(two) \cup G
      PROVE  Stance(c, S, H, x)
  <2>1. \/ G \subseteq {Registry("RX"), RowOf(c.g)}
        \/ Parent("AX") \in G /\ x = PartOf(c.g, "AX")
    BY <1>4, <1>7, BindAt
  <2>2. Stance(c, S, {Gate, Registry("SRX")} \cup G, x)
    BY <2>1, RegistryStance
  <2> QED
    BY <1>1, <1>7, <2>2
<1> QED
  BY <1>2, <1>3, <1>6, <1>7 DEF Stance

\* Every waiting session takes a stance.
LEMMA StanceOf ==
    ASSUME IInv, NEW s \in Session, call[s].op # "dataset", todo[s] # <<>>
    PROVE  /\ Running(s) /\ call[s] \in Request
           /\ \/ held[s] = {} \/ Early(call[s], held[s])
              \/ phase[s] > 0 /\ Stance(call[s], seen[s], held[s], Head(todo[s]))
<1> DEFINE c == call[s]
           S == seen[s]
           H == held[s]
           x == Head(todo[s])
<1>1. Running(s) /\ c \in Request /\ At(PlanOf(s), H, x) /\ phase[s] \in 0 .. 2
  BY WaitingAt, RunningTyped DEF IInv, TypeOK, Finished
<1>2. c.op \in GatedOps \cup {"bind"} \/ c.op \in {"put", "load", "clear", "lock", "unlock"}
  BY <1>1 DEF Request, Op, GatedOps
<1>3. CASE phase[s] = 0
  <2>1. PlanOf(s) = First(c)
    BY <1>3 DEF PlanOf, Plan
  <2>2. H = {} \/ Early(c, H)
    BY <1>1, <2>1, FirstStance
  <2> QED
    BY <1>1, <2>2
<1>4. CASE phase[s] = 2 /\ Gate \in H /\ c.op = "bind"
  <2>1. PlanOf(s) = (First(c) \o Second(c, {})) \o Third(c, S, TRUE)
    <3>1. ~(2 = 0)
      OBVIOUS
    <3> QED
      BY <1>4, <3>1, Zenon DEF PlanOf, Plan
  <2>2. phase[s] > 0
    BY <1>4
  <2> QED
    BY <1>1, <1>4, <2>1, <2>2, BoundStance
<1>5. CASE phase[s] # 0 /\ ~(phase[s] = 2 /\ Gate \in H /\ c.op = "bind")
  <2>1. PlanOf(s) = First(c) \o Second(c, S)
    BY <1>5, Zenon DEF PlanOf, Plan
  <2>2. phase[s] > 0
    BY <1>1, <1>5
  <2> QED
    BY <1>1, <1>2, <2>1, <2>2, FromGate, UngatedStance
<1> QED
  BY <1>3, <1>4, <1>5

-----------------------------------------------------------------------------
\* What keeping destruction apart adds.

\* Whoever names a graph to lock, load or clear it is not in the way of one who
\* destroys it, and the graph it found is still there.
Peaceful == \A s, t \in Session : s # t => ~Quarrel(call[s], call[t])
FoundStays == \A s \in Session :
    /\ call[s].op \in {"load", "clear", "lock", "unlock"} /\ phase[s] > 0
    /\ call[s].g \in seen[s]
    => call[s].g \in part
OnlyCalls == \A s \in Session : Running(s) => call[s].op \in Calls

ApartInv == Peaceful /\ FoundStays /\ OnlyCalls

LEMMA ApartStep ==
    ASSUME Apart, IInv, ApartInv, Next
    PROVE  ApartInv'
<1> USE DEF ApartInv
<1>1. ASSUME NEW s \in Session, Acquire(s) PROVE ApartInv'
  BY <1>1 DEF Acquire, Peaceful, FoundStays, OnlyCalls, Running
<1>2. ASSUME NEW s \in Session, Check(s) PROVE ApartInv'
  <2>1. Peaceful' /\ OnlyCalls' /\ UNCHANGED <<call, part>>
    BY <1>2 DEF Check, Peaceful, OnlyCalls, Running
  <2>2. \A t \in Session \ {s} : phase'[t] = phase[t] /\ seen'[t] = seen[t]
    BY <1>2 DEF Check, IInv, TypeOK
  <2>3. /\ seen'[s] = seen[s] \/ seen'[s] = part \cap Named(call[s])
        /\ phase[s] = 0 => seen'[s] = part \cap Named(call[s])
        /\ phase[s] \in 0 .. 2
    BY <1>2 DEF Check, IInv, TypeOK, Finished
  <2>4. (call[s].op \in {"load", "clear", "lock", "unlock"} /\ phase[s] > 0
            /\ call[s].g \in seen[s] => call[s].g \in part)'
    <3>1. CASE phase[s] = 0
      BY <2>1, <2>3, <3>1
    <3>2. CASE phase[s] > 0
      BY <2>1, <2>3, <3>2 DEF FoundStays
    <3> QED
      BY <2>3, <3>1, <3>2
  <2> QED
    BY <2>1, <2>2, <2>4 DEF FoundStays
<1>3. ASSUME NEW s \in Session, EndTxn(s),
             \A t \in Session \ {s} :
                call[t].op \in {"load", "clear", "lock", "unlock"} =>
                   (call[t].g \in part => call[t].g \in part')
      PROVE  ApartInv'
  <2>1. /\ call'[s] = Idle
        /\ \A t \in Session \ {s} :
              call'[t] = call[t] /\ phase'[t] = phase[t] /\ seen'[t] = seen[t]
    BY <1>3 DEF EndTxn, IInv, TypeOK
  <2>2. Peaceful'
    BY <2>1 DEF Peaceful, Quarrel, Idle
  <2>3. FoundStays'
    BY <1>3, <2>1 DEF FoundStays, Idle
  <2>4. OnlyCalls'
    BY <2>1 DEF OnlyCalls, Running
  <2> QED
    BY <2>2, <2>3, <2>4
<1>4. ASSUME NEW s \in Session, Commit(s) PROVE ApartInv'
  <2>1. ASSUME NEW t \in Session \ {s}, call[t].op \in {"load", "clear", "lock", "unlock"},
               call[t].g \in part
        PROVE  call[t].g \in part'
    <3>1. CASE call[s].op \in {"drop", "move"}
      <4>1. call[t].op # "clear" \/ call[s].op \in {"drop", "move", "clear"}
        BY <3>1
      <4>2. call[t].g \notin Named(call[s])
        BY <2>1, <3>1 DEF Peaceful, Quarrel
      <4>3. call[t].g # call[s].g
        BY <4>2 DEF Named
      <4> QED
        BY <1>4, <2>1, <4>3 DEF Commit, Removed
    <3>2. CASE call[s].op \notin {"drop", "move"}
      BY <1>4, <2>1, <3>2 DEF Commit, Removed
    <3> QED
      BY <3>1, <3>2
  <2> QED
    BY <1>3, <1>4, <2>1 DEF Commit
<1>5. ASSUME NEW s \in Session, Abort(s) PROVE ApartInv'
  BY <1>3, <1>5 DEF Abort
<1>6. ASSUME NEW s \in Session, NEW c \in Request, Begin(s, c) PROVE ApartInv'
  <2>1. /\ call'[s] = c /\ c.op \in Calls /\ phase[s] = 0 /\ UNCHANGED <<phase, seen, part>>
        /\ \A t \in Session \ {s} : call'[t] = call[t]
    BY <1>6 DEF Begin, IInv, TypeOK
  <2>2. \A t \in Session : ~Quarrel(c, call[t]) /\ ~Quarrel(call[t], c)
    BY <1>6 DEF Begin, Admitted
  <2>3. Peaceful'
    BY <2>1, <2>2 DEF Peaceful
  <2>4. FoundStays'
    BY <2>1 DEF FoundStays
  <2>5. OnlyCalls'
    BY <2>1 DEF OnlyCalls, Running
  <2> QED
    BY <2>3, <2>4, <2>5
<1>7. ASSUME NEW s \in Session, NEW op \in Op, NEW g \in Graph, NEW d \in Graph,
             Begin(s, [op |-> op, g |-> g, d |-> d])
      PROVE  ApartInv'
  <2>1. [op |-> op, g |-> g, d |-> d] \in Request
    BY DEF Request
  <2> QED
    BY <1>6, <1>7, <2>1
<1> QED
  BY <1>1, <1>2, <1>4, <1>5, <1>7 DEF Next

-----------------------------------------------------------------------------
\* Who waits for whom.

LEMMA Conflicts ==
    ASSUME NEW x, NEW y, Conflict(x, y)
    PROVE  /\ x[1] = y[1] /\ x[2] = y[2]
           /\ \/ x[3] = "AX" \/ y[3] = "AX"
              \/ x[3] = "SRX" /\ y[3] \in {"SRX", "RX"}
              \/ x[3] = "RX" /\ y[3] = "SRX"
BY DEF Conflict, Clash

\* Of two waiting sessions, the one waited for is the further on.
OnRow(s) == Gate \notin held[s] /\ AtRow(call[s], seen[s], held[s], Head(todo[s]))
Beyond(s) == held[s] # {} /\ phase[s] > 0 /\ PastRow(call[s], seen[s], held[s], Head(todo[s]))
GateEarly(s) == Early(call[s], held[s])
GateLate(s) == phase[s] > 0 /\ Late(call[s], seen[s], held[s], Head(todo[s]))

LEMMA Stances ==
    ASSUME IInv, OnlyCalls, "dataset" \notin Calls, NEW s \in Session, todo[s] # <<>>
    PROVE  /\ Running(s) /\ call[s] \in Request
           /\ held[s] = {} \/ (OnRow(s) /\ phase[s] > 0) \/ Beyond(s) \/ GateEarly(s) \/ GateLate(s)
<1>1. Running(s) /\ call[s].op # "dataset"
  BY WaitingAt DEF OnlyCalls
<1> QED
  BY <1>1, StanceOf DEF Stance, OnRow, Beyond, GateEarly, GateLate

LEMMA OneGate ==
    ASSUME IInv, NEW s \in Session, NEW t \in Session, s # t,
           GateEarly(s) \/ GateLate(s)
    PROVE  ~GateEarly(t) /\ ~GateLate(t)
BY Gates DEF IInv, LocksAgree, GateEarly, GateLate, Early, Late

\* Nobody at a row waits for another there, or for an early gate holder.
LEMMA RowsWaitNot ==
    ASSUME IInv, NEW s \in Session, NEW t \in Session, s # t, OnRow(s),
           OnRow(t) \/ GateEarly(t)
    PROVE  ~Waits(s, t)
<1> DEFINE g == call[s].g
<1>1. Head(todo[s]) = RowOf(g) /\ Registry("RX") \in held[s]
  BY DEF OnRow, AtRow
<1>2. SUFFICES ASSUME NEW y \in held[t], Conflict(RowOf(g), y) PROVE FALSE
  BY <1>1 DEF Waits
<1>3. y[1] = "row"
  BY <1>2, Conflicts, Kinds
<1>4. CASE OnRow(t)
  BY <1>2, <1>3, <1>4, Kinds DEF OnRow, AtRow
<1>5. CASE GateEarly(t)
  <2>1. y = RowOf(call[t].g)
    BY <1>2, <1>3, <1>5, Kinds DEF GateEarly, Early
  <2>2. Registry("SRX") \in held[t]
    BY <1>2, <1>5, <2>1 DEF GateEarly, Early
  <2>3. Conflict(Registry("RX"), Registry("SRX"))
    BY DEF Conflict, Registry, Clash
  <2> QED
    BY <1>1, <2>2, <2>3 DEF IInv, LocksAgree
<1> QED
  BY <1>4, <1>5

\* Nobody beyond its row waits for another without the gate, or for an early
\* gate holder.
LEMMA BeyondWaitsNot ==
    ASSUME IInv, Peaceful, NEW s \in Session, NEW t \in Session, s # t, Beyond(s),
           OnRow(t) \/ Beyond(t) \/ GateEarly(t)
    PROVE  ~Waits(s, t)
<1> DEFINE g == call[s].g
           x == Head(todo[s])
<1>1. /\ ~Quarrel(call[t], call[s])
  BY DEF Peaceful
<1>2. SUFFICES ASSUME NEW y \in held[t], Conflict(x, y) PROVE FALSE
  BY DEF Waits
<1>3. /\ x[1] = y[1] /\ x[2] = y[2]
      /\ \/ x[3] = "AX" \/ y[3] = "AX"
         \/ x[3] = "SRX" /\ y[3] \in {"SRX", "RX"}
         \/ x[3] = "RX" /\ y[3] = "SRX"
  BY <1>2, Conflicts
<1>4. \/ x = Parent("RX")
      \/ x \in {PartOf(g, "RX"), PartOf(g, "AS")}
      \/ x = PartOf(g, "SRX") /\ call[s].op = "lock"
      \/ x = PartOf(g, "AX") /\ call[s].op \in {"clear", "unlock"}
  BY DEF Beyond, PastRow
<1> HIDE DEF x, g
<1>5. /\ y[1] \in {"quads", "part"} => y[3] \in {"AS", "RX"}
      /\ y[1] = "part" =>
            \/ y[2] = call[t].g /\ y[3] = "AS" /\ call[t].op \in {"clear", "drop", "move"}
            \/ y[2] = call[t].d /\ y[3] = "RX" /\ call[t].op \in {"drop", "move"}
  <2>1. CASE OnRow(t)
    BY <2>1, Kinds DEF OnRow, AtRow
  <2>2. CASE Beyond(t)
    BY <2>2, Kinds DEF Beyond, PastRow
  <2>3. CASE GateEarly(t)
    BY <2>3, Kinds DEF GateEarly, Early
  <2> QED
    BY <2>1, <2>2, <2>3
<1>6. CASE x = Parent("RX")
  BY <1>3, <1>5, <1>6, Kinds
<1>7. CASE x \in {PartOf(g, "RX"), PartOf(g, "AS")}
  BY <1>3, <1>5, <1>7, Kinds
<1>8. CASE /\ x \in {PartOf(g, "SRX"), PartOf(g, "AX")}
           /\ call[s].op \in {"lock", "clear", "unlock"}
  <2>1. y[1] = "part" /\ y[2] = g
    BY <1>3, <1>8, Kinds
  <2>2. call[t].op \in {"drop", "move", "clear"} /\ g \in Named(call[t])
    BY <1>5, <2>1 DEF Named
  <2> QED
    BY <1>1, <1>8, <2>2 DEF Quarrel, g
<1> QED
  BY <1>4, <1>6, <1>7, <1>8

\* A late gate holder waits for nobody who waits.
LEMMA LateWaitsNot ==
    ASSUME IInv, Peaceful, FoundStays, NEW s \in Session, NEW t \in Session, s # t,
           GateLate(s), (OnRow(t) /\ phase[t] > 0) \/ Beyond(t)
    PROVE  ~Waits(s, t)
<1> DEFINE c == call[s]
           x == Head(todo[s])
<1>1. SUFFICES ASSUME NEW y \in held[t], Conflict(x, y) PROVE FALSE
  BY DEF Waits
<1>2. /\ x[1] = y[1] /\ x[2] = y[2]
      /\ \/ x[3] = "AX" \/ y[3] = "AX"
         \/ x[3] = "SRX" /\ y[3] \in {"SRX", "RX"}
         \/ x[3] = "RX" /\ y[3] = "SRX"
  BY <1>1, Conflicts
<1>3. /\ y[1] = "part" => y[3] = "AS" /\ Parent("AS") \in held[t]
      /\ y[1] = "quads" => y \in {Parent("AS"), Parent("RX")}
      /\ y[1] = "graphs" => y[3] = "RX"
      /\ y[1] = "row" => /\ y[2] = call[t].g /\ call[t].g \in seen[t] /\ phase[t] > 0
                         /\ call[t].op \in {"load", "lock", "unlock"}
  <2>1. CASE OnRow(t) /\ phase[t] > 0
    BY <2>1, Kinds DEF OnRow, AtRow
  <2>2. CASE Beyond(t)
    BY <2>2, Kinds DEF Beyond, PastRow
  <2> QED
    BY <2>1, <2>2
<1>4. CASE \E z \in Named(c) : x = PartOf(z, "AS") \/ x = PartOf(z, "RX")
  BY <1>2, <1>3, <1>4, Kinds
<1>5. CASE Parent("AX") \in held[s]
  <2>1. Parent("AS") \notin held[t] /\ Parent("RX") \notin held[t]
    <3>1. Conflict(Parent("AX"), Parent("AS")) /\ Conflict(Parent("AX"), Parent("RX"))
      BY DEF Conflict, Parent, Clash
    <3> QED
      BY <1>5, <3>1 DEF IInv, LocksAgree
  <2>2. y[1] \notin {"part", "quads"}
    BY <1>1, <1>3, <2>1
  <2>3. \/ x \in {Parent("AS"), Parent("AX"), Registry("RX")}
        \/ \E z \in Named(c) : x = PartOf(z, "AX") \/ x = PartOf(z, "AS") \/ x = PartOf(z, "RX")
        \/ c.op # "bind" /\ AtNewRow(c, seen[s], x)
    BY DEF GateLate, Late
  <2>4. c.op # "bind" /\ AtNewRow(c, seen[s], x)
    BY <1>2, <1>3, <2>2, <2>3, Kinds
  <2>5. PICK z \in Named(c) :
           x = RowOf(z) /\ (z \notin seen[s] \/ (c.op \in {"drop", "move"} /\ z = c.g))
    BY <2>4 DEF AtNewRow
  <2>6. /\ z = call[t].g /\ call[t].g \in seen[t] /\ phase[t] > 0
        /\ call[t].op \in {"load", "lock", "unlock"}
    BY <1>2, <1>3, <2>5, Kinds
  <2>7. z \in part
    BY <2>6 DEF FoundStays
  <2>8. CASE z \notin seen[s]
    <3>1. Settled(s)
      BY <2>4 DEF GateLate, Late, Settled
    <3>2. seen[s] = part \cap Named(c)
      BY <3>1 DEF IInv, AnswerStands
    <3> QED
      BY <2>5, <2>7, <2>8, <3>2
  <2>9. CASE c.op \in {"drop", "move"}
    BY <2>5, <2>6, <2>9 DEF Peaceful, Quarrel
  <2> QED
    BY <2>5, <2>8, <2>9
<1> QED
  BY <1>4, <1>5 DEF GateLate, Late

\* Sessions that all wait for each other would have to be ever further on.
LEMMA NobodyStuck ==
    ASSUME Apart, "dataset" \notin Calls, IInv, ApartInv
    PROVE  NoDeadlock
<1> SUFFICES ASSUME NEW D \in SUBSET Session, D # {},
                    \A s \in D : \E t \in D \ {s} : Waits(s, t)
             PROVE  FALSE
  BY DEF NoDeadlock
<1>1. \A s \in D : todo[s] # <<>>
  BY DEF Waits
<1>2. \A s \in D : \/ held[s] = {} \/ (OnRow(s) /\ phase[s] > 0) \/ Beyond(s)
                    \/ GateEarly(s) \/ GateLate(s)
  BY <1>1, Stances DEF ApartInv
<1>3. \A s \in D : \E t \in D \ {s} :
         /\ Waits(s, t)
         /\ (OnRow(t) /\ phase[t] > 0) \/ Beyond(t) \/ GateEarly(t) \/ GateLate(t)
  BY <1>2 DEF Waits
<1>4. ASSUME NEW s \in D, GateLate(s) PROVE FALSE
  BY <1>3, <1>4, OneGate, LateWaitsNot DEF ApartInv
<1>5. ASSUME NEW s \in D, Beyond(s) PROVE FALSE
  BY <1>3, <1>4, <1>5, BeyondWaitsNot DEF ApartInv
<1>6. ASSUME NEW s \in D, OnRow(s) PROVE FALSE
  BY <1>3, <1>4, <1>5, <1>6, RowsWaitNot
<1>7. ASSUME NEW s \in D, GateEarly(s) PROVE FALSE
  BY <1>3, <1>4, <1>5, <1>6, <1>7, OneGate
<1> QED
  BY <1>3, <1>4, <1>5, <1>6, <1>7

\* "one order, so all paths agree" (partition.rs): as long as no graph is
\* dropped, moved or cleared while it is locked, loaded or cleared, no set of
\* sessions, of whatever size, waits for each other.
THEOREM DeadlockFree == Apart /\ "dataset" \notin Calls => (Spec => []NoDeadlock)
<1> SUFFICES ASSUME Apart, "dataset" \notin Calls
             PROVE  Spec => []NoDeadlock
  OBVIOUS
<1>1. Init => IInv /\ ApartInv
  <2> SUFFICES ASSUME Init PROVE IInv /\ ApartInv
    OBVIOUS
  <2> QED
    BY InvInit DEF Init, ApartInv, Peaceful, FoundStays, OnlyCalls, Quarrel, Idle, Running
<1>2. IInv /\ ApartInv /\ [Next]_vars => (IInv /\ ApartInv)'
  <2>1. ASSUME ApartInv, UNCHANGED vars PROVE ApartInv'
    BY <2>1 DEF ApartInv, Peaceful, FoundStays, OnlyCalls, Running, vars
  <2> QED
    BY <2>1, InvStep, InvStutter, ApartStep
<1>3. IInv /\ ApartInv => NoDeadlock
  BY NobodyStuck
<1> QED
  BY <1>1, <1>2, <1>3, PTL DEF Spec
=============================================================================
