------------------------ MODULE GraphCatalogProofs ------------------------
(***************************************************************************)
(* Proofs about GraphCatalog, for every number of sessions, IRIs, quads    *)
(* and ids.  TypeOK is inductive; MoverOK adds what move_graph relies on   *)
(* between its copy and its drop; SequenceOK and CustodyOK hold where no   *)
(* staged load runs, and give the last three theorems.                     *)
(***************************************************************************)
EXTENDS GraphCatalog, TLAPS

-----------------------------------------------------------------------------
\* Type correctness.

LEMMA Basics ==
    /\ GraphId \subseteq Nat /\ 0 \in GraphId /\ 1 \in GraphId
    /\ Idle \in Call /\ Idle.op = "idle" /\ Idle.q = {} /\ Idle.made = FALSE
    /\ \A g \in GraphId : Synthetic(g) \in Iri
    /\ NoIri \notin Iri
    /\ NoSession \notin Session
BY CatalogAssumption DEF GraphId, Idle, Call, Op, Iri

LEMMA TypeInit == ASSUME Init PROVE TypeOK
<1>1. \A s \in Session : (gate = s) = Running(s, "moved")
  BY Basics DEF Init, Running
<1> QED
  BY <1>1, Basics DEF Init, TypeOK

\* The part of TypeOK about calls and the gate.
CallsOK == /\ gate \in Session \cup {NoSession}
           /\ call \in [Session -> Call]
           /\ \A s \in Session : (gate = s) = Running(s, "moved")

\* A call starts, or ends; a mover's gate is released with its call.
LEMMA StartCalls ==
    ASSUME CallsOK, NEW s \in Session, NEW c \in Call, c.op # "moved", Start(s, c),
           UNCHANGED gate
    PROVE  CallsOK'
BY Basics DEF CallsOK, Start, Running

LEMMA FinishCalls ==
    ASSUME CallsOK, NEW s \in Session, Finish(s),
           gate' = IF gate = s THEN NoSession ELSE gate
    PROVE  CallsOK'
BY Basics DEF CallsOK, Finish, Running

LEMMA WaitingCallHasNoGate ==
    ASSUME CallsOK, NEW s \in Session, NEW op, op # "moved", Running(s, op)
    PROVE  gate # s
BY DEF CallsOK, Running

\* The part about the catalog.
TablesOK == /\ iriOf \in [GraphId -> Iri \cup {NoIri}]
            /\ lockedBy \in [GraphId -> Session \cup {NoSession}]
            /\ part \subseteq GraphId /\ trig \subseteq part /\ used \subseteq GraphId
            /\ rows \in [GraphId -> SUBSET Quad]
            /\ seq \in [last : GraphId, called : BOOLEAN]

LEMMA Helpers ==
    ASSUME TablesOK, NEW g \in GraphId
    PROVE  /\ Advanced(seq, g) \in [last : GraphId, called : BOOLEAN]
           /\ WithSynthetic(g) \in [GraphId -> Iri \cup {NoIri}]
BY Basics DEF TablesOK, Advanced, WithSynthetic

LEMMA TypeSplit == /\ TypeOK <=> TablesOK /\ CallsOK
                   /\ TypeOK' <=> TablesOK' /\ CallsOK'
BY DEF TypeOK, TablesOK, CallsOK

LEMMA TypeCreate ==
    ASSUME TypeOK, NEW g \in GraphId,
           \/ AddGraph(g) \/ AbortedCreate(g)
           \/ \E i \in Iri : AllocateGraph(i, g) \/ UpgradeIri(g, i) \/ BindGraph(g, i)
    PROVE  TypeOK'
<1>0. TablesOK /\ CallsOK /\ UNCHANGED <<gate, call>>
  BY TypeSplit DEF AddGraph, AbortedCreate, AllocateGraph, UpgradeIri, BindGraph
<1>1. CallsOK'
  BY <1>0 DEF CallsOK, Running
<1>2. CASE AddGraph(g)
  BY <1>0, <1>1, <1>2, Helpers, TypeSplit DEF AddGraph, TablesOK
<1>3. CASE AbortedCreate(g)
  <2>1. seq' = [last |-> g, called |-> TRUE] \/ seq' = Advanced(seq, g)
    BY <1>3 DEF AbortedCreate
  <2>2. seq' \in [last : GraphId, called : BOOLEAN]
    <3>1. [last |-> g, called |-> TRUE] \in [last : GraphId, called : BOOLEAN]
      OBVIOUS
    <3>2. Advanced(seq, g) \in [last : GraphId, called : BOOLEAN]
      BY <1>0, Helpers
    <3> QED
      BY <2>1, <3>1, <3>2
  <2>3. UNCHANGED <<iriOf, lockedBy, part, trig, rows, used>>
    BY <1>3 DEF AbortedCreate
  <2> QED
    BY <1>0, <1>1, <2>2, <2>3, TypeSplit DEF TablesOK
<1>4. ASSUME NEW i \in Iri, AllocateGraph(i, g) PROVE TypeOK'
  BY <1>0, <1>1, <1>4, TypeSplit DEF AllocateGraph, TablesOK, Advanced
<1>5. ASSUME NEW i \in Iri, UpgradeIri(g, i) PROVE TypeOK'
  BY <1>0, <1>1, <1>5, TypeSplit DEF UpgradeIri, TablesOK
<1>6. ASSUME NEW i \in Iri, BindGraph(g, i) PROVE TypeOK'
  BY <1>0, <1>1, <1>6, Helpers, TypeSplit DEF BindGraph, TablesOK
<1> QED
  BY <1>2, <1>3, <1>4, <1>5, <1>6

LEMMA TypeStarts ==
    ASSUME TypeOK, NEW s \in Session, NEW c \in Call, c.op # "moved", Start(s, c),
           UNCHANGED <<graphVars, gate>>
    PROVE  TypeOK'
BY StartCalls, TypeSplit DEF TablesOK, graphVars

LEMMA TypeWrite == ASSUME TypeOK, NEW s \in Session, Write(s) PROVE TypeOK'
<1>0. TablesOK /\ CallsOK /\ call[s] \in Call /\ call[s].g \in GraphId /\ call[s].q \subseteq Quad
  BY TypeSplit DEF CallsOK, Call
<1>1. CASE DropGraph(s)
  <2>1. CallsOK'
    BY <1>0, <1>1, FinishCalls, WaitingCallHasNoGate DEF DropGraph
  <2> QED
    BY <1>0, <1>1, <2>1, TypeSplit DEF DropGraph, Gone, TablesOK
<1>2. CASE ClearGraph(s)
  <2>1. CallsOK'
    BY <1>0, <1>2, FinishCalls, WaitingCallHasNoGate DEF ClearGraph
  <2> QED
    BY <1>0, <1>2, <2>1, TypeSplit DEF ClearGraph, TablesOK
<1>3. CASE PutQuad(s)
  <2>1. CallsOK'
    BY <1>0, <1>3, FinishCalls, WaitingCallHasNoGate DEF PutQuad
  <2> QED
    BY <1>0, <1>3, <2>1, TypeSplit DEF PutQuad, TablesOK
<1>4. ASSUME NEW g \in GraphId, DropStart(s, g) PROVE TypeOK'
  BY <1>4, Basics, TypeStarts DEF DropStart, Call, Op
<1>5. ASSUME NEW g \in GraphId, ClearStart(s, g) PROVE TypeOK'
  BY <1>5, Basics, TypeStarts DEF ClearStart, Call, Op
<1>6. ASSUME NEW g \in GraphId, NEW x \in Quad, PutStart(s, g, x) PROVE TypeOK'
  BY <1>6, Basics, TypeStarts DEF PutStart, Call, Op
<1> QED
  BY <1>1, <1>2, <1>3, <1>4, <1>5, <1>6 DEF Write

LEMMA TypeCopyInto ==
    ASSUME TypeOK, NEW s \in Session, NEW op, op # "moved", Running(s, op),
           NEW Q \in SUBSET Quad, CopyInto(s, Q)
    PROVE  TypeOK'
<1>0. TablesOK /\ CallsOK /\ call[s].d \in GraphId
  BY TypeSplit DEF CallsOK, Call
<1>1. CallsOK'
  BY <1>0, FinishCalls, WaitingCallHasNoGate DEF CopyInto
<1> QED
  BY <1>0, <1>1, Helpers, TypeSplit DEF CopyInto, EnsureGraph, TablesOK

LEMMA TypeCopyOrMove == ASSUME TypeOK, NEW s \in Session, CopyOrMove(s) PROVE TypeOK'
<1>0. /\ TablesOK /\ CallsOK /\ call[s] \in Call
      /\ call[s].g \in GraphId /\ call[s].d \in GraphId /\ call[s].q \subseteq Quad
  BY TypeSplit DEF CallsOK, Call
<1>1. CASE CopyGraph(s)
  BY <1>0, <1>1, TypeCopyInto DEF CopyGraph, TablesOK
<1>2. ASSUME NEW Q \in SUBSET Quad, CarveGraph(s, Q) PROVE TypeOK'
  BY <1>2, TypeCopyInto DEF CarveGraph
<1>3. CASE MoveCopy(s)
  <2>1. /\ GateFree /\ gate' = s /\ UNCHANGED graphVars
        /\ call' = [call EXCEPT ![s].op = "moved", ![s].q = rows[call[s].g],
                                ![s].made = call[s].d \notin part]
    BY <1>3 DEF MoveCopy
  <2>2. rows[call[s].g] \in SUBSET Quad
    BY <1>0 DEF TablesOK
  <2>3. call' \in [Session -> Call]
    BY <1>0, <2>1, <2>2 DEF CallsOK, Call, Op
  <2>4. \A t \in Session : Running(t, "moved")' = (t = s)
    BY <1>0, <2>1, Basics DEF CallsOK, Running, GateFree, Call
  <2>5. CallsOK'
    BY <2>1, <2>3, <2>4 DEF CallsOK
  <2> QED
    BY <1>0, <2>1, <2>5, TypeSplit DEF TablesOK, graphVars
<1>4. CASE MoveDrop(s)
  <2>1. CallsOK'
    BY <1>0, <1>4, FinishCalls DEF MoveDrop, CallsOK
  <2>2. \A f \in [GraphId -> Iri \cup {NoIri}], g \in GraphId :
            [f EXCEPT ![g] = NoIri] \in [GraphId -> Iri \cup {NoIri}]
    OBVIOUS
  <2>3. iriOf' \in [GraphId -> Iri \cup {NoIri}]
    BY <1>0, <1>4, <2>2, Helpers DEF MoveDrop, TablesOK
  <2> QED
    BY <1>0, <1>4, <2>1, <2>3, Helpers, TypeSplit DEF MoveDrop, TablesOK
<1>5. ASSUME NEW g \in GraphId, NEW d \in GraphId, NEW op \in {"copy", "carve", "move"},
             CopyStart(s, g, d, op)
      PROVE  TypeOK'
  BY <1>5, Basics, TypeStarts DEF CopyStart, Call, Op
<1> QED
  BY <1>1, <1>2, <1>3, <1>4, <1>5 DEF CopyOrMove, MoveStart

LEMMA TypeCustody == ASSUME TypeOK, NEW s \in Session, Custody(s) PROVE TypeOK'
<1>0. TablesOK /\ CallsOK /\ call[s] \in Call /\ call[s].g \in GraphId
  BY TypeSplit DEF CallsOK, Call
<1>1. CASE LockGraph(s)
  <2>1. CallsOK'
    BY <1>0, <1>1, FinishCalls, WaitingCallHasNoGate DEF LockGraph
  <2> QED
    BY <1>0, <1>1, <2>1, TypeSplit DEF LockGraph, TablesOK
<1>2. CASE UnlockGraph(s)
  <2>1. CallsOK'
    BY <1>0, <1>2, FinishCalls, WaitingCallHasNoGate DEF UnlockGraph
  <2> QED
    BY <1>0, <1>2, <2>1, TypeSplit DEF UnlockGraph, TablesOK
<1>3. ASSUME NEW g \in GraphId, LockStart(s, g) PROVE TypeOK'
  BY <1>3, Basics, TypeStarts DEF LockStart, Call, Op
<1>4. ASSUME NEW g \in GraphId, UnlockStart(s, g) PROVE TypeOK'
  BY <1>4, Basics, TypeStarts DEF UnlockStart, Call, Op
<1> QED
  BY <1>1, <1>2, <1>3, <1>4 DEF Custody

LEMMA TypeStaged == ASSUME TypeOK, NEW s \in Session, StagedLoad(s) PROVE TypeOK'
<1>0. TablesOK /\ CallsOK /\ call[s] \in Call /\ call[s].g \in GraphId
  BY TypeSplit DEF CallsOK, Call
<1>1. ASSUME NEW Q \in SUBSET Quad, StagedResolve(s, Q) PROVE TypeOK'
  <2>1. CallsOK'
    BY <1>0, <1>1, FinishCalls, WaitingCallHasNoGate DEF StagedResolve
  <2> QED
    BY <1>0, <1>1, <2>1, TypeSplit DEF StagedResolve, TablesOK
<1>2. ASSUME NEW g \in GraphId, StagedStart(s, g) PROVE TypeOK'
  BY <1>2, Basics, TypeStarts DEF StagedStart, Call, Op
<1> QED
  BY <1>1, <1>2 DEF StagedLoad

LEMMA TypeEnd == ASSUME TypeOK, NEW s \in Session, EndCall(s) PROVE TypeOK'
<1>0. TablesOK /\ CallsOK /\ call[s].d \in GraphId
  BY TypeSplit DEF CallsOK, Call
<1>1. CallsOK'
  BY <1>0, FinishCalls DEF EndCall
<1> QED
  BY <1>0, <1>1, Helpers, TypeSplit DEF EndCall, TablesOK

LEMMA TypeStep == ASSUME TypeOK, [Next]_vars PROVE TypeOK'
<1>1. CASE UNCHANGED vars
  BY <1>1 DEF TypeOK, vars, Running
<1>2. CASE Create
  BY <1>2, TypeCreate DEF Create
<1>3. ASSUME NEW s \in Session,
             Write(s) \/ CopyOrMove(s) \/ Custody(s) \/ StagedLoad(s) \/ EndCall(s)
      PROVE  TypeOK'
  BY <1>3, TypeWrite, TypeCopyOrMove, TypeCustody, TypeStaged, TypeEnd
<1> QED
  BY <1>1, <1>2, <1>3 DEF Next

\* Every variable keeps its type, and the gate is held exactly by a mover
\* between copy_graph and drop_graph.
THEOREM TypeCorrect == Spec => []TypeOK
<1> QED
  BY TypeInit, TypeStep, PTL DEF Spec

-----------------------------------------------------------------------------
\* The triggers of a locked graph.

\* What a mover has copied went into a destination without triggers, and none
\* is installed there before it commits.
MoverOK == \A s \in Session :
    Running(s, "moved") /\ call[s].q # {} => call[s].d \notin trig

\* The calls that are starting or ending are no movers afterwards.
LEMMA OtherCallsKept ==
    ASSUME TypeOK, NEW s \in Session, NEW c, c.op # "moved",
           call' = [call EXCEPT ![s] = c],
           NEW t \in Session, Running(t, "moved")'
    PROVE  t # s /\ Running(t, "moved") /\ call'[t] = call[t]
BY DEF TypeOK, Running

\* Only LockGraph adds triggers, and only MoveCopy makes a mover.
LEMMA TriggersAndMovers ==
    ASSUME TypeOK, [Next]_vars
    PROVE  /\ trig' \subseteq trig \/ \E s \in Session : LockGraph(s)
           /\ \A t \in Session : Running(t, "moved")' =>
                 \/ Running(t, "moved") /\ call'[t] = call[t]
                 \/ MoveCopy(t)
<1> USE DEF Running
<1>1. CASE UNCHANGED vars
  BY <1>1 DEF vars
<1>2. CASE Create
  BY <1>2 DEF Create, AddGraph, AbortedCreate, AllocateGraph, UpgradeIri, BindGraph
<1>3. ASSUME NEW s \in Session, Write(s) \/ Custody(s) \/ StagedLoad(s) \/ EndCall(s)
      PROVE  /\ trig' \subseteq trig \/ LockGraph(s)
             /\ \E c : c.op # "moved" /\ call' = [call EXCEPT ![s] = c]
  <2> USE Basics DEF Start, Finish, Idle, graphVars
  <2>1. CASE Write(s)
    BY <2>1 DEF Write, DropStart, DropGraph, ClearStart, ClearGraph, PutStart, PutQuad, Gone
  <2>2. CASE Custody(s)
    BY <2>2 DEF Custody, LockStart, LockGraph, UnlockStart, UnlockGraph
  <2>3. CASE StagedLoad(s)
    BY <2>3 DEF StagedLoad, StagedStart, StagedResolve
  <2>4. CASE EndCall(s)
    BY <2>4 DEF EndCall
  <2> QED
    BY <1>3, <2>1, <2>2, <2>3, <2>4
<1>4. ASSUME NEW s \in Session, CopyOrMove(s)
      PROVE  /\ trig' \subseteq trig
             /\ \/ MoveCopy(s)
                \/ \E c : c.op # "moved" /\ call' = [call EXCEPT ![s] = c]
  <2> USE Basics DEF Start, Finish, Idle, graphVars
  <2>1. CASE CopyGraph(s) \/ \E Q \in SUBSET Quad : CarveGraph(s, Q)
    BY <2>1 DEF CopyGraph, CarveGraph, CopyInto
  <2>2. CASE MoveCopy(s)
    BY <2>2 DEF MoveCopy
  <2>3. CASE MoveDrop(s)
    BY <2>3 DEF MoveDrop
  <2>4. CASE \E g, d \in GraphId, op \in {"copy", "carve", "move"} : CopyStart(s, g, d, op)
    BY <2>4 DEF CopyStart
  <2> QED
    BY <1>4, <2>1, <2>2, <2>3, <2>4 DEF CopyOrMove, MoveStart
<1>5. ASSUME NEW s \in Session, MoveCopy(s), NEW t \in Session, t # s
      PROVE  call'[t] = call[t]
  BY <1>5 DEF MoveCopy, TypeOK
<1> QED
  BY <1>1, <1>2, <1>3, <1>4, <1>5, OtherCallsKept DEF Next

LEMMA MoverStep == ASSUME TypeOK, MoverOK, [Next]_vars PROVE MoverOK'
<1> SUFFICES ASSUME NEW t \in Session, Running(t, "moved")', call'[t].q # {}
             PROVE  call'[t].d \notin trig'
  BY DEF MoverOK, Running
<1>1. CASE MoveCopy(t)
  <2>1. /\ call[t] \in Call /\ UNCHANGED trig
        /\ rows[call[t].g] # {} => call[t].d \notin trig
        /\ call' = [call EXCEPT ![t].op = "moved", ![t].q = rows[call[t].g],
                                ![t].made = call[t].d \notin part]
    BY <1>1 DEF MoveCopy, TypeOK, graphVars
  <2>2. call'[t].d = call[t].d /\ call'[t].q = rows[call[t].g]
    BY <2>1 DEF TypeOK, Call
  <2>3. call[t].d \notin trig
    BY <2>1, <2>2
  <2> QED
    BY <2>1, <2>2, <2>3
<1>2. CASE Running(t, "moved") /\ call'[t] = call[t]
  <2>1. call[t].d \notin trig
    BY <1>2 DEF MoverOK
  <2>2. ASSUME NEW s \in Session, LockGraph(s) PROVE call[t].d \notin trig'
    BY <1>2, <2>1, <2>2 DEF LockGraph, UnwrittenByMover
  <2> QED
    BY <1>2, <2>1, <2>2, TriggersAndMovers
<1> QED
  BY <1>1, <1>2, TriggersAndMovers

LEMMA TriggersStep ==
    ASSUME TypeOK, MoverOK, [Next]_vars, NEW h \in trig, h \in trig'
    PROVE  rows'[h] = rows[h]
<1> h \in GraphId
  BY DEF TypeOK
<1>1. CASE UNCHANGED rows
  BY <1>1
<1>2. ASSUME NEW s \in Session, Write(s) PROVE rows'[h] = rows[h]
  BY <1>2, ZenonT(40) DEF Write, DropStart, DropGraph, ClearStart, ClearGraph, PutStart, PutQuad,
              Gone, graphVars, TypeOK
<1>3. ASSUME NEW s \in Session, CopyOrMove(s) PROVE rows'[h] = rows[h]
  <2>1. ASSUME NEW Q, CopyInto(s, Q) PROVE rows'[h] = rows[h]
    BY <2>1 DEF CopyInto, TypeOK
  <2>2. CASE MoveDrop(s)
    BY <2>2 DEF MoveDrop, MoverOK, TypeOK
  <2>3. CASE MoveCopy(s)
    BY <2>3 DEF MoveCopy, graphVars
  <2>4. ASSUME NEW g, NEW d, NEW op, CopyStart(s, g, d, op) PROVE rows'[h] = rows[h]
    BY <2>4 DEF CopyStart, graphVars
  <2> QED
    BY <1>3, <2>1, <2>2, <2>3, <2>4 DEF CopyOrMove, CopyGraph, CarveGraph, MoveStart
<1>4. ASSUME NEW s \in Session, StagedLoad(s) PROVE rows'[h] = rows[h]
  BY <1>4 DEF StagedLoad, StagedStart, StagedResolve, graphVars, TypeOK
<1>5. CASE UNCHANGED vars \/ Create
  BY <1>5, <1>1 DEF vars, Create, AddGraph, AbortedCreate, AllocateGraph, UpgradeIri, BindGraph
<1>6. ASSUME NEW s \in Session, Custody(s) \/ EndCall(s) PROVE rows'[h] = rows[h]
  BY <1>6 DEF Custody, LockStart, LockGraph, UnlockStart, UnlockGraph, EndCall, graphVars
<1> QED
  BY <1>2, <1>3, <1>4, <1>5, <1>6 DEF Next

\* While the refuse-triggers stay on a partition its quads do not change, even
\* by calls that read the fence before the graph was locked.
THEOREM TriggersHold == Spec => TriggersHoldTheFence
<1>1. ASSUME Init PROVE MoverOK
  BY <1>1, Basics DEF Init, MoverOK, Running
<1>2. ASSUME TypeOK, MoverOK, [Next]_vars
      PROVE  [\A g \in trig : g \in trig' => rows'[g] = rows[g]]_vars
  BY <1>2, TriggersStep
<1> QED
  BY <1>1, <1>2, TypeInit, TypeStep, MoverStep, PTL DEF Spec, TriggersHoldTheFence

-----------------------------------------------------------------------------
\* Without staged loads: the registry, the locks and the ids.

NoStagedCalls == \A s \in Session : ~Running(s, "staged")

\* LockCustody is not inductive alone: a partition may be made for an id whose
\* row is gone, so an id without a row must not be locked.
CustodyInv == /\ NoStagedCalls
              /\ CatalogAgrees
              /\ LockCustody
              /\ \A g \in GraphId : Bound(g) \/ ~Locked(g)

\* The sequence is past every id that has named a graph.
SequenceOK == /\ seq.called
              /\ part \subseteq used
              /\ \A n \in used : n <= seq.last

LEMMA NoStagedStep ==
    ASSUME TypeOK, "staged" \notin Calls, NoStagedCalls, [Next]_vars
    PROVE  /\ NoStagedCalls'
           /\ \A s \in Session : ~StagedLoad(s)
<1> USE DEF Running, TypeOK, NoStagedCalls
<1>1. ASSUME UNCHANGED vars \/ Create PROVE NoStagedCalls'
  BY <1>1 DEF vars, Create, AddGraph, AbortedCreate, AllocateGraph, UpgradeIri, BindGraph
<1>2. \A s \in Session : ~StagedLoad(s)
  BY DEF StagedLoad, StagedStart, StagedResolve, Start, Idle
<1>3. ASSUME NEW s \in Session, NEW c, Start(s, c) PROVE NoStagedCalls'
  BY <1>3 DEF Start
<1>4. ASSUME NEW s \in Session, Finish(s) PROVE NoStagedCalls'
  BY <1>4, Basics DEF Finish
<1>5. ASSUME NEW s \in Session, MoveCopy(s) PROVE NoStagedCalls'
  BY <1>5 DEF MoveCopy, Call
<1>6. ASSUME NEW s \in Session, Write(s) \/ CopyOrMove(s) \/ Custody(s) \/ EndCall(s)
      PROVE  NoStagedCalls'
  BY <1>3, <1>4, <1>5, <1>6
     DEF Write, DropStart, DropGraph, ClearStart, ClearGraph, PutStart, PutQuad,
         CopyOrMove, CopyGraph, CarveGraph, CopyInto, CopyStart, MoveStart, MoveDrop,
         Custody, LockStart, LockGraph, UnlockStart, UnlockGraph, EndCall
<1> QED
  BY <1>1, <1>2, <1>6 DEF Next

\* What AddGraph and a copy do to the registry and to the sequence.
LEMMA EnsuredGraph ==
    ASSUME TypeOK, NEW d \in GraphId
    PROVE  /\ WithSynthetic(d)[d] # NoIri
           /\ \A h \in GraphId \ {d} : WithSynthetic(d)[h] = iriOf[h]
BY Basics DEF WithSynthetic, Bound, TypeOK

\* The graph tables of CustodyInv.
Registry == /\ CatalogAgrees
            /\ LockCustody
            /\ \A g \in GraphId : Bound(g) \/ ~Locked(g)

LEMMA RegistryCreate ==
    ASSUME TypeOK, Registry, Create PROVE Registry'
<1> USE DEF Registry, CatalogAgrees, LockCustody, CustodyOf, Bound, Locked, TypeOK
<1>1. ASSUME NEW g \in GraphId, AddGraph(g) PROVE Registry'
  BY <1>1, EnsuredGraph DEF AddGraph
<1>2. ASSUME NEW g \in GraphId, AbortedCreate(g) PROVE Registry'
  BY <1>2 DEF AbortedCreate
<1>3. ASSUME NEW g \in GraphId, NEW i \in Iri, AllocateGraph(i, g) PROVE Registry'
  BY <1>3, Basics DEF AllocateGraph, NextId, Free
<1>4. ASSUME NEW g \in GraphId, NEW i \in Iri, UpgradeIri(g, i) PROVE Registry'
  BY <1>4, Basics DEF UpgradeIri
<1>5. ASSUME NEW g \in GraphId, NEW i \in Iri, BindGraph(g, i) PROVE Registry'
  BY <1>5, Basics DEF BindGraph
<1> QED
  BY <1>1, <1>2, <1>3, <1>4, <1>5 DEF Create

LEMMA RegistryCall ==
    ASSUME TypeOK, Registry, NEW s \in Session,
           Write(s) \/ CopyOrMove(s) \/ Custody(s) \/ EndCall(s)
    PROVE  Registry'
<1> USE DEF Registry, CatalogAgrees, LockCustody, CustodyOf, Bound, Locked, TypeOK
<1>0. call[s].g \in GraphId /\ call[s].d \in GraphId
  BY DEF Call
<1>1. CASE DropGraph(s)
  BY <1>0, <1>1, Basics DEF DropGraph, Gone
<1>2. ASSUME NEW Q, CopyInto(s, Q) PROVE Registry'
  BY <1>0, <1>2, EnsuredGraph DEF CopyInto, EnsureGraph
<1>3. CASE MoveDrop(s)
  <2> DEFINE g == call[s].g
             d == call[s].d
             f == IF d \in part THEN iriOf ELSE WithSynthetic(d)
  <2>1. /\ UNCHANGED lockedBy /\ Unlocked(g)
        /\ part' = (part \cup {d}) \ {g} /\ trig' = trig \ {g}
        /\ iriOf' = [f EXCEPT ![g] = NoIri]
    BY <1>3 DEF MoveDrop
  <2>2. /\ f \in [GraphId -> Iri \cup {NoIri}]
        /\ \A h \in GraphId \ {d} : f[h] = iriOf[h]
        /\ IF d \in part THEN f[d] = iriOf[d] ELSE f[d] # NoIri
    BY <1>0, EnsuredGraph, Helpers DEF TablesOK
  <2>3. /\ iriOf'[g] = NoIri
        /\ \A h \in GraphId \ {g} : iriOf'[h] = f[h]
    BY <1>0, <2>1, <2>2
  <2> HIDE DEF f
  <2>4. CatalogAgrees'
    BY <1>0, <2>1, <2>2, <2>3
  <2>5. LockCustody'
    BY <1>0, <2>1
  <2>6. (\A h \in GraphId : Bound(h) \/ ~Locked(h))'
    BY <1>0, <2>1, <2>2, <2>3 DEF Unlocked
  <2> QED
    BY <2>4, <2>5, <2>6
<1>4. CASE LockGraph(s)
  BY <1>0, <1>4, Basics DEF LockGraph
<1>5. CASE UnlockGraph(s)
  BY <1>0, <1>5, Basics DEF UnlockGraph
<1>6. CASE UNCHANGED <<iriOf, lockedBy, part, trig>>
  BY <1>6
<1>7. CASE Write(s)
  BY <1>1, <1>6, <1>7 DEF Write, DropStart, ClearStart, ClearGraph, PutStart, PutQuad, graphVars
<1>8. CASE CopyOrMove(s)
  BY <1>2, <1>3, <1>6, <1>8 DEF CopyOrMove, CopyGraph, CarveGraph, CopyStart, MoveStart,
                                MoveCopy, graphVars
<1>9. CASE Custody(s) \/ EndCall(s)
  BY <1>4, <1>5, <1>6, <1>9 DEF Custody, LockStart, UnlockStart, EndCall, graphVars
<1> QED
  BY <1>7, <1>8, <1>9

LEMMA CustodyStep ==
    ASSUME TypeOK, "staged" \notin Calls, CustodyInv, [Next]_vars
    PROVE  CustodyInv'
<1>1. NoStagedCalls /\ Registry
  BY DEF CustodyInv, Registry
<1>2. NoStagedCalls' /\ \A s \in Session : ~StagedLoad(s)
  BY <1>1, NoStagedStep
<1>3. ASSUME UNCHANGED vars PROVE Registry'
  BY <1>1, <1>3 DEF vars, Registry, CatalogAgrees, LockCustody, CustodyOf, Bound, Locked
<1>4. Registry'
  BY <1>1, <1>2, <1>3, RegistryCreate, RegistryCall DEF Next
<1> QED
  BY <1>2, <1>4 DEF CustodyInv, Registry

LEMMA CustodyInit == ASSUME Init PROVE CustodyInv
BY Basics, CatalogAssumption DEF Init, CustodyInv, NoStagedCalls, Running, CatalogAgrees,
   LockCustody, CustodyOf, Bound, Locked, Synthetic

\* A graph other than the default has a _pgrdf_graphs row exactly when it has a
\* partition, if graphs are never loaded by the staged loader.
THEOREM RegistryAgrees == ASSUME "staged" \notin Calls PROVE Spec => []CatalogAgrees
<1>1. CustodyInv => CatalogAgrees
  BY DEF CustodyInv
<1> QED
  BY <1>1, TypeInit, TypeStep, CustodyInit, CustodyStep, PTL DEF Spec

\* Its partition carries the refuse-triggers exactly when the graph is locked.
THEOREM LocksAgree == ASSUME "staged" \notin Calls PROVE Spec => []LockCustody
<1>1. CustodyInv => LockCustody
  BY DEF CustodyInv
<1> QED
  BY <1>1, TypeInit, TypeStep, CustodyInit, CustodyStep, PTL DEF Spec

\* Only lock_graph gives a graph a holder, and a named graph that has one already
\* has a partition with triggers, which stop it.
LEMMA ReasonStep ==
    ASSUME TypeOK, CustodyInv, [Next]_vars, "staged" \notin Calls,
           NEW g \in GraphId \ {0}, Locked(g)
    PROVE  lockedBy'[g] \in {lockedBy[g], NoSession}
<1> USE DEF TypeOK
<1>1. g \in part /\ g \in trig
  BY DEF CustodyInv, CatalogAgrees, LockCustody, CustodyOf, Bound
<1>2. ASSUME NEW s \in Session, LockGraph(s) PROVE lockedBy'[g] = lockedBy[g]
  BY <1>1, <1>2 DEF LockGraph
<1>3. ASSUME NEW s \in Session, DropGraph(s) \/ UnlockGraph(s)
      PROVE  lockedBy'[g] \in {lockedBy[g], NoSession}
  BY <1>3 DEF DropGraph, Gone, UnlockGraph
<1>4. CASE UNCHANGED lockedBy
  BY <1>4
<1>5. ASSUME NEW s \in Session, Write(s) \/ Custody(s)
      PROVE  lockedBy'[g] \in {lockedBy[g], NoSession}
  BY <1>2, <1>3, <1>4, <1>5
     DEF Write, DropStart, ClearStart, ClearGraph, PutStart, PutQuad, Custody, LockStart,
         UnlockStart, graphVars
<1>6. ASSUME NEW s \in Session, CopyOrMove(s) \/ EndCall(s) PROVE UNCHANGED lockedBy
  BY <1>6 DEF CopyOrMove, CopyGraph, CarveGraph, CopyInto, CopyStart, MoveStart, MoveCopy,
              MoveDrop, EndCall, graphVars
<1>7. ASSUME Create \/ UNCHANGED vars PROVE UNCHANGED lockedBy
  BY <1>7 DEF Create, AddGraph, AbortedCreate, AllocateGraph, UpgradeIri, BindGraph, vars
<1>8. \A s \in Session : ~StagedLoad(s)
  BY NoStagedStep DEF CustodyInv
<1> QED
  BY <1>4, <1>5, <1>6, <1>7, <1>8 DEF Next

\* The standing reason of a named graph is never swallowed by a second lock_graph.
THEOREM ReasonsStand == ASSUME "staged" \notin Calls PROVE Spec => ReasonKept
<1>1. ASSUME TypeOK, CustodyInv, [Next]_vars
      PROVE  [\A g \in GraphId \ {0} :
                 Locked(g) => lockedBy'[g] \in {lockedBy[g], NoSession}]_vars
  BY <1>1, ReasonStep
<1> QED
  BY <1>1, TypeInit, TypeStep, CustodyInit, CustodyStep, PTL DEF Spec, ReasonKept

LEMMA SequenceType ==
    ASSUME TypeOK
    PROVE  /\ seq.last \in Nat
           /\ \A n \in used : n \in GraphId /\ n \in Nat
BY Basics DEF TypeOK

\* Advancing the sequence reaches the new id and never goes back.
LEMMA AdvancedPast ==
    ASSUME TypeOK, SequenceOK, NEW g \in GraphId
    PROVE  /\ Advanced(seq, g).called /\ Advanced(seq, g).last \in Nat
           /\ g <= Advanced(seq, g).last /\ seq.last <= Advanced(seq, g).last
<1>1. g \in Nat /\ seq.last \in Nat /\ seq.called
  BY Basics, SequenceType DEF SequenceOK
<1>2. CASE g > seq.last
  <2>1. Advanced(seq, g) = [last |-> g, called |-> TRUE]
    BY <1>2 DEF Advanced
  <2> QED
    BY <1>1, <1>2, <2>1
<1>3. CASE ~(g > seq.last)
  <2>1. Advanced(seq, g) = seq
    BY <1>3 DEF Advanced
  <2> QED
    BY <1>1, <1>3, <2>1
<1> QED
  BY <1>2, <1>3

\* SequenceOK survives a step that makes no partition, and one that makes d's.
LEMMA SequenceKept ==
    ASSUME TypeOK, SequenceOK, part' \subseteq part, UNCHANGED used,
           seq' = seq \/ \E g \in GraphId : seq' = Advanced(seq, g)
    PROVE  SequenceOK'
<1>1. seq'.called /\ seq.last <= seq'.last /\ seq.last \in Nat /\ seq'.last \in Nat
  <2>1. CASE seq' = seq
    BY <2>1, SequenceType DEF SequenceOK
  <2>2. ASSUME NEW g \in GraphId, seq' = Advanced(seq, g)
        PROVE  seq'.called /\ seq.last <= seq'.last /\ seq'.last \in Nat
    BY <2>2, AdvancedPast
  <2> QED
    BY <2>1, <2>2, SequenceType
<1> QED
  BY <1>1, SequenceType DEF SequenceOK

LEMMA SequenceMoved ==
    ASSUME TypeOK, SequenceOK, NEW d \in GraphId, part' \subseteq part \cup {d},
           used' = used \cup {d},
           seq' = IF d \in part THEN seq ELSE Advanced(seq, d)
    PROVE  SequenceOK'
<1>1. /\ seq'.called /\ seq.last <= seq'.last /\ d <= seq'.last
      /\ seq.last \in Nat /\ seq'.last \in Nat
  <2>1. CASE d \in part
    BY <2>1, SequenceType DEF SequenceOK
  <2>2. CASE d \notin part
    BY <2>2, AdvancedPast, SequenceType
  <2> QED
    BY <2>1, <2>2
<1>2. \A n \in used : n \in Nat /\ n <= seq.last
  BY Basics DEF SequenceOK, TypeOK
<1> QED
  BY <1>1, <1>2, Basics DEF SequenceOK

\* An allocation starts past the high-water mark.
LEMMA AllocatedAbove ==
    ASSUME TypeOK, SequenceOK, NEW n \in GraphId, NextId(n)
    PROVE  n > seq.last /\ n \notin used
<1>1. n \in Nat /\ seq.last \in Nat
  BY SequenceType, Basics
<1>2. n >= seq.last + 1
  BY DEF NextId, FirstId, SequenceOK
<1>3. n > seq.last
  BY <1>1, <1>2
<1>4. \A m \in used : m <= seq.last
  BY DEF SequenceOK
<1>5. n \notin used
  <2>1. SUFFICES ASSUME n \in used PROVE FALSE
    OBVIOUS
  <2>2. n <= seq.last
    BY <1>4, <2>1
  <2> QED
    BY <1>1, <1>3, <2>2
<1> QED
  BY <1>3, <1>5

LEMMA SequenceStep ==
    ASSUME TypeOK, SequenceOK, [Next]_vars, \A s \in Session : ~StagedLoad(s)
    PROVE  SequenceOK'
<1>0. \A s \in Session : call[s].g \in GraphId /\ call[s].d \in GraphId
  BY DEF TypeOK, Call
<1>1. ASSUME NEW g \in GraphId, AddGraph(g) PROVE SequenceOK'
  BY <1>1, SequenceMoved DEF AddGraph
<1>2. ASSUME NEW g \in GraphId, AbortedCreate(g) PROVE SequenceOK'
  <2>1. CASE NextId(g) /\ seq' = [last |-> g, called |-> TRUE]
    <3>1. seq' = Advanced(seq, g)
      BY <2>1, AllocatedAbove DEF Advanced
    <3> QED
      BY <1>2, <3>1, SequenceKept DEF AbortedCreate
  <2> QED
    BY <1>2, <2>1, SequenceKept DEF AbortedCreate
<1>3. ASSUME NEW g \in GraphId, NEW i \in Iri, AllocateGraph(i, g) PROVE SequenceOK'
  <2>1. NextId(g) /\ g > seq.last /\ g \notin used
    BY <1>3, AllocatedAbove DEF AllocateGraph
  <2>2. seq' = Advanced(seq, g) /\ g \notin part
    BY <1>3, <2>1, Basics DEF AllocateGraph, Advanced, SequenceOK
  <2> QED
    BY <1>3, <2>2, SequenceMoved DEF AllocateGraph
<1>4. ASSUME NEW g \in GraphId, NEW i \in Iri, UpgradeIri(g, i) PROVE SequenceOK'
  BY <1>4, SequenceKept DEF UpgradeIri
<1>5. ASSUME NEW g \in GraphId, NEW i \in Iri, BindGraph(g, i) PROVE SequenceOK'
  BY <1>5, SequenceMoved DEF BindGraph
<1>6. ASSUME NEW s \in Session, NEW Q, CopyInto(s, Q) PROVE SequenceOK'
  BY <1>0, <1>6, SequenceMoved DEF CopyInto, EnsureGraph
<1>7. ASSUME NEW s \in Session, MoveDrop(s) PROVE SequenceOK'
  BY <1>0, <1>7, SequenceMoved DEF MoveDrop
<1>8. ASSUME NEW s \in Session, EndCall(s) PROVE SequenceOK'
  BY <1>0, <1>8, SequenceKept DEF EndCall
<1>9. ASSUME UNCHANGED <<seq, used>>, part' \subseteq part PROVE SequenceOK'
  BY <1>9, SequenceKept
<1>10. ASSUME NEW s \in Session, Write(s) PROVE SequenceOK'
  BY <1>9, <1>10 DEF Write, DropStart, DropGraph, ClearStart, ClearGraph, PutStart, PutQuad,
                     graphVars
<1>11. ASSUME NEW s \in Session, Custody(s) PROVE SequenceOK'
  BY <1>9, <1>11 DEF Custody, LockStart, LockGraph, UnlockStart, UnlockGraph, graphVars
<1>12. ASSUME NEW s \in Session, CopyOrMove(s) PROVE SequenceOK'
  BY <1>6, <1>7, <1>9, <1>12 DEF CopyOrMove, CopyGraph, CarveGraph, CopyStart, MoveStart,
                                 MoveCopy, graphVars
<1> QED
  BY <1>1, <1>2, <1>3, <1>4, <1>5, <1>8, <1>9, <1>10, <1>11, <1>12 DEF Next, Create, vars

\* Where graph 1 exists already (so that the sequence has been called) and no
\* staged load runs, add_graph(iri) never hands out an id that ever named a
\* graph: the high-water mark of the sequence is above them all.
THEOREM IdsFresh ==
    ASSUME "staged" \notin Calls, ~FreshInstall PROVE Spec => IdsNeverReused
<1>1. ASSUME Init PROVE NoStagedCalls /\ SequenceOK
  <2>1. NoStagedCalls
    BY <1>1, CustodyInit DEF CustodyInv
  <2>2. seq = [last |-> 1, called |-> TRUE] /\ part = {1} /\ used = {0, 1}
    BY <1>1 DEF Init
  <2> QED
    BY <2>1, <2>2 DEF SequenceOK
<1>2. ASSUME TypeOK, NoStagedCalls /\ SequenceOK, [Next]_vars
      PROVE  (NoStagedCalls /\ SequenceOK)'
  BY <1>2, NoStagedStep, SequenceStep
<1>3. ASSUME TypeOK, NoStagedCalls /\ SequenceOK
      PROVE  [\A i \in Name, n \in GraphId : AllocateGraph(i, n) => n \notin used]_vars
  BY <1>3, AllocatedAbove DEF AllocateGraph
<1> QED
  BY <1>1, <1>2, <1>3, TypeInit, TypeStep, PTL DEF Spec, IdsNeverReused
=============================================================================
