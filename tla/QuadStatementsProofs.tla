------------------------ MODULE QuadStatementsProofs ------------------------
(***************************************************************************)
(* Proofs about QuadStatements for any number of sessions, named graphs,   *)
(* triples, rules of the reasoner, statements and copies: the types, that  *)
(* UPDATEs are set-semantic, that a locked graph stands still, and that a   *)
(* graph the inventory calls current is completely materialized.           *)
(***************************************************************************)
EXTENDS QuadStatements, FiniteSetTheorems, WellFoundedInduction, SequenceTheorems, TLAPS

-----------------------------------------------------------------------------
(***************************************************************************)
(* Sequences put together by FlattenSeq.                                   *)
(***************************************************************************)

\* A set of naturals has a least element.
LEMMA Least == ASSUME NEW T, T \subseteq Nat, T # {} PROVE \E x \in T : \A y \in T : x <= y
<1>1. IsWellFoundedOn(OpToRel(<, Nat), Nat)
  BY NatLessThanWellFounded
<1>2. \E x \in T : \A y \in T : ~ (<<y, x>> \in OpToRel(<, Nat))
  BY <1>1, WFMin
<1>3. \A x, y \in Nat : <<y, x>> \in OpToRel(<, Nat) <=> y < x
  BY DEF OpToRel
<1>4. PICK x \in T : \A y \in T : ~ (y < x)
  BY <1>2, <1>3
<1> QED
  BY <1>4

\* f holds the first n partial results of FlattenSeq(q).
Partial(f, q, n) == f = [i \in 1 .. n |-> IF i = 1 THEN q[i] ELSE f[i - 1] \o q[i]]

LEMMA PartialResults ==
    ASSUME NEW S, NEW q \in Seq(Seq(S))
    PROVE  \A n \in 0 .. Len(q) : \E f \in [1 .. n -> Seq(S)] : Partial(f, q, n)
<1> DEFINE Missing == {n \in 0 .. Len(q) : ~ \E f \in [1 .. n -> Seq(S)] : Partial(f, q, n)}
<1>1. SUFFICES ASSUME Missing # {} PROVE FALSE
  OBVIOUS
<1>2. Missing \subseteq Nat
  OBVIOUS
<1>3. PICK n \in Missing : \A m \in Missing : n <= m
  <2> HIDE DEF Missing
  <2> QED
    BY <1>1, <1>2, Least
<1>4. n # 0
  <2>1. [i \in 1 .. 0 |-> <<>>] \in [1 .. 0 -> Seq(S)] /\ Partial([i \in 1 .. 0 |-> <<>>], q, 0)
    BY DEF Partial
  <2> QED
    BY <1>3, <2>1
<1>5. n \in Nat /\ n - 1 \in 0 .. Len(q) /\ n \in 1 .. Len(q)
  BY <1>3, <1>4
<1>6. PICK f \in [1 .. n - 1 -> Seq(S)] : Partial(f, q, n - 1)
  <2>1. n - 1 \notin Missing
    <3> HIDE DEF Missing
    <3> QED
      BY <1>3, <1>5
  <2> QED
    BY <1>5, <2>1
<1> DEFINE last == IF n = 1 THEN q[1] ELSE f[n - 1] \o q[n]
           g == [i \in 1 .. n |-> IF i = n THEN last ELSE f[i]]
<1>7. last \in Seq(S)
  <2>1. q[n] \in Seq(S)
    BY <1>5
  <2>2. CASE n = 1
    BY <2>1, <2>2
  <2>3. CASE n # 1
    <3>1. f[n - 1] \in Seq(S)
      BY <1>5, <1>6, <2>3
    <3> QED
      BY <2>1, <2>3, <3>1
  <2> QED
    BY <2>2, <2>3
<1>8. \A i \in 1 .. n - 1 : f[i] = IF i = 1 THEN q[i] ELSE f[i - 1] \o q[i]
  BY <1>6 DEF Partial
<1>9. last = IF n = 1 THEN q[n] ELSE f[n - 1] \o q[n]
  OBVIOUS
<1> HIDE DEF last
<1>10. g \in [1 .. n -> Seq(S)] /\ g[n] = last /\ \A i \in 1 .. n - 1 : g[i] = f[i]
  BY <1>5, <1>6, <1>7
<1> HIDE DEF g
<1>11. Partial(g, q, n)
  <2> SUFFICES ASSUME NEW i \in 1 .. n
               PROVE  g[i] = IF i = 1 THEN q[i] ELSE g[i - 1] \o q[i]
    BY <1>10 DEF Partial
  <2>1. i # 1 => i - 1 \in 1 .. n - 1
    BY <1>5
  <2>2. CASE i = n
    BY <1>9, <1>10, <2>1, <2>2
  <2>3. CASE i # n
    <3>1. i \in 1 .. n - 1
      BY <1>5, <2>3
    <3> QED
      BY <1>8, <1>10, <2>1, <3>1
  <2> QED
    BY <2>2, <2>3
<1> QED
  BY <1>3, <1>10, <1>11

\* What FlattenSeq joins keeps the elements' type.
LEMMA Flattened ==
    ASSUME NEW S, NEW q \in Seq(Seq(S))
    PROVE  FlattenSeq(q) \in Seq(S)
<1>1. CASE Len(q) = 0
  BY <1>1 DEF FlattenSeq
<1>2. CASE Len(q) # 0
  <2> DEFINE n == Len(q)
             flat == CHOOSE f : Partial(f, q, n)
             Wrong == {i \in 1 .. n : flat[i] \notin Seq(S)}
  <2>1. n \in Nat /\ n \in 0 .. n /\ n \in 1 .. n
    BY <1>2
  <2>2. \E f : Partial(f, q, n)
    BY <2>1, PartialResults
  <2>3. Partial(flat, q, n)
    BY <2>2
  <2>4. FlattenSeq(q) = flat[n]
    BY <1>2 DEF FlattenSeq, Partial
  <2> HIDE DEF flat
  <2>5. \A i \in 1 .. n : flat[i] = IF i = 1 THEN q[i] ELSE flat[i - 1] \o q[i]
    BY <2>1, <2>3 DEF Partial
  <2>6. Wrong = {}
    <3> SUFFICES ASSUME Wrong # {} PROVE FALSE
      OBVIOUS
    <3>1. Wrong \subseteq Nat
      BY <2>1
    <3>2. PICK m \in Wrong : \A k \in Wrong : m <= k
      <4> HIDE DEF Wrong
      <4> QED
        BY <3>1, Least
    <3>3. m \in 1 .. n /\ q[m] \in Seq(S) /\ flat[m] \notin Seq(S)
      BY <2>1
    <3>4. m # 1 => flat[m - 1] \in Seq(S)
      <4> SUFFICES ASSUME m # 1 PROVE m - 1 \notin Wrong
        BY <2>1, <3>3
      <4> HIDE DEF Wrong
      <4> QED
        BY <3>2, <3>3
    <3>5. flat[m] = IF m = 1 THEN q[m] ELSE flat[m - 1] \o q[m]
      BY <2>5, <3>3
    <3>6. CASE m = 1
      BY <3>3, <3>5, <3>6
    <3>7. CASE m # 1
      <4>1. \A x, y \in Seq(S) : x \o y \in Seq(S)
        OBVIOUS
      <4> QED
        BY <3>3, <3>4, <3>5, <3>7, <4>1
    <3> QED
      BY <3>6, <3>7
  <2> QED
    BY <2>1, <2>4, <2>6
<1> QED
  BY <1>1, <1>2

-----------------------------------------------------------------------------
(***************************************************************************)
(* Types.                                                                  *)
(***************************************************************************)

\* The SQL statements an UPDATE works through, and those of the others.
UpdateCmd == Modify
    \cup [do : {"op"}, op : Operation]
    \cup [do : {"insert"}, g : Graph, t : Triple]
    \cup [do : {"delete"}, g : Graph, ts : SUBSET Triple, infs : SUBSET BOOLEAN]
    \cup [do : {"allocate", "touch", "clear", "drop"}, g : Graph]
OtherCmd ==
    [do : {"delete"}, g : Graph, ts : SUBSET Triple, infs : SUBSET BOOLEAN]
    \cup [do : {"reason", "stamp"}, g : Graph]
    \cup [do : {"infer"}, g : Graph, ts : SUBSET Triple]
    \cup [do : {"append"}, g : Graph, t : Triple]
Work == Seq(UpdateCmd) \cup Seq(OtherCmd)

State == [kind : {"idle", "update", "materialize", "append"}, work : Work,
          todo : SUBSET Triple, op : Seq(Modify), targets : SUBSET Row, ins : SUBSET Row,
          del : SUBSET Row, made : SUBSET Graph, gone : SUBSET Graph, wrote : SUBSET Graph,
          read : SUBSET Graph, excl : SUBSET Graph, touched : SUBSET Graph,
          here : SUBSET Graph, base : SUBSET Row, stamps : SUBSET (Graph \X Nat)]

\* Only an UPDATE works through UPDATE statements, or between solutions.
WorkTyped(x) == IF x.kind = "update" THEN x.work \in Seq(UpdateCmd)
                ELSE x.work \in Seq(OtherCmd) /\ x.op = <<>>

TypeOK ==
    /\ rows \in SUBSET Row
    /\ bound \in SUBSET Graph
    /\ locked \in SUBSET Graph
    /\ stamp \in [Graph -> Int]
    /\ gate \in Session \cup {NoSession}
    /\ sess \in [Session -> State]
    /\ disturbed \in SUBSET Graph
    /\ \A s \in Session : WorkTyped(sess[s])

LEMMA UpdateCmdTypes ==
    ASSUME NEW x \in UpdateCmd
    PROVE  /\ x.do \in {"modify", "op", "insert", "delete", "allocate", "touch", "clear", "drop"}
           /\ x.do = "op" => x.op \in Operation
           /\ x.do # "op" => x.g \in Graph
           /\ x.do = "insert" => x.t \in Triple
           /\ x.do = "delete" => x.ts \subseteq Triple /\ x.infs \subseteq BOOLEAN
           /\ x.do = "modify" => x \in Modify
BY DEF UpdateCmd, Modify

LEMMA OtherCmdTypes ==
    ASSUME NEW x \in OtherCmd
    PROVE  /\ x.do \in {"delete", "reason", "stamp", "infer", "append"}
           /\ x.g \in Graph
           /\ x.do = "append" => x.t \in Triple
           /\ x.do = "delete" => x.ts \subseteq Triple /\ x.infs \subseteq BOOLEAN
           /\ x.do = "infer" => x.ts \subseteq Triple
BY DEF OtherCmd

\* Each, like FlattenSeq, keeps the type of what it joins.
LEMMA SetToSeqTyped ==
    ASSUME NEW T, IsFiniteSet(T)
    PROVE  SetToSeq(T) \in [1 .. Cardinality(T) -> T]
<1>1. ExistsBijection(1 .. Cardinality(T), T)
  BY FS_CardinalityType
<1>2. \E f \in [1 .. Cardinality(T) -> T] : IsInjective(f)
  BY <1>1 DEF ExistsBijection, Bijection, Injection, IsInjective
<1> QED
  BY <1>2 DEF SetToSeq

LEMMA TripleSets == ASSUME NEW T \in SUBSET Triple
                    PROVE IsFiniteSet(T) /\ SetToSeq(T) \in [1 .. Cardinality(T) -> T]
                          /\ Cardinality(T) \in Nat
BY StatementAssumption, FS_Subset, FS_CardinalityType, SetToSeqTyped DEF StatementAssumption

LEMMA GraphSets == ASSUME NEW T \in SUBSET Graph
                   PROVE IsFiniteSet(T) /\ SetToSeq(T) \in [1 .. Cardinality(T) -> T]
                         /\ Cardinality(T) \in Nat
<1>1. IsFiniteSet(Graph)
  BY StatementAssumption, FS_AddElement DEF StatementAssumption, Graph
<1> QED
  BY <1>1, FS_Subset, FS_CardinalityType, SetToSeqTyped

LEMMA PointwiseSeq ==
    ASSUME NEW S, NEW n \in Nat, NEW q, q = [i \in 1 .. n |-> q[i]], \A i \in 1 .. n : q[i] \in S
    PROVE  q \in Seq(S)
OBVIOUS

\* The statements of one operation and of one solution are UPDATE statements.
LEMMA RowWorkTyped ==
    ASSUME NEW op \in Modify, NEW sol \in Triple, NEW B
    PROVE  RowWork(op, sol, B) \in Seq(UpdateCmd)
<1> DEFINE D == SetToSeq(op.del[sol])
           I == SetToSeq(op.ins[sol])
           dels == [i \in 1 .. Cardinality(op.del[sol]) |-> DeleteQuad(op.g, D[i], B)]
           inss == [i \in 1 .. Cardinality(op.ins[sol]) |-> InsertQuad(op.g, I[i])]
<1>1. op.g \in Graph /\ op.del[sol] \in SUBSET Triple /\ op.ins[sol] \in SUBSET Triple
  BY DEF Modify
<1>2. \A t \in Triple : DeleteQuad(op.g, t, B) \in Seq(UpdateCmd)
  <2>1. \A t \in Triple : Del(op.g, {t}, BOOLEAN) \in UpdateCmd /\ Touch(op.g) \in UpdateCmd
    BY <1>1 DEF Del, Touch, UpdateCmd
  <2> QED
    BY <2>1 DEF DeleteQuad
<1>3. \A t \in Triple : InsertQuad(op.g, t) \in Seq(UpdateCmd)
  <2>1. \A t \in Triple : /\ [do |-> "allocate", g |-> op.g] \in UpdateCmd
                          /\ Ins(op.g, t) \in UpdateCmd /\ Touch(op.g) \in UpdateCmd
    BY <1>1 DEF Ins, Touch, UpdateCmd
  <2> QED
    BY <2>1 DEF InsertQuad
<1>4. dels \in Seq(Seq(UpdateCmd))
  <2>1. \A i \in 1 .. Cardinality(op.del[sol]) : D[i] \in Triple
    BY <1>1, TripleSets
  <2>2. Cardinality(op.del[sol]) \in Nat
    BY <1>1, TripleSets
  <2> QED
    BY <1>2, <2>1, <2>2, PointwiseSeq
<1>5. inss \in Seq(Seq(UpdateCmd))
  <2>1. \A i \in 1 .. Cardinality(op.ins[sol]) : I[i] \in Triple
    BY <1>1, TripleSets
  <2>2. Cardinality(op.ins[sol]) \in Nat
    BY <1>1, TripleSets
  <2> QED
    BY <1>3, <2>1, <2>2, PointwiseSeq
<1> HIDE DEF dels, inss
<1>6. FlattenSeq(dels) \in Seq(UpdateCmd) /\ FlattenSeq(inss) \in Seq(UpdateCmd)
  BY <1>4, <1>5, Flattened
<1>7. RowWork(op, sol, B) = FlattenSeq(dels) \o FlattenSeq(inss)
  BY DEF RowWork, Each, dels, inss
<1> QED
  BY <1>6, <1>7

LEMMA EmptyWorkTyped ==
    ASSUME NEW op \in Operation, op.do \in {"clear", "drop"}, NEW B \in SUBSET Graph
    PROVE  EmptyWork(op, B) \in Seq(UpdateCmd)
<1> DEFINE T == TargetsOf(op, B) \ {0}
           G == SetToSeq(T)
           all == [i \in 1 .. Cardinality(T) |-> Emptied(op, G[i])]
<1>1. TargetsOf(op, B) \in SUBSET Graph /\ T \in SUBSET Graph
  <2>1. op.of \in {"graph", "named", "all"}
    BY DEF Operation, Modify
  <2> QED
    BY <2>1 DEF TargetsOf
<1>2. \A g \in Graph : Emptied(op, g) \in Seq(UpdateCmd)
  <2> SUFFICES ASSUME NEW g \in Graph PROVE Emptied(op, g) \in Seq(UpdateCmd)
    OBVIOUS
  <2>1. /\ Del(0, Triple, BOOLEAN) \in UpdateCmd /\ Touch(0) \in UpdateCmd
        /\ [do |-> op.do, g |-> g] \in UpdateCmd /\ Touch(g) \in UpdateCmd
    BY DEF Del, Touch, UpdateCmd, Graph
  <2> QED
    BY <2>1 DEF Emptied
<1>3. all \in Seq(Seq(UpdateCmd))
  <2> HIDE DEF T
  <2>1. \A i \in 1 .. Cardinality(T) : G[i] \in Graph
    BY <1>1, GraphSets
  <2>2. Cardinality(T) \in Nat
    BY <1>1, GraphSets
  <2> QED
    BY <1>2, <2>1, <2>2, PointwiseSeq
<1> HIDE DEF all
<1>4. FlattenSeq(all) \in Seq(UpdateCmd)
  BY <1>3, Flattened
<1>5. Emptied(op, 0) \in Seq(UpdateCmd)
  BY <1>2 DEF Graph
<1>6. EmptyWork(op, B) = (IF 0 \in TargetsOf(op, B) THEN Emptied(op, 0) ELSE <<>>) \o FlattenSeq(all)
  BY DEF EmptyWork, Each, all
<1> QED
  BY <1>4, <1>5, <1>6

LEMMA OpWorkTyped ==
    ASSUME NEW op \in Operation, NEW B \in SUBSET Graph
    PROVE  OpWork(op, B) \in Seq(UpdateCmd)
<1>1. CASE op.do = "insertData"
  <2>1. op.g \in Graph /\ op.t \in Triple
    BY <1>1 DEF Operation, Modify
  <2>2. /\ [do |-> "allocate", g |-> op.g] \in UpdateCmd
        /\ Ins(op.g, op.t) \in UpdateCmd /\ Touch(op.g) \in UpdateCmd
    BY <2>1 DEF Ins, Touch, UpdateCmd
  <2>3. OpWork(op, B) = InsertQuad(op.g, op.t)
    BY <1>1 DEF OpWork
  <2> QED
    BY <2>2, <2>3 DEF InsertQuad
<1>2. CASE op.do = "deleteData"
  <2>1. op.g \in Graph /\ op.t \in Triple
    BY <1>2 DEF Operation, Modify
  <2>2. Del(op.g, {op.t}, BOOLEAN) \in UpdateCmd /\ Touch(op.g) \in UpdateCmd
    BY <2>1 DEF Del, Touch, UpdateCmd
  <2>3. OpWork(op, B) = DeleteQuad(op.g, op.t, B)
    BY <1>2 DEF OpWork
  <2> QED
    BY <2>2, <2>3 DEF DeleteQuad
<1>3. CASE op.do = "create"
  <2>1. op.g \in Graph
    BY <1>3 DEF Operation, Modify, Graph
  <2>2. [do |-> "allocate", g |-> op.g] \in UpdateCmd /\ Touch(op.g) \in UpdateCmd
    BY <2>1 DEF Touch, UpdateCmd
  <2>3. OpWork(op, B) = IF op.g \in B THEN <<Touch(op.g)>>
                        ELSE <<[do |-> "allocate", g |-> op.g], Touch(op.g)>>
    BY <1>3 DEF OpWork
  <2> QED
    BY <2>2, <2>3
<1>4. CASE op.do \in {"clear", "drop"}
  <2>1. OpWork(op, B) = EmptyWork(op, B)
    BY <1>4 DEF OpWork
  <2> QED
    BY <1>4, <2>1, EmptyWorkTyped
<1>5. CASE op.do = "modify"
  <2>1. op \in Modify
    BY <1>5 DEF Operation, Modify
  <2>2. op \in UpdateCmd /\ OpWork(op, B) = <<op>>
    BY <1>5, <2>1 DEF OpWork, UpdateCmd
  <2> QED
    BY <2>2
<1>6. op.do \in {"insertData", "deleteData", "create", "clear", "drop", "modify"}
  BY DEF Operation, Modify
<1> QED
  BY <1>1, <1>2, <1>3, <1>4, <1>5, <1>6

\* SolutionsEnd.
LEMMA FencesTyped ==
    ASSUME NEW T \in SUBSET Graph
    PROVE  Each(T, LAMBDA g : <<Touch(g)>>) \in Seq(UpdateCmd)
<1> DEFINE G == SetToSeq(T)
           all == [i \in 1 .. Cardinality(T) |-> <<Touch(G[i])>>]
<1>1. \A g \in Graph : Touch(g) \in UpdateCmd
  BY DEF Touch, UpdateCmd
<1>2. all \in Seq(Seq(UpdateCmd))
  <2>1. \A i \in 1 .. Cardinality(T) : G[i] \in Graph
    BY GraphSets
  <2>2. Cardinality(T) \in Nat
    BY GraphSets
  <2>3. \A i \in 1 .. Cardinality(T) : <<Touch(G[i])>> \in Seq(UpdateCmd)
    BY <1>1, <2>1
  <2> QED
    BY <2>2, <2>3, PointwiseSeq
<1> HIDE DEF all
<1>3. FlattenSeq(all) \in Seq(UpdateCmd)
  BY <1>2, Flattened
<1> QED
  BY <1>3 DEF Each, all

-----------------------------------------------------------------------------
(***************************************************************************)
(* Rows.                                                                   *)
(***************************************************************************)

\* A new row is a copy of the quad it is asked for.
LEMMA NewRowIsCopy ==
    ASSUME NEW g, NEW t, NEW inf, NEW by, Copies(g, t, inf, by) # {}
    PROVE  NewRow(g, t, inf, by) \in Copies(g, t, inf, by)
<1> DEFINE C == Copies(g, t, inf, by)
           N == {r.n : r \in C}
<1>1. \A r \in C : r.n \in Nat
  BY DEF Copies
<1> HIDE DEF C
<1>2. PICK m \in N : \A k \in N : m <= k
  <2>1. N \subseteq Nat /\ N # {}
    BY <1>1 DEF C
  <2> HIDE DEF N
  <2> QED
    BY <2>1, Least
<1>3. \E r \in C : \A q \in C : r.n <= q.n
  BY <1>2
<1> QED
  BY <1>3 DEF NewRow, C

LEMMA NewRowIs ==
    ASSUME NEW g, NEW t, NEW inf, NEW by, Copies(g, t, inf, by) # {}
    PROVE  /\ NewRow(g, t, inf, by).g = g /\ NewRow(g, t, inf, by).t = t
           /\ NewRow(g, t, inf, by).inf = inf /\ NewRow(g, t, inf, by).by = by
           /\ (g \in Graph /\ t \in Triple /\ inf \in BOOLEAN
                  /\ by \in {"update", "append", "reason"}) => NewRow(g, t, inf, by) \in Row
BY NewRowIsCopy DEF Copies, Row

\* There are finitely many rows.
LEMMA RowsFinite == IsFiniteSet(Row)
<1> DEFINE By == {"update", "append", "reason"}
           P  == Graph \X (Triple \X (BOOLEAN \X (By \X (1 .. MaxCopy))))
           f  == [p \in P |-> [g |-> p[1], t |-> p[2][1], inf |-> p[2][2][1],
                               by |-> p[2][2][2][1], n |-> p[2][2][2][2]]]
<1>1. IsFiniteSet(Graph) /\ IsFiniteSet(Triple) /\ IsFiniteSet(1 .. MaxCopy)
  BY StatementAssumption, FS_AddElement, FS_Interval DEF StatementAssumption, Graph
<1>2. IsFiniteSet(BOOLEAN) /\ IsFiniteSet(By)
  <2>1. IsFiniteSet({TRUE}) /\ IsFiniteSet({"update"})
    BY FS_Singleton
  <2>2. IsFiniteSet({TRUE} \cup {FALSE}) /\ IsFiniteSet({"update"} \cup {"append"})
    BY <2>1, FS_AddElement
  <2>3. IsFiniteSet(({"update"} \cup {"append"}) \cup {"reason"})
    BY <2>2, FS_AddElement
  <2>4. BOOLEAN = {TRUE} \cup {FALSE} /\ By = ({"update"} \cup {"append"}) \cup {"reason"}
    OBVIOUS
  <2> QED
    BY <2>2, <2>3, <2>4
<1>3. IsFiniteSet(P)
  <2> HIDE DEF By
  <2>1. IsFiniteSet(By \X (1 .. MaxCopy))
    BY <1>1, <1>2, FS_Product
  <2>2. IsFiniteSet(BOOLEAN \X (By \X (1 .. MaxCopy)))
    BY <1>2, <2>1, FS_Product
  <2>3. IsFiniteSet(Triple \X (BOOLEAN \X (By \X (1 .. MaxCopy))))
    BY <1>1, <2>2, FS_Product
  <2> QED
    BY <1>1, <2>3, FS_Product
<1>4. f \in [P -> Row]
  BY DEF Row
<1>5. \A r \in Row : \E p \in P : f[p] = r
  <2> SUFFICES ASSUME NEW r \in Row PROVE \E p \in P : f[p] = r
    OBVIOUS
  <2>1. <<r.g, <<r.t, <<r.inf, <<r.by, r.n>>>>>>>> \in P
    BY DEF Row
  <2>2. f[<<r.g, <<r.t, <<r.inf, <<r.by, r.n>>>>>>>>] = r
    BY <2>1 DEF Row
  <2> QED
    BY <2>1, <2>2
<1> HIDE DEF f, P
<1>6. f \in Surjection(P, Row)
  BY <1>4, <1>5 DEF Surjection
<1> QED
  BY <1>3, <1>6, FS_Surjection

-----------------------------------------------------------------------------
(***************************************************************************)
(* Type correctness.                                                       *)
(***************************************************************************)
LEMMA IdleTyped == Idle \in State /\ WorkTyped(Idle) /\ Idle.op = <<>>
<1>1. <<>> \in Work
  BY DEF Work
<1> QED
  BY <1>1 DEF Idle, State, WorkTyped

LEMMA GoesTyped ==
    ASSUME TypeOK, NEW s \in Session, NEW new \in State, WorkTyped(new), Goes(s, new)
    PROVE  TypeOK'
<1>1. sess' \in [Session -> State]
  BY DEF TypeOK, Goes
<1>2. \A o \in Session : WorkTyped(sess'[o])
  BY DEF TypeOK, Goes, WorkTyped
<1> QED
  BY <1>1, <1>2 DEF TypeOK, Goes

LEMMA AbortTyped == ASSUME TypeOK, NEW s \in Session, Abort(s) PROVE TypeOK'
<1>1. sess' \in [Session -> State]
  BY IdleTyped DEF TypeOK, Abort
<1>2. \A o \in Session : WorkTyped(sess'[o])
  BY IdleTyped DEF TypeOK, Abort, WorkTyped
<1> QED
  BY <1>1, <1>2 DEF TypeOK, Abort

LEMMA SessionTyped == ASSUME TypeOK, NEW s \in Session
                      PROVE sess[s] \in State /\ WorkTyped(sess[s])
BY DEF TypeOK, WorkTyped

LEMMA UpdateWork == \A w \in Seq(UpdateCmd) : w \in Work
BY DEF Work
LEMMA OtherWork == \A w \in Seq(OtherCmd) : w \in Work
BY DEF Work

\* What a session does next, and what is left.
LEMMA NextCmd ==
    ASSUME TypeOK, NEW s \in Session, sess[s].work # <<>>
    PROVE  /\ Head(sess[s].work) \in UpdateCmd \cup OtherCmd /\ Rest(s) \in Work
           /\ (Head(sess[s].work) \notin OtherCmd \/ sess[s].kind = "update") =>
                 (Head(sess[s].work) \in UpdateCmd /\ Rest(s) \in Seq(UpdateCmd)
                    /\ sess[s].kind = "update")
           /\ (Head(sess[s].work) \notin UpdateCmd \/ sess[s].kind # "update") =>
                 (Head(sess[s].work) \in OtherCmd /\ Rest(s) \in Seq(OtherCmd)
                    /\ sess[s].kind # "update" /\ sess[s].op = <<>>)
<1>1. WorkTyped(sess[s])
  BY DEF TypeOK
<1>2. CASE sess[s].kind = "update"
  BY <1>1, <1>2 DEF Rest, Work, WorkTyped
<1>3. CASE sess[s].kind # "update"
  BY <1>1, <1>3 DEF Rest, Work, WorkTyped
<1> QED
  BY <1>2, <1>3

\* The fields of a session's state after it goes on.
LEMMA ViewTyped == ASSUME TypeOK, NEW s \in Session
                   PROVE View(s) \in SUBSET Row /\ BoundOf(s) \in SUBSET Graph
BY DEF TypeOK, State, View, BoundOf, Graph

\* The steps of a DELETE, which an UPDATE and materialize share.
LEMMA DeleteTypes ==
    ASSUME TypeOK, NEW s \in Session, DeleteRows(s)
    PROVE  TypeOK'
<1> DEFINE x == Head(sess[s].work)
           found == {r \in View(s) : r.g = x.g /\ r.t \in x.ts /\ r.inf \in x.infs}
           new == [sess[s] EXCEPT !.work = Rest(s), !.wrote = @ \cup {x.g}, !.targets = found]
<1>1. Do(s, "delete") /\ (Abort(s) \/ Goes(s, new))
  BY DEF DeleteRows
<1>2. sess[s].work # <<>> /\ x.do = "delete"
  BY <1>1 DEF Do
<1>3. x.g \in Graph /\ Rest(s) \in Work
  BY <1>2, NextCmd, OtherCmdTypes, UpdateCmdTypes
<1>4. found \in SUBSET Row
  BY ViewTyped
<1>5. /\ sess[s].kind = "update" => Rest(s) \in Seq(UpdateCmd)
      /\ sess[s].kind # "update" => Rest(s) \in Seq(OtherCmd) /\ sess[s].op = <<>>
  BY <1>2, NextCmd
<1> HIDE DEF x, found
<1>6. new \in State /\ WorkTyped(new)
  BY <1>3, <1>4, <1>5, SessionTyped, ZenonT(120) DEF State, WorkTyped
<1> QED
  BY <1>1, <1>6, GoesTyped, AbortTyped

\* Between two solutions there is only what is left of the UPDATE.
LEMMA SolutionTypes ==
    ASSUME TypeOK, NEW s \in Session, SolutionRow(s) \/ SolutionsEnd(s)
    PROVE  TypeOK'
<1>1. BetweenSolutions(s)
  BY DEF SolutionRow, SolutionsEnd
<1>2. sess[s].work \in Seq(UpdateCmd) /\ sess[s].kind = "update"
  BY <1>1, SessionTyped DEF BetweenSolutions, WorkTyped
<1>3. CASE SolutionRow(s)
  <2> DEFINE op == sess[s].op[1]
  <2>1. PICK sol \in sess[s].todo :
          Goes(s, [sess[s] EXCEPT !.todo = @ \ {sol},
                    !.work = RowWork(op, sol, BoundOf(s)) \o @])
    BY <1>3 DEF SolutionRow
  <2>2. op \in Modify /\ sol \in Triple
    BY <1>1 DEF TypeOK, State, BetweenSolutions
  <2> DEFINE work == RowWork(op, sol, BoundOf(s)) \o sess[s].work
             new == [sess[s] EXCEPT !.todo = @ \ {sol}, !.work = work]
  <2>3. work \in Seq(UpdateCmd) /\ sess[s].kind = "update"
    BY <1>2, <2>2, RowWorkTyped
  <2>4. Goes(s, new)
    BY <2>1
  <2> HIDE DEF work
  <2>5. new \in State /\ WorkTyped(new)
    BY <2>3, SessionTyped, UpdateWork, ZenonT(120) DEF State, WorkTyped
  <2> QED
    BY <2>4, <2>5, GoesTyped
<1>4. CASE SolutionsEnd(s)
  <2> DEFINE work == Each(sess[s].here, LAMBDA g : <<Touch(g)>>) \o sess[s].work
             new == [sess[s] EXCEPT !.op = <<>>, !.here = {}, !.work = work]
  <2>1. Goes(s, new)
    BY <1>4 DEF SolutionsEnd
  <2>2. work \in Seq(UpdateCmd) /\ sess[s].kind = "update"
    <3>1. sess[s].here \in SUBSET Graph
      BY DEF TypeOK, State
    <3>2. Each(sess[s].here, LAMBDA g : <<Touch(g)>>) \in Seq(UpdateCmd)
      BY <3>1, FencesTyped
    <3>3. \A x, y \in Seq(UpdateCmd) : x \o y \in Seq(UpdateCmd)
      OBVIOUS
    <3> QED
      BY <1>2, <3>2, <3>3
  <2> HIDE DEF work
  <2>3. <<>> \in Seq(Modify)
    OBVIOUS
  <2>4. new \in State /\ WorkTyped(new)
    BY <2>2, <2>3, SessionTyped, UpdateWork, ZenonT(120) DEF State, WorkTyped
  <2> QED
    BY <2>1, <2>4, GoesTyped
<1> QED
  BY <1>3, <1>4

LEMMA UpdateTypes ==
    ASSUME TypeOK, NEW s \in Session, UpdateNext(s)
    PROVE  TypeOK'
<1>1. CASE \E ops \in Updates : UpdateStart(s, ops)
  <2>1. PICK ops \in Updates : UpdateStart(s, ops)
    BY <1>1
  <2> DEFINE work == [i \in DOMAIN ops |-> [do |-> "op", op |-> ops[i]]]
             new == [Idle EXCEPT !.kind = "update", !.work = work]
  <2>2. ops \in Seq(Operation)
    BY StatementAssumption DEF StatementAssumption
  <2>3. work \in Seq(UpdateCmd)
    <3>1. \A i \in 1 .. Len(ops) : [do |-> "op", op |-> ops[i]] \in UpdateCmd
      BY <2>2 DEF UpdateCmd
    <3> QED
      BY <2>2, <3>1
  <2> HIDE DEF work
  <2>4. new \in State /\ WorkTyped(new)
    BY <2>3, IdleTyped, UpdateWork DEF State, WorkTyped
  <2>5. sess' = [sess EXCEPT ![s] = new] /\ UNCHANGED <<rows, bound, locked, stamp, disturbed>>
        /\ gate' = s
    BY <2>1 DEF UpdateStart, TakesGate, work
  <2> HIDE DEF new
  <2> QED
    BY <2>4, <2>5 DEF TypeOK, WorkTyped
<1>2. CASE UpdateOp(s)
  <2> DEFINE op == Head(sess[s].work).op
             new == [sess[s] EXCEPT !.work = OpWork(op, BoundOf(s)) \o Rest(s)]
  <2>1. Do(s, "op") /\ (Abort(s) \/ Goes(s, new))
    BY <1>2 DEF UpdateOp
  <2>2. sess[s].work # <<>> /\ Head(sess[s].work).do = "op"
    BY <2>1 DEF Do
  <2>3. op \in Operation /\ Rest(s) \in Seq(UpdateCmd)
        /\ sess[s].kind = "update"
    BY <2>2, NextCmd, OtherCmdTypes, UpdateCmdTypes
  <2>4. OpWork(op, BoundOf(s)) \o Rest(s) \in Seq(UpdateCmd)
    BY <2>3, OpWorkTyped, ViewTyped
  <2>5. new \in State /\ WorkTyped(new)
    BY <2>3, <2>4, SessionTyped, UpdateWork, ZenonT(120) DEF State, WorkTyped
  <2> QED
    BY <2>1, <2>5, GoesTyped, AbortTyped
<1>3. CASE AllocateGraph(s)
  <2> DEFINE g == Head(sess[s].work).g
             new == [sess[s] EXCEPT !.work = Rest(s),
                        !.made = IF g \in BoundOf(s) THEN @ ELSE @ \cup {g},
                        !.gone = @ \ {g}]
  <2>1. Do(s, "allocate") /\ Goes(s, new)
    BY <1>3 DEF AllocateGraph
  <2>2. sess[s].work # <<>> /\ Head(sess[s].work).do = "allocate"
    BY <2>1 DEF Do
  <2>3. g \in Graph /\ Rest(s) \in Seq(UpdateCmd)
        /\ sess[s].kind = "update"
    BY <2>2, NextCmd, OtherCmdTypes, UpdateCmdTypes
  <2> HIDE DEF g
  <2>4. new \in State /\ WorkTyped(new)
    BY <2>3, SessionTyped, UpdateWork, ZenonT(120) DEF State, WorkTyped
  <2> QED
    BY <2>1, <2>4, GoesTyped
<1>4. CASE InsertRow(s)
  <2> DEFINE x == Head(sess[s].work)
             r == NewRow(x.g, x.t, FALSE, "update")
             same == [sess[s] EXCEPT !.work = Rest(s), !.wrote = @ \cup {x.g}, !.ins = @]
             new == [sess[s] EXCEPT !.work = Rest(s), !.wrote = @ \cup {x.g},
                                    !.ins = @ \cup {r}]
  <2>1. /\ Do(s, "insert")
        /\ \/ Abort(s) \/ Goes(s, same)
           \/ Copies(x.g, x.t, FALSE, "update") # {} /\ Goes(s, new)
    BY <1>4 DEF InsertRow
  <2>2. sess[s].work # <<>> /\ x.do = "insert"
    BY <2>1 DEF Do
  <2>3. x.g \in Graph /\ x.t \in Triple /\ Rest(s) \in Seq(UpdateCmd)
        /\ sess[s].kind = "update"
    BY <2>2, NextCmd, OtherCmdTypes, UpdateCmdTypes
  <2>4. Copies(x.g, x.t, FALSE, "update") # {} => r \in Row
    BY <2>3, NewRowIs
  <2> HIDE DEF x, r
  <2>5. same \in State /\ WorkTyped(same)
    BY <2>3, SessionTyped, UpdateWork, ZenonT(120) DEF State, WorkTyped
  <2>6. r \in Row => new \in State /\ WorkTyped(new)
    BY <2>3, SessionTyped, UpdateWork, ZenonT(120) DEF State, WorkTyped
  <2> HIDE DEF same, new
  <2> QED
    BY <2>1, <2>4, <2>5, <2>6, GoesTyped, AbortTyped
<1>5. CASE DeleteRows(s)
  BY <1>5, DeleteTypes
<1>6. CASE DeleteFound(s)
  <2> DEFINE new == [sess[s] EXCEPT !.targets = {}, !.ins = @ \ sess[s].targets,
                              !.del = @ \cup (sess[s].targets \cap rows)]
  <2>1. Goes(s, new)
    BY <1>6 DEF DeleteFound
  <2>2. new \in State /\ WorkTyped(new)
    BY SessionTyped, ZenonT(120) DEF State, WorkTyped
  <2> QED
    BY <2>1, <2>2, GoesTyped
<1>7. CASE SolveWhere(s)
  <2> DEFINE op == Head(sess[s].work)
             todo == SetOf(RowsOf(View(s), op.g)) \cap op.where
             ops == <<op>>
             read == sess[s].read \cup {op.g}
             new == [sess[s] EXCEPT !.work = Rest(s), !.op = ops, !.read = read, !.todo = todo]
  <2>1. Do(s, "modify") /\ Goes(s, new)
    BY <1>7 DEF SolveWhere
  <2>2. sess[s].work # <<>> /\ op.do = "modify"
    BY <2>1 DEF Do
  <2>3. op \in Modify /\ op.g \in Graph /\ Rest(s) \in Seq(UpdateCmd)
        /\ sess[s].kind = "update"
    BY <2>2, NextCmd, OtherCmdTypes, UpdateCmdTypes
  <2>4. todo \in SUBSET Triple
    BY <2>3, ViewTyped DEF SetOf, RowsOf, Row, Modify
  <2>6. ops \in Seq(Modify) /\ read \in SUBSET Graph
    BY <2>3, SessionTyped DEF State
  <2> HIDE DEF op, todo, ops, read
  <2>5. new \in State /\ WorkTyped(new)
    BY <2>3, <2>4, <2>6, SessionTyped, UpdateWork, ZenonT(120) DEF State, WorkTyped
  <2> QED
    BY <2>1, <2>5, GoesTyped
<1>8. CASE SolutionRow(s)
  BY <1>8, SolutionTypes
<1>9. CASE SolutionsEnd(s)
  BY <1>9, SolutionTypes
<1>10. CASE TouchGraph(s)
  <2> DEFINE g == Head(sess[s].work).g
             here == IF sess[s].op # <<>> THEN sess[s].here \cup {g} ELSE sess[s].here
             known == IF sess[s].op # <<>> THEN sess[s].touched ELSE sess[s].touched \cup {g}
             new == [sess[s] EXCEPT !.work = Rest(s), !.here = here, !.touched = known]
  <2>1. Do(s, "touch") /\ (Abort(s) \/ Goes(s, new))
    BY <1>10 DEF TouchGraph
  <2>2. sess[s].work # <<>> /\ Head(sess[s].work).do = "touch"
    BY <2>1 DEF Do
  <2>3. g \in Graph /\ Rest(s) \in Seq(UpdateCmd)
        /\ sess[s].kind = "update"
    BY <2>2, NextCmd, OtherCmdTypes, UpdateCmdTypes
  <2>5. here \in SUBSET Graph /\ known \in SUBSET Graph
    BY <2>3, SessionTyped DEF State
  <2> HIDE DEF here, known
  <2>4. new \in State /\ WorkTyped(new)
    BY <2>3, <2>5, SessionTyped, UpdateWork, ZenonT(120) DEF State, WorkTyped
  <2> QED
    BY <2>1, <2>4, GoesTyped, AbortTyped
<1>11. CASE TruncateGraph(s)
  <2> DEFINE x == Head(sess[s].work)
             dropped == IF x.do = "drop" THEN {x.g} ELSE {}
             excl == sess[s].excl \cup {x.g}
             ins == {r \in sess[s].ins : r.g # x.g}
             del == sess[s].del \cup RowsOf(rows, x.g)
             gone == sess[s].gone \cup dropped
             made == sess[s].made \ dropped
             new == [sess[s] EXCEPT !.work = Rest(s), !.excl = excl, !.ins = ins,
                                    !.del = del, !.gone = gone, !.made = made]
  <2>1. (Do(s, "clear") \/ Do(s, "drop")) /\ (Abort(s) \/ Goes(s, new))
    BY <1>11 DEF TruncateGraph
  <2>2. sess[s].work # <<>> /\ x.do \in {"clear", "drop"}
    BY <2>1 DEF Do
  <2>3. x.g \in Graph /\ Rest(s) \in Seq(UpdateCmd)
        /\ sess[s].kind = "update"
    BY <2>2, NextCmd, OtherCmdTypes, UpdateCmdTypes
  <2>4. dropped \in SUBSET Graph /\ RowsOf(rows, x.g) \in SUBSET Row
    BY <2>3 DEF RowsOf, TypeOK
  <2> HIDE DEF x, dropped
  <2>6. /\ excl \in SUBSET Graph /\ ins \in SUBSET Row /\ del \in SUBSET Row
        /\ gone \in SUBSET Graph /\ made \in SUBSET Graph
    BY <2>3, <2>4, SessionTyped DEF State
  <2> HIDE DEF excl, ins, del, gone, made
  <2>5. new \in State /\ WorkTyped(new)
    BY <2>3, <2>6, SessionTyped, UpdateWork, ZenonT(120) DEF State, WorkTyped
  <2> QED
    BY <2>1, <2>5, GoesTyped, AbortTyped
<1> QED
  BY <1>1, <1>2, <1>3, <1>4, <1>5, <1>6, <1>7, <1>8, <1>9, <1>10, <1>11 DEF UpdateNext


\* materialize, and the appending writers.
LEMMA OtherTypes ==
    ASSUME TypeOK, NEW s \in Session, MaterializeNext(s) \/ AppendNext(s)
    PROVE  TypeOK'
<1>1. CASE \E g \in Materialized : MaterializeStart(s, g)
  <2>1. PICK g \in Materialized : MaterializeStart(s, g)
    BY <1>1
  <2> DEFINE work == <<Del(g, Triple, {TRUE}), [do |-> "reason", g |-> g],
                       [do |-> "stamp", g |-> g]>>
             new == [Idle EXCEPT !.kind = "materialize", !.work = work]
  <2>2. g \in Graph /\ Goes(s, new)
    BY <2>1 DEF MaterializeStart, TypeOK, Graph
  <2>3. work \in Seq(OtherCmd)
    <3>1. /\ Del(g, Triple, {TRUE}) \in OtherCmd /\ [do |-> "reason", g |-> g] \in OtherCmd
          /\ [do |-> "stamp", g |-> g] \in OtherCmd
      BY <2>2 DEF Del, OtherCmd
    <3> QED
      BY <3>1
  <2> HIDE DEF work
  <2>4. new \in State /\ WorkTyped(new)
    BY <2>3, IdleTyped, OtherWork DEF State, WorkTyped
  <2> QED
    BY <2>2, <2>4, GoesTyped
<1>2. CASE Reason(s)
  <2> DEFINE g == Head(sess[s].work).g
             base == {r \in RowsOf(View(s), g) : ~r.inf}
             infer == [do |-> "infer", g |-> g, ts |-> Derived(SetOf(base)) \ SetOf(base)]
             work == <<infer>> \o Rest(s)
             new == [sess[s] EXCEPT !.base = base, !.work = work]
  <2>1. Do(s, "reason") /\ Goes(s, new)
    BY <1>2 DEF Reason
  <2>2. sess[s].work # <<>> /\ Head(sess[s].work).do = "reason"
    BY <2>1 DEF Do
  <2>3. g \in Graph /\ Rest(s) \in Seq(OtherCmd) /\ sess[s].kind # "update" /\ sess[s].op = <<>>
    BY <2>2, NextCmd, OtherCmdTypes, UpdateCmdTypes
  <2>4. base \in SUBSET Row
    BY ViewTyped DEF RowsOf
  <2>5. infer \in OtherCmd
    <3>1. Derived(SetOf(base)) \ SetOf(base) \in SUBSET Triple
      BY DEF Derived
    <3> QED
      BY <2>3, <3>1 DEF OtherCmd
  <2>6. work \in Seq(OtherCmd)
    BY <2>3, <2>5
  <2> HIDE DEF work, base
  <2>7. new \in State /\ WorkTyped(new)
    BY <2>3, <2>4, <2>6, SessionTyped, OtherWork, ZenonT(120) DEF State, WorkTyped
  <2> QED
    BY <2>1, <2>7, GoesTyped
<1>3. CASE InferRows(s)
  <2> DEFINE x == Head(sess[s].work)
             new1(t) == NewRow(x.g, t, TRUE, "reason")
             wrote == sess[s].wrote \cup {x.g}
             ins == sess[s].ins \cup {new1(t) : t \in x.ts}
             new == [sess[s] EXCEPT !.work = Rest(s), !.wrote = wrote, !.ins = ins]
  <2>1. /\ Do(s, "infer") /\ \A t \in x.ts : Copies(x.g, t, TRUE, "reason") # {}
        /\ Abort(s) \/ Goes(s, new)
    BY <1>3 DEF InferRows
  <2>2. sess[s].work # <<>> /\ x.do = "infer"
    BY <2>1 DEF Do
  <2>3. x.g \in Graph /\ x.ts \subseteq Triple /\ Rest(s) \in Seq(OtherCmd)
        /\ sess[s].kind # "update" /\ sess[s].op = <<>>
    BY <2>2, NextCmd, OtherCmdTypes, UpdateCmdTypes
  <2>4. \A t \in x.ts : new1(t) \in Row
    BY <2>1, <2>3, NewRowIs
  <2> HIDE DEF x, new1
  <2>5. wrote \in SUBSET Graph /\ ins \in SUBSET Row
    BY <2>3, <2>4, SessionTyped DEF State
  <2> HIDE DEF wrote, ins
  <2>6. new \in State /\ WorkTyped(new)
    BY <2>3, <2>5, SessionTyped, OtherWork, ZenonT(120) DEF State, WorkTyped
  <2> QED
    BY <2>1, <2>6, GoesTyped, AbortTyped
<1>4. CASE StampGraph(s)
  <2> DEFINE g == Head(sess[s].work).g
             stamps == {<<g, CountRead(s, g)>>}
             new == [sess[s] EXCEPT !.work = Rest(s), !.stamps = stamps]
  <2>1. Do(s, "stamp") /\ Goes(s, new)
    BY <1>4 DEF StampGraph
  <2>2. sess[s].work # <<>> /\ Head(sess[s].work).do = "stamp"
    BY <2>1 DEF Do
  <2>3. g \in Graph /\ Rest(s) \in Seq(OtherCmd) /\ sess[s].kind # "update" /\ sess[s].op = <<>>
    BY <2>2, NextCmd, OtherCmdTypes, UpdateCmdTypes
  <2>4. CountRead(s, g) \in Nat
    <3>1. sess[s].base \subseteq Row
      BY SessionTyped DEF State
    <3> QED
      BY <3>1, RowsFinite, FS_Subset, FS_CardinalityType DEF CountRead
  <2>5. stamps \in SUBSET (Graph \X Nat)
    BY <2>3, <2>4
  <2> HIDE DEF stamps
  <2>6. new \in State /\ WorkTyped(new)
    BY <2>3, <2>5, SessionTyped, OtherWork, ZenonT(120) DEF State, WorkTyped
  <2> QED
    BY <2>1, <2>6, GoesTyped
<1>5. CASE \E q \in Appended : AppendStart(s, q)
  <2>1. PICK q \in Appended : AppendStart(s, q)
    BY <1>5
  <2> DEFINE work == <<[do |-> "append", g |-> q[1], t |-> q[2]]>>
             new == [Idle EXCEPT !.kind = "append", !.work = work]
  <2>2. q \in Graph \X Triple /\ Goes(s, new)
    BY <2>1, StatementAssumption DEF AppendStart, StatementAssumption
  <2>3. work \in Seq(OtherCmd)
    <3>1. [do |-> "append", g |-> q[1], t |-> q[2]] \in OtherCmd
      BY <2>2 DEF OtherCmd
    <3> QED
      BY <3>1
  <2> HIDE DEF work
  <2>4. new \in State /\ WorkTyped(new)
    BY <2>3, IdleTyped, OtherWork DEF State, WorkTyped
  <2> QED
    BY <2>2, <2>4, GoesTyped
<1>6. CASE AppendRow(s)
  <2> DEFINE x == Head(sess[s].work)
             r == NewRow(x.g, x.t, FALSE, "append")
             wrote == sess[s].wrote \cup {x.g}
             ins == sess[s].ins \cup {r}
             new == [sess[s] EXCEPT !.work = Rest(s), !.wrote = wrote, !.ins = ins]
  <2>1. /\ Do(s, "append") /\ Copies(x.g, x.t, FALSE, "append") # {}
        /\ Abort(s) \/ Goes(s, new)
    BY <1>6 DEF AppendRow
  <2>2. sess[s].work # <<>> /\ x.do = "append"
    BY <2>1 DEF Do
  <2>3. x.g \in Graph /\ x.t \in Triple /\ Rest(s) \in Seq(OtherCmd)
        /\ sess[s].kind # "update" /\ sess[s].op = <<>>
    BY <2>2, NextCmd, OtherCmdTypes, UpdateCmdTypes
  <2>4. r \in Row
    BY <2>1, <2>3, NewRowIs
  <2> HIDE DEF x, r
  <2>5. wrote \in SUBSET Graph /\ ins \in SUBSET Row
    BY <2>3, <2>4, SessionTyped DEF State
  <2> HIDE DEF wrote, ins
  <2>6. new \in State /\ WorkTyped(new)
    BY <2>3, <2>5, SessionTyped, OtherWork, ZenonT(120) DEF State, WorkTyped
  <2> QED
    BY <2>1, <2>6, GoesTyped, AbortTyped
<1> QED
  BY <1>1, <1>2, <1>3, <1>4, <1>5, <1>6 DEF MaterializeNext, AppendNext

LEMMA CommitTypes == ASSUME TypeOK, NEW s \in Session, Commit(s) PROVE TypeOK'
<1> DEFINE me == sess[s]
           stampOf(g) == {p[2] : p \in {q \in me.stamps : q[1] = g}}
<1>1. me \in State
  BY SessionTyped
<1>2. rows' \in SUBSET Row
  BY <1>1 DEF Commit, TypeOK, State
<1>3. bound' \in SUBSET Graph
  BY <1>1 DEF Commit, TypeOK, State
<1>4. stamp' \in [Graph -> Int]
  <2>1. \A g \in Graph : stampOf(g) \subseteq Nat
    BY <1>1 DEF State
  <2> HIDE DEF stampOf
  <2>2. \A g \in Graph : stampOf(g) # {} => (CHOOSE n \in stampOf(g) : TRUE) \in Nat
    BY <2>1
  <2> DEFINE val(g) == IF g \in me.gone THEN -1
                       ELSE IF stampOf(g) # {} THEN CHOOSE n \in stampOf(g) : TRUE
                       ELSE stamp[g]
  <2>3. \A g \in Graph : val(g) \in Int
    BY <2>2 DEF TypeOK
  <2>4. stamp' = [g \in Graph |-> val(g)]
    BY DEF Commit, stampOf
  <2> HIDE DEF val
  <2> QED
    BY <2>3, <2>4
<1>5. disturbed' \in SUBSET Graph
  BY DEF Commit
<1>6. gate' \in Session \cup {NoSession} /\ locked' \in SUBSET Graph
  BY DEF Commit, TypeOK
<1>7. sess' = [sess EXCEPT ![s] = Idle]
  BY DEF Commit
<1>8. sess' \in [Session -> State]
  BY <1>7, IdleTyped DEF TypeOK
<1>9. \A o \in Session : WorkTyped(sess'[o])
  BY <1>7, IdleTyped DEF TypeOK, WorkTyped
<1> QED
  BY <1>2, <1>3, <1>4, <1>5, <1>6, <1>8, <1>9 DEF TypeOK

LEMMA InitTypes == Init => TypeOK
<1> SUFFICES ASSUME Init PROVE TypeOK
  OBVIOUS
<1>1. sess \in [Session -> State]
  BY IdleTyped DEF Init
<1>2. \A s \in Session : WorkTyped(sess[s])
  BY IdleTyped DEF Init, WorkTyped
<1> QED
  BY <1>1, <1>2 DEF Init, TypeOK

LEMMA NextTypes == TypeOK /\ [Next]_vars => TypeOK'
<1> SUFFICES ASSUME TypeOK, [Next]_vars PROVE TypeOK'
  OBVIOUS
<1>1. CASE \E s \in Session : UpdateNext(s)
  BY <1>1, UpdateTypes
<1>2. CASE \E s \in Session : MaterializeNext(s) \/ AppendNext(s)
  BY <1>2, OtherTypes
<1>3. CASE \E s \in Session : Commit(s)
  BY <1>3, CommitTypes
<1>4. CASE \E s \in Session : Cancel(s)
  BY <1>4, AbortTyped DEF Cancel
<1>5. CASE \E g \in Lockable : LockGraph(g) \/ UnlockGraph(g)
  BY <1>5 DEF LockGraph, UnlockGraph, TypeOK, Graph
<1>6. CASE UNCHANGED vars
  BY <1>6 DEF vars, TypeOK
<1> QED
  BY <1>1, <1>2, <1>3, <1>4, <1>5, <1>6 DEF Next

\* Every state a statement leaves has its type, whatever statements are run.
THEOREM TypeCorrect == Spec => []TypeOK
BY InitTypes, NextTypes, PTL DEF Spec

-----------------------------------------------------------------------------
(***************************************************************************)
(* What each step does to the session that takes it.                       *)
(***************************************************************************)
SameRun(x, y)  == y.kind = x.kind /\ y.gone = x.gone /\ y.base = x.base /\ y.stamps = x.stamps
SameRows(x, y) == /\ y.ins = x.ins /\ y.del = x.del /\ y.targets = x.targets
                  /\ y.wrote = x.wrote /\ y.excl = x.excl

\* Only session s goes on, and nothing is committed.
Alone(s) == /\ \A o \in Session \ {s} : sess'[o] = sess[o]
            /\ rows' = rows /\ locked' = locked /\ stamp' = stamp /\ disturbed' = disturbed

LEMMA AfterGoes ==
    ASSUME TypeOK, NEW s \in Session, NEW new, Goes(s, new)
    PROVE  sess'[s] = new /\ Goes(s, sess'[s]) /\ Alone(s) /\ gate' = gate
BY DEF Goes, TypeOK, Alone

LEMMA AfterAbort ==
    ASSUME TypeOK, NEW s \in Session, Abort(s)
    PROVE  sess'[s] = Idle /\ Alone(s) /\ gate' = IF gate = s THEN NoSession ELSE gate
BY DEF Abort, TypeOK, Alone

\* The steps of an UPDATE that touch no row.
LEMMA QuietUpdates ==
    ASSUME TypeOK, NEW s \in Session,
           \/ UpdateOp(s) \/ AllocateGraph(s) \/ SolveWhere(s)
           \/ SolutionRow(s) \/ SolutionsEnd(s) \/ TouchGraph(s)
    PROVE  /\ sess[s].kind = "update"
           /\ \/ Abort(s)
              \/ /\ Goes(s, sess'[s]) /\ SameRows(sess[s], sess'[s])
                 /\ sess'[s].kind = "update" /\ sess'[s].stamps = sess[s].stamps
<1>1. CASE UpdateOp(s)
  <2>1. Do(s, "op")
    BY <1>1 DEF UpdateOp
  <2>2. sess[s].kind = "update"
    BY <2>1, NextCmd, OtherCmdTypes DEF Do
  <2>3. \/ Abort(s)
        \/ \E w : Goes(s, [sess[s] EXCEPT !.work = w])
    BY <1>1 DEF UpdateOp
  <2>4. ASSUME NEW w, Goes(s, [sess[s] EXCEPT !.work = w])
        PROVE  /\ Goes(s, sess'[s]) /\ SameRows(sess[s], sess'[s])
               /\ sess'[s].kind = sess[s].kind /\ sess'[s].stamps = sess[s].stamps
    <3> DEFINE x == sess[s]
               y == sess'[s]
               new == [x EXCEPT !.work = w]
    <3>1. Goes(s, new)
      BY <2>4
    <3> HIDE DEF new
    <3>2. y = new /\ Goes(s, y)
      BY <3>1, AfterGoes
    <3>3. x \in State
      BY SessionTyped
    <3> HIDE DEF x, y
    <3>4. SameRows(x, y) /\ y.kind = x.kind /\ y.stamps = x.stamps
      BY <3>2, <3>3 DEF new, State, SameRows
    <3> QED
      BY <3>2, <3>4 DEF x, y
  <2> QED
    BY <2>2, <2>3, <2>4
<1>2. CASE AllocateGraph(s)
  <2>1. Do(s, "allocate")
    BY <1>2 DEF AllocateGraph
  <2>2. sess[s].kind = "update"
    BY <2>1, NextCmd, OtherCmdTypes DEF Do
  <2>3. \E w, m, g : Goes(s, [sess[s] EXCEPT !.work = w, !.made = m, !.gone = g])
    BY <1>2 DEF AllocateGraph
  <2>4. ASSUME NEW w, NEW m, NEW g, Goes(s, [sess[s] EXCEPT !.work = w, !.made = m, !.gone = g])
        PROVE  /\ Goes(s, sess'[s]) /\ SameRows(sess[s], sess'[s])
               /\ sess'[s].kind = sess[s].kind /\ sess'[s].stamps = sess[s].stamps
    <3> DEFINE x == sess[s]
               y == sess'[s]
               new == [x EXCEPT !.work = w, !.made = m, !.gone = g]
    <3>1. Goes(s, new)
      BY <2>4
    <3> HIDE DEF new
    <3>2. y = new /\ Goes(s, y)
      BY <3>1, AfterGoes
    <3>3. x \in State
      BY SessionTyped
    <3> HIDE DEF x, y
    <3>4. SameRows(x, y) /\ y.kind = x.kind /\ y.stamps = x.stamps
      BY <3>2, <3>3 DEF new, State, SameRows
    <3> QED
      BY <3>2, <3>4 DEF x, y
  <2> QED
    BY <2>2, <2>3, <2>4
<1>3. CASE SolveWhere(s)
  <2>1. Do(s, "modify")
    BY <1>3 DEF SolveWhere
  <2>2. sess[s].kind = "update"
    BY <2>1, NextCmd, OtherCmdTypes DEF Do
  <2>3. \E w, o, r, t : Goes(s, [sess[s] EXCEPT !.work = w, !.op = o, !.read = r, !.todo = t])
    BY <1>3 DEF SolveWhere
  <2>4. ASSUME NEW w, NEW o, NEW r, NEW t, Goes(s, [sess[s] EXCEPT !.work = w, !.op = o, !.read = r, !.todo = t])
        PROVE  /\ Goes(s, sess'[s]) /\ SameRows(sess[s], sess'[s])
               /\ sess'[s].kind = sess[s].kind /\ sess'[s].stamps = sess[s].stamps
    <3> DEFINE x == sess[s]
               y == sess'[s]
               new == [x EXCEPT !.work = w, !.op = o, !.read = r, !.todo = t]
    <3>1. Goes(s, new)
      BY <2>4
    <3> HIDE DEF new
    <3>2. y = new /\ Goes(s, y)
      BY <3>1, AfterGoes
    <3>3. x \in State
      BY SessionTyped
    <3> HIDE DEF x, y
    <3>4. SameRows(x, y) /\ y.kind = x.kind /\ y.stamps = x.stamps
      BY <3>2, <3>3 DEF new, State, SameRows
    <3> QED
      BY <3>2, <3>4 DEF x, y
  <2> QED
    BY <2>2, <2>3, <2>4
<1>4. CASE SolutionRow(s)
  <2>1. sess[s].kind = "update"
    BY <1>4 DEF SolutionRow, BetweenSolutions, WorkTyped, TypeOK
  <2>2. \E w, t : Goes(s, [sess[s] EXCEPT !.todo = t, !.work = w])
    BY <1>4 DEF SolutionRow
  <2>4. ASSUME NEW w, NEW t, Goes(s, [sess[s] EXCEPT !.todo = t, !.work = w])
        PROVE  /\ Goes(s, sess'[s]) /\ SameRows(sess[s], sess'[s])
               /\ sess'[s].kind = sess[s].kind /\ sess'[s].stamps = sess[s].stamps
    <3> DEFINE x == sess[s]
               y == sess'[s]
               new == [x EXCEPT !.todo = t, !.work = w]
    <3>1. Goes(s, new)
      BY <2>4
    <3> HIDE DEF new
    <3>2. y = new /\ Goes(s, y)
      BY <3>1, AfterGoes
    <3>3. x \in State
      BY SessionTyped
    <3> HIDE DEF x, y
    <3>4. SameRows(x, y) /\ y.kind = x.kind /\ y.stamps = x.stamps
      BY <3>2, <3>3 DEF new, State, SameRows
    <3> QED
      BY <3>2, <3>4 DEF x, y
  <2> QED
    BY <2>1, <2>2, <2>4
<1>5. CASE SolutionsEnd(s)
  <2>1. sess[s].kind = "update"
    BY <1>5 DEF SolutionsEnd, BetweenSolutions, WorkTyped, TypeOK
  <2>2. \E w, h, o : Goes(s, [sess[s] EXCEPT !.op = o, !.here = h, !.work = w])
    BY <1>5 DEF SolutionsEnd
  <2>4. ASSUME NEW w, NEW h, NEW o, Goes(s, [sess[s] EXCEPT !.op = o, !.here = h, !.work = w])
        PROVE  /\ Goes(s, sess'[s]) /\ SameRows(sess[s], sess'[s])
               /\ sess'[s].kind = sess[s].kind /\ sess'[s].stamps = sess[s].stamps
    <3> DEFINE x == sess[s]
               y == sess'[s]
               new == [x EXCEPT !.op = o, !.here = h, !.work = w]
    <3>1. Goes(s, new)
      BY <2>4
    <3> HIDE DEF new
    <3>2. y = new /\ Goes(s, y)
      BY <3>1, AfterGoes
    <3>3. x \in State
      BY SessionTyped
    <3> HIDE DEF x, y
    <3>4. SameRows(x, y) /\ y.kind = x.kind /\ y.stamps = x.stamps
      BY <3>2, <3>3 DEF new, State, SameRows
    <3> QED
      BY <3>2, <3>4 DEF x, y
  <2> QED
    BY <2>1, <2>2, <2>4
<1>6. CASE TouchGraph(s)
  <2>1. Do(s, "touch")
    BY <1>6 DEF TouchGraph
  <2>2. sess[s].kind = "update"
    BY <2>1, NextCmd, OtherCmdTypes DEF Do
  <2>3. \/ Abort(s)
        \/ \E w, h, t : Goes(s, [sess[s] EXCEPT !.work = w, !.here = h, !.touched = t])
    BY <1>6 DEF TouchGraph
  <2>4. ASSUME NEW w, NEW h, NEW t, Goes(s, [sess[s] EXCEPT !.work = w, !.here = h, !.touched = t])
        PROVE  /\ Goes(s, sess'[s]) /\ SameRows(sess[s], sess'[s])
               /\ sess'[s].kind = sess[s].kind /\ sess'[s].stamps = sess[s].stamps
    <3> DEFINE x == sess[s]
               y == sess'[s]
               new == [x EXCEPT !.work = w, !.here = h, !.touched = t]
    <3>1. Goes(s, new)
      BY <2>4
    <3> HIDE DEF new
    <3>2. y = new /\ Goes(s, y)
      BY <3>1, AfterGoes
    <3>3. x \in State
      BY SessionTyped
    <3> HIDE DEF x, y
    <3>4. SameRows(x, y) /\ y.kind = x.kind /\ y.stamps = x.stamps
      BY <3>2, <3>3 DEF new, State, SameRows
    <3> QED
      BY <3>2, <3>4 DEF x, y
  <2> QED
    BY <2>2, <2>3, <2>4
<1> QED
  BY <1>1, <1>2, <1>3, <1>4, <1>5, <1>6

LEMMA InsertEffect ==
    ASSUME TypeOK, NEW s \in Session, InsertRow(s)
    PROVE  LET x == sess[s]  y == sess'[s]  g == Head(x.work).g  t == Head(x.work).t
               r == NewRow(g, t, FALSE, "update") IN
           /\ x.kind = "update"
           /\ \/ Abort(s)
              \/ /\ Goes(s, y) /\ y.kind = "update" /\ y.stamps = x.stamps
                 /\ y.del = x.del /\ y.targets = x.targets
                 /\ y.wrote = x.wrote \cup {g} /\ y.excl = x.excl
                 /\ \/ y.ins = x.ins
                    \/ /\ y.ins = x.ins \cup {r} /\ r.g = g /\ r.t = t
                       /\ ~Refused(g) /\ ~ \E q \in View(s) : q.g = g /\ q.t = t
<1> DEFINE x == Head(sess[s].work)
           r == NewRow(x.g, x.t, FALSE, "update")
           there == \E q \in View(s) : q.g = x.g /\ q.t = x.t
           wrote == sess[s].wrote \cup {x.g}
           ins == sess[s].ins \cup {r}
<1>1. Do(s, "insert")
  BY DEF InsertRow
<1>2. sess[s].kind = "update"
  BY <1>1, NextCmd, OtherCmdTypes DEF Do
<1>3. \/ Abort(s)
      \/ Goes(s, [sess[s] EXCEPT !.work = Rest(s), !.wrote = wrote, !.ins = @])
      \/ /\ ~there /\ ~Refused(x.g) /\ Copies(x.g, x.t, FALSE, "update") # {}
         /\ Goes(s, [sess[s] EXCEPT !.work = Rest(s), !.wrote = wrote, !.ins = ins])
  BY DEF InsertRow
<1> HIDE DEF x
<1>4. Copies(x.g, x.t, FALSE, "update") # {} => r.g = x.g /\ r.t = x.t
  <2> SUFFICES ASSUME Copies(x.g, x.t, FALSE, "update") # {} PROVE r.g = x.g /\ r.t = x.t
    OBVIOUS
  <2>1. r \in Copies(x.g, x.t, FALSE, "update")
    BY NewRowIsCopy
  <2> HIDE DEF r
  <2> QED
    BY <2>1 DEF Copies
<1> HIDE DEF wrote, ins, r, there
<1>5. ASSUME NEW i, Goes(s, [sess[s] EXCEPT !.work = Rest(s), !.wrote = wrote, !.ins = i])
      PROVE  LET y == sess'[s] IN
             /\ Goes(s, y) /\ y.kind = "update" /\ y.stamps = sess[s].stamps
             /\ y.del = sess[s].del /\ y.targets = sess[s].targets
             /\ y.wrote = wrote /\ y.excl = sess[s].excl /\ y.ins = i
  <2> DEFINE old == sess[s]
             y == sess'[s]
             new == [old EXCEPT !.work = Rest(s), !.wrote = wrote, !.ins = i]
  <2>1. Goes(s, new)
    BY <1>5
  <2> HIDE DEF new
  <2>2. y = new /\ Goes(s, y)
    BY <2>1, AfterGoes
  <2>3. old \in State
    BY SessionTyped
  <2> HIDE DEF old, y
  <2>4. /\ y.kind = old.kind /\ y.stamps = old.stamps /\ y.del = old.del /\ y.targets = old.targets
        /\ y.wrote = wrote /\ y.excl = old.excl /\ y.ins = i
    BY <2>2, <2>3 DEF new, State
  <2> QED
    BY <1>2, <2>2, <2>4 DEF old, y
<1>7. CASE Goes(s, [sess[s] EXCEPT !.work = Rest(s), !.wrote = wrote, !.ins = @])
  BY <1>2, <1>5, <1>7 DEF wrote, x
<1>6. CASE /\ ~there /\ ~Refused(x.g) /\ Copies(x.g, x.t, FALSE, "update") # {}
           /\ Goes(s, [sess[s] EXCEPT !.work = Rest(s), !.wrote = wrote, !.ins = ins])
  BY <1>2, <1>4, <1>5, <1>6 DEF wrote, ins, r, there, x
<1> QED
  BY <1>2, <1>3, <1>6, <1>7

LEMMA DeleteEffect ==
    ASSUME TypeOK, NEW s \in Session, DeleteRows(s)
    PROVE  LET x == sess[s]  y == sess'[s]  g == Head(x.work).g IN
           /\ Head(x.work).do = "delete" /\ x.work # <<>> /\ x.targets = {}
           /\ \/ Abort(s)
              \/ /\ Goes(s, y) /\ SameRun(x, y) /\ y.work = Rest(s)
                 /\ y.ins = x.ins /\ y.del = x.del
                 /\ y.wrote = x.wrote \cup {g} /\ y.excl = x.excl
                 /\ \A r \in y.targets : r.g = g /\ ~Refused(g)
<1> DEFINE x == Head(sess[s].work)
           found == {r \in View(s) : r.g = x.g /\ r.t \in x.ts /\ r.inf \in x.infs}
           wrote == sess[s].wrote \cup {x.g}
<1>1. Do(s, "delete")
  BY DEF DeleteRows
<1>2. \/ Abort(s)
      \/ /\ ~(found # {} /\ Refused(x.g))
         /\ Goes(s, [sess[s] EXCEPT !.work = Rest(s), !.wrote = wrote, !.targets = found])
  BY DEF DeleteRows
<1>3. \A r \in found : r.g = x.g
  OBVIOUS
<1> HIDE DEF wrote, found
<1>4. ASSUME Goes(s, [sess[s] EXCEPT !.work = Rest(s), !.wrote = wrote, !.targets = found])
      PROVE  LET y == sess'[s] IN
             /\ Goes(s, y) /\ SameRun(sess[s], y) /\ y.work = Rest(s)
             /\ y.ins = sess[s].ins /\ y.del = sess[s].del /\ y.targets = found
             /\ y.wrote = wrote /\ y.excl = sess[s].excl
  <2> DEFINE old == sess[s]
             y == sess'[s]
             new == [old EXCEPT !.work = Rest(s), !.wrote = wrote, !.targets = found]
  <2>1. Goes(s, new)
    BY <1>4
  <2> HIDE DEF new
  <2>2. y = new /\ Goes(s, y)
    BY <2>1, AfterGoes
  <2>3. old \in State
    BY SessionTyped
  <2> HIDE DEF old, y
  <2>4. /\ SameRun(old, y) /\ y.work = Rest(s) /\ y.ins = old.ins /\ y.del = old.del
        /\ y.targets = found /\ y.wrote = wrote /\ y.excl = old.excl
    BY <2>2, <2>3 DEF new, State, SameRun
  <2> QED
    BY <2>2, <2>4 DEF old, y
<1> HIDE DEF x
<1>5. CASE Abort(s)
  BY <1>1, <1>5 DEF Do, x
<1>6. CASE /\ ~(found # {} /\ Refused(x.g))
           /\ Goes(s, [sess[s] EXCEPT !.work = Rest(s), !.wrote = wrote, !.targets = found])
  <2>1. \A r \in found : r.g = x.g /\ ~Refused(x.g)
    BY <1>3, <1>6
  <2> QED
    BY <1>1, <1>4, <1>6, <2>1 DEF Do, x, wrote
<1> QED
  BY <1>2, <1>5, <1>6

LEMMA FoundEffect ==
    ASSUME TypeOK, NEW s \in Session, DeleteFound(s)
    PROVE  LET x == sess[s]  y == sess'[s] IN
           /\ x.targets # {}
           /\ Goes(s, y) /\ SameRun(x, y) /\ y.work = x.work
           /\ y.targets = {} /\ y.ins = x.ins \ x.targets
           /\ y.del = x.del \cup (x.targets \cap rows)
           /\ y.wrote = x.wrote /\ y.excl = x.excl
<1> DEFINE ins == sess[s].ins \ sess[s].targets
           del == sess[s].del \cup (sess[s].targets \cap rows)
<1>1. sess[s].targets # {} /\ Goes(s, [sess[s] EXCEPT !.targets = {}, !.ins = ins, !.del = del])
  BY DEF DeleteFound
<1> HIDE DEF ins, del
<1>2. LET y == sess'[s] IN
      /\ Goes(s, y) /\ SameRun(sess[s], y) /\ y.work = sess[s].work
      /\ y.targets = {} /\ y.ins = ins /\ y.del = del
      /\ y.wrote = sess[s].wrote /\ y.excl = sess[s].excl
  <2> DEFINE old == sess[s]
             y == sess'[s]
             new == [old EXCEPT !.targets = {}, !.ins = ins, !.del = del]
  <2>1. Goes(s, new)
    BY <1>1
  <2> HIDE DEF new
  <2>2. y = new /\ Goes(s, y)
    BY <2>1, AfterGoes
  <2>3. old \in State
    BY SessionTyped
  <2> HIDE DEF old, y
  <2>4. /\ SameRun(old, y) /\ y.work = old.work /\ y.targets = {} /\ y.ins = ins
        /\ y.del = del /\ y.wrote = old.wrote /\ y.excl = old.excl
    BY <2>2, <2>3 DEF new, State, SameRun
  <2> QED
    BY <2>2, <2>4 DEF old, y
<1> QED
  BY <1>1, <1>2 DEF ins, del

LEMMA TruncateEffect ==
    ASSUME TypeOK, NEW s \in Session, TruncateGraph(s)
    PROVE  LET x == sess[s]  y == sess'[s]  g == Head(x.work).g IN
           /\ x.kind = "update" /\ x.targets = {}
           /\ \/ Abort(s)
              \/ /\ Goes(s, y) /\ y.kind = "update" /\ y.stamps = x.stamps /\ g \notin locked
                 /\ y.targets = {} /\ y.ins \subseteq x.ins
                 /\ y.del = x.del \cup RowsOf(rows, g)
                 /\ y.wrote = x.wrote /\ y.excl = x.excl \cup {g}
<1> DEFINE x == Head(sess[s].work)
           ins == {r \in sess[s].ins : r.g # x.g}
           del == sess[s].del \cup RowsOf(rows, x.g)
           excl == sess[s].excl \cup {x.g}
<1>1. Do(s, "clear") \/ Do(s, "drop")
  BY DEF TruncateGraph
<1>2. sess[s].kind = "update" /\ sess[s].targets = {}
  BY <1>1, NextCmd, OtherCmdTypes DEF Do
<1>3. \/ Abort(s)
      \/ /\ x.g \notin locked
         /\ \E g, m : Goes(s, [sess[s] EXCEPT !.work = Rest(s), !.excl = excl, !.ins = ins,
                                              !.del = del, !.gone = g, !.made = m])
  BY DEF TruncateGraph, Fenced
<1>4. ins \subseteq sess[s].ins
  OBVIOUS
<1> HIDE DEF ins, del, excl
<1>5. ASSUME NEW g, NEW m, Goes(s, [sess[s] EXCEPT !.work = Rest(s), !.excl = excl, !.ins = ins,
                                              !.del = del, !.gone = g, !.made = m])
      PROVE  LET y == sess'[s] IN
             /\ Goes(s, y) /\ y.kind = "update" /\ y.stamps = sess[s].stamps
             /\ y.targets = {} /\ y.ins = ins /\ y.del = del
             /\ y.wrote = sess[s].wrote /\ y.excl = excl
  <2> DEFINE old == sess[s]
             y == sess'[s]
             new == [old EXCEPT !.work = Rest(s), !.excl = excl, !.ins = ins, !.del = del,
                                !.gone = g, !.made = m]
  <2>1. Goes(s, new)
    BY <1>5
  <2> HIDE DEF new
  <2>2. y = new /\ Goes(s, y)
    BY <2>1, AfterGoes
  <2>3. old \in State
    BY SessionTyped
  <2> HIDE DEF old, y
  <2>4. /\ y.kind = old.kind /\ y.stamps = old.stamps /\ y.targets = old.targets
        /\ y.ins = ins /\ y.del = del /\ y.wrote = old.wrote /\ y.excl = excl
    BY <2>2, <2>3 DEF new, State
  <2> QED
    BY <1>2, <2>2, <2>4 DEF old, y
<1> QED
  BY <1>2, <1>3, <1>4, <1>5 DEF ins, del, excl

LEMMA InferEffect ==
    ASSUME TypeOK, NEW s \in Session, InferRows(s)
    PROVE  LET x == sess[s]  y == sess'[s]  g == Head(x.work).g  ts == Head(x.work).ts IN
           /\ x.kind # "update" /\ x.work # <<>> /\ Head(x.work).do = "infer"
           /\ \/ Abort(s)
              \/ /\ Goes(s, y) /\ SameRun(x, y) /\ y.work = Rest(s)
                 /\ y.targets = {} /\ y.del = x.del
                 /\ y.wrote = x.wrote \cup {g} /\ y.excl = x.excl
                 /\ \A r \in y.ins : r \in x.ins \/ (r.g = g /\ r.by = "reason" /\ ~Refused(g))
                 /\ \A t \in ts : \E r \in y.ins : r.g = g /\ r.t = t
<1> DEFINE x == Head(sess[s].work)
           row(t) == NewRow(x.g, t, TRUE, "reason")
           wrote == sess[s].wrote \cup {x.g}
           ins == sess[s].ins \cup {row(t) : t \in x.ts}
<1>1. Do(s, "infer")
  BY DEF InferRows
<1>2. sess[s].kind # "update" /\ sess[s].targets = {}
  BY <1>1, NextCmd, UpdateCmdTypes DEF Do
<1>3. /\ \A t \in x.ts : Copies(x.g, t, TRUE, "reason") # {}
      /\ \/ Abort(s)
         \/ /\ ~(Refused(x.g) /\ x.ts # {})
            /\ Goes(s, [sess[s] EXCEPT !.work = Rest(s), !.wrote = wrote, !.ins = ins])
  BY DEF InferRows
<1> HIDE DEF x
<1>4. \A t \in x.ts : row(t).g = x.g /\ row(t).t = t /\ row(t).by = "reason"
  <2> SUFFICES ASSUME NEW t \in x.ts
               PROVE  row(t).g = x.g /\ row(t).t = t /\ row(t).by = "reason"
    OBVIOUS
  <2>1. row(t) \in Copies(x.g, t, TRUE, "reason")
    BY <1>3, NewRowIsCopy
  <2> HIDE DEF row
  <2> QED
    BY <2>1 DEF Copies
<1> HIDE DEF row
<1>5. /\ \A r \in ins : r \in sess[s].ins \/ (x.ts # {} /\ r.g = x.g /\ r.by = "reason")
      /\ \A t \in x.ts : \E r \in ins : r.g = x.g /\ r.t = t
  BY <1>4
<1> HIDE DEF wrote, ins
<1>6. ASSUME Goes(s, [sess[s] EXCEPT !.work = Rest(s), !.wrote = wrote, !.ins = ins])
      PROVE  LET y == sess'[s] IN
             /\ Goes(s, y) /\ SameRun(sess[s], y) /\ y.work = Rest(s)
             /\ y.targets = {} /\ y.ins = ins /\ y.del = sess[s].del
             /\ y.wrote = wrote /\ y.excl = sess[s].excl
  <2> DEFINE old == sess[s]
             y == sess'[s]
             new == [old EXCEPT !.work = Rest(s), !.wrote = wrote, !.ins = ins]
  <2>1. Goes(s, new)
    BY <1>6
  <2> HIDE DEF new
  <2>2. y = new /\ Goes(s, y)
    BY <2>1, AfterGoes
  <2>3. old \in State
    BY SessionTyped
  <2> HIDE DEF old, y
  <2>4. /\ SameRun(old, y) /\ y.work = Rest(s) /\ y.targets = old.targets
        /\ y.ins = ins /\ y.del = old.del /\ y.wrote = wrote /\ y.excl = old.excl
    BY <2>2, <2>3 DEF new, State, SameRun
  <2> QED
    BY <1>2, <2>2, <2>4 DEF old, y
<1>7. CASE Abort(s)
  BY <1>1, <1>2, <1>7 DEF Do, x
<1>8. CASE /\ ~(Refused(x.g) /\ x.ts # {})
           /\ Goes(s, [sess[s] EXCEPT !.work = Rest(s), !.wrote = wrote, !.ins = ins])
  <2>1. /\ \A r \in ins : r \in sess[s].ins \/ (r.g = x.g /\ r.by = "reason" /\ ~Refused(x.g))
    BY <1>5, <1>8
  <2> QED
    BY <1>1, <1>2, <1>5, <1>6, <1>8, <2>1 DEF Do, x, wrote
<1> QED
  BY <1>3, <1>7, <1>8

LEMMA AppendEffect ==
    ASSUME TypeOK, NEW s \in Session, AppendRow(s)
    PROVE  LET x == sess[s]  y == sess'[s]  g == Head(x.work).g IN
           /\ x.kind # "update" /\ x.work # <<>> /\ Head(x.work).do = "append"
           /\ \/ Abort(s)
              \/ /\ Goes(s, y) /\ SameRun(x, y) /\ y.work = Rest(s)
                 /\ y.targets = x.targets /\ y.del = x.del
                 /\ y.wrote = x.wrote \cup {g} /\ y.excl = x.excl
                 /\ \A r \in y.ins : r \in x.ins \/ (r.g = g /\ r.by = "append" /\ ~Refused(g))
<1> DEFINE x == Head(sess[s].work)
           r == NewRow(x.g, x.t, FALSE, "append")
           wrote == sess[s].wrote \cup {x.g}
           ins == sess[s].ins \cup {r}
<1>1. Do(s, "append")
  BY DEF AppendRow
<1>2. sess[s].kind # "update"
  BY <1>1, NextCmd, UpdateCmdTypes DEF Do
<1>3. /\ Copies(x.g, x.t, FALSE, "append") # {}
      /\ \/ Abort(s)
         \/ /\ ~Refused(x.g)
            /\ Goes(s, [sess[s] EXCEPT !.work = Rest(s), !.wrote = wrote, !.ins = ins])
  BY DEF AppendRow
<1> HIDE DEF x
<1>4. r.g = x.g /\ r.by = "append"
  <2>1. r \in Copies(x.g, x.t, FALSE, "append")
    BY <1>3, NewRowIsCopy
  <2> HIDE DEF r
  <2> QED
    BY <2>1 DEF Copies
<1> HIDE DEF r
<1>5. \A q \in ins : q \in sess[s].ins \/ (q.g = x.g /\ q.by = "append")
  BY <1>4
<1> HIDE DEF wrote, ins
<1>6. ASSUME Goes(s, [sess[s] EXCEPT !.work = Rest(s), !.wrote = wrote, !.ins = ins])
      PROVE  LET y == sess'[s] IN
             /\ Goes(s, y) /\ SameRun(sess[s], y) /\ y.work = Rest(s)
             /\ y.targets = sess[s].targets /\ y.ins = ins /\ y.del = sess[s].del
             /\ y.wrote = wrote /\ y.excl = sess[s].excl
  <2> DEFINE old == sess[s]
             y == sess'[s]
             new == [old EXCEPT !.work = Rest(s), !.wrote = wrote, !.ins = ins]
  <2>1. Goes(s, new)
    BY <1>6
  <2> HIDE DEF new
  <2>2. y = new /\ Goes(s, y)
    BY <2>1, AfterGoes
  <2>3. old \in State
    BY SessionTyped
  <2> HIDE DEF old, y
  <2>4. /\ SameRun(old, y) /\ y.work = Rest(s) /\ y.targets = old.targets
        /\ y.ins = ins /\ y.del = old.del /\ y.wrote = wrote /\ y.excl = old.excl
    BY <2>2, <2>3 DEF new, State, SameRun
  <2> QED
    BY <2>2, <2>4 DEF old, y
<1> QED
  BY <1>1, <1>2, <1>3, <1>5, <1>6 DEF Do, wrote, x

\* A statement starts with nothing written.
LEMMA StartEffect ==
    ASSUME TypeOK, NEW s \in Session,
           \/ \E ops \in Updates : UpdateStart(s, ops)
           \/ \E g \in Materialized : MaterializeStart(s, g)
           \/ \E q \in Appended : AppendStart(s, q)
    PROVE  LET y == sess'[s] IN
           /\ Alone(s) /\ y.ins = {} /\ y.del = {} /\ y.targets = {} /\ y.stamps = {}
           /\ \/ (\E ops \in Updates : UpdateStart(s, ops)) /\ y.kind = "update"
                    /\ gate = NoSession /\ gate' = s
              \/ (\E g \in Materialized : MaterializeStart(s, g)) /\ y.kind = "materialize"
                    /\ gate' = gate /\ y.gone = {}
              \/ (\E q \in Appended : AppendStart(s, q)) /\ y.kind = "append" /\ gate' = gate
<1>1. CASE \E ops \in Updates : UpdateStart(s, ops)
  <2>1. PICK ops \in Updates : UpdateStart(s, ops)
    BY <1>1
  <2>2. \E w : sess'[s] = [Idle EXCEPT !.kind = "update", !.work = w]
    BY <2>1 DEF UpdateStart, TypeOK
  <2>3. Alone(s) /\ gate = NoSession /\ gate' = s
    BY <2>1 DEF UpdateStart, TypeOK, Alone, GateFor, TakesGate
  <2> QED
    BY <1>1, <2>2, <2>3 DEF Idle
<1>2. CASE \E g \in Materialized : MaterializeStart(s, g)
  <2>1. \E w : Goes(s, [Idle EXCEPT !.kind = "materialize", !.work = w])
    BY <1>2 DEF MaterializeStart
  <2>2. PICK w : Goes(s, [Idle EXCEPT !.kind = "materialize", !.work = w])
    BY <2>1
  <2> DEFINE new == [Idle EXCEPT !.kind = "materialize", !.work = w]
  <2>3. Goes(s, new)
    BY <2>2
  <2> HIDE DEF new
  <2>4. sess'[s] = new /\ Alone(s) /\ gate' = gate
    BY <2>3, AfterGoes
  <2> QED
    BY <1>2, <2>4 DEF Idle, new
<1>3. CASE \E q \in Appended : AppendStart(s, q)
  <2>1. \E w : Goes(s, [Idle EXCEPT !.kind = "append", !.work = w])
    BY <1>3 DEF AppendStart
  <2>2. PICK w : Goes(s, [Idle EXCEPT !.kind = "append", !.work = w])
    BY <2>1
  <2> DEFINE new == [Idle EXCEPT !.kind = "append", !.work = w]
  <2>3. Goes(s, new)
    BY <2>2
  <2> HIDE DEF new
  <2>4. sess'[s] = new /\ Alone(s) /\ gate' = gate
    BY <2>3, AfterGoes
  <2> QED
    BY <1>3, <2>4 DEF Idle, new
<1> QED
  BY <1>1, <1>2, <1>3

LEMMA ReasonEffect ==
    ASSUME TypeOK, NEW s \in Session, Reason(s)
    PROVE  LET x == sess[s]  y == sess'[s]  g == Head(x.work).g
               base == {r \in RowsOf(View(s), g) : ~r.inf} IN
           /\ x.kind # "update" /\ x.work # <<>> /\ Head(x.work).do = "reason" /\ x.targets = {}
           /\ Goes(s, y) /\ SameRows(x, y) /\ y.kind = x.kind /\ y.gone = x.gone
           /\ y.stamps = x.stamps /\ y.base = base
           /\ y.work = <<[do |-> "infer", g |-> g,
                          ts |-> Derived(SetOf(base)) \ SetOf(base)]>> \o Rest(s)
<1> DEFINE g == Head(sess[s].work).g
           base == {r \in RowsOf(View(s), g) : ~r.inf}
           work == <<[do |-> "infer", g |-> g,
                      ts |-> Derived(SetOf(base)) \ SetOf(base)]>> \o Rest(s)
<1>1. Do(s, "reason") /\ Goes(s, [sess[s] EXCEPT !.base = base, !.work = work])
  BY DEF Reason
<1>2. sess[s].kind # "update"
  BY <1>1, NextCmd, UpdateCmdTypes DEF Do
<1> HIDE DEF work, base
<1>3. LET y == sess'[s] IN
      /\ Goes(s, y) /\ SameRows(sess[s], y) /\ y.kind = sess[s].kind /\ y.gone = sess[s].gone
      /\ y.stamps = sess[s].stamps /\ y.base = base /\ y.work = work
  <2> DEFINE old == sess[s]
             y == sess'[s]
             new == [old EXCEPT !.base = base, !.work = work]
  <2>1. Goes(s, new)
    BY <1>1
  <2> HIDE DEF new
  <2>2. y = new /\ Goes(s, y)
    BY <2>1, AfterGoes
  <2>3. old \in State
    BY SessionTyped
  <2> HIDE DEF old, y
  <2>4. /\ SameRows(old, y) /\ y.kind = old.kind /\ y.gone = old.gone
        /\ y.stamps = old.stamps /\ y.base = base /\ y.work = work
    BY <2>2, <2>3 DEF new, State, SameRows
  <2> QED
    BY <2>2, <2>4 DEF old, y
<1> QED
  BY <1>1, <1>2, <1>3 DEF Do, work, base

LEMMA StampEffect ==
    ASSUME TypeOK, NEW s \in Session, StampGraph(s)
    PROVE  LET x == sess[s]  y == sess'[s]  g == Head(x.work).g IN
           /\ x.kind # "update" /\ x.work # <<>> /\ Head(x.work).do = "stamp" /\ x.targets = {}
           /\ Goes(s, y) /\ SameRows(x, y) /\ y.kind = x.kind /\ y.gone = x.gone
           /\ y.base = x.base /\ y.stamps = {<<g, Cardinality(x.base)>>} /\ y.work = Rest(s)
<1> DEFINE g == Head(sess[s].work).g
           stamps == {<<g, Cardinality(sess[s].base)>>}
<1>1. Do(s, "stamp") /\ Goes(s, [sess[s] EXCEPT !.work = Rest(s), !.stamps = stamps])
  BY DEF StampGraph, CountRead
<1>2. sess[s].kind # "update"
  BY <1>1, NextCmd, UpdateCmdTypes DEF Do
<1> HIDE DEF stamps
<1>3. LET y == sess'[s] IN
      /\ Goes(s, y) /\ SameRows(sess[s], y) /\ y.kind = sess[s].kind /\ y.gone = sess[s].gone
      /\ y.base = sess[s].base /\ y.stamps = stamps /\ y.work = Rest(s)
  <2> DEFINE old == sess[s]
             y == sess'[s]
             new == [old EXCEPT !.work = Rest(s), !.stamps = stamps]
  <2>1. Goes(s, new)
    BY <1>1
  <2> HIDE DEF new
  <2>2. y = new /\ Goes(s, y)
    BY <2>1, AfterGoes
  <2>3. old \in State
    BY SessionTyped
  <2> HIDE DEF old, y
  <2>4. /\ SameRows(old, y) /\ y.kind = old.kind /\ y.gone = old.gone
        /\ y.base = old.base /\ y.stamps = stamps /\ y.work = Rest(s)
    BY <2>2, <2>3 DEF new, State, SameRows
  <2> QED
    BY <2>2, <2>4 DEF old, y
<1> QED
  BY <1>1, <1>2, <1>3 DEF Do, stamps

-----------------------------------------------------------------------------
(***************************************************************************)
(* A locked graph stands still.  What a statement wrote or is about to     *)
(* delete is under a table lock of its own, and never of a locked graph:   *)
(* the writers of a row are refused once the graph is locked, and the lock *)
(* waits for the writers that were there before.                           *)
(***************************************************************************)
Held(x)     == x.ins \cup x.del \cup x.targets
Guarded(x)  == \A r \in Held(x) : r.g \in x.wrote \cup x.excl
KeepsOff(x) == \A r \in Held(x) : r.g \in locked => r.g = 0
LocksOK     == \A s \in Session : Guarded(sess[s]) /\ KeepsOff(sess[s])

\* A step of one session concerns only what that session holds.
LEMMA LocksLocal ==
    ASSUME TypeOK, LocksOK, NEW s \in Session, Alone(s),
           Guarded(sess'[s]), KeepsOff(sess'[s])
    PROVE  LocksOK'
<1> SUFFICES ASSUME NEW o \in Session PROVE (Guarded(sess[o]) /\ KeepsOff(sess[o]))'
  BY DEF LocksOK
<1>1. locked' = locked /\ (o # s => sess'[o] = sess[o])
  BY DEF Alone
<1>2. CASE o = s
  BY <1>1, <1>2 DEF KeepsOff, Guarded, Held
<1>3. CASE o # s
  BY <1>1, <1>3 DEF LocksOK, KeepsOff, Guarded, Held
<1> QED
  BY <1>2, <1>3

LEMMA LocksAbort == ASSUME TypeOK, LocksOK, NEW s \in Session, Abort(s) PROVE LocksOK'
<1>1. Guarded(Idle) /\ KeepsOff(Idle)
  BY DEF Guarded, KeepsOff, Held, Idle
<1> QED
  BY <1>1, AfterAbort, LocksLocal

LEMMA LocksNext ==
    ASSUME TypeOK, LocksOK, [Next]_vars
    PROVE  LocksOK'
<1> DEFINE Grows(s, g) ==
      /\ Goes(s, sess'[s])
      /\ sess[s].wrote \cup sess[s].excl \subseteq sess'[s].wrote \cup sess'[s].excl
      /\ g \in sess'[s].wrote \cup sess'[s].excl
      /\ \A r \in Held(sess'[s]) : r \in Held(sess[s]) \/ (r.g = g /\ ~Refused(g))
<1>1. ASSUME NEW s \in Session, NEW g, Grows(s, g) PROVE LocksOK'
  <2>1. Guarded(sess[s]) /\ KeepsOff(sess[s])
    BY DEF LocksOK
  <2>2. Guarded(sess'[s]) /\ KeepsOff(sess'[s])
    BY <1>1, <2>1 DEF Guarded, KeepsOff, Refused
  <2> QED
    BY <1>1, <2>2, AfterGoes, LocksLocal
<1>2. ASSUME NEW s \in Session, Goes(s, sess'[s]), SameRows(sess[s], sess'[s]) PROVE LocksOK'
  <2>1. Guarded(sess'[s]) /\ KeepsOff(sess'[s])
    BY <1>2 DEF LocksOK, Guarded, KeepsOff, Held, SameRows
  <2> QED
    BY <1>2, <2>1, AfterGoes, LocksLocal
<1> HIDE DEF Grows
<1>3. CASE \E s \in Session :
              \/ UpdateOp(s) \/ AllocateGraph(s) \/ SolveWhere(s)
              \/ SolutionRow(s) \/ SolutionsEnd(s) \/ TouchGraph(s)
  BY <1>2, <1>3, QuietUpdates, LocksAbort
<1>4. ASSUME NEW s \in Session, InsertRow(s) PROVE LocksOK'
  <2> DEFINE g == Head(sess[s].work).g
  <2>1. CASE Abort(s)
    BY <2>1, LocksAbort
  <2>2. CASE ~Abort(s)
    <3>1. Grows(s, g)
      BY <1>4, <2>2, InsertEffect, ZenonT(60) DEF Grows, Held
    <3> QED
      BY <1>1, <3>1
  <2> QED
    BY <2>1, <2>2
<1>5. ASSUME NEW s \in Session, DeleteRows(s) PROVE LocksOK'
  <2> DEFINE g == Head(sess[s].work).g
  <2>1. CASE Abort(s)
    BY <2>1, LocksAbort
  <2>2. CASE ~Abort(s)
    <3>1. Grows(s, g)
      BY <1>5, <2>2, DeleteEffect DEF Grows, Held
    <3> QED
      BY <1>1, <3>1
  <2> QED
    BY <2>1, <2>2
<1>6. ASSUME NEW s \in Session, DeleteFound(s) PROVE LocksOK'
  <2>1. /\ Held(sess'[s]) \subseteq Held(sess[s]) /\ Goes(s, sess'[s])
        /\ sess'[s].wrote = sess[s].wrote /\ sess'[s].excl = sess[s].excl
    BY <1>6, FoundEffect DEF Held
  <2>2. Guarded(sess'[s]) /\ KeepsOff(sess'[s])
    BY <2>1 DEF LocksOK, Guarded, KeepsOff
  <2> QED
    BY <2>1, <2>2, AfterGoes, LocksLocal
<1>7. ASSUME NEW s \in Session, TruncateGraph(s) PROVE LocksOK'
  <2> DEFINE g == Head(sess[s].work).g
  <2>1. CASE Abort(s)
    BY <2>1, LocksAbort
  <2>2. CASE ~Abort(s)
    <3>1. Grows(s, g)
      BY <1>7, <2>2, TruncateEffect DEF Grows, Held, RowsOf, Refused
    <3> QED
      BY <1>1, <3>1
  <2> QED
    BY <2>1, <2>2
<1>8. ASSUME NEW s \in Session, InferRows(s) PROVE LocksOK'
  <2> DEFINE g == Head(sess[s].work).g
  <2>1. CASE Abort(s)
    BY <2>1, LocksAbort
  <2>2. CASE ~Abort(s)
    <3>1. Grows(s, g)
      BY <1>8, <2>2, InferEffect DEF Grows, Held
    <3> QED
      BY <1>1, <3>1
  <2> QED
    BY <2>1, <2>2
<1>9. ASSUME NEW s \in Session, AppendRow(s) PROVE LocksOK'
  <2> DEFINE g == Head(sess[s].work).g
  <2>1. CASE Abort(s)
    BY <2>1, LocksAbort
  <2>2. CASE ~Abort(s)
    <3>1. Grows(s, g)
      BY <1>9, <2>2, AppendEffect DEF Grows, Held
    <3> QED
      BY <1>1, <3>1
  <2> QED
    BY <2>1, <2>2
<1>10. ASSUME NEW s \in Session, Reason(s) \/ StampGraph(s) PROVE LocksOK'
  <2>1. CASE Reason(s)
    BY <1>2, <2>1, ReasonEffect
  <2>2. CASE StampGraph(s)
    BY <1>2, <2>2, StampEffect
  <2> QED
    BY <1>10, <2>1, <2>2
<1>11. ASSUME NEW s \in Session,
              \/ \E ops \in Updates : UpdateStart(s, ops)
              \/ \E g \in Materialized : MaterializeStart(s, g)
              \/ \E q \in Appended : AppendStart(s, q)
       PROVE  LocksOK'
  <2>1. Alone(s) /\ Held(sess'[s]) = {}
    BY <1>11, StartEffect DEF Held
  <2> QED
    BY <2>1, LocksLocal DEF Guarded, KeepsOff
<1>12. ASSUME NEW s \in Session, Commit(s) PROVE LocksOK'
  <2>1. /\ sess' = [sess EXCEPT ![s] = Idle] /\ locked' = locked
    BY <1>12 DEF Commit
  <2>2. Guarded(Idle) /\ KeepsOff(Idle) /\ Held(Idle) = {}
    BY DEF Guarded, KeepsOff, Held, Idle
  <2> SUFFICES ASSUME NEW o \in Session PROVE (Guarded(sess[o]) /\ KeepsOff(sess[o]))'
    BY DEF LocksOK
  <2>3. CASE o = s
    <3>1. sess'[o] = Idle
      BY <2>1, <2>3 DEF TypeOK
    <3> QED
      BY <2>2, <3>1 DEF Guarded, KeepsOff, Held
  <2>4. CASE o # s
    <3>1. sess'[o] = sess[o]
      BY <2>1, <2>4 DEF TypeOK
    <3> QED
      BY <2>1, <3>1 DEF LocksOK, Guarded, KeepsOff, Held
  <2> QED
    BY <2>3, <2>4
<1>13. ASSUME NEW g \in Lockable, LockGraph(g) PROVE LocksOK'
  <2>1. sess' = sess /\ locked' = locked \cup {g} /\ (g = 0 \/ NoWriter(g))
    BY <1>13 DEF LockGraph, WritersDone
  <2> SUFFICES ASSUME NEW o \in Session PROVE (Guarded(sess[o]) /\ KeepsOff(sess[o]))'
    BY DEF LocksOK
  <2>2. Guarded(sess[o]) /\ KeepsOff(sess[o])
    BY DEF LocksOK
  <2>3. \A r \in Held(sess[o]) : r.g = g => g = 0
    BY <2>1, <2>2 DEF Guarded, NoWriter
  <2> QED
    BY <2>1, <2>2, <2>3 DEF Guarded, KeepsOff, Held
<1>14. CASE \E g \in Lockable : UnlockGraph(g)
  BY <1>14 DEF UnlockGraph, LocksOK, Guarded, KeepsOff, Held
<1>15. CASE UNCHANGED vars
  BY <1>15 DEF vars, LocksOK, Guarded, KeepsOff, Held
<1>16. CASE \E s \in Session : UpdateNext(s)
  BY <1>3, <1>4, <1>5, <1>6, <1>7, <1>11, <1>16 DEF UpdateNext
<1>17. CASE \E s \in Session : MaterializeNext(s) \/ AppendNext(s)
  BY <1>8, <1>9, <1>10, <1>11, <1>17 DEF MaterializeNext, AppendNext
<1>18. CASE \E s \in Session : Cancel(s)
  BY <1>18, LocksAbort DEF Cancel
<1> QED
  BY <1>12, <1>13, <1>14, <1>15, <1>16, <1>17, <1>18 DEF Next

LEMMA LocksInit == Init => LocksOK
BY DEF Init, Idle, LocksOK, Guarded, KeepsOff, Held

\* Only a commit changes rows, and then those its transaction holds.
LEMMA RowsOfOthersStand ==
    ASSUME TypeOK, LocksOK, [Next]_vars, NEW g \in Named, g \in locked
    PROVE  RowsOf(rows', g) = RowsOf(rows, g)
<1>1. CASE rows' = rows
  BY <1>1
<1>2. CASE \E s \in Session : Commit(s)
  <2>1. PICK s \in Session : Commit(s)
    BY <1>2
  <2>2. rows' = (rows \ sess[s].del) \cup sess[s].ins
    BY <2>1 DEF Commit
  <2>3. \A r \in sess[s].del \cup sess[s].ins : r.g # g
    BY StatementAssumption DEF LocksOK, KeepsOff, Held, StatementAssumption
  <2> QED
    BY <2>2, <2>3 DEF RowsOf
<1>3. rows' = rows \/ \E s \in Session : Commit(s)
  <2>1. ASSUME NEW s \in Session, Abort(s) \/ (\E new : Goes(s, new)) PROVE rows' = rows
    BY <2>1 DEF Abort, Goes
  <2>2. ASSUME NEW s \in Session, UpdateNext(s) PROVE rows' = rows
    <3>1. \/ \E ops \in Updates : UpdateStart(s, ops)
          \/ Abort(s) \/ \E new : Goes(s, new)
      <4>1. CASE \/ UpdateOp(s) \/ AllocateGraph(s) \/ SolveWhere(s)
                 \/ SolutionRow(s) \/ SolutionsEnd(s) \/ TouchGraph(s)
        BY <4>1, QuietUpdates
      <4>2. CASE InsertRow(s)
        BY <4>2, InsertEffect
      <4>3. CASE DeleteRows(s)
        BY <4>3, DeleteEffect
      <4>4. CASE DeleteFound(s)
        BY <4>4, FoundEffect
      <4>5. CASE TruncateGraph(s)
        BY <4>5, TruncateEffect
      <4> QED
        BY <2>2, <4>1, <4>2, <4>3, <4>4, <4>5 DEF UpdateNext
    <3>2. (\E ops \in Updates : UpdateStart(s, ops)) => rows' = rows
      BY DEF UpdateStart
    <3> QED
      BY <2>1, <3>1, <3>2
  <2>3. ASSUME NEW s \in Session, MaterializeNext(s) \/ AppendNext(s) PROVE rows' = rows
    <3>1. (\/ \E g2 \in Materialized : MaterializeStart(s, g2)
           \/ \E q \in Appended : AppendStart(s, q)) => rows' = rows
      BY StartEffect DEF Alone
    <3>2. CASE Reason(s) \/ StampGraph(s)
      BY <2>1, <3>2, ReasonEffect, StampEffect
    <3>3. CASE InferRows(s) \/ AppendRow(s)
      BY <2>1, <3>3, InferEffect, AppendEffect
    <3> QED
      BY <2>3, <3>1, <3>2, <3>3 DEF MaterializeNext, AppendNext
  <2>4. ASSUME NEW h \in Lockable, LockGraph(h) \/ UnlockGraph(h) PROVE rows' = rows
    BY <2>4 DEF LockGraph, UnlockGraph
  <2>5. (\E s \in Session : Cancel(s)) => rows' = rows
    BY <2>1 DEF Cancel
  <2>6. UNCHANGED vars => rows' = rows
    BY DEF vars
  <2> QED
    BY <2>2, <2>3, <2>4, <2>5, <2>6 DEF Next
<1> QED
  BY <1>1, <1>2, <1>3

\* No statement, nor any interleaving of statements with lock_graph, changes
\* the rows of a named graph while it is locked.
THEOREM LockedStands == Spec => LockedRowsStand
<1>1. TypeOK /\ LocksOK /\ [Next]_vars =>
        [\A g \in Named : (g \in locked /\ g \in locked') => RowsOf(rows', g) = RowsOf(rows, g)]_vars
  BY RowsOfOthersStand
<1> QED
  BY <1>1, LocksInit, LocksNext, TypeCorrect, PTL DEF Spec, LockedRowsStand

-----------------------------------------------------------------------------
(***************************************************************************)
(* UPDATEs are set-semantic.  The gate lets one UPDATE run at a time, so    *)
(* while it runs nobody else adds a row of its kind; what it sees has no   *)
(* two of them, and it adds one only where it sees none.                   *)
(***************************************************************************)
NoTwins(R) == \A r, q \in R : (r.by = "update" /\ q.by = "update" /\ r.g = q.g /\ r.t = q.t)
                              => r = q
Mine(s) == IF sess[s].kind = "update" THEN gate = s /\ NoTwins(View(s))
           ELSE \A r \in sess[s].ins : r.by # "update"
TwinsOK == NoTwins(rows) /\ \A s \in Session : Mine(s)

LEMMA FewerTwins == ASSUME NEW R, NEW Q, NoTwins(R), \A r \in Q : r.by = "update" => r \in R
                    PROVE NoTwins(Q)
BY DEF NoTwins

\* A step of one session that commits nothing and keeps the gate.
LEMMA TwinsLocal ==
    ASSUME TypeOK, TwinsOK, NEW s \in Session, Alone(s), gate' = gate, Mine(s)'
    PROVE  TwinsOK'
<1> SUFFICES ASSUME NEW o \in Session, o # s PROVE Mine(o)'
  BY DEF TwinsOK, Alone
<1> QED
  BY DEF TwinsOK, Mine, Alone, View

LEMMA TwinsAbort == ASSUME TypeOK, TwinsOK, NEW s \in Session, Abort(s) PROVE TwinsOK'
<1>1. sess'[s] = Idle /\ Alone(s) /\ gate' = IF gate = s THEN NoSession ELSE gate
  BY AfterAbort
<1> SUFFICES ASSUME NEW o \in Session PROVE Mine(o)'
  BY <1>1 DEF TwinsOK, Alone
<1>2. CASE o = s
  BY <1>1, <1>2 DEF Mine, Idle
<1>3. CASE o # s
  BY <1>1, <1>3 DEF TwinsOK, Mine, Alone, View
<1> QED
  BY <1>2, <1>3

LEMMA TwinsNext ==
    ASSUME TypeOK, TwinsOK, [Next]_vars
    PROVE  TwinsOK'
<1> DEFINE NoMore(s) ==
      /\ Goes(s, sess'[s]) /\ sess'[s].kind = sess[s].kind
      /\ \A r \in sess'[s].ins : r \in sess[s].ins \/ (sess[s].kind # "update" /\ r.by # "update")
      /\ sess[s].del \subseteq sess'[s].del
<1>1. ASSUME NEW s \in Session, NoMore(s) PROVE TwinsOK'
  <2>1. Alone(s) /\ gate' = gate
    BY <1>1, AfterGoes
  <2>2. CASE sess[s].kind = "update"
    <3>1. View(s)' \subseteq View(s)
      BY <1>1, <2>1, <2>2 DEF View, Alone
    <3>2. NoTwins(View(s))'
      BY <2>2, <3>1 DEF TwinsOK, Mine, NoTwins
    <3> QED
      BY <1>1, <2>1, <2>2, <3>2, TwinsLocal DEF TwinsOK, Mine
  <2>3. CASE sess[s].kind # "update"
    BY <1>1, <2>1, <2>3, TwinsLocal DEF TwinsOK, Mine
  <2> QED
    BY <2>2, <2>3
<1> HIDE DEF NoMore
<1>2. ASSUME NEW s \in Session,
             \/ UpdateOp(s) \/ AllocateGraph(s) \/ SolveWhere(s)
             \/ SolutionRow(s) \/ SolutionsEnd(s) \/ TouchGraph(s)
      PROVE  TwinsOK'
  <2>1. CASE Abort(s)
    BY <2>1, TwinsAbort
  <2>2. CASE ~Abort(s)
    <3>1. NoMore(s)
      BY <1>2, <2>2, QuietUpdates DEF NoMore, SameRows
    <3> QED
      BY <1>1, <3>1
  <2> QED
    BY <2>1, <2>2
<1>3. ASSUME NEW s \in Session, InsertRow(s) PROVE TwinsOK'
  <2> DEFINE g == Head(sess[s].work).g
             t == Head(sess[s].work).t
             r == NewRow(g, t, FALSE, "update")
  <2>1. CASE Abort(s)
    BY <2>1, TwinsAbort
  <2>2. CASE ~Abort(s) /\ sess'[s].ins = sess[s].ins
    <3>1. NoMore(s)
      BY <1>3, <2>2, InsertEffect DEF NoMore
    <3> QED
      BY <1>1, <3>1
  <2>3. CASE ~Abort(s) /\ sess'[s].ins # sess[s].ins
    <3>1. /\ sess[s].kind = "update" /\ Goes(s, sess'[s]) /\ sess'[s].kind = "update"
          /\ sess'[s].del = sess[s].del /\ sess'[s].ins = sess[s].ins \cup {r}
          /\ r.g = g /\ r.t = t /\ ~ \E q \in View(s) : q.g = g /\ q.t = t
      BY <1>3, <2>3, InsertEffect
    <3> HIDE DEF r, g, t
    <3>2. Alone(s) /\ gate' = gate
      BY <3>1, AfterGoes
    <3>3. View(s)' = View(s) \cup {r}
      BY <3>1, <3>2 DEF View, Alone
    <3>4. NoTwins(View(s)) /\ gate = s
      BY <3>1 DEF TwinsOK, Mine
    <3>5. NoTwins(View(s) \cup {r})
      BY <3>1, <3>4 DEF NoTwins
    <3>6. NoTwins(View(s)')
      BY <3>3, <3>5
    <3>7. Mine(s)'
      BY <3>1, <3>2, <3>4, <3>6 DEF Mine, NoTwins
    <3> QED
      BY <3>2, <3>7, TwinsLocal
  <2> QED
    BY <2>1, <2>2, <2>3
<1>4. ASSUME NEW s \in Session, DeleteRows(s) PROVE TwinsOK'
  <2>1. CASE Abort(s)
    BY <2>1, TwinsAbort
  <2>2. CASE ~Abort(s)
    <3>1. NoMore(s)
      BY <1>4, <2>2, DeleteEffect DEF NoMore, SameRun
    <3> QED
      BY <1>1, <3>1
  <2> QED
    BY <2>1, <2>2
<1>5. ASSUME NEW s \in Session, DeleteFound(s) PROVE TwinsOK'
  <2>1. NoMore(s)
    BY <1>5, FoundEffect DEF NoMore, SameRun
  <2> QED
    BY <1>1, <2>1
<1>6. ASSUME NEW s \in Session, TruncateGraph(s) PROVE TwinsOK'
  <2>1. CASE Abort(s)
    BY <2>1, TwinsAbort
  <2>2. CASE ~Abort(s)
    <3>1. NoMore(s)
      BY <1>6, <2>2, TruncateEffect DEF NoMore
    <3> QED
      BY <1>1, <3>1
  <2> QED
    BY <2>1, <2>2
<1>7. ASSUME NEW s \in Session, InferRows(s) PROVE TwinsOK'
  <2>1. CASE Abort(s)
    BY <2>1, TwinsAbort
  <2>2. CASE ~Abort(s)
    <3>1. NoMore(s)
      BY <1>7, <2>2, InferEffect DEF NoMore, SameRun
    <3> QED
      BY <1>1, <3>1
  <2> QED
    BY <2>1, <2>2
<1>8. ASSUME NEW s \in Session, AppendRow(s) PROVE TwinsOK'
  <2>1. CASE Abort(s)
    BY <2>1, TwinsAbort
  <2>2. CASE ~Abort(s)
    <3>1. NoMore(s)
      BY <1>8, <2>2, AppendEffect DEF NoMore, SameRun
    <3> QED
      BY <1>1, <3>1
  <2> QED
    BY <2>1, <2>2
<1>9. ASSUME NEW s \in Session, Reason(s) \/ StampGraph(s) PROVE TwinsOK'
  <2>1. Reason(s) => NoMore(s)
    BY ReasonEffect DEF NoMore, SameRows
  <2>2. StampGraph(s) => NoMore(s)
    BY StampEffect DEF NoMore, SameRows
  <2> QED
    BY <1>1, <1>9, <2>1, <2>2
<1>10. ASSUME NEW s \in Session,
              \/ \E ops \in Updates : UpdateStart(s, ops)
              \/ \E g \in Materialized : MaterializeStart(s, g)
              \/ \E q \in Appended : AppendStart(s, q)
       PROVE  TwinsOK'
  <2>1. Alone(s) /\ sess'[s].ins = {} /\ sess'[s].del = {}
    BY <1>10, StartEffect
  <2>2. CASE sess'[s].kind = "update"
    <3>1. gate = NoSession /\ gate' = s
      BY <1>10, <2>2, StartEffect
    <3>2. \A o \in Session : sess[o].kind # "update"
      BY <3>1, StatementAssumption DEF TwinsOK, Mine, StatementAssumption
    <3>3. View(s)' = rows
      BY <2>1 DEF View, Alone
    <3>4. Mine(s)'
      BY <2>2, <3>1, <3>3 DEF Mine, TwinsOK, NoTwins
    <3>5. \A o \in Session \ {s} : Mine(o)'
      BY <2>1, <3>2 DEF Mine, Alone, TwinsOK
    <3>6. NoTwins(rows)'
      BY <2>1 DEF TwinsOK, Alone, NoTwins
    <3> QED
      BY <3>4, <3>5, <3>6 DEF TwinsOK
  <2>3. CASE sess'[s].kind # "update"
    <3>1. gate' = gate
      BY <1>10, <2>3, StartEffect
    <3> QED
      BY <2>1, <2>3, <3>1, TwinsLocal DEF Mine
  <2> QED
    BY <2>2, <2>3
<1>11. ASSUME NEW s \in Session, Commit(s) PROVE TwinsOK'
  <2>1. /\ sess' = [sess EXCEPT ![s] = Idle] /\ rows' = View(s)
        /\ gate' = IF gate = s THEN NoSession ELSE gate
    BY <1>11 DEF Commit, View
  <2>2. /\ sess'[s] = Idle /\ \A o \in Session \ {s} : sess'[o] = sess[o]
    BY <2>1 DEF TypeOK
  <2>3. Mine(s)'
    BY <2>2 DEF Mine, Idle
  <2>4. CASE sess[s].kind = "update"
    <3>1. gate = s /\ NoTwins(View(s))
      BY <2>4 DEF TwinsOK, Mine
    <3>2. \A o \in Session \ {s} : sess[o].kind # "update"
      BY <3>1 DEF TwinsOK, Mine
    <3>3. \A o \in Session \ {s} : Mine(o)'
      BY <2>2, <3>2 DEF TwinsOK, Mine
    <3>4. NoTwins(rows)'
      BY <2>1, <3>1 DEF NoTwins
    <3> QED
      BY <2>3, <3>3, <3>4 DEF TwinsOK
  <2>5. CASE sess[s].kind # "update"
    <3>1. \A r \in rows' : r.by = "update" => r \in rows
      BY <2>1, <2>5 DEF TwinsOK, Mine, View
    <3>2. NoTwins(rows)'
      <4>1. NoTwins(rows')
        BY <3>1, FewerTwins DEF TwinsOK
      <4> QED
        BY <4>1 DEF NoTwins
    <3>3. ASSUME NEW o \in Session \ {s} PROVE Mine(o)'
      <4>1. CASE sess[o].kind = "update"
        <5>1. gate = o /\ NoTwins(View(o))
          BY <4>1 DEF TwinsOK, Mine
        <5>2. \A r \in View(o)' : r.by = "update" => r \in View(o)
          BY <2>2, <3>1 DEF View
        <5>3. NoTwins(View(o)')
          BY <5>1, <5>2, FewerTwins
        <5> QED
          BY <2>1, <2>2, <4>1, <5>1, <5>3 DEF Mine, NoTwins
      <4>2. CASE sess[o].kind # "update"
        BY <2>2, <4>2 DEF TwinsOK, Mine
      <4> QED
        BY <4>1, <4>2
    <3> QED
      BY <2>3, <3>2, <3>3 DEF TwinsOK
  <2> QED
    BY <2>4, <2>5
<1>12. ASSUME \/ UNCHANGED vars
              \/ \E g \in Lockable : LockGraph(g) \/ UnlockGraph(g)
       PROVE  TwinsOK'
  <2>1. rows' = rows /\ sess' = sess /\ gate' = gate
    BY <1>12 DEF vars, LockGraph, UnlockGraph
  <2> QED
    BY <2>1 DEF TwinsOK, Mine, View, NoTwins
<1>13. CASE \E s \in Session : UpdateNext(s)
  BY <1>2, <1>3, <1>4, <1>5, <1>6, <1>10, <1>13 DEF UpdateNext
<1>14. CASE \E s \in Session : MaterializeNext(s) \/ AppendNext(s)
  BY <1>7, <1>8, <1>9, <1>10, <1>14 DEF MaterializeNext, AppendNext
<1>15. CASE \E s \in Session : Cancel(s)
  BY <1>15, TwinsAbort DEF Cancel
<1> QED
  BY <1>11, <1>12, <1>13, <1>14, <1>15 DEF Next

LEMMA TwinsInit == Init => TwinsOK
BY DEF Init, Idle, TwinsOK, Mine, NoTwins

\* No interleaving of UPDATEs with one another, with materialize or with the
\* appending writers leaves two rows an UPDATE inserted for one quad.
THEOREM UpdatesAreSets == Spec => []NoTwoFromUpdates
<1>1. TwinsOK => NoTwoFromUpdates
  BY DEF TwinsOK, NoTwins, NoTwoFromUpdates
<1> QED
  BY <1>1, TwinsInit, TwinsNext, TypeCorrect, PTL DEF Spec

-----------------------------------------------------------------------------
(***************************************************************************)
(* What "current" means.  A run of materialize goes through its stages,     *)
(* holding at the end everything the reasoner derives from the rows it     *)
(* read; a graph's stamp is the number of rows some run read, all of them  *)
(* still there while the graph has lost none.  When as many rows are       *)
(* asserted as were read, they are the rows that were read.                *)
(***************************************************************************)
Asserted(g)    == {r \in RowsOf(rows, g) : ~r.inf}
ReadOf(x, g)   == \A r \in x.base : r.g = g /\ ~r.inf
Complete(x, g) == \A t \in Derived(SetOf(x.base)) :
                     t \in SetOf(x.base) \/ \E r \in x.ins : r.g = g /\ r.t = t

ReasonCmd(g)    == [do |-> "reason", g |-> g]
StampCmd(g)     == [do |-> "stamp", g |-> g]
InferCmd(x, g)  == [do |-> "infer", g |-> g, ts |-> Derived(SetOf(x.base)) \ SetOf(x.base)]

Begun(x, g)    == /\ \/ x.work = <<Del(g, Triple, {TRUE}), ReasonCmd(g), StampCmd(g)>>
                     \/ x.work = <<ReasonCmd(g), StampCmd(g)>>
                  /\ x.ins = {} /\ x.stamps = {}
Reasoned(x, g) == /\ x.work = <<InferCmd(x, g), StampCmd(g)>>
                  /\ x.ins = {} /\ x.stamps = {} /\ x.targets = {} /\ ReadOf(x, g)
Written(x, g)  == /\ \/ x.work = <<StampCmd(g)>> /\ x.stamps = {}
                     \/ x.work = <<>> /\ x.stamps = {<<g, Cardinality(x.base)>>}
                  /\ x.targets = {} /\ ReadOf(x, g) /\ Complete(x, g)
Appends(w)     == w = <<>> \/ (Head(w).do = "append" /\ Tail(w) = <<>>)
Run(x) == IF x.kind = "materialize"
          THEN x.gone = {} /\ \E g \in Graph : Begun(x, g) \/ Reasoned(x, g) \/ Written(x, g)
          ELSE x.stamps = {} /\ (x.kind # "update" => Appends(x.work))

StampTrue(g) == stamp[g] # -1 /\ g \notin disturbed =>
    \E B \in SUBSET Asserted(g) :
        Cardinality(B) = stamp[g] /\ Derived(SetOf(B)) \subseteq SetOf(RowsOf(rows, g))
StampsOK == (\A s \in Session : Run(sess[s])) /\ \A g \in Graph : StampTrue(g)

LEMMA RunIdle == Run(Idle)
BY DEF Run, Appends, Idle

LEMMA StampsLocal ==
    ASSUME TypeOK, StampsOK, NEW s \in Session, Alone(s), Run(sess'[s])
    PROVE  StampsOK'
<1>1. \A o \in Session : Run(sess'[o])
  BY DEF StampsOK, Alone
<1>2. \A g \in Graph : StampTrue(g)'
  BY DEF StampsOK, Alone, StampTrue, Asserted
<1> QED
  BY <1>1, <1>2 DEF StampsOK, Run, Appends, Begun, Reasoned, Written, ReadOf, Complete,
                    ReasonCmd, StampCmd, InferCmd

LEMMA StampsAbort == ASSUME TypeOK, StampsOK, NEW s \in Session, Abort(s) PROVE StampsOK'
BY AfterAbort, RunIdle, StampsLocal

\* Where a run of materialize is, by what it does next.
LEMMA Stages ==
    ASSUME NEW x, x.kind = "materialize", Run(x), x.work # <<>>
    PROVE  /\ Head(x.work).do \in {"delete", "reason", "infer", "stamp"}
           /\ LET g == Head(x.work).g IN
              /\ x.gone = {} /\ x.stamps = {} /\ g \in Graph
              /\ Head(x.work).do = "delete" => x.ins = {} /\ Tail(x.work) = <<ReasonCmd(g), StampCmd(g)>>
              /\ Head(x.work).do = "reason" => x.ins = {} /\ Tail(x.work) = <<StampCmd(g)>>
              /\ Head(x.work).do = "infer"  => /\ x.ins = {} /\ Tail(x.work) = <<StampCmd(g)>>
                                               /\ Head(x.work) = InferCmd(x, g) /\ ReadOf(x, g)
                                               /\ x.targets = {}
              /\ Head(x.work).do = "stamp"  => /\ Tail(x.work) = <<>> /\ x.targets = {}
                                               /\ ReadOf(x, g) /\ Complete(x, g)
<1>1. PICK h \in Graph : Begun(x, h) \/ Reasoned(x, h) \/ Written(x, h)
  BY DEF Run
<1>2. x.gone = {}
  BY DEF Run
<1>3. CASE Begun(x, h)
  <2>1. x.ins = {} /\ x.stamps = {}
    BY <1>3 DEF Begun
  <2>2. CASE x.work = <<Del(h, Triple, {TRUE}), ReasonCmd(h), StampCmd(h)>>
    <3>1. Head(x.work) = Del(h, Triple, {TRUE}) /\ Tail(x.work) = <<ReasonCmd(h), StampCmd(h)>>
      BY <2>2
    <3>2. Head(x.work).do = "delete" /\ Head(x.work).g = h
      BY <3>1 DEF Del
    <3> QED
      BY <1>2, <2>1, <3>1, <3>2
  <2>3. CASE x.work = <<ReasonCmd(h), StampCmd(h)>>
    <3>1. Head(x.work) = ReasonCmd(h) /\ Tail(x.work) = <<StampCmd(h)>>
      BY <2>3
    <3>2. Head(x.work).do = "reason" /\ Head(x.work).g = h
      BY <3>1 DEF ReasonCmd
    <3> QED
      BY <1>2, <2>1, <3>1, <3>2
  <2> QED
    BY <1>3, <2>2, <2>3 DEF Begun
<1>4. CASE Reasoned(x, h)
  <2>1. x.ins = {} /\ x.stamps = {} /\ x.targets = {} /\ ReadOf(x, h)
    BY <1>4 DEF Reasoned
  <2>2. Head(x.work) = InferCmd(x, h) /\ Tail(x.work) = <<StampCmd(h)>>
    BY <1>4 DEF Reasoned
  <2>3. Head(x.work).do = "infer" /\ Head(x.work).g = h
    BY <2>2 DEF InferCmd
  <2> QED
    BY <1>2, <2>1, <2>2, <2>3
<1>5. CASE Written(x, h)
  <2>1. x.stamps = {} /\ x.targets = {} /\ ReadOf(x, h) /\ Complete(x, h)
    BY <1>5 DEF Written
  <2>2. Head(x.work) = StampCmd(h) /\ Tail(x.work) = <<>>
    <3>1. x.work = <<StampCmd(h)>>
      BY <1>5 DEF Written
    <3>2. \A c : Head(<<c>>) = c /\ Tail(<<c>>) = <<>>
      OBVIOUS
    <3> QED
      BY <3>1, <3>2
  <2>3. Head(x.work).do = "stamp" /\ Head(x.work).g = h
    BY <2>2 DEF StampCmd
  <2> QED
    BY <1>2, <2>1, <2>2, <2>3
<1> QED
  BY <1>1, <1>3, <1>4, <1>5

LEMMA PairJoined == ASSUME NEW a, NEW b PROVE <<a>> \o <<b>> = <<a, b>>
<1> DEFINE S == {a, b}
<1>1. <<a>> \in Seq(S) /\ <<b>> \in Seq(S) /\ <<a, b>> \in Seq(S)
  OBVIOUS
<1>2. /\ Len(<<a>>) = 1 /\ Len(<<b>>) = 1 /\ <<a>>[1] = a /\ <<b>>[1] = b
      /\ Len(<<a, b>>) = 2 /\ <<a, b>>[1] = a /\ <<a, b>>[2] = b
  OBVIOUS
<1>3. /\ Len(<<a>> \o <<b>>) = 2 /\ <<a>> \o <<b>> \in Seq(S)
      /\ (<<a>> \o <<b>>)[1] = a /\ (<<a>> \o <<b>>)[2] = b
  BY <1>1, <1>2
<1> HIDE DEF S
<1>4. \A i \in 1 .. Len(<<a>> \o <<b>>) : (<<a>> \o <<b>>)[i] = <<a, b>>[i]
  <2>1. \A i \in 1 .. Len(<<a>> \o <<b>>) : i = 1 \/ i = 2
    BY <1>3
  <2> QED
    BY <2>1, <1>2, <1>3
<1> QED
  BY <1>1, <1>2, <1>3, <1>4, SeqEqual

\* Each step of materialize takes its run to the next stage.
LEMMA RunDelete ==
    ASSUME TypeOK, StampsOK, NEW s \in Session, DeleteRows(s)
    PROVE  StampsOK'
<1> DEFINE g == Head(sess[s].work).g
<1>1. CASE Abort(s)
  BY <1>1, StampsAbort
<1>2. CASE ~Abort(s)
  <2>1. /\ Head(sess[s].work).do = "delete" /\ sess[s].work # <<>>
        /\ Goes(s, sess'[s]) /\ SameRun(sess[s], sess'[s])
        /\ sess'[s].work = Rest(s) /\ sess'[s].ins = sess[s].ins
    BY <1>2, DeleteEffect
  <2>2. Run(sess[s])
    BY DEF StampsOK
  <2>3. Run(sess'[s])
    <3>1. CASE sess[s].kind = "materialize"
      <4>1. /\ sess[s].gone = {} /\ sess[s].stamps = {} /\ g \in Graph
            /\ sess[s].ins = {} /\ Rest(s) = <<ReasonCmd(g), StampCmd(g)>>
        BY <2>1, <2>2, <3>1, Stages DEF Rest
      <4>2. Begun(sess'[s], g)
        BY <2>1, <4>1 DEF Begun, SameRun
      <4> QED
        BY <2>1, <3>1, <4>1, <4>2 DEF Run, SameRun
    <3>2. CASE sess[s].kind # "materialize"
      BY <2>1, <2>2, <3>2 DEF Run, SameRun, Appends
    <3> QED
      BY <3>1, <3>2
  <2> QED
    BY <2>1, <2>3, AfterGoes, StampsLocal
<1> QED
  BY <1>1, <1>2

LEMMA RunFound ==
    ASSUME TypeOK, StampsOK, NEW s \in Session, DeleteFound(s)
    PROVE  StampsOK'
<1>1. /\ sess[s].targets # {} /\ Goes(s, sess'[s]) /\ SameRun(sess[s], sess'[s])
      /\ sess'[s].work = sess[s].work /\ sess'[s].ins \subseteq sess[s].ins
  BY FoundEffect
<1>2. Run(sess[s])
  BY DEF StampsOK
<1>3. Run(sess'[s])
  <2>1. CASE sess[s].kind = "materialize"
    <3>1. PICK g \in Graph : Begun(sess[s], g)
      BY <1>1, <1>2, <2>1 DEF Run, Reasoned, Written
    <3>2. Begun(sess'[s], g)
      BY <1>1, <3>1 DEF Begun, SameRun
    <3> QED
      BY <1>1, <1>2, <2>1, <3>2 DEF Run, SameRun
  <2>2. CASE sess[s].kind # "materialize"
    BY <1>1, <1>2, <2>2 DEF Run, SameRun
  <2> QED
    BY <2>1, <2>2
<1> QED
  BY <1>1, <1>3, AfterGoes, StampsLocal

LEMMA RunReason ==
    ASSUME TypeOK, StampsOK, NEW s \in Session, Reason(s)
    PROVE  StampsOK'
<1> DEFINE g == Head(sess[s].work).g
           x == sess[s]
           y == sess'[s]
           base == {r \in RowsOf(View(s), g) : ~r.inf}
<1>1. /\ x.work # <<>> /\ Head(x.work).do = "reason" /\ x.targets = {}
      /\ Goes(s, y) /\ SameRows(x, y) /\ y.kind = x.kind /\ y.gone = x.gone
      /\ y.stamps = x.stamps /\ y.base = base
      /\ y.work = <<[do |-> "infer", g |-> g,
                     ts |-> Derived(SetOf(base)) \ SetOf(base)]>> \o Rest(s)
  BY ReasonEffect
<1>2. Run(x)
  BY DEF StampsOK
<1>3. ReadOf(y, g)
  BY <1>1 DEF ReadOf, RowsOf
<1> HIDE DEF base
<1>4. Run(y)
  <2>1. CASE x.kind = "materialize"
    <3>1. /\ x.gone = {} /\ x.stamps = {} /\ g \in Graph
          /\ x.ins = {} /\ Rest(s) = <<StampCmd(g)>>
      BY <1>1, <1>2, <2>1, Stages DEF Rest
    <3>2. y.work = <<InferCmd(y, g), StampCmd(g)>>
      <4> DEFINE c == InferCmd(y, g)
      <4>1. y.work = <<c>> \o <<StampCmd(g)>>
        BY <1>1, <3>1 DEF InferCmd
      <4> HIDE DEF c
      <4>2. y.work = <<c, StampCmd(g)>>
        BY <4>1, PairJoined
      <4> QED
        BY <4>2 DEF c
    <3>3. Reasoned(y, g)
      BY <1>1, <1>3, <3>1, <3>2 DEF Reasoned, SameRows
    <3> QED
      BY <1>1, <2>1, <3>1, <3>3 DEF Run
  <2>2. CASE x.kind # "materialize"
    BY <1>1, <1>2, <2>2 DEF Run, Appends
  <2> QED
    BY <2>1, <2>2
<1> QED
  BY <1>1, <1>4, AfterGoes, StampsLocal

LEMMA RunInfer ==
    ASSUME TypeOK, StampsOK, NEW s \in Session, InferRows(s)
    PROVE  StampsOK'
<1> DEFINE g == Head(sess[s].work).g
           ts == Head(sess[s].work).ts
           x == sess[s]
           y == sess'[s]
<1>1. CASE Abort(s)
  BY <1>1, StampsAbort
<1>2. CASE ~Abort(s)
  <2>1. /\ x.work # <<>> /\ Head(x.work).do = "infer"
        /\ Goes(s, y) /\ SameRun(x, y) /\ y.work = Rest(s) /\ y.targets = {}
        /\ \A t \in ts : \E r \in y.ins : r.g = g /\ r.t = t
    BY <1>2, InferEffect
  <2>2. Run(x)
    BY DEF StampsOK
  <2>3. Run(y)
    <3>1. CASE x.kind = "materialize"
      <4>1. /\ x.gone = {} /\ x.stamps = {} /\ g \in Graph /\ Rest(s) = <<StampCmd(g)>>
            /\ Head(x.work) = InferCmd(x, g) /\ ReadOf(x, g)
        BY <2>1, <2>2, <3>1, Stages DEF Rest
      <4>2. ts = Derived(SetOf(x.base)) \ SetOf(x.base)
        BY <4>1 DEF InferCmd
      <4>3. y.base = x.base /\ y.stamps = x.stamps
        BY <2>1 DEF SameRun
      <4>4. Complete(y, g)
        <5> SUFFICES ASSUME NEW t \in Derived(SetOf(x.base)), t \notin SetOf(x.base)
                     PROVE  \E r \in y.ins : r.g = g /\ r.t = t
          BY <4>3 DEF Complete
        <5> HIDE DEF ts, g
        <5> QED
          BY <2>1, <4>2
      <4>5. Written(y, g)
        BY <2>1, <4>1, <4>3, <4>4 DEF Written, ReadOf
      <4> QED
        BY <2>1, <3>1, <4>1, <4>5 DEF Run, SameRun
    <3>2. CASE x.kind # "materialize"
      BY <2>1, <2>2, <3>2 DEF Run, SameRun, Appends
    <3> QED
      BY <3>1, <3>2
  <2> QED
    BY <2>1, <2>3, AfterGoes, StampsLocal
<1> QED
  BY <1>1, <1>2

LEMMA RunStamp ==
    ASSUME TypeOK, StampsOK, NEW s \in Session, StampGraph(s)
    PROVE  StampsOK'
<1> DEFINE g == Head(sess[s].work).g
           x == sess[s]
           y == sess'[s]
<1>1. /\ x.work # <<>> /\ Head(x.work).do = "stamp"
      /\ Goes(s, y) /\ SameRows(x, y) /\ y.kind = x.kind /\ y.gone = x.gone
      /\ y.base = x.base /\ y.stamps = {<<g, Cardinality(x.base)>>} /\ y.work = Rest(s)
      /\ x.kind # "update"
  BY StampEffect
<1>2. Run(x)
  BY DEF StampsOK
<1>3. x.kind = "materialize"
  BY <1>1, <1>2 DEF Run, Appends
<1>4. /\ x.gone = {} /\ g \in Graph /\ Rest(s) = <<>> /\ x.targets = {}
      /\ ReadOf(x, g) /\ Complete(x, g)
  BY <1>1, <1>2, <1>3, Stages DEF Rest
<1>5. Written(y, g)
  BY <1>1, <1>4 DEF Written, ReadOf, Complete, SameRows
<1>6. Run(y)
  BY <1>1, <1>3, <1>4, <1>5 DEF Run
<1> QED
  BY <1>1, <1>6, AfterGoes, StampsLocal

\* A run that has written its rows leaves the stamp true, and any other
\* commit keeps it true or disturbs the graph.
LEMMA RunCommit ==
    ASSUME TypeOK, StampsOK, NEW s \in Session, Commit(s)
    PROVE  StampsOK'
<1> DEFINE me == sess[s]
           stampOf(g) == {p[2] : p \in {q \in me.stamps : q[1] = g}}
<1>1. /\ sess' = [sess EXCEPT ![s] = Idle] /\ rows' = (rows \ me.del) \cup me.ins
      /\ me.work = <<>> /\ me.targets = {} /\ Run(me)
  BY DEF Commit, Finished, StampsOK
<1>2. /\ stamp' = [g \in Graph |-> IF g \in me.gone THEN -1
                                   ELSE IF stampOf(g) # {} THEN CHOOSE n \in stampOf(g) : TRUE
                                   ELSE stamp[g]]
      /\ disturbed' = {g \in Graph : IF stampOf(g) # {} THEN ~(me.base \subseteq rows')
                                     ELSE g \in disturbed \/ RowsOf(me.del, g) # {}}
  BY DEF Commit
<1>3. \A o \in Session : Run(sess'[o])
  BY <1>1, RunIdle DEF TypeOK, StampsOK
<1>4. ASSUME NEW g \in Graph PROVE StampTrue(g)'
  <2> DEFINE A1 == {r \in RowsOf(rows', g) : ~r.inf}
  <2>1. SUFFICES ASSUME stamp'[g] # -1, g \notin disturbed'
                 PROVE  \E B \in SUBSET A1 : /\ Cardinality(B) = stamp'[g]
                                            /\ Derived(SetOf(B)) \subseteq SetOf(RowsOf(rows', g))
    BY DEF StampTrue, Asserted
  <2>2. g \notin me.gone
    BY <1>2, <2>1
  <2>3. CASE stampOf(g) # {}
    <3>1. me.stamps # {}
      BY <2>3
    <3>2. PICK h \in Graph : Begun(me, h) \/ Reasoned(me, h) \/ Written(me, h)
      BY <1>1, <3>1 DEF Run
    <3>3. Written(me, h) /\ me.stamps = {<<h, Cardinality(me.base)>>}
      BY <3>1, <3>2 DEF Begun, Reasoned, Written
    <3>4. h = g /\ stampOf(g) = {Cardinality(me.base)}
      BY <2>3, <3>3
    <3> HIDE DEF stampOf
    <3>5. stamp'[g] = Cardinality(me.base)
      <4>1. (CHOOSE n \in {Cardinality(me.base)} : TRUE) = Cardinality(me.base)
        OBVIOUS
      <4> QED
        BY <1>2, <2>2, <3>4, <4>1
    <3>6. me.base \subseteq rows'
      BY <1>2, <2>1, <3>4
    <3>7. me.base \in SUBSET A1
      BY <3>3, <3>4, <3>6 DEF Written, ReadOf, RowsOf
    <3>8. Derived(SetOf(me.base)) \subseteq SetOf(RowsOf(rows', g))
      <4> SUFFICES ASSUME NEW t \in Derived(SetOf(me.base))
                   PROVE  \E r \in RowsOf(rows', g) : t = r.t
        BY DEF SetOf
      <4>1. t \in SetOf(me.base) \/ \E r \in me.ins : r.g = g /\ r.t = t
        BY <3>3, <3>4 DEF Written, Complete
      <4>2. t \in SetOf(me.base) => \E r \in me.base : t = r.t
        BY DEF SetOf
      <4>3. me.base \subseteq RowsOf(rows', g)
        BY <3>7
      <4>4. \A r \in me.ins : r.g = g => r \in RowsOf(rows', g)
        BY <1>1 DEF RowsOf
      <4> QED
        BY <4>1, <4>2, <4>3, <4>4
    <3> QED
      BY <3>5, <3>7, <3>8
  <2>4. CASE stampOf(g) = {}
    <3> HIDE DEF stampOf
    <3>1. stamp'[g] = stamp[g] /\ g \notin disturbed /\ RowsOf(me.del, g) = {}
      BY <1>2, <2>1, <2>2, <2>4
    <3>2. PICK B \in SUBSET Asserted(g) :
            Cardinality(B) = stamp[g] /\ Derived(SetOf(B)) \subseteq SetOf(RowsOf(rows, g))
      BY <2>1, <3>1 DEF StampsOK, StampTrue
    <3>3. RowsOf(rows, g) \subseteq RowsOf(rows', g)
      BY <1>1, <3>1 DEF RowsOf
    <3>4. B \in SUBSET A1
      BY <3>2, <3>3 DEF Asserted
    <3>5. SetOf(RowsOf(rows, g)) \subseteq SetOf(RowsOf(rows', g))
      BY <3>3 DEF SetOf
    <3> QED
      BY <3>1, <3>2, <3>4, <3>5
  <2> QED
    BY <2>3, <2>4
<1> QED
  BY <1>3, <1>4 DEF StampsOK, Run, Appends, Begun, Reasoned, Written, ReadOf, Complete,
                    ReasonCmd, StampCmd, InferCmd

LEMMA RunAppend ==
    ASSUME TypeOK, StampsOK, NEW s \in Session, AppendRow(s)
    PROVE  StampsOK'
<1>1. CASE Abort(s)
  BY <1>1, StampsAbort
<1>2. CASE ~Abort(s)
  <2>1. /\ sess[s].kind # "update" /\ sess[s].work # <<>> /\ Head(sess[s].work).do = "append"
        /\ Goes(s, sess'[s]) /\ SameRun(sess[s], sess'[s]) /\ sess'[s].work = Rest(s)
    BY <1>2, AppendEffect
  <2>2. Run(sess[s])
    BY DEF StampsOK
  <2>3. sess[s].kind # "materialize"
    BY <2>1, <2>2, Stages
  <2>4. Run(sess'[s])
    BY <2>1, <2>2, <2>3 DEF Run, Appends, SameRun, Rest
  <2> QED
    BY <2>1, <2>4, AfterGoes, StampsLocal
<1> QED
  BY <1>1, <1>2

LEMMA RunStart ==
    ASSUME TypeOK, StampsOK, NEW s \in Session,
           \/ \E ops \in Updates : UpdateStart(s, ops)
           \/ \E g \in Materialized : MaterializeStart(s, g)
           \/ \E q \in Appended : AppendStart(s, q)
    PROVE  StampsOK'
<1> DEFINE y == sess'[s]
<1>1. Alone(s) /\ y.ins = {} /\ y.stamps = {}
  BY StartEffect
<1>2. Run(y)
  <2>1. CASE y.kind = "update"
    BY <1>1, <2>1 DEF Run
  <2>2. CASE y.kind = "materialize"
    <3>1. y.gone = {} /\ \E g \in Materialized : MaterializeStart(s, g)
      BY <2>2, StartEffect
    <3>2. PICK g \in Materialized : MaterializeStart(s, g)
      BY <3>1
    <3> DEFINE work == <<Del(g, Triple, {TRUE}), ReasonCmd(g), StampCmd(g)>>
               new == [Idle EXCEPT !.kind = "materialize", !.work = work]
    <3>3. g \in Graph /\ Goes(s, new)
      BY <3>2 DEF MaterializeStart, TypeOK, Graph, ReasonCmd, StampCmd
    <3> HIDE DEF new, work
    <3>4. y = new
      BY <3>3, AfterGoes
    <3>5. y.work = work
      BY <3>4 DEF new, Idle
    <3>6. Begun(y, g)
      BY <1>1, <3>5 DEF Begun, work
    <3> QED
      BY <2>2, <3>1, <3>3, <3>6 DEF Run
  <2>3. CASE y.kind = "append"
    <3>1. \E q \in Appended : AppendStart(s, q)
      BY <2>3, StartEffect
    <3>2. PICK q \in Appended : AppendStart(s, q)
      BY <3>1
    <3> DEFINE c == [do |-> "append", g |-> q[1], t |-> q[2]]
               new == [Idle EXCEPT !.kind = "append", !.work = <<c>>]
    <3>3. Goes(s, new)
      BY <3>2 DEF AppendStart
    <3> HIDE DEF new
    <3>4. y = new
      BY <3>3, AfterGoes
    <3>5. c.do = "append"
      OBVIOUS
    <3> HIDE DEF c
    <3>6. y.work = <<c>>
      BY <3>4 DEF new, Idle
    <3>7. Head(<<c>>) = c /\ Tail(<<c>>) = <<>>
      OBVIOUS
    <3> QED
      BY <1>1, <2>3, <3>5, <3>6, <3>7 DEF Run, Appends
  <2> QED
    BY <2>1, <2>2, <2>3, StartEffect
<1> QED
  BY <1>1, <1>2, StampsLocal

LEMMA StampsNext ==
    ASSUME TypeOK, StampsOK, [Next]_vars
    PROVE  StampsOK'
<1>1. ASSUME NEW s \in Session, Goes(s, sess'[s]),
             sess[s].kind = "update", sess'[s].kind = "update",
             sess'[s].stamps = sess[s].stamps
      PROVE  StampsOK'
  <2>1. Run(sess'[s])
    BY <1>1 DEF StampsOK, Run
  <2> QED
    BY <1>1, <2>1, AfterGoes, StampsLocal
<1>2. ASSUME NEW s \in Session, UpdateNext(s) PROVE StampsOK'
  <2>1. CASE \/ UpdateOp(s) \/ AllocateGraph(s) \/ SolveWhere(s)
             \/ SolutionRow(s) \/ SolutionsEnd(s) \/ TouchGraph(s)
    BY <1>1, <2>1, QuietUpdates, StampsAbort
  <2>2. CASE InsertRow(s)
    BY <1>1, <2>2, InsertEffect, StampsAbort
  <2>3. CASE TruncateGraph(s)
    BY <1>1, <2>3, TruncateEffect, StampsAbort
  <2>4. CASE DeleteRows(s) \/ DeleteFound(s)
    BY <2>4, RunDelete, RunFound
  <2>5. CASE \E ops \in Updates : UpdateStart(s, ops)
    BY <2>5, RunStart
  <2> QED
    BY <1>2, <2>1, <2>2, <2>3, <2>4, <2>5 DEF UpdateNext
<1>3. ASSUME NEW s \in Session, MaterializeNext(s) \/ AppendNext(s) PROVE StampsOK'
  BY <1>3, RunReason, RunInfer, RunStamp, RunAppend, RunStart DEF MaterializeNext, AppendNext
<1>4. CASE \E s \in Session : Commit(s)
  BY <1>4, RunCommit
<1>5. CASE \E s \in Session : Cancel(s)
  BY <1>5, StampsAbort DEF Cancel
<1>6. CASE UNCHANGED vars \/ \E g \in Lockable : LockGraph(g) \/ UnlockGraph(g)
  <2>1. sess' = sess /\ rows' = rows /\ stamp' = stamp /\ disturbed' = disturbed
    BY <1>6 DEF vars, LockGraph, UnlockGraph
  <2>2. \A o \in Session : Run(sess'[o])
    BY <2>1 DEF StampsOK
  <2>3. \A g \in Graph : StampTrue(g)'
    BY <2>1 DEF StampsOK, StampTrue, Asserted
  <2> QED
    BY <2>2, <2>3 DEF StampsOK, Run, Appends, Begun, Reasoned, Written, ReadOf, Complete,
                      ReasonCmd, StampCmd, InferCmd
<1> QED
  BY <1>2, <1>3, <1>4, <1>5, <1>6 DEF Next

LEMMA StampsInit == Init => StampsOK
<1> SUFFICES ASSUME Init PROVE StampsOK
  OBVIOUS
<1>1. \A s \in Session : Run(sess[s])
  BY RunIdle DEF Init
<1>2. \A g \in Graph : stamp[g] = -1
  BY DEF Init
<1> QED
  BY <1>1, <1>2 DEF StampsOK, StampTrue

\* As many rows asserted as were read, and those read are still among them:
\* they are the same rows.
LEMMA CurrentComplete == TypeOK /\ StampsOK => CurrentIsComplete
<1> SUFFICES ASSUME TypeOK, StampsOK, NEW g \in Graph,
                    Status(g) = "current", g \notin disturbed
             PROVE  Derived(SetOf(Asserted(g))) \subseteq SetOf(RowsOf(rows, g))
  BY DEF CurrentIsComplete, Asserted
<1>1. stamp[g] # -1 /\ Cardinality(Asserted(g)) = stamp[g]
  <2> DEFINE some == \E r \in RowsOf(rows, g) : r.inf
             n == Cardinality(Asserted(g))
  <2>1. Status(g) = CASE stamp[g] = -1 /\ some -> "unknown"
                      [] stamp[g] = -1 /\ ~some -> "never"
                      [] stamp[g] # -1 /\ n # stamp[g] -> "stale"
                      [] OTHER -> "current"
    BY DEF Status, Asserted
  <2> HIDE DEF some, n
  <2>2. stamp[g] # -1 /\ n = stamp[g]
    BY <2>1
  <2> QED
    BY <2>2 DEF n
<1>2. PICK B \in SUBSET Asserted(g) :
        Cardinality(B) = stamp[g] /\ Derived(SetOf(B)) \subseteq SetOf(RowsOf(rows, g))
  BY <1>1 DEF StampsOK, StampTrue
<1>3. IsFiniteSet(Asserted(g))
  <2>1. Asserted(g) \subseteq Row
    BY DEF Asserted, RowsOf, TypeOK
  <2> QED
    BY <2>1, RowsFinite, FS_Subset
<1>4. B = Asserted(g)
  BY <1>1, <1>2, <1>3, FS_Subset
<1> QED
  BY <1>2, <1>4

\* A graph that graph_inventory reports as current, and that lost no row
\* since materialize read it, holds everything the reasoner derives from it:
\* no writer that committed meanwhile and no second run of materialize hides.
THEOREM CurrentGraphsAreComplete == Spec => []CurrentIsComplete
BY StampsInit, StampsNext, CurrentComplete, TypeCorrect, PTL DEF Spec

=============================================================================
