---------------------------- MODULE IngestProofs ----------------------------
(***************************************************************************)
(* Theorems of Ingest: who may hold which lock while a load runs, and what *)
(* follows of it for deadlocks and for the source records.                 *)
(***************************************************************************)
EXTENDS Ingest, TLAPS, NaturalsInduction, WellFoundedInduction, SequenceTheorems, FiniteSetTheorems

-----------------------------------------------------------------------------
\* Induction over sets, and the functions it defines.

LEMMA NatInductive ==
    ASSUME NEW P, 0 \in P, \A n \in Nat : n \in P => n + 1 \in P
    PROVE  Nat \subseteq P
<1> DEFINE T == {n \in Nat : n \notin P}
<1>1. SUFFICES ASSUME T # {} PROVE FALSE
  OBVIOUS
<1>2. PICK x \in T : \A y \in T : ~ (y < x)
  <2>1. IsWellFoundedOn(OpToRel(<, Nat), Nat)
    BY NatLessThanWellFounded
  <2>2. T \subseteq Nat
    OBVIOUS
  <2> HIDE DEF T
  <2>3. \E x \in T : \A y \in T : ~ (<<y, x>> \in OpToRel(<, Nat))
    BY <1>1, <2>1, <2>2, WFMin
  <2>4. \A x, y \in Nat : <<y, x>> \in OpToRel(<, Nat) <=> y < x
    BY DEF OpToRel
  <2> QED
    BY <2>2, <2>3, <2>4
<1>3. x \in Nat /\ x # 0
  OBVIOUS
<1>4. x - 1 \in Nat /\ x - 1 \notin P
  BY <1>2, <1>3
<1> QED
  BY <1>2, <1>3, <1>4

LEMMA SeqInductive ==
    ASSUME NEW S, NEW P, <<>> \in P, \A q \in Seq(S), e \in S : q \in P => Append(q, e) \in P
    PROVE  Seq(S) \subseteq P
<1> DEFINE N == {n \in Nat : \A q \in Seq(S) : Len(q) = n => q \in P}
<1>1. 0 \in N
  OBVIOUS
<1>2. ASSUME NEW n \in Nat, n \in N
      PROVE  n + 1 \in N
  <2> SUFFICES ASSUME NEW q \in Seq(S), Len(q) = n + 1 PROVE q \in P
    OBVIOUS
  <2> DEFINE p == SubSeq(q, 1, n)
  <2>1. p \in Seq(S) /\ Len(p) = n /\ q[n + 1] \in S /\ q = Append(p, q[n + 1])
    OBVIOUS
  <2>2. p \in P
    BY <1>2, <2>1
  <2> QED
    BY <2>1, <2>2
<1> HIDE DEF N
<1>3. Nat \subseteq N
  BY <1>1, <1>2, NatInductive
<1> QED
  BY <1>3 DEF N

\* A start and a step give a function on 0 .. n.
Iterates(f, n, start, step) == f[0] = start /\ \A i \in 1 .. n : f[i] = step[<<i, f[i - 1]>>]
LEMMA Iteration ==
    ASSUME NEW n \in Nat, NEW V, NEW start \in V, NEW step \in [(1 .. n) \X V -> V]
    PROVE  \E f \in [0 .. n -> V] : Iterates(f, n, start, step)
<1> DEFINE P == {m \in Nat : m <= n => \E f \in [0 .. m -> V] : Iterates(f, m, start, step)}
<1>1. 0 \in P
  <2>1. [i \in 0 .. 0 |-> start] \in [0 .. 0 -> V] /\ Iterates([i \in 0 .. 0 |-> start], 0, start, step)
    BY DEF Iterates
  <2> QED
    BY <2>1
<1>2. ASSUME NEW m \in Nat, m \in P
      PROVE  m + 1 \in P
  <2> SUFFICES ASSUME m + 1 <= n
               PROVE  \E f \in [0 .. m + 1 -> V] : Iterates(f, m + 1, start, step)
    OBVIOUS
  <2>1. PICK f \in [0 .. m -> V] : Iterates(f, m, start, step)
    BY <1>2
  <2> DEFINE last == step[<<m + 1, f[m]>>]
             g == [i \in 0 .. m + 1 |-> IF i = m + 1 THEN last ELSE f[i]]
  <2>2. last \in V
    BY <2>1
  <2>3. \A i \in 0 .. m : g[i] = f[i]
    OBVIOUS
  <2>4. g[m + 1] = last
    OBVIOUS
  <2>5. g \in [0 .. m + 1 -> V]
    BY <2>2
  <2> HIDE DEF g
  <2>6. Iterates(g, m + 1, start, step)
    <3>1. g[0] = start
      BY <2>1, <2>3 DEF Iterates
    <3>2. ASSUME NEW i \in 1 .. m + 1
          PROVE  g[i] = step[<<i, g[i - 1]>>]
      <4>1. i - 1 \in 0 .. m /\ g[i - 1] = f[i - 1]
        BY <2>3
      <4>2. CASE i = m + 1
        BY <2>4, <4>1, <4>2
      <4>3. CASE i # m + 1
        <5>1. i \in 1 .. m /\ i \in 0 .. m
          BY <4>3
        <5> QED
          BY <2>1, <2>3, <4>1, <5>1 DEF Iterates
      <4> QED
        BY <4>2, <4>3
    <3> QED
      BY <3>1, <3>2 DEF Iterates
  <2> QED
    BY <2>5, <2>6
<1> HIDE DEF P
<1>3. Nat \subseteq P
  BY <1>1, <1>2, NatInductive
<1>4. n \in P
  BY <1>3
<1> QED
  BY <1>4 DEF P

LEMMA IterationUnique ==
    ASSUME NEW n \in Nat, NEW start, NEW step, NEW f, NEW g, Iterates(f, n, start, step), Iterates(g, n, start, step)
    PROVE  \A i \in 0 .. n : f[i] = g[i]
<1> DEFINE P == {m \in Nat : m <= n => f[m] = g[m]}
<1>1. 0 \in P
  BY DEF Iterates
<1>2. ASSUME NEW m \in Nat, m \in P
      PROVE  m + 1 \in P
  <2> SUFFICES ASSUME m + 1 <= n PROVE f[m + 1] = g[m + 1]
    OBVIOUS
  <2>1. m + 1 \in 1 .. n /\ (m + 1) - 1 = m /\ f[m] = g[m] /\ m \in 0 .. n
    BY <1>2
  <2>2. f[m + 1] = step[<<m + 1, f[m]>>] /\ g[m + 1] = step[<<m + 1, g[m]>>]
    BY <2>1 DEF Iterates
  <2> QED
    BY <2>1, <2>2
<1> HIDE DEF P
<1>3. Nat \subseteq P
  BY <1>1, <1>2, NatInductive
<1> QED
  BY <1>3 DEF P

\* Keep, one element at a time.
Kept(f, q, X) == f = [i \in 0 .. Len(q) |-> IF i = 0 THEN <<>> ELSE IF q[i] \in X THEN Append(f[i - 1], q[i]) ELSE f[i - 1]]

LEMMA KeptUnfolds ==
    ASSUME NEW S, NEW q \in Seq(S), NEW X, NEW f, Kept(f, q, X)
    PROVE  /\ f[0] = <<>>
           /\ \A i \in 1 .. Len(q) : f[i] = IF q[i] \in X THEN Append(f[i - 1], q[i]) ELSE f[i - 1]
<1>1. \A i \in 0 .. Len(q) : f[i] = IF i = 0 THEN <<>> ELSE IF q[i] \in X THEN Append(f[i - 1], q[i]) ELSE f[i - 1]
  BY DEF Kept
<1>2. Len(q) \in Nat /\ 0 \in 0 .. Len(q) /\ \A i \in 1 .. Len(q) : i \in 0 .. Len(q) /\ i # 0
  OBVIOUS
<1> QED
  BY <1>1, <1>2

LEMMA KeptExists ==
    ASSUME NEW S, NEW q \in Seq(S), NEW X
    PROVE  /\ \E f : Kept(f, q, X)
           /\ \A f : Kept(f, q, X) => \A i \in 0 .. Len(q) : f[i] \in Seq(S)
           /\ \A f, g : Kept(f, q, X) /\ Kept(g, q, X) => f = g
<1> DEFINE V == Seq(S)
           n == Len(q)
           step == [p \in (1 .. n) \X V |-> IF q[p[1]] \in X THEN Append(p[2], q[p[1]]) ELSE p[2]]
<1>1. n \in Nat /\ <<>> \in V
  OBVIOUS
<1>2. step \in [(1 .. n) \X V -> V]
  <2> SUFFICES ASSUME NEW p \in (1 .. n) \X V PROVE step[p] \in V
    OBVIOUS
  <2>1. p[1] \in 1 .. n /\ p[2] \in Seq(S) /\ q[p[1]] \in S
    OBVIOUS
  <2> QED
    BY <2>1
<1>3. \A i \in 1 .. n, v \in V : step[<<i, v>>] = IF q[i] \in X THEN Append(v, q[i]) ELSE v
  OBVIOUS
<1>4. \E f : Kept(f, q, X)
  <2> HIDE DEF V, n, step
  <2>1. PICK f \in [0 .. n -> V] : Iterates(f, n, <<>>, step)
    BY <1>1, <1>2, Iteration
  <2>2. \A i \in 0 .. n : f[i] = IF i = 0 THEN <<>> ELSE IF q[i] \in X THEN Append(f[i - 1], q[i]) ELSE f[i - 1]
    <3> SUFFICES ASSUME NEW i \in 0 .. n
                 PROVE  f[i] = IF i = 0 THEN <<>> ELSE IF q[i] \in X THEN Append(f[i - 1], q[i]) ELSE f[i - 1]
      OBVIOUS
    <3>1. CASE i = 0
      BY <2>1, <3>1 DEF Iterates
    <3>2. CASE i # 0
      <4>1. i \in 1 .. n /\ i - 1 \in 0 .. n
        BY <1>1, <3>2
      <4>2. f[i] = step[<<i, f[i - 1]>>] /\ f[i - 1] \in V
        BY <2>1, <4>1 DEF Iterates
      <4> QED
        BY <1>3, <3>2, <4>1, <4>2
    <3> QED
      BY <3>1, <3>2
  <2>3. f = [i \in 0 .. n |-> IF i = 0 THEN <<>> ELSE IF q[i] \in X THEN Append(f[i - 1], q[i]) ELSE f[i - 1]]
    BY <2>1, <2>2
  <2> QED
    BY <2>3 DEF Kept, n
<1>5. ASSUME NEW f, Kept(f, q, X)
      PROVE  \A i \in 0 .. n : f[i] \in V
  <2> DEFINE P == {m \in Nat : m <= n => f[m] \in V}
  <2>1. f[0] = <<>> /\ \A i \in 1 .. n : f[i] = IF q[i] \in X THEN Append(f[i - 1], q[i]) ELSE f[i - 1]
    BY <1>5, KeptUnfolds
  <2>2. 0 \in P
    BY <1>1, <2>1
  <2>3. ASSUME NEW m \in Nat, m \in P
        PROVE  m + 1 \in P
    <3> SUFFICES ASSUME m + 1 <= n PROVE f[m + 1] \in V
      OBVIOUS
    <3>1. f[m] \in Seq(S) /\ m + 1 \in 1 .. n /\ q[m + 1] \in S /\ (m + 1) - 1 = m
      BY <1>1, <2>3
    <3>2. f[m + 1] = IF q[m + 1] \in X THEN Append(f[m], q[m + 1]) ELSE f[m]
      BY <2>1, <3>1
    <3> QED
      BY <3>1, <3>2
  <2> HIDE DEF P
  <2>4. Nat \subseteq P
    BY <2>2, <2>3, NatInductive
  <2> QED
    BY <1>1, <2>4 DEF P
<1>6. ASSUME NEW f, NEW g, Kept(f, q, X), Kept(g, q, X)
      PROVE  f = g
  <2>1. \A h : Kept(h, q, X) => Iterates(h, n, <<>>, step)
    <3> SUFFICES ASSUME NEW h, Kept(h, q, X) PROVE Iterates(h, n, <<>>, step)
      OBVIOUS
    <3>1. h[0] = <<>> /\ \A i \in 1 .. n : h[i] = IF q[i] \in X THEN Append(h[i - 1], q[i]) ELSE h[i - 1]
      BY KeptUnfolds
    <3>2. \A i \in 1 .. n : h[i - 1] \in V
      BY <1>1, <1>5
    <3> HIDE DEF step, V, n
    <3> QED
      BY <1>3, <3>1, <3>2 DEF Iterates
  <2> HIDE DEF step
  <2>2. \A i \in 0 .. n : f[i] = g[i]
    <3>1. Iterates(f, n, <<>>, step) /\ Iterates(g, n, <<>>, step)
      BY <1>6, <2>1
    <3> HIDE DEF n
    <3> QED
      BY <1>1, <3>1, IterationUnique
  <2> QED
    BY <1>6, <2>2 DEF Kept
<1> QED
  BY <1>4, <1>5, <1>6

LEMMA KeepIs ==
    ASSUME NEW S, NEW q \in Seq(S), NEW X, NEW f, Kept(f, q, X)
    PROVE  Keep(q, X) = f[Len(q)]
<1>1. (CHOOSE k : Kept(k, q, X)) = f
  BY KeptExists
<1> QED
  BY <1>1 DEF Keep, Kept

LEMMA KeepFacts ==
    ASSUME NEW S, NEW X
    PROVE  /\ Keep(<<>>, X) = <<>>
           /\ \A q \in Seq(S) : Keep(q, X) \in Seq(S)
           /\ \A q \in Seq(S), e \in S :
                 Keep(Append(q, e), X) = IF e \in X THEN Append(Keep(q, X), e) ELSE Keep(q, X)
<1>1. Keep(<<>>, X) = <<>>
  <2>1. PICK f : Kept(f, <<>>, X)
    <3>1. <<>> \in Seq(S)
      OBVIOUS
    <3> QED
      BY <3>1, KeptExists
  <2>2. Keep(<<>>, X) = f[0]
    <3>1. <<>> \in Seq(S) /\ Len(<<>>) = 0
      OBVIOUS
    <3> QED
      BY <2>1, <3>1, KeepIs
  <2> QED
    BY <2>1, <2>2 DEF Kept
<1>2. \A q \in Seq(S) : Keep(q, X) \in Seq(S)
  <2> SUFFICES ASSUME NEW q \in Seq(S) PROVE Keep(q, X) \in Seq(S)
    OBVIOUS
  <2>1. PICK f : Kept(f, q, X)
    BY KeptExists
  <2>2. f[Len(q)] \in Seq(S)
    <3>1. \A i \in 0 .. Len(q) : f[i] \in Seq(S)
      BY <2>1, KeptExists
    <3>2. Len(q) \in 0 .. Len(q)
      OBVIOUS
    <3> QED
      BY <3>1, <3>2
  <2> QED
    BY <2>1, <2>2, KeepIs
<1>3. ASSUME NEW q \in Seq(S), NEW e \in S
      PROVE  Keep(Append(q, e), X) = IF e \in X THEN Append(Keep(q, X), e) ELSE Keep(q, X)
  <2> DEFINE n == Len(q)
             r == Append(q, e)
  <2>1. r \in Seq(S) /\ n \in Nat /\ Len(r) = n + 1 /\ r[n + 1] = e /\ \A i \in 1 .. n : r[i] = q[i]
    OBVIOUS
  <2> HIDE DEF r
  <2>2. PICK f : Kept(f, r, X)
    BY <2>1, KeptExists
  <2> DEFINE g == [i \in 0 .. n |-> f[i]]
  <2>3. /\ f[0] = <<>>
        /\ \A i \in 1 .. n + 1 : f[i] = IF r[i] \in X THEN Append(f[i - 1], r[i]) ELSE f[i - 1]
    <3>1. /\ f[0] = <<>>
          /\ \A i \in 1 .. Len(r) : f[i] = IF r[i] \in X THEN Append(f[i - 1], r[i]) ELSE f[i - 1]
      BY <2>1, <2>2, KeptUnfolds
    <3> QED
      BY <2>1, <3>1
  <2>4. Kept(g, q, X)
    <3>1. \A i \in 0 .. n : g[i] = IF i = 0 THEN <<>> ELSE IF q[i] \in X THEN Append(g[i - 1], q[i]) ELSE g[i - 1]
      <4> SUFFICES ASSUME NEW i \in 0 .. n
                   PROVE  g[i] = IF i = 0 THEN <<>> ELSE IF q[i] \in X THEN Append(g[i - 1], q[i]) ELSE g[i - 1]
        OBVIOUS
      <4>1. CASE i = 0
        BY <2>1, <2>3, <4>1
      <4>2. CASE i # 0
        <5>1. i \in 1 .. n /\ i \in 1 .. n + 1 /\ i - 1 \in 0 .. n
          BY <2>1, <4>2
        <5>2. g[i] = f[i] /\ g[i - 1] = f[i - 1] /\ r[i] = q[i]
          BY <2>1, <5>1
        <5> HIDE DEF g
        <5> QED
          BY <2>3, <4>2, <5>1, <5>2
      <4> QED
        BY <4>1, <4>2
    <3> QED
      BY <3>1 DEF Kept
  <2>5. Keep(q, X) = f[n]
    <3>1. Keep(q, X) = g[n]
      BY <2>4, KeepIs
    <3> QED
      BY <2>1, <3>1
  <2>6. Keep(r, X) = f[n + 1]
    BY <2>1, <2>2, KeepIs
  <2>7. f[n + 1] = IF e \in X THEN Append(f[n], e) ELSE f[n]
    <3>1. n + 1 \in 1 .. n + 1 /\ (n + 1) - 1 = n
      BY <2>1
    <3> QED
      BY <2>1, <2>3, <3>1
  <2> QED
    BY <2>5, <2>6, <2>7 DEF r
<1> QED
  BY <1>1, <1>2, <1>3

LEMMA KeepAppend ==
    ASSUME NEW S, NEW X, NEW q \in Seq(S), NEW e \in S
    PROVE  Keep(Append(q, e), X) = IF e \in X THEN Append(Keep(q, X), e) ELSE Keep(q, X)
<1>1. \A p \in Seq(S), d \in S : Keep(Append(p, d), X) = IF d \in X THEN Append(Keep(p, X), d) ELSE Keep(p, X)
  BY KeepFacts
<1> QED
  BY <1>1

LEMMA KeepTyped ==
    ASSUME NEW S, NEW X, NEW q \in Seq(S)
    PROVE  Keep(q, X) \in Seq(S)
<1>1. \A p \in Seq(S) : Keep(p, X) \in Seq(S)
  BY KeepFacts
<1> QED
  BY <1>1

LEMMA KeepEmpty == ASSUME NEW X PROVE Keep(<<>>, X) = <<>>
BY KeepFacts

-----------------------------------------------------------------------------
\* Job records.

Fields == {"at", "path", "mode", "doc", "g", "strict", "lines", "loads", "cache", "gids", "named",
           "queue", "pending", "batch", "pool", "lo", "own", "out"}
Rec(j) == j = [f \in Fields |-> j[f]]
\* k is j but for some fields.
Keeps(j, k, X) == Rec(k) /\ \A f \in Fields \ X : k[f] = j[f]

\* Where a job may be.
Reading == {"lines", "terms", "chunk", "window", "uris", "literals", "flush", "finish"}
Rebuilding == {"probe", "gate", "drop", "lock"}
Naming == {"bind", "create"}
Places == Reading \cup Rebuilding \cup Naming \cup {"idle", "record", "parse"}

LEMMA IdleRec == Rec(Idle)
BY DEF Rec, Fields, Idle

LEMMA OnwardKeeps ==
    ASSUME NEW j, Rec(j)
    PROVE  Keeps(j, Onward(j), {"at"}) /\ Onward(j).at \in {"flush", "finish", "window", "lines"}
<1> DEFINE at == CASE Due(j) # {} -> "flush"
                   [] Due(j) = {} /\ Finished(j) -> "finish"
                   [] OTHER -> IF j.path \in Rebuilds THEN "window" ELSE "lines"
           k == [j EXCEPT !.at = at]
<1>1. at \in {"flush", "finish", "window", "lines"}
  OBVIOUS
<1>2. Onward(j) = k
  BY DEF Onward
<1> HIDE DEF at
<1>3. Rec(k)
  BY DEF Rec, Fields
<1>4. k.at = at /\ \A f \in Fields \ {"at"} : k[f] = j[f]
  BY DEF Rec, Fields
<1> HIDE DEF k
<1> QED
  BY <1>1, <1>2, <1>3, <1>4 DEF Keeps

LEMMA MoveKeeps ==
    ASSUME NEW j, Rec(j), NEW at
    PROVE  Keeps(j, [j EXCEPT !.at = at], {"at"}) /\ [j EXCEPT !.at = at].at = at
<1> DEFINE k == [j EXCEPT !.at = at]
<1>1. Rec(k)
  BY DEF Rec, Fields
<1>2. k.at = at /\ \A f \in Fields \ {"at"} : k[f] = j[f]
  BY DEF Rec, Fields
<1> QED
  BY <1>1, <1>2 DEF Keeps

\* What a look-up or an insert learns.
LEMMA WithKeeps ==
    ASSUME NEW j, Rec(j), NEW st
    PROVE  /\ Keeps(j, With(j, st), {"own", "cache"})
           /\ With(j, st).own = st.own /\ With(j, st).cache = st.cache
<1>1. Rec(With(j, st))
  BY DEF Rec, Fields, With
<1>2. /\ \A f \in Fields \ {"own", "cache"} : With(j, st)[f] = j[f]
      /\ With(j, st).own = st.own /\ With(j, st).cache = st.cache
  BY DEF Rec, Fields, With
<1> QED
  BY <1>1, <1>2 DEF Keeps

LEMMA DrainKeeps ==
    ASSUME NEW j, Rec(j)
    PROVE  Keeps(j, Drain(j), {"batch", "pending"}) /\ Keeps(j, DrainKeyed(j), {"batch", "pending"})
<1>1. ASSUME NEW l, Rec(l)
      PROVE  Keeps(l, Drain(l), {"batch", "pending"})
  <2>1. Rec(Drain(l))
    BY <1>1 DEF Rec, Fields, Drain
  <2>2. \A f \in Fields \ {"batch", "pending"} : Drain(l)[f] = l[f]
    BY <1>1 DEF Rec, Fields, Drain
  <2> QED
    BY <2>1, <2>2 DEF Keeps
<1>2. ASSUME NEW q
      PROVE  Keeps(j, [j EXCEPT !.pending = q], {"batch", "pending"})
  <2> DEFINE k == [j EXCEPT !.pending = q]
  <2>1. Rec(k)
    BY DEF Rec, Fields
  <2>2. \A f \in Fields \ {"batch", "pending"} : k[f] = j[f]
    BY DEF Rec, Fields
  <2> QED
    BY <2>1, <2>2 DEF Keeps
<1> QED
  BY <1>1, <1>2 DEF DrainKeyed, Keeps

LEMMA KeepsTrans ==
    ASSUME NEW j, NEW k, NEW l, NEW X, NEW Y, NEW Z, Keeps(j, k, X), Keeps(k, l, Y), X \cup Y \subseteq Z
    PROVE  Keeps(j, l, Z)
BY DEF Keeps

LEMMA CombineKeeps ==
    ASSUME NEW j, Rec(j)
    PROVE  Keeps(j, Combine(j), {"at", "batch", "pending"}) /\ Combine(j).at \in Reading
<1> DEFINE rows == Len(j.pending) >= BATCH \/ j.lines = <<>>
           one == j.queue # <<>> /\ (rows \/ Len(j.queue) >= DictBatch)
           two == j.queue = <<>> /\ rows
<1>1. Combine(j) = CASE one -> [j EXCEPT !.at = "terms"]
                     [] two -> Onward(Drain(j))
                     [] OTHER -> [j EXCEPT !.at = "lines"]
  BY DEF Combine
<1>2. one => ~two
  OBVIOUS
<1> HIDE DEF rows, one, two
<1>3. Combine(j) \in {[j EXCEPT !.at = "terms"], Onward(Drain(j)), [j EXCEPT !.at = "lines"]}
  BY <1>1, <1>2
<1>4. Keeps(j, Onward(Drain(j)), {"at", "batch", "pending"}) /\ Onward(Drain(j)).at \in Reading
  <2>1. Keeps(j, Drain(j), {"batch", "pending"}) /\ Rec(Drain(j))
    BY DrainKeeps DEF Keeps
  <2>2. Keeps(Drain(j), Onward(Drain(j)), {"at"}) /\ Onward(Drain(j)).at \in Reading
    BY <2>1, OnwardKeeps DEF Reading
  <2> QED
    BY <2>1, <2>2, KeepsTrans
<1>5. ASSUME NEW at \in Reading
      PROVE  Keeps(j, [j EXCEPT !.at = at], {"at", "batch", "pending"}) /\ [j EXCEPT !.at = at].at \in Reading
  <2> DEFINE k == [j EXCEPT !.at = at]
  <2>1. Keeps(j, k, {"at"}) /\ k.at = at
    BY MoveKeeps
  <2> HIDE DEF k
  <2>2. Keeps(j, k, {"at", "batch", "pending"}) /\ k.at \in Reading
    BY <2>1, <1>5 DEF Keeps
  <2> QED
    BY <2>2 DEF k
<1>6. "terms" \in Reading /\ "lines" \in Reading
  BY DEF Reading
<1> QED
  BY <1>3, <1>4, <1>5, <1>6

LEMMA BatchedKeeps ==
    ASSUME NEW j, Rec(j)
    PROVE  Keeps(j, Batched(j), {"at", "batch", "pending", "queue"}) /\ Batched(j).at \in Reading
<1> DEFINE plain == (DtypeKeys(j.pending) \cup PlainKeys(j.pending)) \ DOMAIN j.cache
           more == IF DtypeKeys(j.pending) \subseteq DOMAIN j.cache
                   THEN plain \cup (LiteralKeys(j.pending, j.cache) \ DOMAIN j.cache)
                   ELSE DtypeKeys(j.pending)
           one == j.queue # <<>>
           two == j.queue = <<>> /\ more # {}
           X == {"at", "batch", "pending", "queue"}
<1>1. Batched(j) = CASE one -> [j EXCEPT !.at = "chunk"]
                     [] two -> [j EXCEPT !.queue = Listed(more), !.at = "chunk"]
                     [] OTHER -> Onward(DrainKeyed(j))
  BY DEF Batched
<1>2. one => ~two
  OBVIOUS
<1> HIDE DEF more, one, two
<1>3. Batched(j) \in {[j EXCEPT !.at = "chunk"], [j EXCEPT !.queue = Listed(more), !.at = "chunk"],
                      Onward(DrainKeyed(j))}
  BY <1>1, <1>2
<1>4. Keeps(j, Onward(DrainKeyed(j)), X) /\ Onward(DrainKeyed(j)).at \in Reading
  <2>1. Keeps(j, DrainKeyed(j), {"batch", "pending"}) /\ Rec(DrainKeyed(j))
    BY DrainKeeps DEF Keeps
  <2>2. Keeps(DrainKeyed(j), Onward(DrainKeyed(j)), {"at"}) /\ Onward(DrainKeyed(j)).at \in Reading
    BY <2>1, OnwardKeeps DEF Reading
  <2> QED
    BY <2>1, <2>2, KeepsTrans
<1>5. Keeps(j, [j EXCEPT !.at = "chunk"], X) /\ [j EXCEPT !.at = "chunk"].at \in Reading
  BY MoveKeeps DEF Keeps, Reading
<1>6. Keeps(j, [j EXCEPT !.queue = Listed(more), !.at = "chunk"], X)
      /\ [j EXCEPT !.queue = Listed(more), !.at = "chunk"].at \in Reading
  <2> DEFINE q == Listed(more)
             k == [j EXCEPT !.queue = q, !.at = "chunk"]
  <2> HIDE DEF q
  <2>1. Rec(k)
    BY DEF Rec, Fields
  <2>2. k.at = "chunk" /\ \A f \in Fields \ X : k[f] = j[f]
    BY DEF Rec, Fields
  <2> QED
    BY <2>1, <2>2 DEF Keeps, Reading, q
<1> QED
  BY <1>3, <1>4, <1>5, <1>6

\* The records of the steps, field by field: named, so that a proof can speak of
\* one without its fields.
BaselineJob(j, st, row) == [With(j, st) EXCEPT !.batch = Append(@, row), !.lines = Tail(@)]
LEMMA BaselineRecord ==
    ASSUME NEW j, Rec(j), NEW st, NEW row
    PROVE  /\ Keeps(j, BaselineJob(j, st, row), {"own", "cache", "batch", "lines"})
           /\ Rec(BaselineJob(j, st, row))
           /\ BaselineJob(j, st, row).own = st.own
           /\ BaselineJob(j, st, row).cache = st.cache
           /\ BaselineJob(j, st, row).batch = Append(j.batch, row)
           /\ BaselineJob(j, st, row).lines = Tail(j.lines)
<1>1. Rec(BaselineJob(j, st, row))
  BY DEF Rec, Fields, BaselineJob, With
<1>2. /\ \A f \in Fields \ {"own", "cache", "batch", "lines"} : BaselineJob(j, st, row)[f] = j[f]
      /\ BaselineJob(j, st, row).own = st.own
      /\ BaselineJob(j, st, row).cache = st.cache
      /\ BaselineJob(j, st, row).batch = Append(j.batch, row)
      /\ BaselineJob(j, st, row).lines = Tail(j.lines)
  BY DEF Rec, Fields, BaselineJob, With
<1> QED
  BY <1>1, <1>2 DEF Keeps

CombinedJob(j, st, q, e) == [With(j, st) EXCEPT !.queue = q, !.pending = Append(@, e), !.lines = Tail(@)]
LEMMA CombinedRecord ==
    ASSUME NEW j, Rec(j), NEW st, NEW q, NEW e
    PROVE  /\ Keeps(j, CombinedJob(j, st, q, e), {"own", "cache", "queue", "pending", "lines"})
           /\ Rec(CombinedJob(j, st, q, e))
           /\ CombinedJob(j, st, q, e).own = st.own
           /\ CombinedJob(j, st, q, e).cache = st.cache
           /\ CombinedJob(j, st, q, e).queue = q
           /\ CombinedJob(j, st, q, e).pending = Append(j.pending, e)
           /\ CombinedJob(j, st, q, e).lines = Tail(j.lines)
<1>1. Rec(CombinedJob(j, st, q, e))
  BY DEF Rec, Fields, CombinedJob, With
<1>2. /\ \A f \in Fields \ {"own", "cache", "queue", "pending", "lines"} : CombinedJob(j, st, q, e)[f] = j[f]
      /\ CombinedJob(j, st, q, e).own = st.own
      /\ CombinedJob(j, st, q, e).cache = st.cache
      /\ CombinedJob(j, st, q, e).queue = q
      /\ CombinedJob(j, st, q, e).pending = Append(j.pending, e)
      /\ CombinedJob(j, st, q, e).lines = Tail(j.lines)
  BY DEF Rec, Fields, CombinedJob, With
<1> QED
  BY <1>1, <1>2 DEF Keeps

QueueJob(j, st, q) == [With(j, st) EXCEPT !.queue = q]
LEMMA QueueRecord ==
    ASSUME NEW j, Rec(j), NEW st, NEW q
    PROVE  /\ Keeps(j, QueueJob(j, st, q), {"own", "cache", "queue"})
           /\ Rec(QueueJob(j, st, q))
           /\ QueueJob(j, st, q).own = st.own
           /\ QueueJob(j, st, q).cache = st.cache
           /\ QueueJob(j, st, q).queue = q
<1>1. Rec(QueueJob(j, st, q))
  BY DEF Rec, Fields, QueueJob, With
<1>2. /\ \A f \in Fields \ {"own", "cache", "queue"} : QueueJob(j, st, q)[f] = j[f]
      /\ QueueJob(j, st, q).own = st.own
      /\ QueueJob(j, st, q).cache = st.cache
      /\ QueueJob(j, st, q).queue = q
  BY DEF Rec, Fields, QueueJob, With
<1> QED
  BY <1>1, <1>2 DEF Keeps

ParseJob(j, q, l) == [j EXCEPT !.pending = q, !.lines = l]
LEMMA ParseRecord ==
    ASSUME NEW j, Rec(j), NEW q, NEW l
    PROVE  /\ Keeps(j, ParseJob(j, q, l), {"pending", "lines"})
           /\ Rec(ParseJob(j, q, l))
           /\ ParseJob(j, q, l).pending = q
           /\ ParseJob(j, q, l).lines = l
<1>1. Rec(ParseJob(j, q, l))
  BY DEF Rec, Fields, ParseJob, With
<1>2. /\ \A f \in Fields \ {"pending", "lines"} : ParseJob(j, q, l)[f] = j[f]
      /\ ParseJob(j, q, l).pending = q
      /\ ParseJob(j, q, l).lines = l
  BY DEF Rec, Fields, ParseJob, With
<1> QED
  BY <1>1, <1>2 DEF Keeps

WindowJob(j, q, l, at) == [j EXCEPT !.pending = q, !.lines = l, !.at = at]
LEMMA WindowRecord ==
    ASSUME NEW j, Rec(j), NEW q, NEW l, NEW at
    PROVE  /\ Keeps(j, WindowJob(j, q, l, at), {"pending", "lines", "at"})
           /\ Rec(WindowJob(j, q, l, at))
           /\ WindowJob(j, q, l, at).pending = q
           /\ WindowJob(j, q, l, at).lines = l
           /\ WindowJob(j, q, l, at).at = at
<1>1. Rec(WindowJob(j, q, l, at))
  BY DEF Rec, Fields, WindowJob, With
<1>2. /\ \A f \in Fields \ {"pending", "lines", "at"} : WindowJob(j, q, l, at)[f] = j[f]
      /\ WindowJob(j, q, l, at).pending = q
      /\ WindowJob(j, q, l, at).lines = l
      /\ WindowJob(j, q, l, at).at = at
  BY DEF Rec, Fields, WindowJob, With
<1> QED
  BY <1>1, <1>2 DEF Keeps

ReserveJob(j, p, l) == [j EXCEPT !.pool = p, !.lo = l]
LEMMA ReserveRecord ==
    ASSUME NEW j, Rec(j), NEW p, NEW l
    PROVE  /\ Keeps(j, ReserveJob(j, p, l), {"pool", "lo"})
           /\ Rec(ReserveJob(j, p, l))
           /\ ReserveJob(j, p, l).pool = p
           /\ ReserveJob(j, p, l).lo = l
<1>1. Rec(ReserveJob(j, p, l))
  BY DEF Rec, Fields, ReserveJob, With
<1>2. /\ \A f \in Fields \ {"pool", "lo"} : ReserveJob(j, p, l)[f] = j[f]
      /\ ReserveJob(j, p, l).pool = p
      /\ ReserveJob(j, p, l).lo = l
  BY DEF Rec, Fields, ReserveJob, With
<1> QED
  BY <1>1, <1>2 DEF Keeps

LoJob(j, l) == [j EXCEPT !.lo = l]
LEMMA LoRecord ==
    ASSUME NEW j, Rec(j), NEW l
    PROVE  /\ Keeps(j, LoJob(j, l), {"lo"})
           /\ Rec(LoJob(j, l))
           /\ LoJob(j, l).lo = l
<1>1. Rec(LoJob(j, l))
  BY DEF Rec, Fields, LoJob, With
<1>2. /\ \A f \in Fields \ {"lo"} : LoJob(j, l)[f] = j[f]
      /\ LoJob(j, l).lo = l
  BY DEF Rec, Fields, LoJob, With
<1> QED
  BY <1>1, <1>2 DEF Keeps

FreshJob(j, own, cache, p) == [[j EXCEPT !.own = own, !.cache = cache] EXCEPT !.pool = p]
LEMMA FreshRecord ==
    ASSUME NEW j, Rec(j), NEW own, NEW cache, NEW p
    PROVE  /\ Keeps(j, FreshJob(j, own, cache, p), {"own", "cache", "pool"})
           /\ Rec(FreshJob(j, own, cache, p))
           /\ FreshJob(j, own, cache, p).own = own
           /\ FreshJob(j, own, cache, p).cache = cache
           /\ FreshJob(j, own, cache, p).pool = p
<1>1. Rec(FreshJob(j, own, cache, p))
  BY DEF Rec, Fields, FreshJob, With
<1>2. /\ \A f \in Fields \ {"own", "cache", "pool"} : FreshJob(j, own, cache, p)[f] = j[f]
      /\ FreshJob(j, own, cache, p).own = own
      /\ FreshJob(j, own, cache, p).cache = cache
      /\ FreshJob(j, own, cache, p).pool = p
  BY DEF Rec, Fields, FreshJob, With
<1> QED
  BY <1>1, <1>2 DEF Keeps

FlushJob(j, o, b) == [j EXCEPT !.out = o, !.batch = b]
LEMMA FlushRecord ==
    ASSUME NEW j, Rec(j), NEW o, NEW b
    PROVE  /\ Keeps(j, FlushJob(j, o, b), {"out", "batch"})
           /\ Rec(FlushJob(j, o, b))
           /\ FlushJob(j, o, b).out = o
           /\ FlushJob(j, o, b).batch = b
<1>1. Rec(FlushJob(j, o, b))
  BY DEF Rec, Fields, FlushJob, With
<1>2. /\ \A f \in Fields \ {"out", "batch"} : FlushJob(j, o, b)[f] = j[f]
      /\ FlushJob(j, o, b).out = o
      /\ FlushJob(j, o, b).batch = b
  BY DEF Rec, Fields, FlushJob, With
<1> QED
  BY <1>1, <1>2 DEF Keeps

RecordJob(j, n, at) == [j EXCEPT !.loads = n, !.at = at]
LEMMA RecordRecord ==
    ASSUME NEW j, Rec(j), NEW n, NEW at
    PROVE  /\ Keeps(j, RecordJob(j, n, at), {"loads", "at"})
           /\ Rec(RecordJob(j, n, at))
           /\ RecordJob(j, n, at).loads = n
           /\ RecordJob(j, n, at).at = at
<1>1. Rec(RecordJob(j, n, at))
  BY DEF Rec, Fields, RecordJob, With
<1>2. /\ \A f \in Fields \ {"loads", "at"} : RecordJob(j, n, at)[f] = j[f]
      /\ RecordJob(j, n, at).loads = n
      /\ RecordJob(j, n, at).at = at
  BY DEF Rec, Fields, RecordJob, With
<1> QED
  BY <1>1, <1>2 DEF Keeps

PlaceJob(j, gids) == [j EXCEPT !.gids = gids]
LEMMA PlaceRecord ==
    ASSUME NEW j, Rec(j), NEW gids
    PROVE  /\ Keeps(j, PlaceJob(j, gids), {"gids"})
           /\ Rec(PlaceJob(j, gids))
           /\ PlaceJob(j, gids).gids = gids
<1>1. Rec(PlaceJob(j, gids))
  BY DEF Rec, Fields, PlaceJob, With
<1>2. /\ \A f \in Fields \ {"gids"} : PlaceJob(j, gids)[f] = j[f]
      /\ PlaceJob(j, gids).gids = gids
  BY DEF Rec, Fields, PlaceJob, With
<1> QED
  BY <1>1, <1>2 DEF Keeps

FoundJob(j, gids, at) == [j EXCEPT !.gids = gids, !.at = at]
LEMMA FoundRecord ==
    ASSUME NEW j, Rec(j), NEW gids, NEW at
    PROVE  /\ Keeps(j, FoundJob(j, gids, at), {"gids", "at"})
           /\ Rec(FoundJob(j, gids, at))
           /\ FoundJob(j, gids, at).gids = gids
           /\ FoundJob(j, gids, at).at = at
<1>1. Rec(FoundJob(j, gids, at))
  BY DEF Rec, Fields, FoundJob, With
<1>2. /\ \A f \in Fields \ {"gids", "at"} : FoundJob(j, gids, at)[f] = j[f]
      /\ FoundJob(j, gids, at).gids = gids
      /\ FoundJob(j, gids, at).at = at
  BY DEF Rec, Fields, FoundJob, With
<1> QED
  BY <1>1, <1>2 DEF Keeps

NamedJob(j, gids, named, at) == [j EXCEPT !.gids = gids, !.named = named, !.at = at]
LEMMA NamedRecord ==
    ASSUME NEW j, Rec(j), NEW gids, NEW named, NEW at
    PROVE  /\ Keeps(j, NamedJob(j, gids, named, at), {"gids", "named", "at"})
           /\ Rec(NamedJob(j, gids, named, at))
           /\ NamedJob(j, gids, named, at).gids = gids
           /\ NamedJob(j, gids, named, at).named = named
           /\ NamedJob(j, gids, named, at).at = at
<1>1. Rec(NamedJob(j, gids, named, at))
  BY DEF Rec, Fields, NamedJob, With
<1>2. /\ \A f \in Fields \ {"gids", "named", "at"} : NamedJob(j, gids, named, at)[f] = j[f]
      /\ NamedJob(j, gids, named, at).gids = gids
      /\ NamedJob(j, gids, named, at).named = named
      /\ NamedJob(j, gids, named, at).at = at
  BY DEF Rec, Fields, NamedJob, With
<1> QED
  BY <1>1, <1>2 DEF Keeps

PathJob(j, p, at) == [j EXCEPT !.at = at, !.path = p]
LEMMA PathRecord ==
    ASSUME NEW j, Rec(j), NEW p, NEW at
    PROVE  /\ Keeps(j, PathJob(j, p, at), {"at", "path"})
           /\ Rec(PathJob(j, p, at))
           /\ PathJob(j, p, at).at = at
           /\ PathJob(j, p, at).path = p
<1>1. Rec(PathJob(j, p, at))
  BY DEF Rec, Fields, PathJob, With
<1>2. /\ \A f \in Fields \ {"at", "path"} : PathJob(j, p, at)[f] = j[f]
      /\ PathJob(j, p, at).at = at
      /\ PathJob(j, p, at).path = p
  BY DEF Rec, Fields, PathJob, With
<1> QED
  BY <1>1, <1>2 DEF Keeps

-----------------------------------------------------------------------------
\* The steps that read on: each keeps its load and opens no other lock than
\* those of the rows it writes.

\* The rest of the document.
Rest(j) == {j.lines[i] : i \in DOMAIN j.lines}
Load == {"path", "mode", "doc", "g", "strict", "loads"}
GoesOn(j, k) ==
    /\ Rec(k) /\ \A f \in Load : k[f] = j[f]
    /\ k.lines \in Seq(Line) /\ Rest(k) \subseteq Rest(j)
    /\ k.at \in Reading

LEMMA SeqFacts ==
    ASSUME NEW S, NEW q \in Seq(S), NEW m \in Nat
    PROVE  /\ q # <<>> => Tail(q) \in Seq(S) /\ \A i \in DOMAIN Tail(q) : Tail(q)[i] = q[i + 1] /\ i + 1 \in DOMAIN q
           /\ SubSeq(q, m + 1, Len(q)) \in Seq(S)
           /\ \A i \in DOMAIN SubSeq(q, m + 1, Len(q)) :
                 SubSeq(q, m + 1, Len(q))[i] = q[m + i] /\ m + i \in DOMAIN q
OBVIOUS

LEMMA KeepsGoesOn ==
    ASSUME NEW j, NEW k, Keeps(j, k, Fields \ (Load \cup {"lines"})), j.lines \in Seq(Line), k.at \in Reading
    PROVE  GoesOn(j, k)
<1>1. k.lines = j.lines /\ \A f \in Load : k[f] = j[f]
  BY DEF Keeps, Fields, Load
<1> QED
  BY <1>1 DEF GoesOn, Rest, Keeps

LEMMA GoesOnTrans ==
    ASSUME NEW j, NEW k, NEW l, Rec(k), \A f \in Load : k[f] = j[f],
           k.lines \in Seq(Line), Rest(k) \subseteq Rest(j), GoesOn(k, l)
    PROVE  GoesOn(j, l)
BY DEF GoesOn

\* After a line, or the document's last.
LEMMA ShorterGoesOn ==
    ASSUME NEW j, Rec(j), j.lines \in Seq(Line), j.lines # <<>>, NEW k,
           Keeps(j, k, Fields \ Load), k.lines = Tail(j.lines), NEW l, Keeps(k, l, {"at", "batch", "pending"}), l.at \in Reading
    PROVE  GoesOn(j, l)
<1>1. k.lines \in Seq(Line) /\ Rest(k) \subseteq Rest(j)
  BY SeqFacts DEF Rest
<1>2. l.lines = k.lines /\ \A f \in Load : l[f] = j[f]
  BY DEF Keeps, Fields, Load
<1> QED
  BY <1>1, <1>2 DEF GoesOn, Keeps, Rest

Reads(s) ==
    \/ BaselineLine(s) \/ CombinedLine(s) \/ EndOfFile(s) \/ FlushDefer(s) \/ Parse(s) \/ PutChunk(s)
    \/ ReadWindow(s) \/ Reserve(s) \/ InsertNew(s) \/ Flush(s)
Continues(s) == \E k : Step(s, k) /\ GoesOn(job[s], k)

LEMMA LineGoesOn ==
    ASSUME NEW j, Rec(j), j.lines \in Seq(Line), j.lines # <<>>, NEW k, NEW l,
           Keeps(j, k, {"own", "cache", "batch", "lines"}) \/ Keeps(j, k, {"own", "cache", "queue", "pending", "lines"}),
           k.lines = Tail(j.lines), Keeps(k, l, {"at", "batch", "pending"}), l.at \in Reading
    PROVE  GoesOn(j, l)
<1>1. Keeps(j, k, Fields \ Load)
  BY DEF Keeps, Fields, Load
<1> QED
  BY <1>1, ShorterGoesOn

LEMMA ReadsContinue ==
    ASSUME NEW s, Rec(job[s]), job[s].lines \in Seq(Line), Reads(s)
    PROVE  Continues(s)
<1> DEFINE j == job[s]
<1>a. Rec(j) /\ j.lines \in Seq(Line)
  OBVIOUS
<1>1. CASE BaselineLine(s)
  <2>1. PICK d, e, k : /\ k = BaselineJob(j, d, e)
                       /\ Step(s, Onward(k)) /\ j.lines # <<>>
    BY <1>1 DEF BaselineLine, Readable, BaselineJob
  <2> HIDE DEF j
  <2>2. Keeps(j, k, {"own", "cache", "batch", "lines"}) /\ k.lines = Tail(j.lines) /\ Rec(k)
    BY <1>a, <2>1, BaselineRecord
  <2>3. Keeps(k, Onward(k), {"at", "batch", "pending"}) /\ Onward(k).at \in Reading
    BY <2>2, OnwardKeeps DEF Keeps, Reading
  <2>4. GoesOn(j, Onward(k))
    BY <1>a, <2>1, <2>2, <2>3, LineGoesOn
  <2> QED
    BY <2>1, <2>4 DEF Continues, j
<1>2. CASE CombinedLine(s)
  <2>1. PICK d, q, e, k : /\ k = CombinedJob(j, d, q, e)
                          /\ Step(s, Combine(k)) /\ j.lines # <<>>
    BY <1>2 DEF CombinedLine, Readable, CombinedJob
  <2> HIDE DEF j
  <2>2. Keeps(j, k, {"own", "cache", "queue", "pending", "lines"}) /\ k.lines = Tail(j.lines) /\ Rec(k)
    BY <1>a, <2>1, CombinedRecord
  <2>3. Keeps(k, Combine(k), {"at", "batch", "pending"}) /\ Combine(k).at \in Reading
    BY <2>2, CombineKeeps
  <2>4. GoesOn(j, Combine(k))
    BY <1>a, <2>1, <2>2, <2>3, LineGoesOn
  <2> QED
    BY <2>1, <2>4 DEF Continues, j
<1>3. CASE EndOfFile(s)
  <2>1. Step(s, Onward(j))
    BY <1>3 DEF EndOfFile
  <2> HIDE DEF j
  <2>2. Keeps(j, Onward(j), Fields \ (Load \cup {"lines"})) /\ Onward(j).at \in Reading
    BY <1>a, OnwardKeeps DEF Keeps, Reading, Load
  <2>3. GoesOn(j, Onward(j))
    BY <1>a, <2>2, KeepsGoesOn
  <2> QED
    BY <2>1, <2>3 DEF Continues, j
<1>4. CASE FlushDefer(s)
  <2>1. PICK d, q, k : k = QueueJob(j, d, q) /\ Step(s, Combine(k))
    BY <1>4 DEF FlushDefer, QueueJob
  <2> HIDE DEF j
  <2>2. Keeps(j, k, {"own", "cache", "queue"}) /\ Rec(k)
    BY <1>a, <2>1, QueueRecord
  <2>3. Keeps(j, Combine(k), Fields \ (Load \cup {"lines"})) /\ Combine(k).at \in Reading
    BY <2>2, CombineKeeps DEF Keeps, Load
  <2>4. GoesOn(j, Combine(k))
    BY <1>a, <2>3, KeepsGoesOn
  <2> QED
    BY <2>1, <2>4 DEF Continues, j
<1>5. CASE Parse(s)
  <2> DEFINE sts == [i \in DOMAIN j.lines |-> Place(j, j.lines[i])]
             k == ParseJob(j, sts, <<>>)
  <2>1. Step(s, Batched(k))
    BY <1>5 DEF Parse, ParseJob
  <2> HIDE DEF j, sts
  <2>2. Keeps(j, k, {"pending", "lines"}) /\ k.lines = <<>> /\ Rec(k)
    BY <1>a, ParseRecord
  <2> HIDE DEF k
  <2>3. Keeps(k, Batched(k), {"at", "batch", "pending", "queue"}) /\ Batched(k).at \in Reading
    BY <2>2, BatchedKeeps
  <2>4. Batched(k).lines = <<>> /\ \A f \in Load : Batched(k)[f] = j[f]
    BY <2>2, <2>3 DEF Keeps, Fields, Load
  <2>5. GoesOn(j, Batched(k))
    BY <2>3, <2>4 DEF GoesOn, Keeps, Rest
  <2> QED
    BY <2>1, <2>5 DEF Continues, j
<1>6. CASE PutChunk(s)
  <2>1. PICK d, q, k : k = QueueJob(j, d, q) /\ Step(s, Batched(k))
    BY <1>6 DEF PutChunk, QueueJob
  <2> HIDE DEF j
  <2>2. Keeps(j, k, {"own", "cache", "queue"}) /\ Rec(k)
    BY <1>a, <2>1, QueueRecord
  <2>3. Keeps(j, Batched(k), Fields \ (Load \cup {"lines"})) /\ Batched(k).at \in Reading
    BY <2>2, BatchedKeeps DEF Keeps, Load
  <2>4. GoesOn(j, Batched(k))
    BY <1>a, <2>3, KeepsGoesOn
  <2> QED
    BY <2>1, <2>4 DEF Continues, j
<1>7. CASE ReadWindow(s)
  <2> DEFINE size == IF Window < Len(j.lines) THEN Window ELSE Len(j.lines)
             l == SubSeq(j.lines, size + 1, Len(j.lines))
  <2>1. PICK q : Step(s, WindowJob(j, q, l, "uris"))
    BY <1>7 DEF ReadWindow, WindowJob
  <2>2. size \in Nat
    BY <1>a, IngestAssumption
  <2> HIDE DEF j, size
  <2>3. l \in Seq(Line) /\ \A i \in DOMAIN l : l[i] = j.lines[size + i] /\ size + i \in DOMAIN j.lines
    BY <1>a, <2>2, SeqFacts
  <2> DEFINE k == WindowJob(j, q, l, "uris")
  <2> HIDE DEF l
  <2>4. Keeps(j, k, {"pending", "lines", "at"}) /\ k.lines = l /\ k.at = "uris"
    BY <1>a, WindowRecord
  <2> HIDE DEF k
  <2>5. Rest(k) \subseteq Rest(j)
    BY <2>3, <2>4 DEF Rest
  <2>6. GoesOn(j, k)
    BY <2>3, <2>4, <2>5 DEF GoesOn, Keeps, Fields, Load, Reading
  <2> QED
    BY <2>1, <2>6 DEF Continues, j, l, k
<1>8. CASE Reserve(s)
  <2>1. j.at \in Reading /\ \E p, n : Step(s, LoJob(j, n)) \/ Step(s, ReserveJob(j, p, n))
    BY <1>8 DEF Reserve, Reading, LoJob, ReserveJob
  <2>2. PICK p, n : Step(s, LoJob(j, n)) \/ Step(s, ReserveJob(j, p, n))
    BY <2>1
  <2> HIDE DEF j
  <2>3. Keeps(j, LoJob(j, n), {"lo"}) /\ Keeps(j, ReserveJob(j, p, n), {"pool", "lo"})
    BY <1>a, LoRecord, ReserveRecord
  <2>5. ASSUME NEW k, Keeps(j, k, {"lo"}) \/ Keeps(j, k, {"pool", "lo"})
        PROVE  GoesOn(j, k)
    <3>1. Keeps(j, k, Fields \ (Load \cup {"lines"})) /\ k.at = j.at
      BY <2>5 DEF Keeps, Fields, Load
    <3> QED
      BY <1>a, <2>1, <3>1, KeepsGoesOn
  <2>6. GoesOn(j, LoJob(j, n)) /\ GoesOn(j, ReserveJob(j, p, n))
    BY <2>3, <2>5
  <2> QED
    BY <2>2, <2>6 DEF Continues, j
<1>9. CASE InsertNew(s)
  <2>1. PICK keys, ids, k :
            /\ k = [Fresh(j, keys, ids) EXCEPT !.pool = SubSeq(ids, Len(keys) + 1, Len(ids))]
            /\ Step(s, IF k.at = "uris" THEN [k EXCEPT !.at = "literals"] ELSE Onward(DrainKeyed(k)))
    BY <1>9 DEF InsertNew
  <2> DEFINE own == j.own \cup {IdRow(ids[i], keys[i]) : i \in DOMAIN keys}
             cache == [x \in DOMAIN j.cache \cup ToSet(keys) |->
                            IF x \in ToSet(keys) THEN ids[CHOOSE i \in DOMAIN keys : keys[i] = x] ELSE j.cache[x]]
             p == SubSeq(ids, Len(keys) + 1, Len(ids))
  <2>2. k = FreshJob(j, own, cache, p)
    BY <2>1 DEF Fresh, FreshJob
  <2> HIDE DEF own, cache, p, j
  <2>3. Keeps(j, k, {"own", "cache", "pool"}) /\ Rec(k)
    BY <1>a, <2>2, FreshRecord
  <2>4. Keeps(k, DrainKeyed(k), {"batch", "pending"}) /\ Rec(DrainKeyed(k))
    BY <2>3, DrainKeeps DEF Keeps
  <2>5. Keeps(DrainKeyed(k), Onward(DrainKeyed(k)), {"at"}) /\ Onward(DrainKeyed(k)).at \in Reading
    BY <2>4, OnwardKeeps DEF Reading
  <2>6. Keeps(j, Onward(DrainKeyed(k)), Fields \ (Load \cup {"lines"}))
    BY <2>3, <2>4, <2>5 DEF Keeps, Load
  <2> DEFINE m == [k EXCEPT !.at = "literals"]
  <2>7. Keeps(k, m, {"at"}) /\ m.at = "literals"
    BY <2>3, MoveKeeps
  <2> HIDE DEF m
  <2>8. Keeps(j, m, Fields \ (Load \cup {"lines"})) /\ m.at \in Reading
    BY <2>3, <2>7 DEF Keeps, Load, Reading
  <2>9. GoesOn(j, m) /\ GoesOn(j, Onward(DrainKeyed(k)))
    BY <1>a, <2>5, <2>6, <2>8, KeepsGoesOn
  <2> QED
    BY <2>1, <2>9 DEF Continues, j, m
<1>10. CASE Flush(s)
  <2>1. PICK o, b : Step(s, Onward(FlushJob(j, o, b)))
    BY <1>10 DEF Flush, FlushJob
  <2> DEFINE k == FlushJob(j, o, b)
  <2> HIDE DEF j
  <2>2. Keeps(j, k, {"out", "batch"}) /\ Rec(k)
    BY <1>a, FlushRecord
  <2> HIDE DEF k
  <2>3. Keeps(j, Onward(k), Fields \ (Load \cup {"lines"})) /\ Onward(k).at \in Reading
    BY <2>2, OnwardKeeps DEF Keeps, Load, Reading
  <2>4. GoesOn(j, Onward(k))
    BY <1>a, <2>3, KeepsGoesOn
  <2> QED
    BY <2>1, <2>4 DEF Continues, j, k
<1> QED
  BY <1>1, <1>2, <1>3, <1>4, <1>5, <1>6, <1>7, <1>8, <1>9, <1>10 DEF Reads

-----------------------------------------------------------------------------
\* Who holds what.

Lock == {Gate, Graphs("RX"), Graphs("SRX"), Dict("AS"), Dict("RX"), Dict("AX"), Quads("RX"), Quads("AX")}
        \cup {Row(g) : g \in Nat}
OneGraph(j) == \A i \in DOMAIN j.lines : j.lines[i].g = Default
\* A load that is not a rebuild asks for the gate only while it has no record
\* open, and opens its record first; the registry's table it locks behind the
\* gate.  Only a rebuild locks a whole table.
Custody(j, locks) ==
    /\ j.at \in {"idle", "probe"} => locks = {}
    /\ j.at \in Rebuilding => j.path \in Rebuilds
    /\ Dict("AX") \in locks \/ Quads("AX") \in locks => j.path \in Rebuilds
    /\ Gate \in locks /\ j.path \notin Rebuilds => j.loads = 0 /\ j.at # "record"
    /\ Graphs("SRX") \in locks \/ j.at = "create" => Gate \in locks
    /\ Graphs("RX") \in locks \/ (\E g \in Nat : Row(g) \in locks) => j.loads > 0
    /\ j.loads > 0 => j.at \in Reading \cup {"parse"}
    /\ j.loads > 0 \/ j.at \in {"probe", "record"} => OneGraph(j)

IsJob(j) ==
    /\ Rec(j) /\ j.at \in Places /\ j.path \in Path /\ j.g \in Nat /\ j.loads \in Nat
    /\ j.doc \in Seq(Line) /\ j.lines \in Seq(Line)
Jobs ==
    /\ job = [s \in Session |-> job[s]] /\ held = [s \in Session |-> held[s]]
    /\ \A s \in Session : IsJob(job[s]) /\ held[s] \subseteq Lock
    /\ \A g \in DOMAIN src : src[g].loads \in Nat
LocksAgree == \A s, t \in Session : s # t => \A x \in held[s], y \in held[t] : ~Conflict(x, y)
Locking == Jobs /\ (\A s \in Session : Custody(job[s], held[s])) /\ LocksAgree

LEMMA ConflictIsMutual ==
    ASSUME NEW x, NEW y, Conflict(x, y)
    PROVE  Conflict(y, x)
BY DEF Conflict

\* What is granted conflicts with nothing another session holds.
LEMMA GrantAgrees ==
    ASSUME Jobs, LocksAgree, NEW s \in Session, Granted(s)
    PROVE  LocksAgree'
<1> SUFFICES ASSUME NEW t \in Session, NEW u \in Session, t # u, NEW x \in held'[t], NEW y \in held'[u]
             PROVE  ~Conflict(x, y)
  BY DEF LocksAgree
<1>1. held' = [v \in Session |-> IF v = s THEN held[s] \cup Wants(s) ELSE held[v]]
  BY DEF Granted, Jobs
<1>2. \A v \in Session \ {s} : \A p \in Wants(s), q \in held[v] : ~Conflict(p, q) /\ ~Conflict(q, p)
  BY ConflictIsMutual DEF Granted, Waits
<1> QED
  BY <1>1, <1>2 DEF LocksAgree

LEMMA ReleaseAgrees ==
    ASSUME Jobs, LocksAgree, NEW s \in Session, held' = [held EXCEPT ![s] = {}]
    PROVE  LocksAgree'
BY DEF Jobs, LocksAgree

\* A step of one session: what is to be shown of its job and its locks.
LEMMA StepLocks ==
    ASSUME Locking, NEW s \in Session, NEW k, NEW locks, Step(s, k), held' = [held EXCEPT ![s] = locks],
           IsJob(k), locks \subseteq Lock, Custody(k, locks), LocksAgree',
           \A g \in DOMAIN src' : src'[g].loads \in Nat
    PROVE  Locking'
<1>1. /\ job' = [t \in Session |-> IF t = s THEN k ELSE job[t]]
      /\ held' = [t \in Session |-> IF t = s THEN locks ELSE held[t]]
  BY DEF Step, Locking, Jobs
<1>2. Jobs'
  <2>1. job' = [t \in Session |-> job'[t]] /\ held' = [t \in Session |-> held'[t]]
    BY <1>1
  <2>2. \A t \in Session : IsJob(job'[t]) /\ held'[t] \subseteq Lock
    BY <1>1 DEF Locking, Jobs
  <2> QED
    BY <2>1, <2>2 DEF Jobs, IsJob
<1>3. \A t \in Session : Custody(job'[t], held'[t])
  BY <1>1 DEF Locking
<1> QED
  BY <1>2, <1>3 DEF Locking, Custody

LEMMA SameLocks ==
    ASSUME Locking, NEW s \in Session, held' = held
    PROVE  held' = [held EXCEPT ![s] = held[s]] /\ LocksAgree'
BY DEF Locking, Jobs, LocksAgree

LEMMA LocksDiffer ==
    ASSUME NEW l \in {Dict("RX"), Quads("RX")}
    PROVE  /\ l \in Lock /\ l # Gate /\ l # Graphs("SRX") /\ l # Graphs("RX") /\ l # Dict("AX") /\ l # Quads("AX")
           /\ \A g \in Nat : l # Row(g)
BY DEF Lock, Gate, Graphs, Dict, Quads, Row

LEMMA ReadingCustody ==
    ASSUME NEW j, NEW locks, Custody(j, locks), j.at \in Reading \cup {"parse"},
           NEW k, GoesOn(j, k), NEW W, W \subseteq {Dict("RX"), Quads("RX")}
    PROVE  Custody(k, locks \cup W)
<1>1. k.path = j.path /\ k.loads = j.loads /\ k.at \in Reading
  BY DEF GoesOn, Load
<1>2. /\ Dict("AX") \in locks \cup W => Dict("AX") \in locks
      /\ Quads("AX") \in locks \cup W => Quads("AX") \in locks
      /\ Gate \in locks \cup W <=> Gate \in locks
      /\ Graphs("SRX") \in locks \cup W => Graphs("SRX") \in locks
      /\ Graphs("RX") \in locks \cup W => Graphs("RX") \in locks
      /\ \A g \in Nat : Row(g) \in locks \cup W => Row(g) \in locks
  BY LocksDiffer
<1>3. OneGraph(j) => OneGraph(k)
  <2> SUFFICES ASSUME OneGraph(j), NEW i \in DOMAIN k.lines
               PROVE  k.lines[i].g = Default
    BY DEF OneGraph
  <2>1. k.lines[i] \in Rest(j)
    BY DEF GoesOn, Rest
  <2> QED
    BY <2>1 DEF Rest, OneGraph
<1>4. /\ k.at \notin {"idle", "probe"} /\ k.at \notin Rebuilding /\ k.at # "record" /\ k.at # "create"
      /\ j.at \notin {"idle", "probe"} /\ j.at \notin Rebuilding /\ j.at # "record" /\ j.at # "create"
  BY <1>1 DEF Reading, Rebuilding
<1> QED
  BY <1>1, <1>2, <1>3, <1>4 DEF Custody

\* What the reading steps leave alone, and what they lock.
LEMMA ReadsAsk ==
    ASSUME Locking, NEW s \in Session, Reads(s)
    PROVE  /\ job[s].at \in Reading \cup {"parse"}
           /\ held' = held \/ Granted(s)
           /\ Wants(s) \subseteq {Dict("RX"), Quads("RX")}
           /\ UNCHANGED <<tables, left, raced>>
<1>1. /\ job[s].at \in Reading \cup {"parse"}
      /\ held' = held \/ Granted(s)
      /\ UNCHANGED <<tables, left, raced>>
  <2> USE DEF At, Reading, Readable
  <2>1. CASE BaselineLine(s)
    BY <2>1 DEF BaselineLine
  <2>2. CASE CombinedLine(s)
    BY <2>2 DEF CombinedLine
  <2>3. CASE EndOfFile(s)
    BY <2>3 DEF EndOfFile
  <2>4. CASE FlushDefer(s)
    BY <2>4 DEF FlushDefer
  <2>5. CASE Parse(s)
    BY <2>5 DEF Parse
  <2>6. CASE PutChunk(s)
    BY <2>6 DEF PutChunk
  <2>7. CASE ReadWindow(s)
    BY <2>7 DEF ReadWindow
  <2>8. CASE Reserve(s)
    BY <2>8 DEF Reserve
  <2>9. CASE InsertNew(s)
    BY <2>9 DEF InsertNew
  <2>10. CASE Flush(s)
    BY <2>10 DEF Flush
  <2> QED
    BY <2>1, <2>2, <2>3, <2>4, <2>5, <2>6, <2>7, <2>8, <2>9, <2>10 DEF Reads
<1>2. Wants(s) \subseteq {Dict("RX"), Quads("RX")}
  <2> DEFINE at == job[s].at
  <2>1. at \in {"lines", "terms", "chunk", "window", "uris", "literals", "flush", "finish", "parse"}
    BY <1>1 DEF Reading
  <2>2. CASE at \in {"window", "finish", "parse"}
    BY <2>2 DEF Wants
  <2>3. CASE at = "lines"
    BY <2>3 DEF Wants
  <2>4. CASE at \in {"terms", "chunk", "uris", "literals"}
    BY <2>4 DEF Wants
  <2>5. CASE at = "flush"
    BY <2>5 DEF Wants
  <2> QED
    BY <2>1, <2>2, <2>3, <2>4, <2>5
<1> QED
  BY <1>1, <1>2

LEMMA ReadsLock ==
    ASSUME Locking, NEW s \in Session, Reads(s)
    PROVE  Locking'
<1>1. Rec(job[s]) /\ job[s].lines \in Seq(Line) /\ IsJob(job[s]) /\ held[s] \subseteq Lock /\ Custody(job[s], held[s])
  BY DEF Locking, Jobs, IsJob
<1>2. PICK k : Step(s, k) /\ GoesOn(job[s], k)
  BY <1>1, ReadsContinue DEF Continues
<1>3. /\ job[s].at \in Reading \cup {"parse"}
      /\ held' = held \/ Granted(s)
      /\ Wants(s) \subseteq {Dict("RX"), Quads("RX")} /\ src' = src
  BY ReadsAsk DEF tables
<1>4. IsJob(k)
  BY <1>1, <1>2 DEF IsJob, GoesOn, Load, Places
<1>5. \A g \in DOMAIN src' : src'[g].loads \in Nat
  BY <1>3 DEF Locking, Jobs
<1>6. CASE held' = held
  <2>1. Custody(k, held[s])
    <3>1. Custody(k, held[s] \cup {})
      BY <1>1, <1>2, <1>3, ReadingCustody
    <3> QED
      BY <3>1
  <2> QED
    BY <1>1, <1>2, <1>4, <1>5, <1>6, <2>1, SameLocks, StepLocks
<1>7. CASE Granted(s)
  <2>1. Custody(k, held[s] \cup Wants(s))
    BY <1>1, <1>2, <1>3, ReadingCustody
  <2>2. LocksAgree' /\ held' = [held EXCEPT ![s] = held[s] \cup Wants(s)]
    BY <1>7, GrantAgrees DEF Locking, Granted
  <2>3. held[s] \cup Wants(s) \subseteq Lock
    BY <1>1, <1>3, LocksDiffer
  <2> QED
    BY <1>2, <1>4, <1>5, <2>1, <2>2, <2>3, StepLocks
<1> QED
  BY <1>3, <1>6, <1>7

LEMMA LockNames ==
    /\ Gate \in Lock /\ Graphs("RX") \in Lock /\ Graphs("SRX") \in Lock
    /\ Dict("AS") \in Lock /\ Dict("AX") \in Lock /\ Quads("AX") \in Lock
    /\ \A g \in Nat : Row(g) \in Lock /\ Row(g) # Gate /\ Row(g) # Graphs("SRX") /\ Row(g) # Dict("AX") /\ Row(g) # Quads("AX")
                      /\ Row(g) # Dict("AS") /\ Row(g) # Graphs("RX")
    /\ Gate # Graphs("RX") /\ Gate # Graphs("SRX") /\ Gate # Dict("AS") /\ Gate # Dict("AX") /\ Gate # Quads("AX")
    /\ Graphs("RX") # Graphs("SRX") /\ Graphs("RX") # Dict("AS") /\ Graphs("RX") # Dict("AX") /\ Graphs("RX") # Quads("AX")
    /\ Graphs("SRX") # Dict("AS") /\ Graphs("SRX") # Dict("AX") /\ Graphs("SRX") # Quads("AX")
    /\ Dict("AS") # Dict("AX") /\ Dict("AS") # Quads("AX") /\ Dict("AX") # Quads("AX")
BY DEF Lock, Gate, Graphs, Dict, Quads, Row

LEMMA ReleaseLocks ==
    ASSUME Locking, NEW s \in Session, Release(s), \A g \in DOMAIN src' : src'[g].loads \in Nat
    PROVE  Locking'
<1>1. IsJob(Idle) /\ Custody(Idle, {})
  <2>1. /\ Idle.at = "idle" /\ Idle.g = 0 /\ Idle.loads = 0 /\ Idle.doc = <<>> /\ Idle.lines = <<>>
        /\ Idle.path = "turtle"
    BY DEF Idle
  <2> HIDE DEF Idle
  <2> QED
    BY <2>1, IdleRec DEF IsJob, Custody, Places, Rebuilding, OneGraph, Reading, Path
<1>2. Step(s, Idle) /\ held' = [held EXCEPT ![s] = {}]
  BY DEF Release, Step
<1>3. LocksAgree'
  BY <1>2, ReleaseAgrees DEF Locking
<1> QED
  BY <1>1, <1>2, <1>3, StepLocks

BeginJob(c) ==
    [Idle EXCEPT !.at = Enter(c), !.path = IF c.path = "staged" THEN "turtle" ELSE c.path,
                 !.mode = c.mode, !.doc = c.doc, !.g = c.g, !.strict = c.strict, !.lines = c.doc]
LEMMA BeginRecord ==
    ASSUME NEW c
    PROVE  /\ Keeps(Idle, BeginJob(c), Load \cup {"at", "lines"})
           /\ Rec(BeginJob(c))
           /\ BeginJob(c).at = Enter(c) /\ BeginJob(c).path = IF c.path = "staged" THEN "turtle" ELSE c.path
           /\ BeginJob(c).mode = c.mode /\ BeginJob(c).doc = c.doc /\ BeginJob(c).g = c.g
           /\ BeginJob(c).strict = c.strict /\ BeginJob(c).lines = c.doc /\ BeginJob(c).loads = 0
<1>1. Rec(BeginJob(c))
  BY ZenonT(60) DEF Rec, Fields, Idle, BeginJob
<1>2. Idle = [f \in Fields |-> Idle[f]] /\ Idle.loads = 0
  BY IdleRec DEF Rec, Idle
<1>3. /\ \A f \in Fields \ (Load \cup {"at", "lines"}) : BeginJob(c)[f] = Idle[f]
      /\ BeginJob(c).at = Enter(c) /\ BeginJob(c).path = IF c.path = "staged" THEN "turtle" ELSE c.path
      /\ BeginJob(c).mode = c.mode /\ BeginJob(c).doc = c.doc /\ BeginJob(c).g = c.g
      /\ BeginJob(c).strict = c.strict /\ BeginJob(c).lines = c.doc /\ BeginJob(c).loads = 0
  BY <1>2 DEF Fields, Load, BeginJob
<1> QED
  BY <1>1, <1>3 DEF Keeps

LEMMA BeginLocks ==
    ASSUME Locking, NEW s \in Session, Begin(s)
    PROVE  Locking'
<1>1. PICK c \in Calls : Start(s, c) /\ Step(s, BeginJob(c)) /\ held' = held /\ src' = src
  BY DEF Begin, BeginJob, tables
<1>2. /\ c.path \in Path /\ c.doc \in Seq(Line) /\ c.g \in Nat
      /\ c.path = "quads" \/ OneGraph([lines |-> c.doc])
  BY IngestAssumption DEF OneGraph
<1> DEFINE k == BeginJob(c)
<1>3. /\ Rec(k) /\ k.at = Enter(c) /\ k.path = IF c.path = "staged" THEN "turtle" ELSE c.path
      /\ k.doc = c.doc /\ k.g = c.g /\ k.lines = c.doc /\ k.loads = 0
  BY BeginRecord
<1> HIDE DEF k
<1>4. /\ k.at \in {"probe", "record", "lines", "parse"}
      /\ k.at = "probe" => k.path \in Rebuilds
      /\ k.at \in {"probe", "record"} => OneGraph(k)
  <2>1. CASE c.path \in Rebuilds
    BY <1>2, <1>3, <2>1 DEF Enter, OneGraph, Rebuilds
  <2>2. CASE c.path = "quads"
    BY <1>2, <1>3, <2>2 DEF Enter, OneGraph, Rebuilds, OnlyDefault
  <2>3. CASE c.path \notin Rebuilds \cup {"quads"}
    BY <1>2, <1>3, <2>3 DEF Enter, OneGraph, Rebuilds
  <2> QED
    BY <2>1, <2>2, <2>3
<1>5. held[s] = {}
  BY <1>1 DEF Locking, Custody, Start, At
<1>6. IsJob(k)
  BY <1>2, <1>3, <1>4 DEF IsJob, Places, Reading, Rebuilding, Path
<1>7. Custody(k, held[s])
  BY <1>3, <1>4, <1>5 DEF Custody, Rebuilding
<1>8. held' = [held EXCEPT ![s] = held[s]] /\ LocksAgree'
  BY <1>1, SameLocks
<1>9. \A g \in DOMAIN src' : src'[g].loads \in Nat
  BY <1>1 DEF Locking, Jobs
<1> QED
  BY <1>1, <1>5, <1>6, <1>7, <1>8, <1>9, StepLocks DEF k

LEMMA CommitLocks ==
    ASSUME Locking, NEW s \in Session, Commit(s)
    PROVE  Locking'
<1>1. \A g \in DOMAIN src' : src'[g].loads \in Nat
  <2>1. \A g \in DOMAIN src : src[g].loads \in Nat
    BY DEF Locking, Jobs
  <2>2. job[s].loads \in Nat
    BY DEF Locking, Jobs, IsJob
  <2>3. src' = src \/ src' = Learn(src, job[s].g, [loads |-> job[s].loads, doc |-> job[s].doc])
    BY DEF Commit
  <2> QED
    BY <2>1, <2>2, <2>3 DEF Learn
<1>2. Release(s)
  BY DEF Commit
<1> QED
  BY <1>1, <1>2, ReleaseLocks

ProbeJob(j, q) == [j EXCEPT !.pending = q, !.lines = <<>>, !.at = IF Len(q) >= DeferMin THEN "gate" ELSE "uris"]
LEMMA ProbeRecord ==
    ASSUME NEW j, Rec(j), NEW q
    PROVE  /\ Keeps(j, ProbeJob(j, q), {"pending", "lines", "at"})
           /\ Rec(ProbeJob(j, q))
           /\ ProbeJob(j, q).pending = q /\ ProbeJob(j, q).lines = <<>> /\ ProbeJob(j, q).at \in {"gate", "uris"}
<1> DEFINE at == IF Len(q) >= DeferMin THEN "gate" ELSE "uris"
<1>1. ProbeJob(j, q) = WindowJob(j, q, <<>>, at) /\ at \in {"gate", "uris"}
  BY DEF ProbeJob, WindowJob
<1> HIDE DEF at
<1> QED
  BY <1>1, WindowRecord

LEMMA ProbeLocks ==
    ASSUME Locking, NEW s \in Session, Probe(s)
    PROVE  Locking'
<1> DEFINE j == job[s]
<1>1. /\ IsJob(j) /\ Rec(j) /\ j.at = "probe" /\ held[s] = {} /\ j.path \in Rebuilds
      /\ OneGraph(j) /\ j.loads = 0
  <2>1. IsJob(j) /\ Custody(j, held[s]) /\ j.at = "probe"
    BY DEF Locking, Jobs, Probe, At
  <2> HIDE DEF j
  <2>2. Rec(j) /\ j.loads \in Nat
    BY <2>1 DEF IsJob
  <2> QED
    BY <2>1, <2>2 DEF Custody, Reading, Rebuilding
<1>2. Wants(s) = {Dict("AS")}
  BY <1>1 DEF Wants
<1>3. /\ LocksAgree' /\ held' = [held EXCEPT ![s] = {Dict("AS")}]
      /\ src' = src
  BY <1>1, <1>2, GrantAgrees DEF Locking, Granted, Probe, tables
<1>4. \E k : /\ Step(s, k) /\ Rec(k) /\ k.g = j.g /\ k.doc = j.doc /\ k.loads = 0 /\ k.lines \in {j.lines, <<>>}
             /\ \/ k.at = "record" /\ k.path = "turtle"
                \/ k.at \in {"gate", "uris"} /\ k.path = j.path
  <2>1. CASE Step(s, [j EXCEPT !.at = "record", !.path = "turtle"])
    <3>1. Step(s, PathJob(j, "turtle", "record"))
      BY <2>1 DEF PathJob
    <3> HIDE DEF j
    <3>2. Keeps(j, PathJob(j, "turtle", "record"), {"at", "path"}) /\ PathJob(j, "turtle", "record").at = "record"
          /\ PathJob(j, "turtle", "record").path = "turtle" /\ Rec(PathJob(j, "turtle", "record"))
      BY <1>1, PathRecord
    <3> QED
      BY <1>1, <3>1, <3>2 DEF Keeps, Fields
  <2>2. CASE Go(s, "gate")
    <3> DEFINE k == [j EXCEPT !.at = "gate"]
    <3>1. Step(s, k)
      BY <2>2 DEF Go
    <3> HIDE DEF j
    <3>2. Keeps(j, k, {"at"}) /\ k.at = "gate"
      BY <1>1, MoveKeeps
    <3> HIDE DEF k
    <3> QED
      BY <1>1, <3>1, <3>2 DEF Keeps, Fields
  <2>3. CASE \E q : Step(s, ProbeJob(j, q))
    <3>1. PICK q : Step(s, ProbeJob(j, q))
      BY <2>3
    <3> HIDE DEF j
    <3>2. Keeps(j, ProbeJob(j, q), {"pending", "lines", "at"}) /\ Rec(ProbeJob(j, q))
          /\ ProbeJob(j, q).lines = <<>> /\ ProbeJob(j, q).at \in {"gate", "uris"}
      BY <1>1, ProbeRecord
    <3> QED
      BY <1>1, <3>1, <3>2 DEF Keeps, Fields
  <2> QED
    BY <2>1, <2>2, <2>3 DEF Probe, ProbeJob
<1>5. PICK k : /\ Step(s, k) /\ Rec(k) /\ k.g = j.g /\ k.doc = j.doc /\ k.loads = 0 /\ k.lines \in {j.lines, <<>>}
               /\ \/ k.at = "record" /\ k.path = "turtle"
                  \/ k.at \in {"gate", "uris"} /\ k.path = j.path
  BY <1>4
<1> HIDE DEF j
<1>6. IsJob(k)
  <2>1. /\ j.lines \in Seq(Line) /\ <<>> \in Seq(Line) /\ j.g \in Nat /\ j.doc \in Seq(Line)
        /\ j.path \in Path /\ "turtle" \in Path
    BY <1>1 DEF IsJob, Path
  <2>2. k.at \in {"record", "gate", "uris"} /\ k.lines \in Seq(Line)
    BY <1>5, <2>1
  <2>3. k.at \in Places
    BY <2>2 DEF Places, Reading, Rebuilding
  <2> QED
    BY <1>5, <2>1, <2>2, <2>3 DEF IsJob
<1>7. Custody(k, {Dict("AS")})
  BY <1>1, <1>5, LockNames DEF Custody, Rebuilding, OneGraph
<1>8. \A g \in DOMAIN src' : src'[g].loads \in Nat
  BY <1>3 DEF Locking, Jobs
<1> QED
  BY <1>3, <1>5, <1>6, <1>7, <1>8, LockNames, StepLocks

\* A step to another place, that locks one thing.
LEMMA MoveLocks ==
    ASSUME Locking, NEW s \in Session, NEW k, Step(s, k), NEW X, Keeps(job[s], k, X), X \subseteq {"at", "gids", "named"},
           k.at \in Places, Granted(s), Wants(s) \subseteq Lock, Custody(k, held[s] \cup Wants(s)), src' = src
    PROVE  Locking'
<1>1. IsJob(job[s])
  BY DEF Locking, Jobs
<1>2. IsJob(k)
  BY <1>1 DEF IsJob, Keeps, Fields
<1>3. LocksAgree' /\ held' = [held EXCEPT ![s] = held[s] \cup Wants(s)]
  BY GrantAgrees DEF Locking, Granted
<1>4. held[s] \cup Wants(s) \subseteq Lock /\ \A g \in DOMAIN src' : src'[g].loads \in Nat
  BY DEF Locking, Jobs
<1> QED
  BY <1>2, <1>3, <1>4, StepLocks

LEMMA DropLocks ==
    ASSUME Locking, NEW s \in Session, DropIndexes(s)
    PROVE  Locking'
<1> DEFINE j == job[s]
<1>1. IsJob(j) /\ Rec(j) /\ Custody(j, held[s]) /\ j.at \in {"gate", "drop", "lock"}
  BY DEF Locking, Jobs, IsJob, DropIndexes, At
<1>2. j.path \in Rebuilds /\ j.loads = 0
  BY <1>1 DEF Custody, Rebuilding, Reading, IsJob
<1>3. PICK at : /\ Step(s, [j EXCEPT !.at = at]) /\ at \in {"drop", "lock", "uris", "window"}
  BY DEF DropIndexes, Go
<1>4. Wants(s) \subseteq {Gate, Quads("AX"), Dict("AX")}
  BY <1>1 DEF Wants, RebuildLock
<1> DEFINE k == [j EXCEPT !.at = at]
<1> HIDE DEF j
<1>5. Keeps(j, k, {"at"}) /\ k.at = at
  BY <1>1, MoveKeeps
<1> HIDE DEF k
<1>6. k.path = j.path /\ k.loads = 0
  BY <1>2, <1>5 DEF Keeps, Fields
<1>7. Custody(k, held[s] \cup Wants(s))
  BY <1>1, <1>2, <1>3, <1>4, <1>5, <1>6, LockNames DEF Custody, Rebuilding
<1>8. k.at \in Places
  BY <1>3, <1>5 DEF Places, Reading, Rebuilding
<1>9. Granted(s) /\ src' = src /\ Wants(s) \subseteq Lock
  BY <1>4, LockNames DEF DropIndexes, tables
<1> QED
  BY <1>3, <1>5, <1>7, <1>8, <1>9, MoveLocks DEF k, j

LEMMA RecordOpensLocks ==
    ASSUME Locking, NEW s \in Session, Record(s)
    PROVE  Locking'
<1> DEFINE j == job[s]
           n == Source(j.g).loads + 1
           at == IF j.path = "turtle" /\ j.mode = "batched" THEN "parse" ELSE "lines"
           k == RecordJob(j, n, at)
<1>1. IsJob(j) /\ Rec(j) /\ Custody(j, held[s]) /\ j.at = "record" /\ held[s] \subseteq Lock
  BY DEF Locking, Jobs, IsJob, Record, At
<1>2. Step(s, k) /\ Granted(s) /\ src' = src
  BY DEF Record, RecordJob, tables
<1>3. n \in Nat /\ n > 0
  BY DEF Locking, Jobs, Source
<1>4. Wants(s) = {Graphs("RX"), Row(j.g)} /\ j.g \in Nat
  BY <1>1 DEF Wants, RecordLocks, IsJob
<1>5. at \in {"parse", "lines"}
  OBVIOUS
<1> HIDE DEF j, n, at
<1>6. Keeps(j, k, {"loads", "at"}) /\ Rec(k) /\ k.loads = n /\ k.at = at
  BY <1>1, RecordRecord
<1> HIDE DEF k
<1>7. k.path = j.path /\ k.g = j.g /\ k.doc = j.doc /\ k.lines = j.lines
  BY <1>6 DEF Keeps, Fields
<1>8. IsJob(k)
  BY <1>1, <1>3, <1>5, <1>6, <1>7 DEF IsJob, Places, Reading
<1>9. Custody(k, held[s] \cup Wants(s))
  BY <1>1, <1>3, <1>4, <1>5, <1>6, <1>7, LockNames DEF Custody, Rebuilding, Reading, OneGraph
<1>10. LocksAgree' /\ held' = [held EXCEPT ![s] = held[s] \cup Wants(s)]
  BY <1>2, GrantAgrees DEF Locking, Granted
<1>11. held[s] \cup Wants(s) \subseteq Lock /\ \A g \in DOMAIN src' : src'[g].loads \in Nat
  BY <1>1, <1>2, <1>4, LockNames DEF Locking, Jobs
<1> QED
  BY <1>2, <1>8, <1>9, <1>10, <1>11, StepLocks

LEMMA UnplacedNotOne ==
    ASSUME NEW j, j.lines \in Seq(Line), Unplaced(j)
    PROVE  ~OneGraph(j)
<1>1. 1 \in DOMAIN j.lines /\ Head(j.lines) = j.lines[1] /\ Head(j.lines).g # Default
  BY DEF Unplaced
<1> QED
  BY <1>1 DEF OneGraph

LEMMA LookUpLocks ==
    ASSUME Locking, NEW s \in Session, LookUp(s)
    PROVE  Locking'
<1> DEFINE j == job[s]
<1>1. IsJob(j) /\ Rec(j) /\ Custody(j, held[s]) /\ j.at = "lines" /\ held[s] \subseteq Lock
  BY DEF Locking, Jobs, IsJob, LookUp, At
<1>2. Unplaced(j) /\ held' = held /\ src' = src
  BY DEF LookUp, tables
<1>3. j.loads = 0
  BY <1>1, <1>2, UnplacedNotOne DEF IsJob, Custody
<1>4. \E k : Step(s, k) /\ Keeps(j, k, {"at", "gids"}) /\ k.at \in {"lines", "bind"}
  <2>1. CASE \E gids : Step(s, PlaceJob(j, gids))
    <3>1. PICK gids : Step(s, PlaceJob(j, gids))
      BY <2>1
    <3> HIDE DEF j
    <3>2. Keeps(j, PlaceJob(j, gids), {"gids"})
      BY <1>1, PlaceRecord
    <3> QED
      BY <1>1, <3>1, <3>2 DEF Keeps, Fields
  <2>2. CASE Go(s, "bind")
    <3> DEFINE k == [j EXCEPT !.at = "bind"]
    <3>1. Step(s, k)
      BY <2>2 DEF Go
    <3> HIDE DEF j
    <3>2. Keeps(j, k, {"at"}) /\ k.at = "bind"
      BY <1>1, MoveKeeps
    <3> HIDE DEF k
    <3> QED
      BY <3>1, <3>2 DEF Keeps
  <2> QED
    BY <2>1, <2>2 DEF LookUp, PlaceJob
<1>5. PICK k : Step(s, k) /\ Keeps(j, k, {"at", "gids"}) /\ k.at \in {"lines", "bind"}
  BY <1>4
<1> HIDE DEF j
<1>6. /\ Rec(k) /\ k.path = j.path /\ k.g = j.g /\ k.doc = j.doc /\ k.lines = j.lines /\ k.loads = 0
  BY <1>3, <1>5 DEF Keeps, Fields
<1>7. IsJob(k)
  BY <1>1, <1>5, <1>6 DEF IsJob, Places, Reading, Naming
<1>8. Custody(k, held[s])
  BY <1>1, <1>3, <1>5, <1>6 DEF Custody, Rebuilding, Reading
<1>9. /\ held' = [held EXCEPT ![s] = held[s]] /\ LocksAgree'
      /\ \A g \in DOMAIN src' : src'[g].loads \in Nat
  BY <1>2, SameLocks DEF Locking, Jobs
<1> QED
  BY <1>1, <1>5, <1>7, <1>8, <1>9, StepLocks

LEMMA BindLocks ==
    ASSUME Locking, NEW s \in Session, Bind(s)
    PROVE  Locking'
<1> DEFINE j == job[s]
<1>1. IsJob(j) /\ Rec(j) /\ Custody(j, held[s]) /\ j.at = "bind"
  BY DEF Locking, Jobs, IsJob, Bind, At
<1>2. Wants(s) = {Gate} /\ j.loads = 0
  BY <1>1 DEF Wants, Custody, Reading, IsJob
<1>3. \E k : Step(s, k) /\ Keeps(j, k, {"at", "gids"}) /\ k.at \in {"lines", "create"}
  <2>1. CASE \E gids : Step(s, FoundJob(j, gids, "lines"))
    <3>1. PICK gids : Step(s, FoundJob(j, gids, "lines"))
      BY <2>1
    <3> HIDE DEF j
    <3>2. Keeps(j, FoundJob(j, gids, "lines"), {"gids", "at"}) /\ FoundJob(j, gids, "lines").at = "lines"
      BY <1>1, FoundRecord
    <3> QED
      BY <3>1, <3>2 DEF Keeps
  <2>2. CASE Go(s, "create")
    <3> DEFINE k == [j EXCEPT !.at = "create"]
    <3>1. Step(s, k)
      BY <2>2 DEF Go
    <3> HIDE DEF j
    <3>2. Keeps(j, k, {"at"}) /\ k.at = "create"
      BY <1>1, MoveKeeps
    <3> HIDE DEF k
    <3> QED
      BY <3>1, <3>2 DEF Keeps
  <2> QED
    BY <2>1, <2>2 DEF Bind, FoundJob
<1>4. PICK k : Step(s, k) /\ Keeps(j, k, {"at", "gids"}) /\ k.at \in {"lines", "create"}
  BY <1>3
<1> HIDE DEF j
<1>5. k.path = j.path /\ k.loads = 0
  BY <1>2, <1>4 DEF Keeps, Fields
<1>6. Custody(k, held[s] \cup Wants(s))
  BY <1>1, <1>2, <1>4, <1>5, LockNames DEF Custody, Rebuilding, Reading
<1>7. k.at \in Places /\ Granted(s) /\ src' = src /\ Wants(s) \subseteq Lock
  BY <1>2, <1>4, LockNames DEF Places, Reading, Naming, Bind, tables
<1> QED
  BY <1>4, <1>6, <1>7, MoveLocks DEF j

LEMMA CreateLocks ==
    ASSUME Locking, NEW s \in Session, Create(s)
    PROVE  Locking'
<1> DEFINE j == job[s]
           n == Head(j.lines).g
           k == NamedJob(j, Learn(j.gids, n, lastGraph'), Learn(j.named, n, lastGraph'), "lines")
<1>1. IsJob(j) /\ Rec(j) /\ Custody(j, held[s]) /\ j.at = "create"
  BY DEF Locking, Jobs, IsJob, Create, At
<1>2. Wants(s) = {Graphs("SRX")} /\ j.loads = 0 /\ Gate \in held[s]
  BY <1>1 DEF Wants, Custody, Reading, IsJob
<1>3. Step(s, k) /\ Granted(s) /\ src' = src
  BY DEF Create, NamedJob, tables
<1> HIDE DEF j, n
<1>4. Keeps(j, k, {"gids", "named", "at"}) /\ k.at = "lines"
  BY <1>1, NamedRecord
<1> HIDE DEF k
<1>5. k.path = j.path /\ k.loads = 0
  BY <1>2, <1>4 DEF Keeps, Fields
<1>6. Custody(k, held[s] \cup Wants(s))
  BY <1>1, <1>2, <1>4, <1>5, LockNames DEF Custody, Rebuilding, Reading
<1>7. k.at \in Places /\ Wants(s) \subseteq Lock
  BY <1>2, <1>4, LockNames DEF Places, Reading
<1> QED
  BY <1>3, <1>4, <1>6, <1>7, MoveLocks DEF j

LEMMA InitLocks == Init => Locking
<1> SUFFICES ASSUME Init PROVE Locking
  OBVIOUS
<1>1. /\ job = [s \in Session |-> Idle] /\ held = [s \in Session |-> {}] /\ DOMAIN src = {}
  BY DEF Init, Empty
<1>2. IsJob(Idle) /\ Custody(Idle, {})
  <2>1. /\ Idle.at = "idle" /\ Idle.g = 0 /\ Idle.loads = 0 /\ Idle.doc = <<>> /\ Idle.lines = <<>>
        /\ Idle.path = "turtle"
    BY DEF Idle
  <2> HIDE DEF Idle
  <2> QED
    BY <2>1, IdleRec DEF IsJob, Custody, Places, Rebuilding, OneGraph, Reading, Path
<1> HIDE DEF Idle
<1> QED
  BY <1>1, <1>2 DEF Locking, Jobs, LocksAgree

\* A staged load writes no job and no lock, and its entry of the log records nothing.
LEMMA StagedLeaves ==
    ASSUME NEW s \in Session, LoadStaged(s)
    PROVE  /\ src' = src /\ job' = job /\ held' = held
           /\ \E c \in Calls : log' = Append(log, [doc |-> c.doc, g |-> c.g, by |-> "staged", recorded |-> FALSE])
<1>1. PICK c \in Calls :
          /\ log' = Append(log, [doc |-> c.doc, g |-> c.g, by |-> "staged", recorded |-> FALSE])
          /\ UNCHANGED <<reg, src, lastGraph, job, held>>
  BY ZenonT(60) DEF LoadStaged
<1> QED
  BY <1>1

LEMMA NextLocks == Locking /\ [Next]_vars => Locking'
<1> SUFFICES ASSUME Locking, [Next]_vars PROVE Locking'
  OBVIOUS
<1>1. CASE UNCHANGED vars
  <2>1. job' = job /\ held' = held /\ src' = src
    BY <1>1 DEF vars
  <2>2. Jobs'
    BY <2>1 DEF Locking, Jobs, IsJob
  <2>3. (\A s \in Session : Custody(job[s], held[s]))'
    BY <2>1 DEF Locking
  <2>4. LocksAgree'
    BY <2>1 DEF Locking, LocksAgree
  <2> QED
    BY <2>2, <2>3, <2>4 DEF Locking
<1>2. ASSUME NEW s \in Session, LoadStaged(s)
      PROVE  Locking'
  <2>1. job' = job /\ held' = held /\ src' = src
    BY <1>2, StagedLeaves
  <2>2. Jobs'
    BY <2>1 DEF Locking, Jobs, IsJob
  <2>3. (\A t \in Session : Custody(job[t], held[t]))'
    BY <2>1 DEF Locking
  <2>4. LocksAgree'
    BY <2>1 DEF Locking, LocksAgree
  <2> QED
    BY <2>2, <2>3, <2>4 DEF Locking
<1>3. ASSUME NEW s \in Session, Refuse(s) \/ Victim(s) \/ Abort(s)
      PROVE  Locking'
  <2>1. Release(s) /\ src' = src
    BY <1>3 DEF Refuse, Victim, Abort, tables
  <2>2. \A g \in DOMAIN src' : src'[g].loads \in Nat
    BY <2>1 DEF Locking, Jobs
  <2> QED
    BY <2>1, <2>2, ReleaseLocks
<1>4. ASSUME NEW s \in Session, Work(s)
      PROVE  Locking'
  BY <1>3, <1>4, ReadsLock, ProbeLocks, DropLocks, RecordOpensLocks, LookUpLocks, BindLocks, CreateLocks,
     CommitLocks DEF Work, Reads
<1> QED
  BY <1>1, <1>2, <1>3, <1>4, BeginLocks DEF Next

\* The locks of the loads are in the custody of what their jobs are at, always.
LEMMA AlwaysLocking == Spec => []Locking
BY InitLocks, NextLocks, PTL DEF Spec

-----------------------------------------------------------------------------
\* Sessions wait for each other only where an index rebuild takes part.

\* Who waits for whom, when no rebuild takes part: for the gate and the registry
\* behind it one waits for its holder, for a record for a load that has it open.
LEMMA WaitsFor ==
    ASSUME Locking, NEW s \in Session, NEW t \in Session, s # t, Waits(s, t),
           job[s].path \notin Rebuilds, job[t].path \notin Rebuilds
    PROVE  /\ job[s].at \in {"record", "bind", "create"}
           /\ Gate \in held[t] \/ job[t].loads > 0
           /\ job[s].at = "create" => Gate \notin held[t]
<1> DEFINE j == job[s]
<1>1. /\ IsJob(j) /\ held[t] \subseteq Lock /\ Custody(j, held[s]) /\ Custody(job[t], held[t])
      /\ j.at \notin Rebuilding
  BY DEF Locking, Jobs, Custody
<1>2. PICK x \in Wants(s), y \in held[t] : Conflict(x, y)
  BY DEF Waits
<1>3. Dict("AX") \notin held[t] /\ Quads("AX") \notin held[t]
  BY <1>1 DEF Custody
<1>4. y \in {Gate, Graphs("RX"), Graphs("SRX"), Dict("AS"), Dict("RX"), Quads("RX")} \cup {Row(g) : g \in Nat}
  BY <1>1, <1>2, <1>3 DEF Lock
<1>5. x \notin {Dict("RX"), Quads("RX")}
  BY <1>2, <1>4 DEF Conflict, Gate, Graphs, Dict, Quads, Row
<1>6. \/ j.at = "record" /\ x \in {Graphs("RX"), Row(j.g)}
      \/ j.at = "bind" /\ x = Gate
      \/ j.at = "create" /\ x = Graphs("SRX")
  <2>1. j.at \notin {"probe", "gate", "drop", "lock"}
    BY <1>1 DEF Rebuilding
  <2>2. CASE j.at = "record"
    BY <1>2, <2>2 DEF Wants, RecordLocks
  <2>3. CASE j.at = "bind"
    BY <1>2, <2>3 DEF Wants
  <2>4. CASE j.at = "create"
    BY <1>2, <2>4 DEF Wants
  <2>5. CASE j.at \notin {"record", "bind", "create"}
    <3>1. Wants(s) \subseteq {Dict("RX"), Quads("RX")}
      BY <2>1, <2>5 DEF Wants
    <3> QED
      BY <1>2, <1>5, <3>1
  <2> QED
    BY <2>2, <2>3, <2>4, <2>5
<1>7. /\ x = Gate => y = Gate
      /\ x = Row(j.g) => \E g \in Nat : y = Row(g)
      /\ x \in {Graphs("RX"), Graphs("SRX")} => y \in {Graphs("RX"), Graphs("SRX")}
  BY <1>2, <1>4 DEF Conflict, Gate, Graphs, Dict, Quads, Row
<1>8. Gate \in held[t] \/ job[t].loads > 0
  BY <1>1, <1>2, <1>6, <1>7 DEF Custody
<1>9. j.at = "create" => Gate \notin held[t]
  <2>1. Conflict(Gate, Gate)
    BY DEF Conflict, Gate
  <2> QED
    BY <1>1, <2>1 DEF Custody, Locking, LocksAgree
<1> QED
  BY <1>6, <1>8, <1>9

LEMMA LockingOrdersWaits == Locking => OnlyRebuildsDeadlock
<1> SUFFICES ASSUME Locking, NEW T \in Stuck, \A s \in T : job[s].path \notin Rebuilds
             PROVE  FALSE
  BY DEF OnlyRebuildsDeadlock
<1>1. T \subseteq Session /\ T # {} /\ \A s \in T : \E t \in T \ {s} : Waits(s, t)
  BY DEF Stuck
<1>2. \A s \in T : Custody(job[s], held[s]) /\ IsJob(job[s])
  BY <1>1 DEF Locking, Jobs
<1>3. \A s \in T : job[s].at \in {"record", "bind", "create"} /\ job[s].loads = 0
  <2> SUFFICES ASSUME NEW s \in T
               PROVE  job[s].at \in {"record", "bind", "create"} /\ job[s].loads = 0
    OBVIOUS
  <2>1. PICK t \in T \ {s} : Waits(s, t)
    BY <1>1
  <2>2. job[s].at \in {"record", "bind", "create"}
    BY <1>1, <2>1, WaitsFor
  <2> QED
    BY <1>2, <2>2 DEF Custody, Reading, IsJob
\* Someone holds the gate; it is past its record and waits for nobody.
<1>4. PICK s \in T, t \in T : s # t /\ Waits(s, t) /\ Gate \in held[t]
  <2>1. PICK s \in T : TRUE
    BY <1>1
  <2>2. PICK t \in T \ {s} : Waits(s, t)
    BY <1>1
  <2> QED
    BY <1>1, <1>3, <2>2, WaitsFor
<1>5. PICK u \in T \ {t} : Waits(t, u)
  BY <1>1
<1>6. Gate \in held[u]
  BY <1>1, <1>3, <1>5, WaitsFor
<1>7. Conflict(Gate, Gate)
  BY DEF Conflict, Gate
<1> QED
  BY <1>1, <1>4, <1>5, <1>6, <1>7 DEF Locking, LocksAgree

\* Loads that rebuild no index never wait for each other in a circle: the record
\* comes before the gate and the gate before the registry, whatever the documents.
THEOREM OnlyRebuildsDeadlockAlways == Spec => []OnlyRebuildsDeadlock
BY AlwaysLocking, LockingOrdersWaits, PTL

-----------------------------------------------------------------------------
\* The record of a graph counts its recorded loads and names the last.

LEMMA KeepSame ==
    ASSUME NEW S, NEW X, NEW Y, X \cap S = Y \cap S
    PROVE  \A q \in Seq(S) : Keep(q, X) = Keep(q, Y)
<1> DEFINE P == {q \in Seq(S) : Keep(q, X) = Keep(q, Y)}
<1>1. <<>> \in P
  <2>1. <<>> \in Seq(S) /\ Keep(<<>>, X) = <<>> /\ Keep(<<>>, Y) = <<>>
    BY KeepEmpty
  <2> QED
    BY <2>1
<1>2. ASSUME NEW q \in Seq(S), NEW e \in S, q \in P
      PROVE  Append(q, e) \in P
  <2>1. /\ Keep(Append(q, e), X) = IF e \in X THEN Append(Keep(q, X), e) ELSE Keep(q, X)
        /\ Keep(Append(q, e), Y) = IF e \in Y THEN Append(Keep(q, Y), e) ELSE Keep(q, Y)
    BY KeepAppend
  <2>2. Keep(q, X) = Keep(q, Y) /\ (e \in X <=> e \in Y)
    BY <1>2
  <2>3. Append(q, e) \in Seq(S)
    OBVIOUS
  <2> QED
    BY <2>1, <2>2, <2>3
<1> HIDE DEF P
<1>3. Seq(S) \subseteq P
  BY <1>1, <1>2, SeqInductive
<1> QED
  BY <1>3 DEF P

\* The recorded loads of a graph.
Entry == [doc : Seq(Line), g : Nat, by : Path, recorded : BOOLEAN]
Mine(entries, g) == Keep(entries, {e \in ToSet(entries) : e.recorded /\ e.g = g})

LEMMA MineGrows ==
    ASSUME NEW entries \in Seq(Entry), NEW e \in Entry, NEW g
    PROVE  Mine(Append(entries, e), g) = IF e.recorded /\ e.g = g THEN Append(Mine(entries, g), e) ELSE Mine(entries, g)
<1> DEFINE X == {d \in Entry : d.recorded /\ d.g = g}
           more == Append(entries, e)
<1>1. more \in Seq(Entry)
  OBVIOUS
<1>2. \A q \in Seq(Entry) : Mine(q, g) = Keep(q, X)
  <2> SUFFICES ASSUME NEW q \in Seq(Entry) PROVE Mine(q, g) = Keep(q, X)
    OBVIOUS
  <2> DEFINE S == ToSet(q)
             Y == {d \in S : d.recorded /\ d.g = g}
  <2>1. q \in Seq(S) /\ S \subseteq Entry
    BY DEF ToSet
  <2>2. X \cap S = Y \cap S
    BY <2>1
  <2> HIDE DEF X, Y, S
  <2>3. Keep(q, X) = Keep(q, Y)
    BY <2>1, <2>2, KeepSame
  <2> QED
    BY <2>3 DEF Mine, Y, S
<1>3. Keep(more, X) = IF e \in X THEN Append(Keep(entries, X), e) ELSE Keep(entries, X)
  <2> HIDE DEF X
  <2> QED
    BY KeepAppend
<1>4. e \in X <=> e.recorded /\ e.g = g
  OBVIOUS
<1> HIDE DEF X, more
<1> QED
  BY <1>1, <1>2, <1>3, <1>4 DEF more

LEMMA MineTyped ==
    ASSUME NEW entries \in Seq(Entry), NEW g
    PROVE  Mine(entries, g) \in Seq(Entry)
BY KeepTyped DEF Mine

\* A load that has its record open holds the row, so nobody else counts on the
\* same number.
Recording ==
    /\ log \in Seq(Entry)
    /\ DOMAIN src \subseteq Nat
    /\ \A g \in Nat : /\ Source(g).loads = Len(Mine(log, g))
                      /\ Mine(log, g) # <<>> => Source(g).doc = Last(Mine(log, g)).doc
    /\ \A s \in Session : job[s].loads > 0 =>
          Row(job[s].g) \in held[s] /\ job[s].loads = Source(job[s].g).loads + 1

\* The record of a load is opened by Record alone.
LEMMA OthersKeepLoads ==
    ASSUME Locking, NEW s \in Session,
           Probe(s) \/ DropIndexes(s) \/ LookUp(s) \/ Bind(s) \/ Create(s)
    PROVE  /\ \E k : Step(s, k) /\ k.loads = job[s].loads /\ k.g = job[s].g
           /\ UNCHANGED <<src, log>>
           /\ held' = held \/ Granted(s)
<1> DEFINE j == job[s]
<1>1. Rec(j)
  BY DEF Locking, Jobs, IsJob
<1>2. UNCHANGED <<src, log>>
  BY DEF Probe, DropIndexes, LookUp, Bind, Create, tables
<1>3. held' = held \/ Granted(s)
  BY DEF Probe, DropIndexes, LookUp, Bind, Create
<1> DEFINE Goal == \E k : Step(s, k) /\ k.loads = j.loads /\ k.g = j.g
<1>k. ASSUME NEW k, NEW X, Keeps(j, k, X), X \subseteq Fields \ {"loads", "g"}, Step(s, k)
      PROVE  Goal
  BY <1>k DEF Keeps, Fields
<1>m. ASSUME NEW at, Go(s, at)
      PROVE  Goal
  <2>1. Step(s, [j EXCEPT !.at = at])
    BY <1>m DEF Go
  <2> HIDE DEF j
  <2>2. Keeps(j, [j EXCEPT !.at = at], {"at"})
    BY <1>1, MoveKeeps
  <2>3. {"at"} \subseteq Fields \ {"loads", "g"}
    BY DEF Fields
  <2> HIDE DEF Goal
  <2> QED
    BY <1>k, <2>1, <2>2, <2>3
<1>n. ASSUME NEW k, Step(s, k),
             \/ k = PathJob(j, "turtle", "record")
             \/ \E q : k = ProbeJob(j, q)
             \/ \E gids : k = PlaceJob(j, gids) \/ k = FoundJob(j, gids, "lines")
             \/ \E gids, named : k = NamedJob(j, gids, named, "lines")
      PROVE  Goal
  <2> HIDE DEF j, Goal
  <2>1. {"at", "path"} \subseteq Fields \ {"loads", "g"} /\ {"pending", "lines", "at"} \subseteq Fields \ {"loads", "g"}
        /\ {"gids", "named", "at"} \subseteq Fields \ {"loads", "g"} /\ {"gids"} \subseteq Fields \ {"loads", "g"}
        /\ {"gids", "at"} \subseteq Fields \ {"loads", "g"}
    BY DEF Fields
  <2>2. \E X : Keeps(j, k, X) /\ X \subseteq Fields \ {"loads", "g"}
    BY <1>1, <1>n, <2>1, PathRecord, ProbeRecord, PlaceRecord, FoundRecord, NamedRecord
  <2> QED
    BY <1>k, <1>n, <2>2
<1>4. Goal
  <2>1. CASE Probe(s)
    <3>1. \/ Step(s, PathJob(j, "turtle", "record")) \/ Go(s, "gate") \/ \E q : Step(s, ProbeJob(j, q))
      BY <2>1 DEF Probe, PathJob, ProbeJob
    <3> HIDE DEF Goal, j
    <3> QED
      BY <3>1, <1>m, <1>n
  <2>2. CASE DropIndexes(s)
    <3>1. \E at : Go(s, at)
      BY <2>2 DEF DropIndexes
    <3> HIDE DEF Goal, j
    <3> QED
      BY <3>1, <1>m
  <2>3. CASE LookUp(s)
    <3>1. Go(s, "bind") \/ \E gids : Step(s, PlaceJob(j, gids))
      BY <2>3 DEF LookUp, PlaceJob
    <3> HIDE DEF Goal, j
    <3> QED
      BY <3>1, <1>m, <1>n
  <2>4. CASE Bind(s)
    <3>1. Go(s, "create") \/ \E gids : Step(s, FoundJob(j, gids, "lines"))
      BY <2>4 DEF Bind, FoundJob
    <3> HIDE DEF Goal, j
    <3> QED
      BY <3>1, <1>m, <1>n
  <2>5. CASE Create(s)
    <3>1. \E gids, named : Step(s, NamedJob(j, gids, named, "lines"))
      BY <2>5 DEF Create, NamedJob
    <3> HIDE DEF Goal, j
    <3> QED
      BY <3>1, <1>n
  <2> QED
    BY <2>1, <2>2, <2>3, <2>4, <2>5
<1> QED
  BY <1>2, <1>3, <1>4

\* A step that leaves the tables, and the numbers that are taken, alone.
LEMMA RecordingKept ==
    ASSUME Locking, Recording, NEW s \in Session, NEW k, Step(s, k), UNCHANGED <<src, log>>,
           \A t \in Session \ {s} : held'[t] = held[t],
           k.loads > 0 => Row(k.g) \in held'[s] /\ k.loads = Source(k.g).loads + 1
    PROVE  Recording'
<1>1. job' = [t \in Session |-> IF t = s THEN k ELSE job[t]]
  BY DEF Step, Locking, Jobs
<1>2. \A t \in Session : job'[t].loads > 0 =>
          Row(job'[t].g) \in held'[t] /\ job'[t].loads = Source(job'[t].g).loads + 1
  BY <1>1 DEF Recording
<1>3. \A g : Source(g)' = Source(g)
  BY DEF Source
<1> QED
  BY <1>2, <1>3 DEF Recording

LEMMA RecordingGrown ==
    ASSUME Locking, Recording, NEW s \in Session, NEW k, Step(s, k), UNCHANGED <<src, log>>,
           held' = held \/ Granted(s), k.loads = job[s].loads, k.g = job[s].g
    PROVE  Recording'
<1>1. held[s] \subseteq held'[s] /\ \A t \in Session \ {s} : held'[t] = held[t]
  BY DEF Granted, Locking, Jobs
<1>2. k.loads > 0 => Row(k.g) \in held'[s] /\ k.loads = Source(k.g).loads + 1
  BY <1>1 DEF Recording
<1> QED
  BY <1>1, <1>2, RecordingKept

LEMMA OthersRecord ==
    ASSUME Locking, Recording, NEW s \in Session,
           Reads(s) \/ Probe(s) \/ DropIndexes(s) \/ LookUp(s) \/ Bind(s) \/ Create(s)
    PROVE  Recording'
<1>1. CASE Reads(s)
  <2>1. Rec(job[s]) /\ job[s].lines \in Seq(Line)
    BY DEF Locking, Jobs, IsJob
  <2>2. PICK k : Step(s, k) /\ GoesOn(job[s], k)
    BY <1>1, <2>1, ReadsContinue DEF Continues
  <2>3. k.loads = job[s].loads /\ k.g = job[s].g
    BY <2>2 DEF GoesOn, Load
  <2>4. UNCHANGED <<src, log>>
    BY <1>1, ReadsAsk DEF tables
  <2>5. held' = held \/ Granted(s)
    BY <1>1, ReadsAsk
  <2> QED
    BY <2>2, <2>3, <2>4, <2>5, RecordingGrown
<1>2. CASE ~Reads(s)
  <2>1. PICK k : Step(s, k) /\ k.loads = job[s].loads /\ k.g = job[s].g
    BY <1>2, OthersKeepLoads
  <2>2. UNCHANGED <<src, log>>
    BY <1>2, OthersKeepLoads
  <2>3. held' = held \/ Granted(s)
    BY <1>2, OthersKeepLoads
  <2> QED
    BY <2>1, <2>2, <2>3, RecordingGrown
<1> QED
  BY <1>1, <1>2

LEMMA RecordRecords ==
    ASSUME Locking, Recording, NEW s \in Session, Record(s)
    PROVE  Recording'
<1> DEFINE j == job[s]
           at == IF j.path = "turtle" /\ j.mode = "batched" THEN "parse" ELSE "lines"
           k == RecordJob(j, Source(j.g).loads + 1, at)
<1>1. Rec(j) /\ j.at = "record"
  BY DEF Locking, Jobs, IsJob, Record, At
<1>2. Step(s, k) /\ Granted(s) /\ UNCHANGED <<src, log>>
  BY DEF Record, RecordJob, tables
<1>3. Row(j.g) \in Wants(s)
  BY <1>1 DEF Wants, RecordLocks
<1> HIDE DEF j, at
<1>4. Keeps(j, k, {"loads", "at"}) /\ k.loads = Source(j.g).loads + 1
  BY <1>1, RecordRecord
<1> HIDE DEF k
<1>5. k.g = j.g
  BY <1>4 DEF Keeps, Fields
<1>6. Row(k.g) \in held'[s] /\ \A t \in Session \ {s} : held'[t] = held[t]
  BY <1>2, <1>3, <1>5 DEF Granted, Locking, Jobs
<1> QED
  BY <1>2, <1>4, <1>5, <1>6, RecordingKept

LEMMA BeginRecords ==
    ASSUME Locking, Recording, NEW s \in Session, Begin(s)
    PROVE  Recording'
<1>1. PICK c \in Calls : Step(s, BeginJob(c)) /\ held' = held /\ UNCHANGED <<src, log>>
  BY DEF Begin, BeginJob, tables
<1>2. BeginJob(c).loads = 0
  BY BeginRecord
<1> QED
  BY <1>1, <1>2, RecordingKept

LEMMA ReleaseRecords ==
    ASSUME Locking, Recording, NEW s \in Session, Release(s), UNCHANGED <<src, log>>
    PROVE  Recording'
<1>1. Step(s, Idle) /\ \A t \in Session \ {s} : held'[t] = held[t]
  BY DEF Release, Step, Locking, Jobs
<1>2. Idle.loads = 0
  BY DEF Idle
<1> HIDE DEF Idle
<1> QED
  BY <1>1, <1>2, RecordingKept

\* A load that records nothing changes no graph's record.
LEMMA UnrecordedRecords ==
    ASSUME Locking, Recording, NEW e \in Entry, ~e.recorded, log' = Append(log, e), src' = src,
           \A t \in Session : job'[t].loads > 0 => job'[t] = job[t] /\ held'[t] = held[t]
    PROVE  Recording'
<1>1. log' \in Seq(Entry) /\ \A g \in Nat : Mine(log', g) = Mine(log, g)
  <2>1. log \in Seq(Entry)
    BY DEF Recording
  <2> QED
    BY <2>1, MineGrows
<1>2. \A g : Source(g)' = Source(g)
  BY DEF Source
<1> QED
  BY <1>1, <1>2 DEF Recording

LEMMA CommitRecords ==
    ASSUME Locking, Recording, NEW s \in Session, Commit(s)
    PROVE  Recording'
<1> DEFINE j == job[s]
           e == [doc |-> j.doc, g |-> j.g, by |-> j.path, recorded |-> j.loads > 0]
<1>1. /\ IsJob(j) /\ log \in Seq(Entry)
  BY DEF Locking, Jobs, Recording
<1>2. /\ log' = Append(log, e)
      /\ src' = IF j.loads = 0 THEN src ELSE Learn(src, j.g, [loads |-> j.loads, doc |-> j.doc])
      /\ Release(s)
  BY DEF Commit
<1>3. e \in Entry /\ e.g = j.g /\ e.doc = j.doc /\ (e.recorded <=> j.loads > 0)
  <2> DEFINE recorded == j.loads > 0
  <2>1. j.doc \in Seq(Line) /\ j.g \in Nat /\ j.path \in Path
    BY <1>1 DEF IsJob
  <2>2. recorded \in BOOLEAN
    OBVIOUS
  <2> HIDE DEF j, recorded
  <2>3. [doc |-> j.doc, g |-> j.g, by |-> j.path, recorded |-> recorded] \in Entry
    BY <2>1, <2>2 DEF Entry
  <2> QED
    BY <2>3 DEF recorded
<1>4. \A t \in Session : t # s => job'[t] = job[t] /\ held'[t] = held[t]
  BY <1>2 DEF Release, Locking, Jobs
<1>5. job'[s].loads = 0
  <2>1. job'[s] = Idle
    BY <1>2 DEF Release, Locking, Jobs
  <2>2. Idle.loads = 0
    BY DEF Idle
  <2> HIDE DEF Idle
  <2> QED
    BY <2>1, <2>2
<1> HIDE DEF e, j
<1>6. CASE j.loads = 0
  <2>1. src' = src /\ ~e.recorded
    BY <1>2, <1>3, <1>6
  <2> QED
    BY <1>2, <1>3, <1>4, <1>5, <2>1, UnrecordedRecords
<1>7. CASE j.loads # 0
  <2>1. PICK r \in Nat, n \in Nat : r = j.g /\ n = j.loads /\ n > 0
    BY <1>1, <1>7 DEF IsJob
  <2>2. PICK new : new = [loads |-> n, doc |-> j.doc]
    OBVIOUS
  <2>3. src' = [x \in DOMAIN src \cup {r} |-> IF x = r THEN new ELSE src[x]]
    BY <1>2, <1>7, <2>1, <2>2 DEF Learn
  <2>4. Source(r)' = new
    BY <2>3 DEF Source
  <2>5. ASSUME NEW g, g # r
        PROVE  Source(g)' = Source(g)
    BY <2>3, <2>5 DEF Source
  <2>6. Row(r) \in held[s] /\ n = Source(r).loads + 1
    BY <2>1 DEF Recording, j
  <2>7. log' \in Seq(Entry) /\ \A g \in Nat : Mine(log', g) = IF g = r THEN Append(Mine(log, g), e) ELSE Mine(log, g)
    BY <1>1, <1>2, <1>3, <2>1, MineGrows
  <2>8. ASSUME NEW g \in Nat
        PROVE  (/\ Source(g).loads = Len(Mine(log, g))
                /\ Mine(log, g) # <<>> => Source(g).doc = Last(Mine(log, g)).doc)'
    <3>1. Mine(log, g) \in Seq(Entry)
      BY <1>1, MineTyped
    <3>2. Source(g).loads = Len(Mine(log, g)) /\ (Mine(log, g) # <<>> => Source(g).doc = Last(Mine(log, g)).doc)
      BY DEF Recording
    <3>3. CASE g = r
      <4>1. Mine(log', g) = Append(Mine(log, g), e)
        BY <2>7, <3>3
      <4>2. Len(Mine(log', g)) = Len(Mine(log, g)) + 1 /\ Last(Mine(log', g)) = e
        BY <1>3, <3>1, <4>1 DEF Last
      <4>3. new.loads = n /\ new.doc = e.doc
        BY <1>3, <2>2
      <4>4. Source(g)' = new
        BY <2>4, <3>3
      <4> QED
        BY <2>6, <3>2, <3>3, <4>2, <4>3, <4>4
    <3>4. CASE g # r
      <4>1. Source(g)' = Source(g) /\ Mine(log', g) = Mine(log, g)
        BY <2>5, <2>7, <3>4
      <4> QED
        BY <3>2, <4>1
    <3> QED
      BY <3>3, <3>4
  <2>9. ASSUME NEW t \in Session, (job[t].loads > 0)'
        PROVE  (Row(job[t].g) \in held[t] /\ job[t].loads = Source(job[t].g).loads + 1)'
    <3>1. t # s /\ job'[t] = job[t] /\ held'[t] = held[t]
      BY <1>4, <1>5, <2>9
    <3>2. PICK g : g = job[t].g
      OBVIOUS
    <3>3. Row(g) \in held[t] /\ job[t].loads = Source(g).loads + 1
      BY <2>9, <3>1, <3>2 DEF Recording
    <3>4. g # r
      <4>1. Conflict(Row(r), Row(r))
        BY DEF Conflict, Row
      <4> QED
        BY <2>6, <3>1, <3>3, <4>1 DEF Locking, LocksAgree
    <3>5. Source(g)' = Source(g) /\ job'[t].g = g
      BY <2>5, <3>1, <3>2, <3>4
    <3> QED
      BY <3>1, <3>3, <3>5 DEF Source
  <2>10. DOMAIN src' \subseteq Nat
    BY <2>1, <2>3 DEF Recording
  <2> QED
    BY <2>7, <2>8, <2>9, <2>10 DEF Recording
<1> QED
  BY <1>6, <1>7

LEMMA InitRecords == Init => Recording
<1> SUFFICES ASSUME Init PROVE Recording
  OBVIOUS
<1>1. log = <<>> /\ DOMAIN src = {} /\ \A s \in Session : job[s].loads = 0
  BY DEF Init, Empty, Idle
<1>2. \A g : Mine(log, g) = <<>>
  BY <1>1, KeepEmpty DEF Mine
<1>3. log \in Seq(Entry)
  BY <1>1
<1> QED
  BY <1>1, <1>2, <1>3 DEF Recording, Source

LEMMA NextRecords == Locking /\ Recording /\ [Next]_vars => Recording'
<1> SUFFICES ASSUME Locking, Recording, [Next]_vars PROVE Recording'
  OBVIOUS
<1>1. CASE UNCHANGED vars
  <2>1. job' = job /\ held' = held /\ src' = src /\ log' = log
    BY <1>1 DEF vars
  <2>2. \A g : Source(g)' = Source(g)
    BY <2>1 DEF Source
  <2> QED
    BY <2>1, <2>2 DEF Recording
<1>2. ASSUME NEW s \in Session, LoadStaged(s)
      PROVE  Recording'
  <2>1. PICK c \in Calls : log' = Append(log, [doc |-> c.doc, g |-> c.g, by |-> "staged", recorded |-> FALSE])
    BY <1>2, StagedLeaves
  <2>2. [doc |-> c.doc, g |-> c.g, by |-> "staged", recorded |-> FALSE] \in Entry
    BY IngestAssumption DEF Entry, Path
  <2>3. src' = src /\ job' = job /\ held' = held
    BY <1>2, StagedLeaves
  <2> QED
    BY <2>1, <2>2, <2>3, UnrecordedRecords
<1>3. ASSUME NEW s \in Session, Refuse(s) \/ Victim(s) \/ Abort(s)
      PROVE  Recording'
  BY <1>3, ReleaseRecords DEF Refuse, Victim, Abort, tables
<1>4. ASSUME NEW s \in Session, Work(s)
      PROVE  Recording'
  BY <1>3, <1>4, OthersRecord, RecordRecords, CommitRecords DEF Work, Reads
<1> QED
  BY <1>1, <1>2, <1>3, <1>4, BeginRecords DEF Next

LEMMA RecordingCounts == Recording => DigestOfLatest
<1> SUFFICES ASSUME Recording, NEW g \in DOMAIN src \cup {e.g : e \in ToSet(log)}
             PROVE  /\ Source(g).loads = Len(Mine(log, g))
                    /\ Mine(log, g) # <<>> => Source(g).doc = Last(Mine(log, g)).doc
  BY DEF DigestOfLatest, Mine
<1>1. g \in Nat
  <2>1. ToSet(log) \subseteq Entry /\ \A e \in Entry : e.g \in Nat
    <3>1. log \in Seq(Entry)
      BY DEF Recording
    <3>2. \A q \in Seq(Entry) : ToSet(q) \subseteq Entry
      BY DEF ToSet
    <3> QED
      BY <3>1, <3>2 DEF Entry
  <2> QED
    BY <2>1 DEF Recording
<1> QED
  BY <1>1 DEF Recording

\* source_loads counts the loads of a graph that recorded themselves and the
\* digest is that of the last of them, whoever loads beside it: begin_source_record
\* holds the graph's row to the commit.
THEOREM DigestOfLatestAlways == Spec => []DigestOfLatest
BY AlwaysLocking, InitRecords, NextRecords, RecordingCounts, PTL DEF Spec

=============================================================================
