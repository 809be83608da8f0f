------------------------- MODULE IngestRowsProofs -------------------------
(***************************************************************************)
(* No id is given to two terms, and without loads side by side no term has *)
(* two rows (OneRowPerTerm of Ingest); and the stored rows are the         *)
(* statements of the committed documents, each as often as it was read     *)
(* (RowsAreTheDocuments); both for every value of the constants.           *)
(*                                                                         *)
(* The invariant of the first has three parts. Locking, from IngestProofs, *)
(* says who holds which lock: whoever numbers rows without asking the      *)
(* dictionary has locked it. Numbered says that each id came from the      *)
(* sequence once: it is in one row, or it lies unused in the pool, or      *)
(* ahead of the next block, of one rebuild and of nobody else. Single says *)
(* that a load that is alone knows every row there is before it adds one,  *)
(* whether it looked or started on an empty dictionary.                    *)
(*                                                                         *)
(* Each dictionary path then has a lemma about the rows it adds:           *)
(* InsertRows and ReserveRows for the rebuilds, StagedRows for the staged  *)
(* load, PutStep and its relatives for the look-up paths; NumberedStep and *)
(* SingleStep say what rows may be added, once for all of them.            *)
(*                                                                         *)
(* The second adds two parts. Loading says of each load that its books are *)
(* kept (Books: per statement, the rows it has written, the batch that     *)
(* waits for its insert and the statements that wait for ids come to at    *)
(* least what its path must store of the lines read, and at most what it   *)
(* may), what may wait at each of its places (Stage), and which ids of     *)
(* graphs it knows (Names). Faithful says that the committed rows are, per *)
(* statement, what the committed loads promised. A commit moves a load's   *)
(* books into Faithful; every other step leaves it alone.                  *)
(*                                                                         *)
(* How often is counted by Often, the length of what Keep leaves: its      *)
(* lemmas (OftenAppend, OftenConcat, OftenMapped, OftenHits) are by        *)
(* induction on the length of the sequence.                                *)
(***************************************************************************)
EXTENDS IngestProofs

-----------------------------------------------------------------------------
\* Sequences without a repetition.

LEMMA ToSetFacts ==
    ASSUME NEW S
    PROVE  /\ ToSet(<<>>) = {}
           /\ \A q \in Seq(S) : ToSet(q) \subseteq S /\ q \in Seq(ToSet(q)) /\ (q = <<>> <=> ToSet(q) = {})
           /\ \A q \in Seq(S), e \in S : ToSet(Append(q, e)) = ToSet(q) \cup {e}
           /\ \A p, q \in Seq(S) : ToSet(p \o q) = ToSet(p) \cup ToSet(q)
<1>1. ToSet(<<>>) = {}
  BY DEF ToSet
<1>2. ASSUME NEW q \in Seq(S)
      PROVE  ToSet(q) \subseteq S /\ q \in Seq(ToSet(q)) /\ (q = <<>> <=> ToSet(q) = {})
  BY DEF ToSet
<1>3. ASSUME NEW q \in Seq(S), NEW e \in S
      PROVE  ToSet(Append(q, e)) = ToSet(q) \cup {e}
  <2>1. /\ Len(q) \in Nat /\ DOMAIN q = 1 .. Len(q) /\ DOMAIN Append(q, e) = 1 .. Len(q) + 1
        /\ Append(q, e)[Len(q) + 1] = e /\ \A i \in 1 .. Len(q) : Append(q, e)[i] = q[i]
    OBVIOUS
  <2>2. \A i \in 1 .. Len(q) + 1 : i \in 1 .. Len(q) \/ i = Len(q) + 1
    BY <2>1
  <2>3. Len(q) + 1 \in 1 .. Len(q) + 1 /\ \A i \in 1 .. Len(q) : i \in 1 .. Len(q) + 1
    BY <2>1
  <2>4. ToSet(Append(q, e)) \subseteq ToSet(q) \cup {e}
    BY <2>1, <2>2 DEF ToSet
  <2>5. ToSet(q) \cup {e} \subseteq ToSet(Append(q, e))
    BY <2>1, <2>3 DEF ToSet
  <2> QED
    BY <2>4, <2>5
<1>4. ASSUME NEW p \in Seq(S), NEW q \in Seq(S)
      PROVE  ToSet(p \o q) = ToSet(p) \cup ToSet(q)
  <2>1. /\ p \o q \in Seq(S) /\ Len(p \o q) = Len(p) + Len(q) /\ Len(p) \in Nat /\ Len(q) \in Nat
        /\ \A i \in 1 .. Len(p) + Len(q) : (p \o q)[i] = IF i <= Len(p) THEN p[i] ELSE q[i - Len(p)]
    BY ConcatProperties
  <2>2. ToSet(p \o q) \subseteq ToSet(p) \cup ToSet(q)
    BY <2>1 DEF ToSet
  <2>3. ToSet(p) \subseteq ToSet(p \o q)
    BY <2>1 DEF ToSet
  <2>4. ASSUME NEW i \in DOMAIN q
        PROVE  q[i] \in ToSet(p \o q)
    <3>1. /\ Len(p) + i \in 1 .. Len(p) + Len(q) /\ ~ (Len(p) + i <= Len(p))
          /\ (Len(p) + i) - Len(p) = i
      BY <2>1
    <3>2. (p \o q)[Len(p) + i] = q[i] /\ Len(p) + i \in DOMAIN (p \o q)
      BY <2>1, <3>1
    <3> QED
      BY <3>2 DEF ToSet
  <2> QED
    BY <2>2, <2>3, <2>4 DEF ToSet
<1> QED
  BY <1>1, <1>2, <1>3, <1>4

LEMMA InjectiveAppend ==
    ASSUME NEW S, NEW q \in Seq(S), IsInjective(q), NEW e \in S, e \notin ToSet(q)
    PROVE  IsInjective(Append(q, e))
BY DEF IsInjective, ToSet

LEMMA InjectiveCounts ==
    ASSUME NEW S, NEW q \in Seq(S), IsInjective(q)
    PROVE  IsFiniteSet(ToSet(q)) /\ Cardinality(ToSet(q)) = Len(q)
<1> DEFINE n == Len(q)
<1>1. n \in Nat /\ q \in [1 .. n -> ToSet(q)]
  BY DEF ToSet
<1>2. q \in Bijection(1 .. n, ToSet(q))
  BY <1>1 DEF Bijection, Injection, Surjection, IsInjective, ToSet
<1>3. ExistsBijection(1 .. n, ToSet(q))
  BY <1>2 DEF ExistsBijection
<1> QED
  BY <1>1, <1>3, FS_CountingElements, FS_NatBijection

LEMMA KeepToSet ==
    ASSUME NEW S, NEW X
    PROVE  \A q \in Seq(S) : ToSet(Keep(q, X)) = ToSet(q) \cap X
<1> DEFINE P == {q \in Seq(S) : ToSet(Keep(q, X)) = ToSet(q) \cap X}
<1>1. <<>> \in P
  <2>1. <<>> \in Seq(S) /\ Keep(<<>>, X) = <<>> /\ ToSet(<<>>) = {}
    BY KeepEmpty, ToSetFacts
  <2> QED
    BY <2>1
<1>2. ASSUME NEW q \in Seq(S), NEW e \in S, q \in P
      PROVE  Append(q, e) \in P
  <2>1. Keep(Append(q, e), X) = IF e \in X THEN Append(Keep(q, X), e) ELSE Keep(q, X)
    BY KeepAppend
  <2>2. Keep(q, X) \in Seq(S) /\ ToSet(Keep(q, X)) = ToSet(q) \cap X /\ Append(q, e) \in Seq(S)
    BY <1>2, KeepTyped
  <2>3. ToSet(Append(q, e)) = ToSet(q) \cup {e} /\ ToSet(Append(Keep(q, X), e)) = ToSet(Keep(q, X)) \cup {e}
    BY <2>2, ToSetFacts
  <2> QED
    BY <2>1, <2>2, <2>3
<1> HIDE DEF P
<1>3. Seq(S) \subseteq P
  BY <1>1, <1>2, SeqInductive
<1> QED
  BY <1>3 DEF P

LEMMA KeepInjective ==
    ASSUME NEW S, NEW X
    PROVE  \A q \in Seq(S) : IsInjective(q) => IsInjective(Keep(q, X))
<1> DEFINE P == {q \in Seq(S) : IsInjective(q) => IsInjective(Keep(q, X))}
<1>1. <<>> \in P
  <2>1. <<>> \in Seq(S) /\ Keep(<<>>, X) = <<>> /\ IsInjective(<<>>)
    BY KeepEmpty DEF IsInjective
  <2> QED
    BY <2>1
<1>2. ASSUME NEW q \in Seq(S), NEW e \in S, q \in P
      PROVE  Append(q, e) \in P
  <2> SUFFICES ASSUME IsInjective(Append(q, e)) PROVE IsInjective(Keep(Append(q, e), X))
    OBVIOUS
  <2>1. IsInjective(q) /\ e \notin ToSet(q)
    <3>1. /\ Len(q) \in Nat /\ DOMAIN q = 1 .. Len(q) /\ DOMAIN Append(q, e) = 1 .. Len(q) + 1
          /\ Append(q, e)[Len(q) + 1] = e /\ \A i \in 1 .. Len(q) : Append(q, e)[i] = q[i]
      OBVIOUS
    <3>2. Len(q) + 1 \in 1 .. Len(q) + 1 /\ \A i \in 1 .. Len(q) : i \in 1 .. Len(q) + 1 /\ i # Len(q) + 1
      BY <3>1
    <3> QED
      BY <3>1, <3>2 DEF IsInjective, ToSet
  <2>2. Keep(Append(q, e), X) = IF e \in X THEN Append(Keep(q, X), e) ELSE Keep(q, X)
    BY KeepAppend
  <2>3. Keep(q, X) \in Seq(S) /\ ToSet(Keep(q, X)) \subseteq ToSet(q) /\ IsInjective(Keep(q, X))
    BY <1>2, <2>1, KeepTyped, KeepToSet
  <2>4. IsInjective(Append(Keep(q, X), e))
    BY <2>1, <2>3, InjectiveAppend
  <2> QED
    BY <2>2, <2>3, <2>4
<1> HIDE DEF P
<1>3. Seq(S) \subseteq P
  BY <1>1, <1>2, SeqInductive
<1> QED
  BY <1>3 DEF P

\* Listed gives every element of a finite set once.
Lists(f, S) ==
    f = [n \in 0 .. Cardinality(S) |->
            IF n = 0 THEN <<>>
            ELSE LET l == f[n - 1] IN Append(l, CHOOSE x \in S \ ToSet(l) : TRUE)]

LEMMA ListsUnfolds ==
    ASSUME NEW S, IsFiniteSet(S), NEW f, Lists(f, S)
    PROVE  /\ f[0] = <<>>
           /\ \A n \in 1 .. Cardinality(S) : f[n] = Append(f[n - 1], CHOOSE x \in S \ ToSet(f[n - 1]) : TRUE)
<1>1. \A n \in 0 .. Cardinality(S) :
          f[n] = IF n = 0 THEN <<>> ELSE Append(f[n - 1], CHOOSE x \in S \ ToSet(f[n - 1]) : TRUE)
  BY DEF Lists
<1>2. Cardinality(S) \in Nat
  BY FS_CardinalityType
<1>3. 0 \in 0 .. Cardinality(S) /\ \A n \in 1 .. Cardinality(S) : n \in 0 .. Cardinality(S) /\ n # 0
  BY <1>2
<1> QED
  BY <1>1, <1>3

LEMMA ListsStep ==
    ASSUME NEW S, IsFiniteSet(S), NEW l \in Seq(S), IsInjective(l), Len(l) < Cardinality(S)
    PROVE  LET e == CHOOSE x \in S \ ToSet(l) : TRUE IN
           /\ e \in S /\ Append(l, e) \in Seq(S) /\ IsInjective(Append(l, e)) /\ Len(Append(l, e)) = Len(l) + 1
<1>1. ToSet(l) # S
  BY InjectiveCounts
<1>2. ToSet(l) \subseteq S
  BY ToSetFacts
<1>3. \E x : x \in S \ ToSet(l)
  BY <1>1, <1>2
<1> DEFINE e == CHOOSE x \in S \ ToSet(l) : TRUE
<1>4. e \in S /\ e \notin ToSet(l)
  BY <1>3
<1> HIDE DEF e
<1>5. IsInjective(Append(l, e))
  BY <1>4, InjectiveAppend
<1>6. Append(l, e) \in Seq(S) /\ Len(Append(l, e)) = Len(l) + 1
  BY <1>4
<1> QED
  BY <1>4, <1>5, <1>6 DEF e

LEMMA ListsTyped ==
    ASSUME NEW S, IsFiniteSet(S), NEW f, Lists(f, S)
    PROVE  \A n \in 0 .. Cardinality(S) : f[n] \in Seq(S) /\ IsInjective(f[n]) /\ Len(f[n]) = n
<1> DEFINE N == Cardinality(S)
           P == {n \in Nat : n <= N => f[n] \in Seq(S) /\ IsInjective(f[n]) /\ Len(f[n]) = n}
<1>1. N \in Nat
  BY FS_CardinalityType
<1>2. /\ f[0] = <<>>
      /\ \A n \in 1 .. N : f[n] = Append(f[n - 1], CHOOSE x \in S \ ToSet(f[n - 1]) : TRUE)
  BY ListsUnfolds
<1> HIDE DEF N
<1>3. 0 \in P
  <2>1. <<>> \in Seq(S) /\ IsInjective(<<>>) /\ Len(<<>>) = 0
    BY DEF IsInjective
  <2> QED
    BY <1>2, <2>1
<1>4. ASSUME NEW n \in Nat, n \in P
      PROVE  n + 1 \in P
  <2> SUFFICES ASSUME n + 1 <= N
               PROVE  f[n + 1] \in Seq(S) /\ IsInjective(f[n + 1]) /\ Len(f[n + 1]) = n + 1
    OBVIOUS
  <2>1. f[n] \in Seq(S) /\ IsInjective(f[n]) /\ Len(f[n]) = n /\ n < N
    BY <1>1, <1>4
  <2>2. n + 1 \in 1 .. N /\ (n + 1) - 1 = n
    BY <1>1
  <2>3. f[n + 1] = Append(f[n], CHOOSE x \in S \ ToSet(f[n]) : TRUE)
    BY <1>2, <2>2
  <2> DEFINE l == f[n]
  <2> HIDE DEF l, P
  <2>4. LET e == CHOOSE x \in S \ ToSet(l) : TRUE IN
        /\ e \in S /\ Append(l, e) \in Seq(S) /\ IsInjective(Append(l, e)) /\ Len(Append(l, e)) = Len(l) + 1
    <3>1. l \in Seq(S) /\ IsInjective(l) /\ Len(l) < Cardinality(S)
      BY <2>1 DEF l, N
    <3> QED
      BY <3>1, ListsStep, Zenon
  <2> QED
    BY <2>1, <2>3, <2>4 DEF l
<1> HIDE DEF P
<1>5. Nat \subseteq P
  BY <1>3, <1>4, NatInductive
<1>6. \A n \in 0 .. N : n \in Nat /\ n <= N
  BY <1>1
<1> QED
  BY <1>5, <1>6 DEF P, N

LEMMA ListsUnique ==
    ASSUME NEW S, IsFiniteSet(S), NEW f, NEW g, Lists(f, S), Lists(g, S)
    PROVE  f = g
<1> DEFINE N == Cardinality(S)
           P == {n \in Nat : n <= N => f[n] = g[n]}
<1>1. N \in Nat
  BY FS_CardinalityType
<1>2. /\ f[0] = <<>> /\ g[0] = <<>>
      /\ \A n \in 1 .. N : f[n] = Append(f[n - 1], CHOOSE x \in S \ ToSet(f[n - 1]) : TRUE)
      /\ \A n \in 1 .. N : g[n] = Append(g[n - 1], CHOOSE x \in S \ ToSet(g[n - 1]) : TRUE)
  BY ListsUnfolds
<1> HIDE DEF N
<1>3. 0 \in P
  BY <1>2
<1>4. ASSUME NEW n \in Nat, n \in P
      PROVE  n + 1 \in P
  <2> SUFFICES ASSUME n + 1 <= N PROVE f[n + 1] = g[n + 1]
    OBVIOUS
  <2>1. f[n] = g[n] /\ n + 1 \in 1 .. N /\ (n + 1) - 1 = n
    BY <1>1, <1>4
  <2>2. /\ f[n + 1] = Append(f[n], CHOOSE x \in S \ ToSet(f[n]) : TRUE)
        /\ g[n + 1] = Append(g[n], CHOOSE x \in S \ ToSet(g[n]) : TRUE)
    BY <1>2, <2>1
  <2> QED
    BY <2>1, <2>2
<1> HIDE DEF P
<1>5. Nat \subseteq P
  BY <1>3, <1>4, NatInductive
<1>6. \A n \in 0 .. N : f[n] = g[n]
  BY <1>1, <1>5 DEF P
<1>7. DOMAIN f = 0 .. N /\ DOMAIN g = 0 .. N /\ f = [n \in 0 .. N |-> f[n]] /\ g = [n \in 0 .. N |-> g[n]]
  BY DEF Lists, N
<1> QED
  BY <1>6, <1>7

LEMMA ListsExists ==
    ASSUME NEW S, IsFiniteSet(S)
    PROVE  \E f : Lists(f, S)
<1> DEFINE N == Cardinality(S)
           V == {l \in Seq(S) : IsInjective(l)}
           More(l) == Append(l, CHOOSE x \in S \ ToSet(l) : TRUE)
           step == [p \in (1 .. N) \X V |-> IF Len(p[2]) < N THEN More(p[2]) ELSE p[2]]
<1>1. N \in Nat
  BY FS_CardinalityType
<1>2. <<>> \in V
  BY DEF IsInjective
<1>3. ASSUME NEW l \in V, Len(l) < N
      PROVE  More(l) \in V /\ Len(More(l)) = Len(l) + 1
  BY <1>3, ListsStep
<1> HIDE DEF V, N
<1>4. step \in [(1 .. N) \X V -> V]
  <2> SUFFICES ASSUME NEW p \in (1 .. N) \X V PROVE step[p] \in V
    OBVIOUS
  <2>1. p[2] \in V
    OBVIOUS
  <2> HIDE DEF More
  <2> QED
    BY <1>3, <2>1
<1>5. \A i \in 1 .. N, l \in V : step[<<i, l>>] = IF Len(l) < N THEN More(l) ELSE l
  <2> SUFFICES ASSUME NEW i \in 1 .. N, NEW l \in V
               PROVE  step[<<i, l>>] = IF Len(l) < N THEN More(l) ELSE l
    OBVIOUS
  <2> HIDE DEF More
  <2> QED
    OBVIOUS
<1> HIDE DEF step
<1>6. PICK f \in [0 .. N -> V] : Iterates(f, N, <<>>, step)
  BY <1>1, <1>2, <1>4, Iteration
<1> DEFINE P == {n \in Nat : n <= N => Len(f[n]) = n}
<1>7. Nat \subseteq P
  <2>1. 0 \in P
    BY <1>6 DEF Iterates
  <2>2. ASSUME NEW n \in Nat, n \in P
        PROVE  n + 1 \in P
    <3> SUFFICES ASSUME n + 1 <= N PROVE Len(f[n + 1]) = n + 1
      OBVIOUS
    <3>1. n + 1 \in 1 .. N /\ (n + 1) - 1 = n /\ n < N /\ n \in 0 .. N
      BY <1>1
    <3>2. f[n + 1] = step[<<n + 1, f[n]>>] /\ f[n] \in V /\ Len(f[n]) = n
      BY <1>6, <2>2, <3>1 DEF Iterates
    <3> HIDE DEF More
    <3>3. f[n + 1] = More(f[n])
      BY <1>5, <3>1, <3>2
    <3> QED
      BY <1>3, <3>1, <3>2, <3>3
  <2> HIDE DEF P
  <2> QED
    BY <2>1, <2>2, NatInductive
<1>8. ASSUME NEW n \in 0 .. N
      PROVE  f[n] = IF n = 0 THEN <<>> ELSE More(f[n - 1])
  <2>1. CASE n = 0
    BY <1>6, <2>1 DEF Iterates
  <2>2. CASE n # 0
    <3>1. n \in 1 .. N /\ n - 1 \in 0 .. N /\ n - 1 \in Nat /\ n - 1 < N
      BY <1>1, <2>2
    <3>2. f[n] = step[<<n, f[n - 1]>>] /\ f[n - 1] \in V
      BY <1>6, <3>1 DEF Iterates
    <3>3. Len(f[n - 1]) = n - 1
      BY <1>7, <3>1
    <3> HIDE DEF More
    <3> QED
      BY <1>5, <2>2, <3>1, <3>2, <3>3
  <2> QED
    BY <2>1, <2>2
<1>9. f = [n \in 0 .. N |-> IF n = 0 THEN <<>> ELSE More(f[n - 1])]
  <2> HIDE DEF More
  <2> QED
    BY <1>6, <1>8
<1> QED
  BY <1>9 DEF Lists, N

LEMMA ListedFacts ==
    ASSUME NEW S, IsFiniteSet(S)
    PROVE  /\ Listed(S) \in Seq(S) /\ ToSet(Listed(S)) = S /\ IsInjective(Listed(S)) /\ Len(Listed(S)) = Cardinality(S)
<1>1. PICK f : Lists(f, S)
  BY ListsExists
<1>2. (CHOOSE g : Lists(g, S)) = f
  BY <1>1, ListsUnique
<1>3. Listed(S) = f[Cardinality(S)]
  BY <1>2 DEF Listed, Lists
<1>4. Cardinality(S) \in Nat /\ Cardinality(S) \in 0 .. Cardinality(S)
  BY FS_CardinalityType
<1>5. Listed(S) \in Seq(S) /\ IsInjective(Listed(S)) /\ Len(Listed(S)) = Cardinality(S)
  BY <1>1, <1>3, <1>4, ListsTyped
<1>6. ToSet(Listed(S)) \subseteq S /\ Cardinality(ToSet(Listed(S))) = Cardinality(S)
  BY <1>5, InjectiveCounts, ToSetFacts
<1>7. ToSet(Listed(S)) = S
  BY <1>6, FS_Subset
<1> QED
  BY <1>5, <1>7

-----------------------------------------------------------------------------
\* What the dictionary's operations do to a load's rows and its cache.

\* The rows a load sees are numbered up to n, and what it has cached has a row.
RowsOf(st) == dict \cup st.own
Sound(cache, R) == \A k \in DOMAIN cache : IdRow(cache[k], k) \in R
Tidy(st) ==
    /\ st = [own |-> st.own, cache |-> st.cache, n |-> st.n] /\ st.n \in Nat
    /\ \A r \in RowsOf(st) : r = IdRow(r.id, r.key) /\ r.id \in 1 .. st.n
    /\ Sound(st.cache, RowsOf(st))
\* The new rows have new ids, each its own, and keys that had no row.
Grows(st, d) ==
    /\ d.n \in Nat /\ st.n <= d.n /\ st.own \subseteq d.own /\ DOMAIN st.cache \subseteq DOMAIN d.cache
    /\ \A r \in d.own \ st.own : /\ r = IdRow(r.id, r.key) /\ r.id \in st.n + 1 .. d.n
                                 /\ \A x \in RowsOf(st) : x.key # r.key
    /\ \A r1, r2 \in d.own \ st.own : r1.id = r2.id \/ r1.key = r2.key => r1 = r2
\* What was cached stays.
Extends(st, d) == \A k \in DOMAIN st.cache : k \in DOMAIN d.cache /\ d.cache[k] = st.cache[k]

LEMMA GrowsSame == ASSUME NEW st, Tidy(st) PROVE Grows(st, st) /\ Extends(st, st)
BY DEF Tidy, Grows, Extends

LEMMA GrowsTrans ==
    ASSUME NEW a, NEW b, NEW c, a.n \in Nat, Grows(a, b), Grows(b, c)
    PROVE  Grows(a, c) /\ (Extends(a, b) /\ Extends(b, c) => Extends(a, c))
<1>1. /\ a.n \in Nat /\ b.n \in Nat /\ c.n \in Nat /\ a.n <= b.n /\ b.n <= c.n
      /\ a.own \subseteq b.own /\ b.own \subseteq c.own
      /\ DOMAIN a.cache \subseteq DOMAIN b.cache /\ DOMAIN b.cache \subseteq DOMAIN c.cache
  BY DEF Grows
<1>2. \A r \in b.own \ a.own : /\ r = IdRow(r.id, r.key) /\ r.id \in a.n + 1 .. b.n
                               /\ \A x \in dict \cup a.own : x.key # r.key
  BY DEF Grows, RowsOf
<1>3. \A r \in c.own \ b.own : /\ r = IdRow(r.id, r.key) /\ r.id \in b.n + 1 .. c.n
                               /\ \A x \in dict \cup b.own : x.key # r.key
  BY DEF Grows, RowsOf
<1>4. ASSUME NEW r \in c.own \ a.own
      PROVE  /\ r = IdRow(r.id, r.key) /\ r.id \in a.n + 1 .. c.n
             /\ \A x \in dict \cup a.own : x.key # r.key
  <2>1. CASE r \in b.own
    BY <1>1, <1>2, <2>1
  <2>2. CASE r \notin b.own
    BY <1>1, <1>3, <2>2
  <2> QED
    BY <2>1, <2>2
<1>5. ASSUME NEW r1 \in c.own \ a.own, NEW r2 \in c.own \ a.own, r1.id = r2.id \/ r1.key = r2.key
      PROVE  r1 = r2
  <2>1. CASE r1 \in b.own /\ r2 \in b.own
    BY <1>5, <2>1 DEF Grows
  <2>2. CASE r1 \notin b.own /\ r2 \notin b.own
    BY <1>5, <2>2 DEF Grows
  <2>3. ASSUME NEW x \in b.own \ a.own, NEW y \in c.own \ b.own
        PROVE  x.id # y.id /\ x.key # y.key
    BY <1>1, <1>2, <1>3
  <2> QED
    BY <1>5, <2>1, <2>2, <2>3
<1>6. Grows(a, c)
  BY <1>1, <1>4, <1>5 DEF Grows, RowsOf
<1>7. Extends(a, b) /\ Extends(b, c) => Extends(a, c)
  BY DEF Extends
<1> QED
  BY <1>6, <1>7

\* A look-up may give any row of the key; it gives one.
LEMMA Extremes ==
    \A n \in Nat : \A ids \in SUBSET (1 .. n) : ids # {} =>
        (\E i \in ids : \A m \in ids : i <= m) /\ (\E i \in ids : \A m \in ids : m <= i)
<1> DEFINE Has(ids) == (\E i \in ids : \A m \in ids : i <= m) /\ (\E i \in ids : \A m \in ids : m <= i)
           P == {n \in Nat : \A ids \in SUBSET (1 .. n) : ids # {} => Has(ids)}
<1>1. 0 \in P
  <2>1. \A ids \in SUBSET (1 .. 0) : ids = {}
    OBVIOUS
  <2> HIDE DEF Has
  <2> QED
    BY <2>1
<1>2. ASSUME NEW n \in Nat, n \in P
      PROVE  n + 1 \in P
  <2> SUFFICES ASSUME NEW ids \in SUBSET (1 .. n + 1), ids # {} PROVE Has(ids)
    OBVIOUS
  <2>1. CASE n + 1 \notin ids
    <3>1. ids \in SUBSET (1 .. n)
      BY <2>1
    <3> QED
      BY <1>2, <3>1
  <2>2. CASE n + 1 \in ids
    <3> DEFINE less == ids \ {n + 1}
    <3>1. less \in SUBSET (1 .. n) /\ \A m \in ids : m \in less \/ m = n + 1
      OBVIOUS
    <3>2. \A m \in ids : m \in Nat /\ m <= n + 1
      OBVIOUS
    <3>3. CASE less = {}
      BY <2>2, <3>1, <3>2, <3>3
    <3>4. CASE less # {}
      <4>1. PICK i \in less : \A m \in less : i <= m
        BY <1>2, <3>1, <3>4
      <4>2. i \in ids /\ \A m \in ids : i <= m
        BY <3>1, <3>2, <4>1
      <4> QED
        BY <2>2, <3>2, <4>2
    <3> QED
      BY <3>3, <3>4
  <2> QED
    BY <2>1, <2>2
<1> HIDE DEF P
<1>3. Nat \subseteq P
  BY <1>1, <1>2, NatInductive
<1> QED
  BY <1>3 DEF P

LEMMA SomeIsOne ==
    ASSUME NEW n \in Nat, NEW ids, ids \subseteq 1 .. n, ids # {}, NEW late \in BOOLEAN
    PROVE  Some(ids, late) \in ids
<1>1. (\E i \in ids : \A m \in ids : i <= m) /\ (\E i \in ids : \A m \in ids : m <= i)
  BY Extremes
<1>2. \E i \in ids : \A m \in ids : IF late THEN m <= i ELSE i <= m
  BY <1>1
<1> QED
  BY <1>2 DEF Some

LEMMA IdsAreRows ==
    ASSUME NEW st, Tidy(st), NEW k
    PROVE  /\ Ids(st.own, k) \subseteq 1 .. st.n
           /\ \A id \in Ids(st.own, k) : IdRow(id, k) \in RowsOf(st)
           /\ Ids(st.own, k) = {} => \A r \in RowsOf(st) : r.key # k
<1>1. \A r \in dict \cup st.own : r = IdRow(r.id, r.key) /\ r.id \in 1 .. st.n
  BY DEF Tidy, RowsOf
<1> QED
  BY <1>1 DEF Ids, RowsOf

LEMMA PutTermGrows ==
    ASSUME NEW st, Tidy(st), NEW k, NEW late \in BOOLEAN
    PROVE  LET d == PutTerm(st, k, late) IN
           Tidy(d) /\ Grows(st, d) /\ Extends(st, d) /\ k \in DOMAIN d.cache
<1> DEFINE d == PutTerm(st, k, late)
           ids == Ids(st.own, k)
<1>1. CASE k \in DOMAIN st.cache
  <2>1. d = st
    BY <1>1 DEF PutTerm
  <2> HIDE DEF d
  <2> QED
    BY <1>1, <2>1, GrowsSame DEF d
<1>2. CASE k \notin DOMAIN st.cache /\ ids # {}
  <2> DEFINE id == Some(ids, late)
             cache == Learn(st.cache, k, id)
  <2>1. d = [st EXCEPT !.cache = cache]
    BY <1>2 DEF PutTerm
  <2>2. id \in ids /\ IdRow(id, k) \in RowsOf(st)
    BY <1>2, SomeIsOne, IdsAreRows DEF Tidy
  <2> HIDE DEF id
  <2>3. /\ DOMAIN cache = DOMAIN st.cache \cup {k} /\ cache[k] = id
        /\ \A x \in DOMAIN st.cache : cache[x] = st.cache[x]
    BY <1>2 DEF Learn
  <2> HIDE DEF cache, d
  <2>4. d = [own |-> st.own, cache |-> cache, n |-> st.n] /\ d.own = st.own /\ d.cache = cache /\ d.n = st.n
    BY <2>1 DEF Tidy
  <2>5. Tidy(d)
    BY <2>2, <2>3, <2>4 DEF Tidy, RowsOf, Sound
  <2>6. Grows(st, d) /\ Extends(st, d) /\ k \in DOMAIN d.cache
    BY <2>3, <2>4 DEF Grows, Extends, Tidy
  <2> QED
    BY <2>5, <2>6 DEF d
<1>3. CASE k \notin DOMAIN st.cache /\ ids = {}
  <2> DEFINE row == IdRow(st.n + 1, k)
             cache == Learn(st.cache, k, st.n + 1)
  <2>1. d = [own |-> st.own \cup {row}, n |-> st.n + 1, cache |-> cache]
    BY <1>3 DEF PutTerm
  <2>2. \A r \in RowsOf(st) : r.key # k
    BY <1>3, IdsAreRows
  <2>3. /\ DOMAIN cache = DOMAIN st.cache \cup {k} /\ cache[k] = st.n + 1
        /\ \A x \in DOMAIN st.cache : cache[x] = st.cache[x]
    BY <1>3 DEF Learn
  <2>4. row = IdRow(row.id, row.key) /\ row.id = st.n + 1 /\ row.key = k
    BY DEF IdRow
  <2>5. st.n \in Nat /\ st.n + 1 \in Nat /\ st.n + 1 \in 1 .. st.n + 1 /\ 1 .. st.n \subseteq 1 .. st.n + 1
    BY DEF Tidy
  <2> HIDE DEF cache, d
  <2>6. d = [own |-> d.own, cache |-> d.cache, n |-> d.n] /\ d.own = st.own \cup {row} /\ d.cache = cache /\ d.n = st.n + 1
    BY <2>1
  <2>7. Tidy(d)
    <3>1. \A r \in RowsOf(d) : r = IdRow(r.id, r.key) /\ r.id \in 1 .. d.n
      <4> HIDE DEF row
      <4> QED
        BY <2>4, <2>5, <2>6 DEF Tidy, RowsOf
    <3>2. Sound(d.cache, RowsOf(d))
      BY <2>3, <2>6 DEF Tidy, RowsOf, Sound
    <3> QED
      BY <2>5, <2>6, <3>1, <3>2 DEF Tidy
  <2> HIDE DEF row
  <2>8. Grows(st, d)
    BY <2>2, <2>3, <2>4, <2>5, <2>6 DEF Grows
  <2>9. Extends(st, d) /\ k \in DOMAIN d.cache
    BY <2>3, <2>6 DEF Extends
  <2> QED
    BY <2>7, <2>8, <2>9 DEF d
<1> QED
  BY <1>1, <1>2, <1>3

LEMMA PutDtypeGrows ==
    ASSUME NEW st, Tidy(st), NEW t, NEW late \in BOOLEAN
    PROVE  LET d == PutDtype(st, t, late) IN
           /\ Tidy(d) /\ Grows(st, d) /\ Extends(st, d)
           /\ Typed(t) => PlainKey(Dtype(t)) \in DOMAIN d.cache
BY PutTermGrows, GrowsSame DEF PutDtype

LEMMA PutFullGrows ==
    ASSUME NEW st, Tidy(st), NEW t, NEW late \in BOOLEAN
    PROVE  LET d == PutFull(st, t, late) IN
           /\ Tidy(d) /\ Grows(st, d) /\ Extends(st, d)
           /\ Typed(t) => PlainKey(Dtype(t)) \in DOMAIN d.cache
           /\ KeyIn(d.cache, t) \in DOMAIN d.cache
<1> DEFINE typed == PutDtype(st, t, late)
           d == PutTerm(typed, KeyIn(typed.cache, t), late)
<1>1. Tidy(typed) /\ Grows(st, typed) /\ Extends(st, typed) /\ (Typed(t) => PlainKey(Dtype(t)) \in DOMAIN typed.cache)
  BY PutDtypeGrows
<1> HIDE DEF typed
<1>2. Tidy(d) /\ Grows(typed, d) /\ Extends(typed, d) /\ KeyIn(typed.cache, t) \in DOMAIN d.cache
  BY <1>1, PutTermGrows
<1> HIDE DEF d
<1>3. Grows(st, d) /\ Extends(st, d)
  BY <1>1, <1>2, GrowsTrans DEF Tidy
<1>4. KeyIn(d.cache, t) = KeyIn(typed.cache, t)
  BY <1>1, <1>2 DEF KeyIn, Extends
<1> QED
  BY <1>1, <1>2, <1>3, <1>4 DEF PutFull, typed, d, Extends

LEMMA PutBatchGrows ==
    ASSUME NEW st, Tidy(st), NEW S, NEW keys \in Seq(S), IsInjective(keys), NEW late \in BOOLEAN
    PROVE  LET d == PutBatch(st, keys, late) IN
           Tidy(d) /\ Grows(st, d) /\ ToSet(keys) \subseteq DOMAIN d.cache
<1> DEFINE d == PutBatch(st, keys, late)
           X == {k \in ToSet(keys) : Ids(st.own, k) = {}}
           missing == Keep(keys, X)
           new == {IdRow(st.n + i, missing[i]) : i \in DOMAIN missing}
           own == st.own \cup new
           cache == [k \in DOMAIN st.cache \cup ToSet(keys) |->
                        IF k \in ToSet(keys) THEN Some(Ids(own, k), late) ELSE st.cache[k]]
           m == Len(missing)
<1>1. d = [own |-> own, n |-> st.n + m, cache |-> cache]
  BY DEF PutBatch
<1>2. missing \in Seq(S) /\ IsInjective(missing) /\ ToSet(missing) = X
  BY KeepTyped, KeepInjective, KeepToSet
<1>3. \A k \in X : k \in ToSet(keys) /\ \A r \in RowsOf(st) : r.key # k
  BY IdsAreRows
<1>4. \A k \in ToSet(keys) \ X : Ids(st.own, k) # {}
  OBVIOUS
<1>5. st.n \in Nat
  BY DEF Tidy
<1> HIDE DEF X, missing, d
<1>6. /\ m \in Nat /\ DOMAIN missing = 1 .. m /\ \A i \in 1 .. m : missing[i] \in X
      /\ \A k \in X : \E i \in 1 .. m : missing[i] = k
      /\ \A i, k \in 1 .. m : missing[i] = missing[k] => i = k
  BY <1>2 DEF ToSet, IsInjective
<1> HIDE DEF m
<1>7. \A r \in new : \E i \in 1 .. m : r = IdRow(st.n + i, missing[i]) /\ r.id = st.n + i /\ r.key = missing[i]
  BY <1>6 DEF IdRow
<1>8. \A r \in new : r = IdRow(r.id, r.key) /\ r.id \in st.n + 1 .. st.n + m /\ r.key \in X
  BY <1>5, <1>6, <1>7
<1>9. \A k \in X : \E r \in new : r.key = k
  <2> SUFFICES ASSUME NEW k \in X PROVE \E r \in new : r.key = k
    OBVIOUS
  <2>1. PICK i \in 1 .. m : missing[i] = k
    BY <1>6
  <2>2. IdRow(st.n + i, missing[i]) \in new
    BY <1>6
  <2>3. IdRow(st.n + i, missing[i]).key = k
    BY <2>1 DEF IdRow
  <2> QED
    BY <2>2, <2>3
<1>10. \A r1, r2 \in new : r1.id = r2.id \/ r1.key = r2.key => r1 = r2
  <2> SUFFICES ASSUME NEW r1 \in new, NEW r2 \in new, r1.id = r2.id \/ r1.key = r2.key PROVE r1 = r2
    OBVIOUS
  <2>1. PICK i \in 1 .. m : r1 = IdRow(st.n + i, missing[i]) /\ r1.id = st.n + i /\ r1.key = missing[i]
    BY <1>7
  <2>2. PICK k \in 1 .. m : r2 = IdRow(st.n + k, missing[k]) /\ r2.id = st.n + k /\ r2.key = missing[k]
    BY <1>7
  <2>3. i = k
    BY <1>5, <1>6, <2>1, <2>2
  <2> QED
    BY <2>1, <2>2, <2>3
<1> HIDE DEF new
<1>11. \A r \in dict \cup own : r = IdRow(r.id, r.key) /\ r.id \in 1 .. st.n + m
  BY <1>5, <1>6, <1>8 DEF Tidy, RowsOf
<1>12. \A k \in ToSet(keys) : Ids(own, k) # {}
  <2> SUFFICES ASSUME NEW k \in ToSet(keys) PROVE \E r \in dict \cup own : r.key = k
    BY DEF Ids
  <2>1. CASE k \in X
    BY <1>9, <2>1
  <2>2. CASE k \notin X
    BY <1>4, <2>2 DEF Ids
  <2> QED
    BY <2>1, <2>2
<1> HIDE DEF own
<1>13. \A k : Ids(own, k) \subseteq 1 .. st.n + m /\ \A id \in Ids(own, k) : IdRow(id, k) \in dict \cup own
  BY <1>11 DEF Ids
<1>14. \A k \in ToSet(keys) : IdRow(Some(Ids(own, k), late), k) \in dict \cup own
  <2> SUFFICES ASSUME NEW k \in ToSet(keys) PROVE Some(Ids(own, k), late) \in Ids(own, k)
    BY <1>13
  <2>1. Ids(own, k) # {} /\ Ids(own, k) \subseteq 1 .. st.n + m /\ st.n + m \in Nat
    BY <1>5, <1>6, <1>12, <1>13
  <2> QED
    BY <2>1, SomeIsOne
<1>15. DOMAIN cache = DOMAIN st.cache \cup ToSet(keys)
  OBVIOUS
<1>16. Sound(cache, dict \cup own)
  <2>1. \A k \in DOMAIN st.cache : IdRow(st.cache[k], k) \in dict \cup own
    BY DEF Tidy, Sound, RowsOf, own
  <2> QED
    BY <1>14, <2>1 DEF Sound
<1> HIDE DEF cache
<1>17. d.own = own /\ d.n = st.n + m /\ d.cache = cache /\ d = [own |-> d.own, cache |-> d.cache, n |-> d.n]
  BY <1>1
<1>18. Tidy(d)
  BY <1>5, <1>6, <1>11, <1>16, <1>17 DEF Tidy, RowsOf
<1>19. own \ st.own \subseteq new /\ st.own \subseteq own
  BY DEF own
<1>20. Grows(st, d)
  <2>1. d.n \in Nat /\ st.n <= d.n /\ st.own \subseteq d.own /\ DOMAIN st.cache \subseteq DOMAIN d.cache
    BY <1>5, <1>6, <1>15, <1>17, <1>19
  <2>2. ASSUME NEW r \in d.own \ st.own
        PROVE  r = IdRow(r.id, r.key) /\ r.id \in st.n + 1 .. d.n /\ \A x \in RowsOf(st) : x.key # r.key
    BY <1>3, <1>8, <1>17, <1>19
  <2>3. \A r1, r2 \in d.own \ st.own : r1.id = r2.id \/ r1.key = r2.key => r1 = r2
    BY <1>10, <1>17, <1>19
  <2> QED
    BY <2>1, <2>2, <2>3 DEF Grows
<1> QED
  BY <1>15, <1>17, <1>18, <1>20 DEF d

-----------------------------------------------------------------------------
\* What the loaders of an empty dictionary insert.

FreshRows(keys, ids) == {IdRow(ids[i], keys[i]) : i \in DOMAIN keys}
FreshCache(cache, keys, ids) ==
    [k \in DOMAIN cache \cup ToSet(keys) |->
        IF k \in ToSet(keys) THEN ids[CHOOSE i \in DOMAIN keys : keys[i] = k] ELSE cache[k]]

\* Each key has a row, under an id of its own, and is cached with it.
FreshIs(keys, ids, cache) ==
    /\ \A r \in FreshRows(keys, ids) : r = IdRow(r.id, r.key) /\ r.key \in ToSet(keys)
    /\ \A r \in FreshRows(keys, ids) : \E i \in 1 .. Len(keys) : r.id = ids[i]
    /\ \A r1, r2 \in FreshRows(keys, ids) : r1.id = r2.id \/ r1.key = r2.key => r1 = r2
    /\ DOMAIN FreshCache(cache, keys, ids) = DOMAIN cache \cup ToSet(keys)
    /\ \A k \in ToSet(keys) : IdRow(FreshCache(cache, keys, ids)[k], k) \in FreshRows(keys, ids)
    /\ \A k \in DOMAIN cache \ ToSet(keys) : FreshCache(cache, keys, ids)[k] = cache[k]

LEMMA FreshFacts ==
    ASSUME NEW S, NEW keys \in Seq(S), IsInjective(keys), NEW ids \in Seq(Nat), IsInjective(ids),
           Len(keys) <= Len(ids), NEW cache
    PROVE  FreshIs(keys, ids, cache)
<1> DEFINE rows == FreshRows(keys, ids)
           m == Len(keys)
<1>1. /\ m \in Nat /\ DOMAIN keys = 1 .. m /\ 1 .. m \subseteq DOMAIN ids
      /\ \A i, k \in 1 .. m : keys[i] = keys[k] \/ ids[i] = ids[k] => i = k
      /\ \A i \in 1 .. m : keys[i] \in ToSet(keys)
      /\ \A k \in ToSet(keys) : \E i \in 1 .. m : keys[i] = k
  BY DEF IsInjective, ToSet
<1> HIDE DEF m
<1>2. \A r \in rows : \E i \in 1 .. m : r = IdRow(ids[i], keys[i]) /\ r.id = ids[i] /\ r.key = keys[i]
  BY <1>1 DEF FreshRows, IdRow
<1>3. ASSUME NEW k \in ToSet(keys)
      PROVE  IdRow(FreshCache(cache, keys, ids)[k], k) \in rows
  <2> DEFINE i == CHOOSE i \in DOMAIN keys : keys[i] = k
  <2>1. i \in DOMAIN keys /\ keys[i] = k
    BY <1>1
  <2> HIDE DEF i
  <2>2. FreshCache(cache, keys, ids)[k] = ids[i]
    BY DEF FreshCache, i
  <2> QED
    BY <2>1, <2>2 DEF FreshRows
<1>4. /\ DOMAIN FreshCache(cache, keys, ids) = DOMAIN cache \cup ToSet(keys)
      /\ \A k \in DOMAIN cache \ ToSet(keys) : FreshCache(cache, keys, ids)[k] = cache[k]
  BY DEF FreshCache
<1> HIDE DEF rows
<1>5. /\ \A r \in rows : r = IdRow(r.id, r.key) /\ r.key \in ToSet(keys)
      /\ \A r \in rows : \E i \in 1 .. m : r.id = ids[i]
  BY <1>1, <1>2
<1>6. \A r1, r2 \in rows : r1.id = r2.id \/ r1.key = r2.key => r1 = r2
  BY <1>1, <1>2
<1> QED
  BY <1>3, <1>4, <1>5, <1>6 DEF rows, m, FreshIs

\* The ids that are left over are none of those.
LEMMA PoolFacts ==
    ASSUME NEW ids \in Seq(Nat), IsInjective(ids), NEW m \in 0 .. Len(ids)
    PROVE  LET pool == SubSeq(ids, m + 1, Len(ids)) IN
           /\ pool \in Seq(Nat) /\ IsInjective(pool) /\ ToSet(pool) \subseteq ToSet(ids)
           /\ \A i \in 1 .. m : ids[i] \notin ToSet(pool)
           /\ Len(ids) = m => pool = <<>>
<1> DEFINE pool == SubSeq(ids, m + 1, Len(ids))
           n == Len(pool)
<1>1. /\ m \in Nat /\ pool \in Seq(Nat) /\ Len(pool) = Len(ids) - m /\ Len(pool) \in Nat
      /\ \A i \in 1 .. Len(pool) : pool[i] = ids[m + i] /\ m + i \in DOMAIN ids /\ m + i > m
      /\ 1 .. m \subseteq DOMAIN ids
  OBVIOUS
<1>2. Len(ids) = m => pool = <<>>
  BY <1>1
<1> HIDE DEF pool
<1>3. DOMAIN pool = 1 .. n /\ n \in Nat
  BY <1>1
<1>4. IsInjective(pool)
  <2> SUFFICES ASSUME NEW i \in 1 .. n, NEW k \in 1 .. n, pool[i] = pool[k] PROVE i = k
    BY <1>3 DEF IsInjective
  <2>1. m + i = m + k
    BY <1>1 DEF IsInjective
  <2> QED
    BY <1>1, <1>3, <2>1
<1>5. ToSet(pool) \subseteq ToSet(ids)
  BY <1>1, <1>3 DEF ToSet
<1>6. ASSUME NEW i \in 1 .. m
      PROVE  ids[i] \notin ToSet(pool)
  <2> SUFFICES ASSUME NEW k \in 1 .. n, pool[k] = ids[i] PROVE FALSE
    BY <1>3 DEF ToSet
  <2>1. m + k = i
    BY <1>1 DEF IsInjective
  <2> QED
    BY <1>1, <2>1
<1> QED
  BY <1>1, <1>2, <1>4, <1>5, <1>6 DEF pool

\* The keys of finitely many statements are finitely many.
IsSeq(q) == q \in Seq(ToSet(q))
LEMMA IsSeqFacts ==
    /\ IsSeq(<<>>)
    /\ \A S : \A q \in Seq(S) : IsSeq(q)
    /\ \A q, e : IsSeq(q) => IsSeq(Append(q, e))
    /\ \A q, n : n \in Nat /\ q = [i \in 1 .. n |-> q[i]] => IsSeq(q)
<1>1. \A S : \A q \in Seq(S) : IsSeq(q)
  BY ToSetFacts DEF IsSeq
<1>2. IsSeq(<<>>)
  <2>1. <<>> \in Seq({})
    OBVIOUS
  <2> QED
    BY <1>1, <2>1
<1>3. ASSUME NEW q, NEW e, IsSeq(q)
      PROVE  IsSeq(Append(q, e))
  <2>1. Append(q, e) \in Seq(ToSet(q) \cup {e})
    BY <1>3 DEF IsSeq
  <2> QED
    BY <1>1, <2>1
<1>4. ASSUME NEW q, NEW n \in Nat, q = [i \in 1 .. n |-> q[i]]
      PROVE  IsSeq(q)
  <2>1. q \in [1 .. n -> ToSet(q)]
    BY <1>4 DEF ToSet
  <2> QED
    BY <2>1 DEF IsSeq
<1> QED
  BY <1>1, <1>2, <1>3, <1>4

LEMMA FiniteImage ==
    ASSUME NEW S, IsFiniteSet(S), NEW f
    PROVE  IsFiniteSet({f[x] : x \in S})
<1> DEFINE T == {f[x] : x \in S}
           h == [x \in S |-> f[x]]
<1>1. h \in Surjection(S, T)
  BY DEF Surjection
<1> QED
  BY <1>1, FS_Surjection

LEMMA TermsFinite ==
    ASSUME NEW sts, IsSeq(sts)
    PROVE  IsFiniteSet(TermsOf(sts))
<1> DEFINE f == [i \in DOMAIN sts |-> {sts[i].t[m] : m \in 1 .. 3}]
           D == DOMAIN sts
<1>1. IsFiniteSet(D)
  <2>1. D = 1 .. Len(sts) /\ Len(sts) \in Nat
    BY DEF IsSeq
  <2> QED
    BY <2>1, FS_Interval
<1>2. TermsOf(sts) = UNION {f[i] : i \in D}
  BY DEF TermsOf
<1>3. ASSUME NEW i \in D
      PROVE  IsFiniteSet(f[i])
  <2> DEFINE g == sts[i].t
  <2>1. IsFiniteSet(1 .. 3)
    <3>1. 1 \in Int /\ 3 \in Int
      OBVIOUS
    <3> QED
      BY <3>1, FS_Interval
  <2>2. IsFiniteSet({g[m] : m \in 1 .. 3})
    BY <2>1, FiniteImage
  <2> QED
    BY <2>2
<1> HIDE DEF f, D
<1>4. IsFiniteSet({f[i] : i \in D})
  BY <1>1, FiniteImage
<1> QED
  BY <1>2, <1>3, <1>4, FS_UNION

LEMMA KeysFinite ==
    ASSUME NEW sts, IsSeq(sts), NEW cache
    PROVE  /\ IsFiniteSet(DtypeKeys(sts)) /\ IsFiniteSet(PlainKeys(sts))
           /\ IsFiniteSet(LiteralKeys(sts, cache))
<1> DEFINE T == TermsOf(sts)
           A == {t \in T : Typed(t)}
           B == {t \in T : ~Typed(t)}
           f == [t \in T |-> PlainKey(Dtype(t))]
           g == [t \in T |-> PlainKey(t)]
           h == [t \in T |-> KeyIn(cache, t)]
<1>1. IsFiniteSet(T)
  BY TermsFinite
<1> HIDE DEF T
<1>2. IsFiniteSet(A) /\ IsFiniteSet(B)
  BY <1>1, FS_Subset
<1>3. DtypeKeys(sts) = {f[t] : t \in A} /\ PlainKeys(sts) = {g[t] : t \in B} /\ LiteralKeys(sts, cache) = {h[t] : t \in A}
  BY DEF DtypeKeys, PlainKeys, LiteralKeys, T
<1> HIDE DEF A, B, f, g, h
<1> QED
  BY <1>2, <1>3, FiniteImage

LEMMA NewKeysFinite ==
    ASSUME NEW j, IsSeq(j.pending)
    PROVE  IsFiniteSet(NewKeys(j))
<1>1. /\ IsFiniteSet(DtypeKeys(j.pending)) /\ IsFiniteSet(PlainKeys(j.pending))
      /\ IsFiniteSet(LiteralKeys(j.pending, j.cache))
  BY KeysFinite
<1>2. IsFiniteSet(PlainKeys(j.pending) \cup DtypeKeys(j.pending))
  BY <1>1, FS_Union
<1>3. NewKeys(j) \in {(PlainKeys(j.pending) \cup DtypeKeys(j.pending)) \ DOMAIN j.cache,
                      LiteralKeys(j.pending, j.cache) \ DOMAIN j.cache}
  BY DEF NewKeys
<1>4. /\ IsFiniteSet((PlainKeys(j.pending) \cup DtypeKeys(j.pending)) \ DOMAIN j.cache)
      /\ IsFiniteSet(LiteralKeys(j.pending, j.cache) \ DOMAIN j.cache)
  BY <1>1, <1>2, FS_Difference
<1> QED
  BY <1>3, <1>4

-----------------------------------------------------------------------------
\* What becomes of the waiting statements.

LEMMA DrainRecord ==
    ASSUME NEW j, Rec(j)
    PROVE  /\ Rec(Drain(j)) /\ Drain(j).pending = <<>>
           /\ Drain(j).batch = j.batch \o [i \in DOMAIN j.pending |-> IdsOf(j.cache, j.pending[i])]
<1>1. Rec(Drain(j))
  BY DrainKeeps DEF Keeps
<1>2. /\ Drain(j).pending = <<>>
      /\ Drain(j).batch = j.batch \o [i \in DOMAIN j.pending |-> IdsOf(j.cache, j.pending[i])]
  BY DEF Rec, Fields, Drain
<1> QED
  BY <1>1, <1>2

KeyedJob(j, q) == [j EXCEPT !.pending = q]
LEMMA KeyedRecord ==
    ASSUME NEW j, Rec(j), NEW q
    PROVE  Keeps(j, KeyedJob(j, q), {"pending"}) /\ KeyedJob(j, q).pending = q
<1>1. Rec(KeyedJob(j, q))
  BY DEF Rec, Fields, KeyedJob
<1>2. KeyedJob(j, q).pending = q /\ \A f \in Fields \ {"pending"} : KeyedJob(j, q)[f] = j[f]
  BY DEF Rec, Fields, KeyedJob
<1> QED
  BY <1>1, <1>2 DEF Keeps

LEMMA DrainKeyedRecord ==
    ASSUME NEW j, Rec(j)
    PROVE  /\ Rec(DrainKeyed(j)) /\ DrainKeyed(j).pending = <<>>
           /\ DrainKeyed(j).batch = j.batch \o [i \in DOMAIN j.pending |-> IdsOf(j.cache, KeysOf(j.cache, j.pending[i]))]
<1> DEFINE q == [i \in DOMAIN j.pending |-> KeysOf(j.cache, j.pending[i])]
<1>1. DrainKeyed(j) = Drain(KeyedJob(j, q))
  BY DEF DrainKeyed, KeyedJob
<1>2. DOMAIN q = DOMAIN j.pending /\ \A i \in DOMAIN j.pending : q[i] = KeysOf(j.cache, j.pending[i])
  OBVIOUS
<1> HIDE DEF q
<1>3. Keeps(j, KeyedJob(j, q), {"pending"}) /\ KeyedJob(j, q).pending = q
  BY KeyedRecord
<1>4. KeyedJob(j, q).cache = j.cache /\ KeyedJob(j, q).batch = j.batch /\ Rec(KeyedJob(j, q))
  BY <1>3 DEF Keeps, Fields
<1>5. /\ Rec(DrainKeyed(j)) /\ DrainKeyed(j).pending = <<>>
      /\ DrainKeyed(j).batch = j.batch \o [i \in DOMAIN q |-> IdsOf(j.cache, q[i])]
  BY <1>1, <1>3, <1>4, DrainRecord
<1> QED
  BY <1>2, <1>5

LEMMA CombineCases ==
    ASSUME NEW j, Rec(j)
    PROVE  \/ j.queue # <<>> /\ Combine(j) = [j EXCEPT !.at = "terms"]
           \/ j.queue = <<>> /\ Combine(j) = Onward(Drain(j))
           \/ j.lines # <<>> /\ Combine(j) = [j EXCEPT !.at = "lines"]
<1> DEFINE rows == Len(j.pending) >= BATCH \/ j.lines = <<>>
           one == j.queue # <<>> /\ (rows \/ Len(j.queue) >= DictBatch)
           two == j.queue = <<>> /\ rows
<1>1. Combine(j) = CASE one -> [j EXCEPT !.at = "terms"]
                     [] two -> Onward(Drain(j))
                     [] OTHER -> [j EXCEPT !.at = "lines"]
  BY DEF Combine
<1>2. (one => ~two /\ j.queue # <<>>) /\ (two => j.queue = <<>>) /\ (~one /\ ~two => j.lines # <<>>)
  OBVIOUS
<1> HIDE DEF one, two
<1> QED
  BY <1>1, <1>2

\* The keys a document read at one time still lacks.
Wanted(j) ==
    IF DtypeKeys(j.pending) \subseteq DOMAIN j.cache
    THEN ((DtypeKeys(j.pending) \cup PlainKeys(j.pending)) \ DOMAIN j.cache)
         \cup (LiteralKeys(j.pending, j.cache) \ DOMAIN j.cache)
    ELSE DtypeKeys(j.pending)
Known3(j) == /\ DtypeKeys(j.pending) \subseteq DOMAIN j.cache /\ PlainKeys(j.pending) \subseteq DOMAIN j.cache
             /\ LiteralKeys(j.pending, j.cache) \subseteq DOMAIN j.cache
ChunkJob(j, q) == [j EXCEPT !.queue = q, !.at = "chunk"]
LEMMA ChunkRecord ==
    ASSUME NEW j, Rec(j), NEW q
    PROVE  Keeps(j, ChunkJob(j, q), {"queue", "at"}) /\ ChunkJob(j, q).queue = q /\ ChunkJob(j, q).at = "chunk"
<1>1. Rec(ChunkJob(j, q))
  BY DEF Rec, Fields, ChunkJob
<1>2. /\ ChunkJob(j, q).queue = q /\ ChunkJob(j, q).at = "chunk"
      /\ \A f \in Fields \ {"queue", "at"} : ChunkJob(j, q)[f] = j[f]
  BY DEF Rec, Fields, ChunkJob
<1> QED
  BY <1>1, <1>2 DEF Keeps

LEMMA BatchedCases ==
    ASSUME NEW j, Rec(j)
    PROVE  \/ j.queue # <<>> /\ Batched(j) = [j EXCEPT !.at = "chunk"]
           \/ j.queue = <<>> /\ Batched(j) = ChunkJob(j, Listed(Wanted(j)))
           \/ j.queue = <<>> /\ Known3(j) /\ Batched(j) = Onward(DrainKeyed(j))
<1> DEFINE one == j.queue # <<>>
           two == j.queue = <<>> /\ Wanted(j) # {}
<1>1. Batched(j) = CASE one -> [j EXCEPT !.at = "chunk"]
                     [] two -> ChunkJob(j, Listed(Wanted(j)))
                     [] OTHER -> Onward(DrainKeyed(j))
  BY DEF Batched, ChunkJob, Wanted
<1>2. ~one /\ ~two => Known3(j)
  BY DEF Wanted, Known3
<1>3. one => ~two
  OBVIOUS
<1>4. (one => j.queue # <<>>) /\ (~one => j.queue = <<>>)
  OBVIOUS
<1> HIDE DEF one, two
<1> QED
  BY <1>1, <1>2, <1>3, <1>4

LEMMA WantedFinite ==
    ASSUME NEW j, IsSeq(j.pending)
    PROVE  IsFiniteSet(Wanted(j))
<1>1. /\ IsFiniteSet(DtypeKeys(j.pending)) /\ IsFiniteSet(PlainKeys(j.pending))
      /\ IsFiniteSet(LiteralKeys(j.pending, j.cache))
  BY KeysFinite
<1>2. IsFiniteSet(DtypeKeys(j.pending) \cup PlainKeys(j.pending))
  BY <1>1, FS_Union
<1>3. /\ IsFiniteSet((DtypeKeys(j.pending) \cup PlainKeys(j.pending)) \ DOMAIN j.cache)
      /\ IsFiniteSet(LiteralKeys(j.pending, j.cache) \ DOMAIN j.cache)
  BY <1>1, <1>2, FS_Difference
<1> QED
  BY <1>1, <1>3, FS_Union DEF Wanted

-----------------------------------------------------------------------------
\* Every id is given out once.

AllRows == dict \cup UNION {job[s].own : s \in Session}
RowIds == {r.id : r \in AllRows}
\* Ids a load has taken and not used yet are behind the sequence and nobody
\* else's, as long as it locks the dictionary out.
Stocked(j, locks) ==
    /\ j.pool \in Seq(Nat) /\ IsInjective(j.pool) /\ ToSet(j.pool) \subseteq (1 .. lastId) \ RowIds
    /\ j.lo \in {0, lastId} /\ (j.lo # 0 => j.lo \notin ToSet(j.pool) \cup RowIds)
    /\ (j.pool # <<>> \/ j.lo # 0 => Dict("AX") \in locks)
\* Which path takes which steps, and what a rebuild has cached.
Course(j, locks) ==
    /\ j.at = "idle" => j = Idle
    /\ j.at \in {"window", "uris", "literals"} => j.path \in Rebuilds
    /\ j.at \in {"lines", "terms", "chunk", "parse", "record", "bind", "create"} => j.path \notin Rebuilds
    /\ j.path = "stream" /\ j.at \in Reading => Dict("AX") \in locks
    /\ j.path = "bulk" => j.lo = 0
    /\ j.path \in Rebuilds => \A r \in j.own : r.key \in DOMAIN j.cache
    /\ IsSeq(j.queue) /\ IsInjective(j.queue) /\ IsSeq(j.pending)
Numbered ==
    /\ lastId \in Nat
    /\ \A r \in AllRows : r = IdRow(r.id, r.key) /\ r.id \in 1 .. lastId
    /\ \A r1, r2 \in AllRows : r1.id = r2.id => r1 = r2
    /\ \A s \in Session : /\ Stocked(job[s], held[s]) /\ Course(job[s], held[s])
                          /\ Sound(job[s].cache, dict \cup job[s].own)
\* While loads follow one another, a key has one row.
Single ==
    ~raced => /\ \A s, t \in Session : s # t => job[s].at = "idle" \/ job[t].at = "idle"
              /\ \A r1, r2 \in AllRows : r1.key = r2.key => r1 = r2
              /\ \A s \in Session : job[s].path \in Rebuilds /\ job[s].at # "probe" => dict = {}

LEMMA StepJobs ==
    ASSUME Jobs, NEW s \in Session, NEW k, Step(s, k)
    PROVE  job'[s] = k /\ \A t \in Session : t # s => job'[t] = job[t]
BY DEF Step, Jobs

LEMMA StepRows ==
    ASSUME Jobs, NEW s \in Session, NEW k, Step(s, k), dict' = dict, job[s].own \subseteq k.own
    PROVE  AllRows' = AllRows \cup (k.own \ job[s].own)
<1>1. job'[s] = k /\ \A t \in Session : t # s => job'[t] = job[t]
  BY StepJobs
<1>2. AllRows' \subseteq AllRows \cup (k.own \ job[s].own)
  <2> SUFFICES ASSUME NEW r \in AllRows', r \notin AllRows PROVE r \in k.own \ job[s].own
    OBVIOUS
  <2>1. PICK t \in Session : r \in job'[t].own
    BY DEF AllRows
  <2> QED
    BY <1>1, <2>1 DEF AllRows
<1>3. k.own \subseteq AllRows'
  BY <1>1 DEF AllRows
<1>4. AllRows \subseteq AllRows'
  <2> SUFFICES ASSUME NEW r \in AllRows, r \notin dict PROVE r \in AllRows'
    BY DEF AllRows
  <2>1. PICK t \in Session : r \in job[t].own
    BY DEF AllRows
  <2> QED
    BY <1>1, <2>1 DEF AllRows
<1> QED
  BY <1>2, <1>3, <1>4

\* The rows that a step of s adds when it makes k of the load, with the ids it
\* takes for them and into stock; and for keys that had no row.
NewRows(s, k) == k.own \ job[s].own
AddsIds(s, k) ==
    /\ job[s].own \subseteq k.own /\ lastId' \in Nat /\ lastId <= lastId'
    /\ \A r \in NewRows(s, k) : r = IdRow(r.id, r.key) /\ r.id \in (lastId + 1 .. lastId') \cup ToSet(job[s].pool)
    /\ \A r1, r2 \in NewRows(s, k) : r1.id = r2.id => r1 = r2
    /\ k.pool \in Seq(Nat) /\ IsInjective(k.pool)
    /\ ToSet(k.pool) \subseteq (lastId + 1 .. lastId') \cup ToSet(job[s].pool) \cup ({job[s].lo} \ {0})
    /\ \A r \in NewRows(s, k) : r.id \notin ToSet(k.pool)
    /\ k.lo \in {0, lastId'}
    /\ k.lo # 0 => k.lo \notin ToSet(k.pool) \cup RowIds \cup {r.id : r \in NewRows(s, k)}
    /\ k.pool # <<>> \/ k.lo # 0 => Dict("AX") \in held'[s]
    /\ \A t \in Session \ {s} : held'[t] = held[t]
    /\ lastId' # lastId \/ NewRows(s, k) # {} => \A t \in Session \ {s} : Dict("AX") \notin held[t]
AddsKeys(s, k) ==
    /\ \A r \in NewRows(s, k), x \in dict \cup job[s].own : x.key # r.key
    /\ \A r1, r2 \in NewRows(s, k) : r1.key = r2.key => r1 = r2

LEMMA NumberedStep ==
    ASSUME Locking, Numbered, NEW s \in Session, NEW k, Step(s, k), dict' = dict, AddsIds(s, k),
           Sound(k.cache, dict \cup k.own), Course(k, held'[s])
    PROVE  Numbered'
<1> DEFINE new == NewRows(s, k)
<1>a. /\ job[s].own \subseteq k.own /\ lastId' \in Nat /\ lastId <= lastId'
      /\ \A r \in new : r = IdRow(r.id, r.key) /\ r.id \in (lastId + 1 .. lastId') \cup ToSet(job[s].pool)
      /\ \A r1, r2 \in new : r1.id = r2.id => r1 = r2
      /\ k.pool \in Seq(Nat) /\ IsInjective(k.pool)
      /\ ToSet(k.pool) \subseteq (lastId + 1 .. lastId') \cup ToSet(job[s].pool) \cup ({job[s].lo} \ {0})
      /\ \A r \in new : r.id \notin ToSet(k.pool)
      /\ k.lo \in {0, lastId'}
      /\ k.lo # 0 => k.lo \notin ToSet(k.pool) \cup RowIds \cup {r.id : r \in new}
      /\ k.pool # <<>> \/ k.lo # 0 => Dict("AX") \in held'[s]
      /\ \A t \in Session \ {s} : held'[t] = held[t]
      /\ lastId' # lastId \/ new # {} => \A t \in Session \ {s} : Dict("AX") \notin held[t]
  BY DEF AddsIds
<1>b. new = k.own \ job[s].own
  BY DEF NewRows
<1> HIDE DEF new
<1>1. job'[s] = k /\ \A t \in Session : t # s => job'[t] = job[t]
  BY StepJobs DEF Locking
<1>2. AllRows' = AllRows \cup new
  BY <1>a, <1>b, StepRows DEF Locking
<1>3. Stocked(job[s], held[s])
  BY DEF Numbered
<1>4. lastId \in Nat /\ 1 .. lastId \subseteq 1 .. lastId' /\ lastId + 1 .. lastId' \subseteq 1 .. lastId'
  BY <1>a DEF Numbered
<1>5. ToSet(job[s].pool) \subseteq 1 .. lastId
  BY <1>3 DEF Stocked
<1>6. \A r \in AllRows' : r = IdRow(r.id, r.key) /\ r.id \in 1 .. lastId'
  <2>1. \A r \in AllRows : r = IdRow(r.id, r.key) /\ r.id \in 1 .. lastId'
    BY <1>4 DEF Numbered
  <2>2. \A r \in new : r = IdRow(r.id, r.key) /\ r.id \in 1 .. lastId'
    BY <1>4, <1>5, <1>a
  <2> QED
    BY <1>2, <2>1, <2>2
<1>7. \A r1 \in AllRows, r2 \in new : r1.id # r2.id
  <2>1. \A r \in AllRows : r.id \in 1 .. lastId /\ r.id \in RowIds
    BY DEF Numbered, RowIds
  <2>2. \A id \in ToSet(job[s].pool) : id \notin RowIds
    BY <1>3 DEF Stocked
  <2> QED
    BY <1>4, <1>a, <2>1, <2>2
<1>8. \A r1, r2 \in AllRows' : r1.id = r2.id => r1 = r2
  <2>1. \A r1, r2 \in AllRows : r1.id = r2.id => r1 = r2
    BY DEF Numbered
  <2> QED
    BY <1>2, <1>7, <1>a, <2>1
<1>9. RowIds' = RowIds \cup {r.id : r \in new}
  BY <1>2 DEF RowIds
<1>10. \A i \in ToSet(k.pool) : i \in (1 .. lastId') /\ i \notin RowIds'
  <2> SUFFICES ASSUME NEW i \in ToSet(k.pool) PROVE i \in 1 .. lastId' /\ i \notin RowIds
    BY <1>9, <1>a
  <2>1. \A r \in RowIds : r \in 1 .. lastId
    BY DEF RowIds, Numbered
  <2>2. CASE i \in lastId + 1 .. lastId'
    BY <1>4, <2>1, <2>2
  <2>3. CASE i \in ToSet(job[s].pool)
    BY <1>3, <1>4, <2>3 DEF Stocked
  <2>4. CASE i = job[s].lo /\ job[s].lo # 0
    <3>1. i = lastId /\ i # 0 /\ i \notin RowIds
      BY <1>3, <2>4 DEF Stocked
    <3> QED
      BY <1>4, <3>1
  <2> QED
    BY <1>a, <2>2, <2>3, <2>4
<1>11. Stocked(k, held[s])'
  BY <1>9, <1>10, <1>a DEF Stocked
<1>12. ASSUME NEW t \in Session, t # s
       PROVE  (Stocked(job[t], held[t]) /\ Course(job[t], held[t]) /\ Sound(job[t].cache, dict \cup job[t].own))'
  <2>1. Stocked(job[t], held[t]) /\ Course(job[t], held[t]) /\ Sound(job[t].cache, dict \cup job[t].own)
    BY DEF Numbered
  <2>2. job'[t] = job[t] /\ held'[t] = held[t]
    BY <1>1, <1>12, <1>a
  <2>3. (job[t].pool # <<>> \/ job[t].lo # 0) => lastId' = lastId /\ new = {}
    BY <1>12, <1>a, <2>1 DEF Stocked
  <2>4. \A j : (j.pool # <<>> \/ j.lo # 0 => lastId' = lastId /\ new = {}) /\ Stocked(j, held[t]) => Stocked(j, held[t])'
    <3> SUFFICES ASSUME NEW j, j.pool # <<>> \/ j.lo # 0 => lastId' = lastId /\ new = {}, Stocked(j, held[t])
                 PROVE  Stocked(j, held[t])'
      OBVIOUS
    <3>1. CASE j.pool # <<>> \/ j.lo # 0
      <4>1. RowIds' = RowIds /\ lastId' = lastId
        BY <1>9, <3>1
      <4> QED
        BY <2>2, <4>1 DEF Stocked
    <3>2. CASE j.pool = <<>> /\ j.lo = 0
      <4>1. ToSet(j.pool) = {}
        BY <3>2, ToSetFacts
      <4> QED
        BY <3>2, <4>1 DEF Stocked
    <3> QED
      BY <3>1, <3>2
  <2>5. Stocked(job[t], held[t])'
    BY <2>1, <2>2, <2>3, <2>4
  <2>6. Course(job[t], held[t])' /\ Sound(job[t].cache, dict \cup job[t].own)'
    BY <2>1, <2>2 DEF Course, Sound
  <2> QED
    BY <2>5, <2>6
<1>13. \A t \in Session : (Stocked(job[t], held[t]) /\ Course(job[t], held[t]) /\ Sound(job[t].cache, dict \cup job[t].own))'
  <2>1. (Stocked(job[s], held[s]) /\ Course(job[s], held[s]) /\ Sound(job[s].cache, dict \cup job[s].own))'
    BY <1>1, <1>11 DEF Stocked, Course, Sound
  <2> QED
    BY <1>12, <2>1
<1> QED
  BY <1>6, <1>8, <1>13, <1>a DEF Numbered

\* The same step, seen by the keys: a load that has the dictionary to itself
\* adds rows for keys that had none.
LEMMA SingleStep ==
    ASSUME Locking, Numbered, Single, NEW s \in Session, NEW k, Step(s, k), dict' = dict, raced' = raced,
           job[s].own \subseteq k.own, job[s].at # "idle", ~raced => AddsKeys(s, k),
           k.path \in Rebuilds /\ k.at # "probe" => (job[s].path \in Rebuilds /\ job[s].at # "probe") \/ dict = {}
    PROVE  Single'
<1> DEFINE new == NewRows(s, k)
<1>1. job'[s] = k /\ \A t \in Session : t # s => job'[t] = job[t]
  BY StepJobs DEF Locking
<1>2. AllRows' = AllRows \cup new
  BY StepRows DEF Locking, NewRows
<1> SUFFICES ASSUME ~raced
             PROVE  /\ \A t, u \in Session : t # u => job'[t].at = "idle" \/ job'[u].at = "idle"
                    /\ \A r1, r2 \in AllRows' : r1.key = r2.key => r1 = r2
                    /\ \A t \in Session : job'[t].path \in Rebuilds /\ job'[t].at # "probe" => dict = {}
  BY DEF Single
<1>3. \A t \in Session : t # s => job[t] = Idle /\ job'[t] = Idle
  BY <1>1 DEF Single, Numbered, Course
<1>4. Idle.at = "idle" /\ Idle.own = {} /\ Idle.path \notin Rebuilds
  BY DEF Idle, Rebuilds
<1>5. AllRows = dict \cup job[s].own
  BY <1>3, <1>4 DEF AllRows
<1>6. \A t, u \in Session : t # u => job'[t].at = "idle" \/ job'[u].at = "idle"
  BY <1>3, <1>4
<1>7. \A r1, r2 \in AllRows' : r1.key = r2.key => r1 = r2
  <2>1. \A r1, r2 \in AllRows : r1.key = r2.key => r1 = r2
    BY DEF Single
  <2>2. /\ \A r \in new, x \in dict \cup job[s].own : x.key # r.key
        /\ \A r1, r2 \in new : r1.key = r2.key => r1 = r2
    BY DEF AddsKeys
  <2> QED
    BY <1>2, <1>5, <2>1, <2>2
<1>8. \A t \in Session : job'[t].path \in Rebuilds /\ job'[t].at # "probe" => dict = {}
  BY <1>1, <1>3, <1>4 DEF Single
<1> QED
  BY <1>6, <1>7, <1>8

LEMMA GrantedLocks ==
    ASSUME Locking, NEW s \in Session, Granted(s)
    PROVE  /\ held'[s] = held[s] \cup Wants(s)
           /\ \A t \in Session \ {s} : held'[t] = held[t]
           /\ Dict("RX") \in Wants(s) => \A t \in Session \ {s} : Dict("AX") \notin held[t]
<1>1. Conflict(Dict("RX"), Dict("AX"))
  BY DEF Conflict, Dict
<1>2. \A t \in Session \ {s} : \A x \in Wants(s), y \in held[t] : ~Conflict(x, y)
  BY DEF Granted, Waits
<1> QED
  BY <1>1, <1>2 DEF Granted, Locking, Jobs

\* A step that leaves the load's dictionary state alone.
LEMMA QuietStep ==
    ASSUME Locking, Numbered, Single, NEW s \in Session, NEW k, Step(s, k),
           dict' = dict, lastId' = lastId, raced' = raced, job[s].at # "idle",
           k.own = job[s].own, k.cache = job[s].cache, k.pool = job[s].pool, k.lo = job[s].lo,
           held' = held \/ Granted(s), Course(k, held'[s]),
           k.path \in Rebuilds /\ k.at # "probe" => (job[s].path \in Rebuilds /\ job[s].at # "probe") \/ dict = {}
    PROVE  Numbered' /\ Single'
<1>1. held[s] \subseteq held'[s] /\ \A t \in Session \ {s} : held'[t] = held[t]
  BY GrantedLocks
<1>2. Stocked(job[s], held[s]) /\ Sound(job[s].cache, dict \cup job[s].own) /\ lastId \in Nat
  BY DEF Numbered
<1>3. NewRows(s, k) = {}
  BY DEF NewRows
<1>4. AddsIds(s, k)
  BY <1>1, <1>2, <1>3 DEF Stocked, AddsIds
<1>5. AddsKeys(s, k) /\ job[s].own \subseteq k.own /\ Sound(k.cache, dict \cup k.own)
  BY <1>2, <1>3 DEF AddsKeys
<1>6. Numbered'
  BY <1>4, <1>5, NumberedStep
<1>7. Single'
  BY <1>5, SingleStep
<1> QED
  BY <1>6, <1>7

\* A step that asks the dictionary, term by term or in a batch.
LEMMA PutStep ==
    ASSUME Locking, Numbered, Single, NEW s \in Session, NEW k, Step(s, k), UNCHANGED <<tables, raced>>,
           job[s].at # "idle", job[s].path \notin Rebuilds, Granted(s), Dict("RX") \in Wants(s),
           NEW d, Tidy(d), Grows(State(job[s]), d), lastId' = d.n,
           k.own = d.own, k.cache = d.cache, k.pool = job[s].pool, k.lo = job[s].lo, k.path = job[s].path,
           k.at \notin {"idle", "window", "uris", "literals"},
           IsSeq(k.queue), IsInjective(k.queue), IsSeq(k.pending)
    PROVE  Numbered' /\ Single'
<1>1. /\ Stocked(job[s], held[s]) /\ lastId \in Nat /\ Custody(job[s], held[s])
      /\ dict' = dict /\ raced' = raced
  BY DEF Numbered, Locking, tables
<1>2. job[s].pool = <<>> /\ job[s].lo = 0
  <2>1. Dict("AX") \notin held[s]
    BY <1>1 DEF Custody
  <2> QED
    BY <1>1, <2>1 DEF Stocked
<1>3. ToSet(<<>>) = {} /\ IsInjective(<<>>) /\ <<>> \in Seq(Nat)
  BY ToSetFacts DEF IsInjective
<1>4. /\ \A t \in Session \ {s} : held'[t] = held[t]
      /\ \A t \in Session \ {s} : Dict("AX") \notin held[t]
  BY GrantedLocks
<1> DEFINE st == State(job[s])
<1>5. /\ st.own = job[s].own /\ st.n = lastId
  BY DEF State
<1>6. /\ lastId' \in Nat /\ lastId <= lastId' /\ job[s].own \subseteq k.own
      /\ \A r \in NewRows(s, k) : r = IdRow(r.id, r.key) /\ r.id \in lastId + 1 .. lastId'
      /\ \A r1, r2 \in NewRows(s, k) : r1.id = r2.id \/ r1.key = r2.key => r1 = r2
      /\ \A r \in NewRows(s, k), x \in dict \cup job[s].own : x.key # r.key
  BY <1>5 DEF Grows, RowsOf, NewRows
<1>7. AddsIds(s, k)
  <2>1. k.pool = <<>> /\ k.lo = 0 /\ ToSet(k.pool) = {}
    BY <1>2, <1>3
  <2> QED
    BY <1>3, <1>4, <1>6, <2>1 DEF AddsIds
<1>8. AddsKeys(s, k)
  BY <1>6 DEF AddsKeys
<1>9. Sound(k.cache, dict \cup k.own)
  BY DEF Tidy, RowsOf
<1>10. Course(k, held'[s])
  BY DEF Course, Rebuilds
<1>11. Numbered'
  BY <1>1, <1>7, <1>9, <1>10, NumberedStep
<1>12. Single'
  BY <1>1, <1>6, <1>8, SingleStep
<1> QED
  BY <1>11, <1>12

-----------------------------------------------------------------------------
\* The steps that ask the dictionary, one by one.

LEMMA OnwardAt ==
    ASSUME NEW j, Rec(j)
    PROVE  /\ Onward(j).at = "window" => j.path \in Rebuilds
           /\ Onward(j).at = "lines" => j.path \notin Rebuilds
<1> DEFINE at == CASE Due(j) # {} -> "flush"
                   [] Due(j) = {} /\ Finished(j) -> "finish"
                   [] OTHER -> IF j.path \in Rebuilds THEN "window" ELSE "lines"
<1>1. Onward(j) = [j EXCEPT !.at = at]
  BY DEF Onward
<1>2. (at = "window" => j.path \in Rebuilds) /\ (at = "lines" => j.path \notin Rebuilds)
  OBVIOUS
<1> HIDE DEF at
<1>3. Onward(j).at = at
  BY <1>1, MoveKeeps
<1> QED
  BY <1>2, <1>3

LEMMA StateTidy ==
    ASSUME Locking, Numbered, NEW s \in Session
    PROVE  Tidy(State(job[s]))
<1>1. dict \cup job[s].own \subseteq AllRows
  BY DEF AllRows
<1>2. /\ State(job[s]).own = job[s].own /\ State(job[s]).cache = job[s].cache /\ State(job[s]).n = lastId
      /\ State(job[s]) = [own |-> State(job[s]).own, cache |-> State(job[s]).cache, n |-> State(job[s]).n]
  BY DEF State
<1> QED
  BY <1>1, <1>2 DEF Numbered, Tidy, RowsOf

\* A step that reads on keeps a load on its course.
LEMMA CourseGoesOn ==
    ASSUME NEW j, NEW locks, Course(j, locks), j.at \in Reading \cup {"parse"}, NEW locks2, locks \subseteq locks2,
           NEW k, k.at \in Reading, k.path = j.path, k.own = j.own, k.cache = j.cache, k.lo = j.lo,
           k.at \in {"window", "uris", "literals"} => j.path \in Rebuilds,
           k.at \in {"lines", "terms", "chunk"} => j.path \notin Rebuilds,
           IsSeq(k.queue), IsInjective(k.queue), IsSeq(k.pending)
    PROVE  Course(k, locks2)
BY DEF Course, Reading, Rebuilds

LEMMA BaselineRows ==
    ASSUME Locking, Numbered, Single, NEW s \in Session, BaselineLine(s)
    PROVE  Numbered' /\ Single'
<1> DEFINE j == job[s]
           st == Place(j, Head(j.lines))
<1>1. PICK late \in BOOLEAN :
          \E d1 \in {PutFull(State(j), st.t[1], late)} :
          \E d2 \in {PutFull(d1, st.t[2], late)} :
          \E d \in {PutFull(d2, st.t[3], late)} :
          \E k \in {BaselineJob(j, d, IdsOf(d.cache, KeysOf(d.cache, st)))} :
              Step(s, Onward(k)) /\ lastId' = d.n
  BY DEF BaselineLine, BaselineJob
<1> HIDE DEF st
<1>2. PICK d1, d2, d, k :
          /\ d1 = PutFull(State(j), st.t[1], late)
          /\ d2 = PutFull(d1, st.t[2], late)
          /\ d = PutFull(d2, st.t[3], late)
          /\ k = BaselineJob(j, d, IdsOf(d.cache, KeysOf(d.cache, st)))
          /\ Step(s, Onward(k)) /\ lastId' = d.n
  BY <1>1
<1>3. /\ j.at = "lines" /\ Granted(s) /\ ~Unplaced(j) /\ UNCHANGED <<tables, raced>> /\ Rec(j) /\ Course(j, held[s])
  BY DEF BaselineLine, Readable, At, Locking, Jobs, IsJob, Numbered
<1>4. Dict("RX") \in Wants(s)
  BY <1>3 DEF Wants
<1>5. Tidy(d) /\ Grows(State(j), d)
  <2> DEFINE d0 == State(j)
  <2>1. Tidy(d0)
    BY StateTidy
  <2>a. d1 = PutFull(d0, st.t[1], late)
    BY <1>2
  <2> HIDE DEF d0
  <2>2. Tidy(d1) /\ Grows(d0, d1) /\ d0.n \in Nat
    BY <2>1, <2>a, PutFullGrows DEF Tidy
  <2>3. Tidy(d2) /\ Grows(d1, d2)
    BY <1>2, <2>2, PutFullGrows
  <2>4. Tidy(d) /\ Grows(d2, d)
    BY <1>2, <2>3, PutFullGrows
  <2>5. Grows(d0, d2)
    BY <2>2, <2>3, GrowsTrans
  <2>6. Grows(d0, d)
    BY <2>2, <2>4, <2>5, GrowsTrans, Zenon
  <2> QED
    BY <2>4, <2>6 DEF d0
<1> DEFINE l == Onward(k)
<1>6. Keeps(j, k, {"own", "cache", "batch", "lines"}) /\ Rec(k) /\ k.own = d.own /\ k.cache = d.cache
  <2>1. k = BaselineJob(j, d, IdsOf(d.cache, KeysOf(d.cache, st)))
    BY <1>2
  <2>2. Rec(j)
    BY <1>3
  <2> HIDE DEF j
  <2> QED
    BY <2>1, <2>2, BaselineRecord
<1>7. Keeps(k, l, {"at"}) /\ l.at \in {"flush", "finish", "window", "lines"} /\ (l.at = "window" => k.path \in Rebuilds)
  BY <1>6, OnwardKeeps, OnwardAt
<1>8. Step(s, l) /\ lastId' = d.n
  BY <1>2
<1> HIDE DEF j, l
<1>9. /\ l.own = d.own /\ l.cache = d.cache /\ l.pool = j.pool /\ l.lo = j.lo /\ l.path = j.path /\ k.path = j.path
      /\ l.queue = j.queue /\ l.pending = j.pending
  BY <1>6, <1>7 DEF Keeps, Fields
<1>10. j.path \notin Rebuilds /\ IsSeq(l.queue) /\ IsInjective(l.queue) /\ IsSeq(l.pending)
  BY <1>3, <1>9 DEF Course
<1>11. l.at \notin {"idle", "window", "uris", "literals"} /\ j.at # "idle"
  BY <1>3, <1>7, <1>9, <1>10
<1> QED
  BY <1>3, <1>4, <1>5, <1>8, <1>9, <1>10, <1>11, PutStep DEF j

LEMMA DeferLists ==
    ASSUME NEW queue, IsSeq(queue), IsInjective(queue), NEW key, NEW cache
    PROVE  IsSeq(Defer(queue, key, cache)) /\ IsInjective(Defer(queue, key, cache))
<1>1. CASE key \in DOMAIN cache \cup ToSet(queue)
  BY <1>1 DEF Defer
<1>2. CASE key \notin DOMAIN cache \cup ToSet(queue)
  <2>1. queue \in Seq(ToSet(queue) \cup {key}) /\ Defer(queue, key, cache) = Append(queue, key)
    BY <1>2 DEF IsSeq, Defer
  <2>2. IsInjective(Append(queue, key))
    BY <1>2, <2>1, InjectiveAppend
  <2> QED
    BY <2>1, <2>2, IsSeqFacts
<1> QED
  BY <1>1, <1>2

LEMMA CombineGoesOn ==
    ASSUME NEW k, Rec(k), k.path \notin Rebuilds, IsSeq(k.pending)
    PROVE  /\ Keeps(k, Combine(k), {"at", "batch", "pending"}) /\ IsSeq(Combine(k).pending)
           /\ Combine(k).at \in Reading \ {"window", "uris", "literals"}
<1>1. Keeps(k, Combine(k), {"at", "batch", "pending"}) /\ Combine(k).at \in Reading
  BY CombineKeeps
<1>2. CASE Combine(k) = [k EXCEPT !.at = "terms"] \/ Combine(k) = [k EXCEPT !.at = "lines"]
  <2>1. PICK at : Combine(k) = [k EXCEPT !.at = at] /\ at \in {"terms", "lines"}
    BY <1>2
  <2>2. Combine(k).at = at /\ Combine(k).pending = k.pending
    BY <2>1, MoveKeeps DEF Keeps, Fields
  <2> QED
    BY <1>1, <2>1, <2>2
<1>3. CASE Combine(k) = Onward(Drain(k))
  <2>1. Rec(Drain(k)) /\ Drain(k).pending = <<>> /\ Keeps(k, Drain(k), {"batch", "pending"})
    BY DrainRecord, DrainKeeps
  <2>2. Drain(k).path = k.path
    BY <2>1 DEF Keeps, Fields
  <2>3. Keeps(Drain(k), Combine(k), {"at"}) /\ Combine(k).at \in {"flush", "finish", "window", "lines"}
        /\ (Combine(k).at = "window" => Drain(k).path \in Rebuilds)
    BY <1>3, <2>1, OnwardKeeps, OnwardAt
  <2>4. Combine(k).pending = <<>>
    BY <2>1, <2>3 DEF Keeps, Fields
  <2> QED
    BY <1>1, <2>2, <2>3, <2>4, IsSeqFacts
<1> QED
  BY <1>2, <1>3, CombineCases

LEMMA CombinedRows ==
    ASSUME Locking, Numbered, Single, NEW s \in Session, CombinedLine(s)
    PROVE  Numbered' /\ Single'
<1> DEFINE j == job[s]
           st == Place(j, Head(j.lines))
<1>1. PICK late \in BOOLEAN :
          \E d \in {PutDtype(State(j), st.t[3], late)} :
          \E e \in {KeysOf(d.cache, st)} :
          \E q \in {Defer(Defer(Defer(j.queue, e.k[1], d.cache), e.k[2], d.cache), e.k[3], d.cache)} :
          \E k \in {CombinedJob(j, d, q, e)} :
              Step(s, Combine(k)) /\ lastId' = d.n
  BY DEF CombinedLine, CombinedJob
<1> HIDE DEF st
<1>2. PICK d, e, q, k :
          /\ d = PutDtype(State(j), st.t[3], late)
          /\ q = Defer(Defer(Defer(j.queue, e.k[1], d.cache), e.k[2], d.cache), e.k[3], d.cache)
          /\ k = CombinedJob(j, d, q, e)
          /\ Step(s, Combine(k)) /\ lastId' = d.n
  BY <1>1
<1>3. /\ j.at = "lines" /\ Granted(s) /\ ~Unplaced(j) /\ UNCHANGED <<tables, raced>> /\ Rec(j) /\ Course(j, held[s])
  BY DEF CombinedLine, Readable, At, Locking, Jobs, IsJob, Numbered
<1>4. Dict("RX") \in Wants(s)
  BY <1>3 DEF Wants
<1>5. Tidy(d) /\ Grows(State(j), d)
  <2>1. Tidy(State(j))
    BY StateTidy
  <2> QED
    BY <1>2, <2>1, PutDtypeGrows
<1>6. IsSeq(q) /\ IsInjective(q)
  <2>1. IsSeq(j.queue) /\ IsInjective(j.queue)
    BY <1>3 DEF Course
  <2> QED
    BY <1>2, <2>1, DeferLists
<1>a. k = CombinedJob(j, d, q, e) /\ Rec(j)
  BY <1>2, <1>3
<1> DEFINE l == Combine(k)
<1> HIDE DEF j, l
<1>7. Keeps(j, k, {"own", "cache", "queue", "pending", "lines"}) /\ Rec(k) /\ k.own = d.own /\ k.cache = d.cache
      /\ k.queue = q /\ k.pending = Append(j.pending, e)
  BY <1>a, CombinedRecord
<1>8. j.path \notin Rebuilds /\ k.path = j.path /\ k.pool = j.pool /\ k.lo = j.lo /\ IsSeq(k.pending)
  BY <1>3, <1>7, IsSeqFacts DEF Course, Keeps, Fields
<1>9. Keeps(k, l, {"at", "batch", "pending"}) /\ l.at \in Reading \ {"window", "uris", "literals"} /\ IsSeq(l.pending)
  BY <1>7, <1>8, CombineGoesOn DEF l
<1>10. Step(s, l) /\ lastId' = d.n
  BY <1>2 DEF l
<1>11. /\ l.own = d.own /\ l.cache = d.cache /\ l.pool = j.pool /\ l.lo = j.lo /\ l.path = j.path /\ l.queue = q
  BY <1>7, <1>8, <1>9 DEF Keeps, Fields
<1>12. l.at \notin {"idle", "window", "uris", "literals"} /\ j.at # "idle"
  BY <1>3, <1>9 DEF Reading
<1> QED
  BY <1>3, <1>4, <1>5, <1>6, <1>8, <1>9, <1>10, <1>11, <1>12, PutStep DEF j

LEMMA FlushDeferRows ==
    ASSUME Locking, Numbered, Single, NEW s \in Session, FlushDefer(s)
    PROVE  Numbered' /\ Single'
<1> DEFINE j == job[s]
<1>1. PICK late \in BOOLEAN :
          \E d \in {PutBatch(State(j), j.queue, late)} :
          \E k \in {QueueJob(j, d, <<>>)} :
              Step(s, Combine(k)) /\ lastId' = d.n
  BY DEF FlushDefer, QueueJob
<1>2. PICK d, k : /\ d = PutBatch(State(j), j.queue, late) /\ k = QueueJob(j, d, <<>>)
                  /\ Step(s, Combine(k)) /\ lastId' = d.n
  BY <1>1
<1>3. /\ j.at = "terms" /\ Granted(s) /\ UNCHANGED <<tables, raced>> /\ Rec(j) /\ Course(j, held[s])
  BY DEF FlushDefer, At, Locking, Jobs, IsJob, Numbered
<1>4. Dict("RX") \in Wants(s)
  BY <1>3 DEF Wants
<1>5. Tidy(d) /\ Grows(State(j), d)
  <2>1. Tidy(State(j)) /\ j.queue \in Seq(ToSet(j.queue)) /\ IsInjective(j.queue)
    BY <1>3, StateTidy DEF Course, IsSeq
  <2> QED
    BY <1>2, <2>1, PutBatchGrows
<1> DEFINE l == Combine(k)
<1>6. Keeps(j, k, {"own", "cache", "queue"}) /\ Rec(k) /\ k.own = d.own /\ k.cache = d.cache /\ k.queue = <<>>
  BY <1>2, <1>3, QueueRecord
<1>7. j.path \notin Rebuilds /\ k.path = j.path /\ k.pool = j.pool /\ k.lo = j.lo /\ IsSeq(k.pending)
  BY <1>3, <1>6 DEF Course, Keeps, Fields
<1>8. Keeps(k, l, {"at", "batch", "pending"}) /\ l.at \in Reading \ {"window", "uris", "literals"} /\ IsSeq(l.pending)
  BY <1>6, <1>7, CombineGoesOn
<1>9. Step(s, l) /\ lastId' = d.n
  BY <1>2
<1> HIDE DEF j, l
<1>10. /\ l.own = d.own /\ l.cache = d.cache /\ l.pool = j.pool /\ l.lo = j.lo /\ l.path = j.path /\ l.queue = <<>>
  BY <1>6, <1>7, <1>8 DEF Keeps, Fields
<1>11. l.at \notin {"idle", "window", "uris", "literals"} /\ j.at # "idle"
  BY <1>3, <1>8 DEF Reading
<1>12. IsSeq(<<>>) /\ IsInjective(<<>>)
  BY IsSeqFacts DEF IsInjective
<1> QED
  BY <1>3, <1>4, <1>5, <1>7, <1>8, <1>9, <1>10, <1>11, <1>12, PutStep DEF j

LEMMA BatchedGoesOn ==
    ASSUME NEW k, Rec(k), k.path \notin Rebuilds, IsSeq(k.pending), IsSeq(k.queue), IsInjective(k.queue)
    PROVE  /\ Keeps(k, Batched(k), {"at", "batch", "pending", "queue"}) /\ IsSeq(Batched(k).pending)
           /\ IsSeq(Batched(k).queue) /\ IsInjective(Batched(k).queue)
           /\ Batched(k).at \in Reading \ {"window", "uris", "literals"}
<1>1. Keeps(k, Batched(k), {"at", "batch", "pending", "queue"}) /\ Batched(k).at \in Reading
  BY BatchedKeeps
<1>2. CASE Batched(k) = [k EXCEPT !.at = "chunk"]
  <2>1. Batched(k).at = "chunk" /\ Batched(k).pending = k.pending /\ Batched(k).queue = k.queue
    BY <1>2, MoveKeeps DEF Keeps, Fields
  <2> QED
    BY <1>1, <2>1
<1>3. CASE Batched(k) = ChunkJob(k, Listed(Wanted(k)))
  <2>1. Batched(k).at = "chunk" /\ Batched(k).pending = k.pending /\ Batched(k).queue = Listed(Wanted(k))
    BY <1>3, ChunkRecord DEF Keeps, Fields
  <2>2. Listed(Wanted(k)) \in Seq(Wanted(k)) /\ IsInjective(Listed(Wanted(k)))
    BY WantedFinite, ListedFacts
  <2> QED
    BY <1>1, <2>1, <2>2, IsSeqFacts
<1>4. CASE k.queue = <<>> /\ Batched(k) = Onward(DrainKeyed(k))
  <2>1. Rec(DrainKeyed(k)) /\ DrainKeyed(k).pending = <<>> /\ Keeps(k, DrainKeyed(k), {"batch", "pending"})
    BY DrainKeyedRecord, DrainKeeps
  <2>2. DrainKeyed(k).path = k.path /\ DrainKeyed(k).queue = k.queue
    BY <2>1 DEF Keeps, Fields
  <2>3. Keeps(DrainKeyed(k), Batched(k), {"at"}) /\ Batched(k).at \in {"flush", "finish", "window", "lines"}
        /\ (Batched(k).at = "window" => DrainKeyed(k).path \in Rebuilds)
    BY <1>4, <2>1, OnwardKeeps, OnwardAt
  <2>4. Batched(k).pending = <<>> /\ Batched(k).queue = k.queue
    BY <2>1, <2>2, <2>3 DEF Keeps, Fields
  <2> QED
    BY <1>1, <2>2, <2>3, <2>4, IsSeqFacts
<1> QED
  BY <1>2, <1>3, <1>4, BatchedCases

LEMMA CutInjective ==
    ASSUME NEW S, NEW q \in Seq(S), IsInjective(q), NEW m \in 0 .. Len(q)
    PROVE  /\ SubSeq(q, 1, m) \in Seq(S) /\ IsInjective(SubSeq(q, 1, m))
           /\ SubSeq(q, m + 1, Len(q)) \in Seq(S) /\ IsInjective(SubSeq(q, m + 1, Len(q)))
<1> DEFINE a == SubSeq(q, 1, m)
           b == SubSeq(q, m + 1, Len(q))
<1>1. /\ m \in Nat /\ a \in Seq(S) /\ b \in Seq(S) /\ DOMAIN a = 1 .. m /\ DOMAIN b = 1 .. Len(q) - m /\ Len(q) - m \in Nat
      /\ \A i \in 1 .. m : a[i] = q[i] /\ i \in DOMAIN q
      /\ \A i \in 1 .. Len(q) - m : b[i] = q[m + i] /\ m + i \in DOMAIN q
  OBVIOUS
<1> HIDE DEF a, b
<1>2. IsInjective(a)
  BY <1>1 DEF IsInjective
<1>3. IsInjective(b)
  <2> SUFFICES ASSUME NEW i \in 1 .. Len(q) - m, NEW k \in 1 .. Len(q) - m, b[i] = b[k] PROVE i = k
    BY <1>1 DEF IsInjective
  <2>1. m + i = m + k
    BY <1>1 DEF IsInjective
  <2> QED
    BY <1>1, <2>1
<1> QED
  BY <1>1, <1>2, <1>3 DEF a, b

LEMMA PutChunkRows ==
    ASSUME Locking, Numbered, Single, NEW s \in Session, PutChunk(s)
    PROVE  Numbered' /\ Single'
<1> DEFINE j == job[s]
           size == IF DictBatch < Len(j.queue) THEN DictBatch ELSE Len(j.queue)
           keys == SubSeq(j.queue, 1, size)
           rest == SubSeq(j.queue, size + 1, Len(j.queue))
<1>1. PICK late \in BOOLEAN :
          \E d \in {PutBatch(State(j), keys, late)} :
          \E k \in {[With(j, d) EXCEPT !.queue = SubSeq(@, size + 1, Len(@))]} :
              Step(s, Batched(k)) /\ lastId' = d.n
  BY DEF PutChunk
<1>2. /\ j.at = "chunk" /\ Granted(s) /\ UNCHANGED <<tables, raced>> /\ Rec(j) /\ Course(j, held[s])
  BY DEF PutChunk, At, Locking, Jobs, IsJob, Numbered
<1>3. j.queue \in Seq(ToSet(j.queue)) /\ IsInjective(j.queue)
  BY <1>2 DEF Course, IsSeq
<1>4. size \in 0 .. Len(j.queue)
  BY <1>3, IngestAssumption
<1>5. \A d : [With(j, d) EXCEPT !.queue = SubSeq(@, size + 1, Len(@))] = QueueJob(j, d, rest)
  <2> SUFFICES ASSUME NEW d PROVE With(j, d).queue = j.queue
    BY DEF QueueJob
  <2> HIDE DEF j
  <2> QED
    BY <1>2, WithKeeps DEF Keeps, Fields
<1> HIDE DEF size
<1>6. /\ keys \in Seq(ToSet(j.queue)) /\ IsInjective(keys) /\ IsSeq(rest) /\ IsInjective(rest)
  BY <1>3, <1>4, CutInjective, IsSeqFacts
<1> HIDE DEF keys, rest
<1>7. PICK d, k : /\ d = PutBatch(State(j), keys, late) /\ k = QueueJob(j, d, rest)
                  /\ Step(s, Batched(k)) /\ lastId' = d.n
  BY <1>1, <1>5
<1>8. Dict("RX") \in Wants(s)
  BY <1>2 DEF Wants
<1>9. Tidy(d) /\ Grows(State(j), d)
  BY <1>6, <1>7, StateTidy, PutBatchGrows
<1> DEFINE l == Batched(k)
<1>10. Keeps(j, k, {"own", "cache", "queue"}) /\ Rec(k) /\ k.own = d.own /\ k.cache = d.cache /\ k.queue = rest
  BY <1>2, <1>7, QueueRecord
<1>11. j.path \notin Rebuilds /\ k.path = j.path /\ k.pool = j.pool /\ k.lo = j.lo /\ IsSeq(k.pending)
  BY <1>2, <1>10 DEF Course, Keeps, Fields
<1>12. /\ Keeps(k, l, {"at", "batch", "pending", "queue"}) /\ l.at \in Reading \ {"window", "uris", "literals"}
       /\ IsSeq(l.pending) /\ IsSeq(l.queue) /\ IsInjective(l.queue)
  BY <1>6, <1>10, <1>11, BatchedGoesOn
<1>13. Step(s, l) /\ lastId' = d.n
  BY <1>7
<1> HIDE DEF j, l
<1>14. l.own = d.own /\ l.cache = d.cache /\ l.pool = j.pool /\ l.lo = j.lo /\ l.path = j.path
  BY <1>10, <1>11, <1>12 DEF Keeps, Fields
<1>15. l.at \notin {"idle", "window", "uris", "literals"} /\ j.at # "idle"
  BY <1>2, <1>12 DEF Reading
<1> QED
  BY <1>2, <1>8, <1>9, <1>11, <1>12, <1>13, <1>14, <1>15, PutStep DEF j

-----------------------------------------------------------------------------
\* The steps that do not ask it.

LEMMA QuietRead ==
    ASSUME Locking, Numbered, Single, NEW s \in Session, job[s].at \in Reading \cup {"parse"},
           NEW k, Step(s, k), dict' = dict, lastId' = lastId, raced' = raced, held' = held \/ Granted(s),
           Keeps(job[s], k, Fields \ {"own", "cache", "pool", "lo", "path"}), k.at \in Reading,
           k.at \in {"window", "uris", "literals"} => job[s].path \in Rebuilds,
           k.at \in {"lines", "terms", "chunk"} => job[s].path \notin Rebuilds,
           IsSeq(k.queue), IsInjective(k.queue), IsSeq(k.pending)
    PROVE  Numbered' /\ Single'
<1>1. /\ k.own = job[s].own /\ k.cache = job[s].cache /\ k.pool = job[s].pool /\ k.lo = job[s].lo /\ k.path = job[s].path
  BY DEF Keeps, Fields
<1>2. held[s] \subseteq held'[s] /\ Course(job[s], held[s])
  BY GrantedLocks DEF Numbered
<1>3. Course(k, held'[s])
  BY <1>1, <1>2, CourseGoesOn
<1>4. job[s].at # "idle" /\ job[s].at # "probe"
  BY DEF Reading
<1> QED
  BY <1>1, <1>3, <1>4, QuietStep

LEMMA OnwardRows ==
    ASSUME Locking, Numbered, Single, NEW s \in Session, job[s].at \in Reading,
           NEW k, Keeps(job[s], k, {"out", "batch"}), Step(s, Onward(k)),
           dict' = dict, lastId' = lastId, raced' = raced, held' = held \/ Granted(s)
    PROVE  Numbered' /\ Single'
<1> DEFINE l == Onward(k)
<1>1. Step(s, l) /\ Rec(k) /\ k.path = job[s].path
  BY DEF Keeps, Fields
<1>2. Keeps(k, l, {"at"}) /\ l.at \in {"flush", "finish", "window", "lines"} /\ (l.at = "window" => k.path \in Rebuilds)
      /\ (l.at = "lines" => k.path \notin Rebuilds)
  BY <1>1, OnwardKeeps, OnwardAt
<1> HIDE DEF l
<1>3. Keeps(job[s], l, Fields \ {"own", "cache", "pool", "lo", "path"}) /\ l.queue = job[s].queue /\ l.pending = job[s].pending
  BY <1>2 DEF Keeps, Fields
<1>4. IsSeq(l.queue) /\ IsInjective(l.queue) /\ IsSeq(l.pending)
  BY <1>3 DEF Numbered, Course
<1>5. l.at \in Reading
  BY <1>2 DEF Reading
<1> QED
  BY <1>1, <1>2, <1>3, <1>4, <1>5, QuietRead

LEMMA QuietRows ==
    ASSUME Locking, Numbered, Single, NEW s \in Session, EndOfFile(s) \/ Flush(s) \/ Parse(s) \/ ReadWindow(s)
    PROVE  Numbered' /\ Single'
<1> DEFINE j == job[s]
<1>1. Rec(j) /\ j.lines \in Seq(Line) /\ Course(j, held[s])
  BY DEF Locking, Jobs, IsJob, Numbered
<1>2. IsSeq(j.queue) /\ IsInjective(j.queue)
  BY <1>1 DEF Course
<1>3. CASE EndOfFile(s)
  <2>1. j.at \in Reading /\ Step(s, Onward(j)) /\ dict' = dict /\ lastId' = lastId /\ raced' = raced /\ held' = held
    BY <1>3 DEF EndOfFile, At, Reading, tables, sequences
  <2>2. Keeps(j, j, {"out", "batch"})
    BY <1>1 DEF Keeps
  <2> QED
    BY <2>1, <2>2, OnwardRows
<1>4. CASE Flush(s)
  <2>1. PICK o, b : Step(s, Onward(FlushJob(j, o, b)))
    BY <1>4 DEF Flush, FlushJob
  <2>2. j.at \in Reading /\ dict' = dict /\ lastId' = lastId /\ raced' = raced /\ Granted(s)
    BY <1>4 DEF Flush, At, Reading, tables, sequences
  <2>3. Keeps(j, FlushJob(j, o, b), {"out", "batch"})
    BY <1>1, FlushRecord
  <2> QED
    BY <2>1, <2>2, <2>3, OnwardRows
<1>5. CASE Parse(s)
  <2> DEFINE sts == [i \in DOMAIN j.lines |-> Place(j, j.lines[i])]
             k == ParseJob(j, sts, <<>>)
             l == Batched(k)
  <2>1. j.at = "parse" /\ Step(s, l) /\ dict' = dict /\ lastId' = lastId /\ raced' = raced /\ held' = held
    BY <1>5 DEF Parse, ParseJob, At, tables, sequences
  <2>2. IsSeq(sts)
    <3>1. Len(j.lines) \in Nat /\ sts = [i \in 1 .. Len(j.lines) |-> sts[i]]
      BY <1>1
    <3> HIDE DEF sts
    <3> QED
      BY <3>1, IsSeqFacts
  <2> HIDE DEF sts
  <2>a. Rec(j)
    BY <1>1
  <2> HIDE DEF j
  <2>3. Keeps(j, k, {"pending", "lines"}) /\ Rec(k) /\ k.pending = sts
    BY <2>a, ParseRecord
  <2> HIDE DEF k
  <2>4. k.queue = j.queue /\ k.path = j.path /\ k.path \notin Rebuilds
    BY <1>1, <2>1, <2>3 DEF Keeps, Fields, Course
  <2>5. /\ Keeps(k, l, {"at", "batch", "pending", "queue"}) /\ IsSeq(l.pending)
        /\ IsSeq(l.queue) /\ IsInjective(l.queue) /\ l.at \in Reading \ {"window", "uris", "literals"}
    BY <1>2, <2>2, <2>3, <2>4, BatchedGoesOn
  <2> HIDE DEF l
  <2>6. Keeps(j, l, Fields \ {"own", "cache", "pool", "lo", "path"})
    BY <2>3, <2>5 DEF Keeps, Fields
  <2> QED
    BY <2>1, <2>4, <2>5, <2>6, QuietRead DEF j
<1>6. CASE ReadWindow(s)
  <2> DEFINE size == IF Window < Len(j.lines) THEN Window ELSE Len(j.lines)
             kept == Keep(SubSeq(j.lines, 1, size), Bare(j.lines))
             sts == [i \in DOMAIN kept |-> Place(j, kept[i])]
             rest == SubSeq(j.lines, size + 1, Len(j.lines))
             k == WindowJob(j, sts, rest, "uris")
  <2>1. j.at = "window" /\ Step(s, k) /\ dict' = dict /\ lastId' = lastId /\ raced' = raced /\ held' = held
    BY <1>6 DEF ReadWindow, WindowJob, At, tables, sequences
  <2>2. IsSeq(sts)
    <3>1. SubSeq(j.lines, 1, size) \in Seq(Line)
      BY <1>1, IngestAssumption
    <3>2. kept \in Seq(Line)
      BY <3>1, KeepTyped
    <3> HIDE DEF kept
    <3>3. Len(kept) \in Nat /\ sts = [i \in 1 .. Len(kept) |-> sts[i]]
      BY <3>2
    <3> HIDE DEF sts
    <3> QED
      BY <3>3, IsSeqFacts
  <2> HIDE DEF sts, rest
  <2>a. Rec(j)
    BY <1>1
  <2> HIDE DEF j
  <2>3. Keeps(j, k, {"pending", "lines", "at"}) /\ k.pending = sts /\ k.at = "uris"
    BY <2>a, WindowRecord
  <2> HIDE DEF k
  <2>4. k.queue = j.queue /\ j.path \in Rebuilds
    BY <1>1, <2>1, <2>3 DEF Keeps, Fields, Course
  <2>5. Keeps(j, k, Fields \ {"own", "cache", "pool", "lo", "path"}) /\ k.at \in Reading /\ j.at \in Reading
    BY <2>1, <2>3 DEF Keeps, Fields, Reading
  <2> QED
    BY <1>2, <2>1, <2>2, <2>3, <2>4, <2>5, QuietRead DEF j
<1> QED
  BY <1>3, <1>4, <1>5, <1>6

\* A step off the rebuilds' path, to a place where the load reads no dictionary.
LEMMA MoveRows ==
    ASSUME Locking, Numbered, Single, NEW s \in Session, job[s].at \in {"lines", "bind", "create", "record"},
           NEW k, Step(s, k), dict' = dict, lastId' = lastId, raced' = raced, held' = held \/ Granted(s),
           Keeps(job[s], k, {"at", "gids", "named", "loads"}), k.at \in {"lines", "bind", "create", "parse"}
    PROVE  Numbered' /\ Single'
<1>1. Course(job[s], held[s])
  BY DEF Numbered
<1>2. /\ k.own = job[s].own /\ k.cache = job[s].cache /\ k.pool = job[s].pool /\ k.lo = job[s].lo /\ k.path = job[s].path
      /\ k.queue = job[s].queue /\ k.pending = job[s].pending
  BY DEF Keeps, Fields
<1>3. job[s].path \notin Rebuilds /\ Course(k, held'[s])
  BY <1>1, <1>2 DEF Course, Rebuilds
<1> QED
  BY <1>2, <1>3, QuietStep

LEMMA MoveStepsRows ==
    ASSUME Locking, Numbered, Single, NEW s \in Session, Record(s) \/ LookUp(s) \/ Bind(s) \/ Create(s)
    PROVE  Numbered' /\ Single'
<1> DEFINE j == job[s]
           n == Head(j.lines).g
           X == {"at", "gids", "named", "loads"}
<1>1. /\ Rec(j) /\ j.at \in {"lines", "bind", "create", "record"}
      /\ dict' = dict /\ lastId' = lastId /\ raced' = raced
      /\ held' = held \/ Granted(s)
  BY DEF Locking, Jobs, IsJob, Record, LookUp, Bind, Create, At, tables, sequences
<1>2. \E k : Step(s, k) /\ Keeps(j, k, X) /\ k.at \in {"lines", "bind", "create", "parse"}
  <2>1. CASE Record(s)
    <3>1. PICK m, at : Step(s, RecordJob(j, m, at)) /\ at \in {"parse", "lines"}
      BY <2>1 DEF Record, RecordJob
    <3> HIDE DEF j
    <3>2. Keeps(j, RecordJob(j, m, at), {"loads", "at"}) /\ RecordJob(j, m, at).at = at
      BY <1>1, RecordRecord
    <3> QED
      BY <3>1, <3>2 DEF Keeps
  <2>2. CASE LookUp(s)
    <3>1. (\E f : Step(s, PlaceJob(j, f))) \/ Step(s, [j EXCEPT !.at = "bind"])
      BY <2>2 DEF LookUp, PlaceJob, Go
    <3>2. j.at = "lines"
      BY <2>2 DEF LookUp, At
    <3> HIDE DEF j
    <3>3. CASE \E f : Step(s, PlaceJob(j, f))
      <4>1. PICK f : Step(s, PlaceJob(j, f))
        BY <3>3
      <4>2. Keeps(j, PlaceJob(j, f), {"gids"})
        BY <1>1, PlaceRecord
      <4> QED
        BY <3>2, <4>1, <4>2 DEF Keeps, Fields
    <3>4. CASE Step(s, [j EXCEPT !.at = "bind"])
      <4>1. Keeps(j, [j EXCEPT !.at = "bind"], {"at"}) /\ [j EXCEPT !.at = "bind"].at = "bind"
        BY <1>1, MoveKeeps
      <4> QED
        BY <3>4, <4>1 DEF Keeps
    <3> QED
      BY <3>1, <3>3, <3>4
  <2>3. CASE Bind(s)
    <3>1. (\E f : Step(s, FoundJob(j, f, "lines"))) \/ Step(s, [j EXCEPT !.at = "create"])
      BY <2>3 DEF Bind, FoundJob, Go
    <3> HIDE DEF j
    <3>3. CASE \E f : Step(s, FoundJob(j, f, "lines"))
      <4>1. PICK f : Step(s, FoundJob(j, f, "lines"))
        BY <3>3
      <4>2. Keeps(j, FoundJob(j, f, "lines"), {"gids", "at"}) /\ FoundJob(j, f, "lines").at = "lines"
        BY <1>1, FoundRecord
      <4> QED
        BY <4>1, <4>2 DEF Keeps
    <3>4. CASE Step(s, [j EXCEPT !.at = "create"])
      <4>1. Keeps(j, [j EXCEPT !.at = "create"], {"at"}) /\ [j EXCEPT !.at = "create"].at = "create"
        BY <1>1, MoveKeeps
      <4> QED
        BY <3>4, <4>1 DEF Keeps
    <3> QED
      BY <3>1, <3>3, <3>4
  <2>4. CASE Create(s)
    <3>1. PICK f, g : Step(s, NamedJob(j, f, g, "lines"))
      BY <2>4 DEF Create, NamedJob
    <3> HIDE DEF j
    <3>2. Keeps(j, NamedJob(j, f, g, "lines"), {"gids", "named", "at"}) /\ NamedJob(j, f, g, "lines").at = "lines"
      BY <1>1, NamedRecord
    <3> QED
      BY <3>1, <3>2 DEF Keeps
  <2> QED
    BY <2>1, <2>2, <2>3, <2>4
<1>3. PICK k : Step(s, k) /\ Keeps(j, k, {"at", "gids", "named", "loads"}) /\ k.at \in {"lines", "bind", "create", "parse"}
  BY <1>2
<1> QED
  BY <1>1, <1>3, MoveRows

LEMMA ProbeRows ==
    ASSUME Locking, Numbered, Single, NEW s \in Session, Probe(s)
    PROVE  Numbered' /\ Single'
<1> DEFINE j == job[s]
<1>1. /\ Rec(j) /\ j.doc \in Seq(Line) /\ j.at = "probe" /\ Course(j, held[s]) /\ Granted(s)
      /\ dict' = dict /\ lastId' = lastId /\ raced' = raced
  BY DEF Locking, Jobs, IsJob, Numbered, Probe, At, tables, sequences
<1>2. IsSeq(j.queue) /\ IsInjective(j.queue) /\ IsSeq(j.pending)
  BY <1>1 DEF Course
<1>3. \E k : /\ Step(s, k) /\ k.own = j.own /\ k.cache = j.cache /\ k.pool = j.pool /\ k.lo = j.lo /\ k.queue = j.queue
             /\ IsSeq(k.pending)
             /\ \/ k.at = "record" /\ k.path = "turtle"
                \/ k.at = "gate" /\ k.path = j.path /\ dict = {}
                \/ k.at \in {"gate", "uris"} /\ k.path = j.path /\ j.path = "bulk" /\ dict = {}
  <2>1. CASE Step(s, [j EXCEPT !.at = "record", !.path = "turtle"])
    <3>1. Step(s, PathJob(j, "turtle", "record"))
      BY <2>1 DEF PathJob
    <3> HIDE DEF j
    <3>2. Keeps(j, PathJob(j, "turtle", "record"), {"at", "path"}) /\ PathJob(j, "turtle", "record").at = "record"
          /\ PathJob(j, "turtle", "record").path = "turtle"
      BY <1>1, PathRecord
    <3> QED
      BY <1>2, <3>1, <3>2 DEF Keeps, Fields
  <2>2. CASE dict = {} /\ Go(s, "gate")
    <3> DEFINE k == [j EXCEPT !.at = "gate"]
    <3>1. Step(s, k)
      BY <2>2 DEF Go
    <3> HIDE DEF j
    <3>2. Keeps(j, k, {"at"}) /\ k.at = "gate"
      BY <1>1, MoveKeeps
    <3> HIDE DEF k
    <3> QED
      BY <1>2, <2>2, <3>1, <3>2 DEF Keeps, Fields
  <2>3. ASSUME NEW first \in 0 .. Len(j.doc), dict = {}, j.path = "bulk",
               LET d == j.doc
                   prefixed == {l \in ToSet(d) : l.form # "broken"}
                   kept == Keep(SubSeq(d, 1, first), prefixed)
                           \o Keep(SubSeq(d, first + 1, Len(d)), Bare(d))
                   sts == [i \in DOMAIN kept |-> Place(j, kept[i])] IN
               Step(s, ProbeJob(j, sts))
        PROVE  \E k : /\ Step(s, k) /\ k.own = j.own /\ k.cache = j.cache /\ k.pool = j.pool /\ k.lo = j.lo /\ k.queue = j.queue
                      /\ IsSeq(k.pending) /\ k.at \in {"gate", "uris"} /\ k.path = j.path
    <3> DEFINE d == j.doc
               prefixed == {l \in ToSet(d) : l.form # "broken"}
               a == Keep(SubSeq(d, 1, first), prefixed)
               b == Keep(SubSeq(d, first + 1, Len(d)), Bare(d))
               kept == a \o b
               sts == [i \in DOMAIN kept |-> Place(j, kept[i])]
    <3>1. Step(s, ProbeJob(j, sts))
      BY <2>3
    <3>2. SubSeq(d, 1, first) \in Seq(Line) /\ SubSeq(d, first + 1, Len(d)) \in Seq(Line)
      BY <1>1, <2>3
    <3>3. a \in Seq(Line) /\ b \in Seq(Line)
      BY <3>2, KeepTyped
    <3> HIDE DEF a, b
    <3>4. kept \in Seq(Line)
      BY <3>3
    <3> HIDE DEF kept
    <3>5. Len(kept) \in Nat /\ sts = [i \in 1 .. Len(kept) |-> sts[i]]
      BY <3>4
    <3> HIDE DEF sts
    <3>6. IsSeq(sts)
      BY <3>5, IsSeqFacts
    <3> HIDE DEF j
    <3>7. Keeps(j, ProbeJob(j, sts), {"pending", "lines", "at"}) /\ ProbeJob(j, sts).pending = sts
          /\ ProbeJob(j, sts).at \in {"gate", "uris"}
      BY <1>1, ProbeRecord
    <3> QED
      BY <3>1, <3>6, <3>7 DEF Keeps, Fields
  <2>4. CASE /\ dict = {} /\ j.path = "bulk"
             /\ \E first \in 0 .. Len(job[s].doc) :
                 LET d == job[s].doc
                     prefixed == {l \in ToSet(d) : l.form # "broken"}
                     kept == Keep(SubSeq(d, 1, first), prefixed)
                             \o Keep(SubSeq(d, first + 1, Len(d)), Bare(d))
                     sts == [i \in DOMAIN kept |-> Place(job[s], kept[i])] IN
                 Step(s, ProbeJob(j, sts))
    BY <2>3, <2>4
  <2> QED
    BY <2>1, <2>2, <2>4 DEF Probe, ProbeJob
<1>4. PICK k : /\ Step(s, k) /\ k.own = j.own /\ k.cache = j.cache /\ k.pool = j.pool /\ k.lo = j.lo /\ k.queue = j.queue
               /\ IsSeq(k.pending)
               /\ \/ k.at = "record" /\ k.path = "turtle"
                  \/ k.at = "gate" /\ k.path = j.path /\ dict = {}
                  \/ k.at \in {"gate", "uris"} /\ k.path = j.path /\ j.path = "bulk" /\ dict = {}
  BY <1>3
<1>5. /\ j.path \in Rebuilds /\ (j.path \in Rebuilds => \A r \in j.own : r.key \in DOMAIN j.cache)
      /\ j.path = "bulk" => j.lo = 0
  <2>1. Custody(j, held[s])
    BY DEF Locking
  <2> QED
    BY <1>1, <2>1 DEF Custody, Rebuilding, Course
<1>6. Course(k, held'[s])
  <2> HIDE DEF j
  <2>1. CASE k.at = "record" /\ k.path = "turtle"
    BY <1>2, <1>4, <2>1 DEF Course, Rebuilds, Reading
  <2>2. CASE k.at = "gate" /\ k.path = j.path
    BY <1>2, <1>4, <1>5, <2>2 DEF Course, Rebuilds, Reading
  <2>3. CASE k.at \in {"gate", "uris"} /\ k.path = j.path /\ j.path = "bulk"
    BY <1>2, <1>4, <1>5, <2>3 DEF Course, Rebuilds, Reading
  <2> QED
    BY <1>4, <2>1, <2>2, <2>3
<1>7. k.path \in Rebuilds /\ k.at # "probe" => dict = {}
  BY <1>4 DEF Rebuilds
<1> QED
  BY <1>1, <1>4, <1>6, <1>7, QuietStep

LEMMA DropRows ==
    ASSUME Locking, Numbered, Single, NEW s \in Session, DropIndexes(s)
    PROVE  Numbered' /\ Single'
<1> DEFINE j == job[s]
<1>1. /\ Rec(j) /\ j.at \in {"gate", "drop", "lock"} /\ Course(j, held[s]) /\ Granted(s)
      /\ dict' = dict /\ lastId' = lastId /\ raced' = raced
  BY DEF Locking, Jobs, IsJob, Numbered, DropIndexes, At, tables, sequences
<1>2. j.path \in Rebuilds
  <2>1. Custody(j, held[s])
    BY DEF Locking
  <2> QED
    BY <1>1, <2>1 DEF Custody, Rebuilding
<1>3. PICK at : /\ Step(s, [j EXCEPT !.at = at])
                /\ \/ at \in {"drop", "lock"}
                   \/ j.at = "lock" /\ at = IF j.path = "bulk" THEN "uris" ELSE "window"
  BY DEF DropIndexes, Go, At
<1>4. j.at = "lock" => Dict("AX") \in held'[s]
  BY <1>1, GrantedLocks DEF Wants, RebuildLock
<1> DEFINE k == [j EXCEPT !.at = at]
<1>5. Step(s, k)
  BY <1>3
<1> HIDE DEF j
<1>6. Keeps(j, k, {"at"}) /\ k.at = at
  BY <1>1, MoveKeeps
<1> HIDE DEF k
<1>7. /\ k.own = j.own /\ k.cache = j.cache /\ k.pool = j.pool /\ k.lo = j.lo /\ k.path = j.path
      /\ k.queue = j.queue /\ k.pending = j.pending
  BY <1>6 DEF Keeps, Fields
<1>8. Course(k, held'[s])
  <2>1. CASE at \in {"drop", "lock"}
    BY <1>1, <1>6, <1>7, <2>1 DEF Course, Reading
  <2>2. CASE j.at = "lock" /\ at = IF j.path = "bulk" THEN "uris" ELSE "window"
    BY <1>1, <1>2, <1>4, <1>6, <1>7, <2>2 DEF Course, Reading
  <2> QED
    BY <1>3, <2>1, <2>2
<1>9. j.at # "idle" /\ j.at # "probe"
  BY <1>1
<1> QED
  BY <1>1, <1>2, <1>5, <1>7, <1>8, <1>9, QuietStep DEF j

\* The end of a load: its rows are committed, or they are gone.
LEMMA ReleaseRows ==
    ASSUME Locking, Numbered, Single, NEW s \in Session, Release(s), lastId' = lastId, raced' = raced,
           dict \subseteq dict', dict' \subseteq dict \cup job[s].own, dict' = dict \/ job[s].at # "idle"
    PROVE  Numbered' /\ Single'
<1>1. /\ job'[s] = Idle /\ \A t \in Session : t # s => job'[t] = job[t]
      /\ held'[s] = {} /\ \A t \in Session : t # s => held'[t] = held[t]
  BY DEF Release, Locking, Jobs
<1>2. /\ Idle.own = {} /\ Idle.pool = <<>> /\ Idle.lo = 0 /\ Idle.cache = Empty /\ Idle.queue = <<>> /\ Idle.pending = <<>>
      /\ Idle.at = "idle" /\ Idle.path = "turtle"
  BY DEF Idle
<1>3. AllRows' \subseteq AllRows
  <2> SUFFICES ASSUME NEW r \in AllRows' PROVE r \in AllRows
    OBVIOUS
  <2>1. CASE r \in dict'
    BY <2>1 DEF AllRows
  <2>2. CASE r \notin dict'
    <3>1. PICK t \in Session : r \in job'[t].own
      BY <2>2 DEF AllRows
    <3> QED
      BY <1>1, <1>2, <3>1 DEF AllRows
  <2> QED
    BY <2>1, <2>2
<1>4. RowIds' \subseteq RowIds
  BY <1>3 DEF RowIds
<1>5. Stocked(Idle, held[s])' /\ Course(Idle, held[s])' /\ Sound(Idle.cache, dict \cup Idle.own)'
  <2>1. IsSeq(<<>>) /\ IsInjective(<<>>) /\ ToSet(<<>>) = {} /\ <<>> \in Seq(Nat) /\ lastId' \in Nat
    BY IsSeqFacts, ToSetFacts DEF IsInjective, Numbered
  <2> HIDE DEF Idle
  <2>2. Stocked(Idle, held[s])'
    BY <1>2, <2>1 DEF Stocked
  <2>3. Course(Idle, held[s])'
    BY <1>2, <2>1 DEF Course, Rebuilds
  <2>4. Sound(Idle.cache, dict \cup Idle.own)'
    BY <1>2 DEF Sound, Empty
  <2> QED
    BY <2>2, <2>3, <2>4
<1>6. ASSUME NEW t \in Session, t # s
      PROVE  (Stocked(job[t], held[t]) /\ Course(job[t], held[t]) /\ Sound(job[t].cache, dict \cup job[t].own))'
  <2>1. Stocked(job[t], held[t]) /\ Course(job[t], held[t]) /\ Sound(job[t].cache, dict \cup job[t].own)
    BY DEF Numbered
  <2>2. job'[t] = job[t] /\ held'[t] = held[t]
    BY <1>1, <1>6
  <2>3. \A j : Stocked(j, held[t]) => Stocked(j, held[t])'
    BY <1>4, <2>2 DEF Stocked
  <2> QED
    BY <2>1, <2>2, <2>3 DEF Course, Sound
<1>7. ASSUME NEW t \in Session
      PROVE  (Stocked(job[t], held[t]) /\ Course(job[t], held[t]) /\ Sound(job[t].cache, dict \cup job[t].own))'
  <2>1. CASE t = s
    <3>1. \A j : j = Idle => (Stocked(j, held[s]) /\ Course(j, held[s]) /\ Sound(j.cache, dict \cup j.own))'
      BY <1>5
    <3> HIDE DEF Idle
    <3> QED
      BY <1>1, <2>1, <3>1 DEF Stocked, Course, Sound
  <2> QED
    BY <1>6, <2>1
<1>8. Numbered'
  BY <1>3, <1>7 DEF Numbered
<1>9. Single'
  <2> SUFFICES ASSUME ~raced
               PROVE  /\ \A t, u \in Session : t # u => job'[t].at = "idle" \/ job'[u].at = "idle"
                      /\ \A r1, r2 \in AllRows' : r1.key = r2.key => r1 = r2
                      /\ \A t \in Session : job'[t].path \in Rebuilds /\ job'[t].at # "probe" => dict' = {}
    BY DEF Single
  <2>1. \A t, u \in Session : t # u => job'[t].at = "idle" \/ job'[u].at = "idle"
    BY <1>1, <1>2 DEF Single
  <2>2. \A r1, r2 \in AllRows' : r1.key = r2.key => r1 = r2
    BY <1>3 DEF Single
  <2>3. ASSUME NEW t \in Session, job'[t].path \in Rebuilds, job'[t].at # "probe"
        PROVE  dict' = {}
    <3>1. t # s /\ job'[t] = job[t]
      BY <1>1, <1>2, <2>3 DEF Rebuilds
    <3>2. dict = {}
      BY <2>3, <3>1 DEF Single
    <3>3. job[t].at # "idle"
      BY <1>2, <2>3, <3>1 DEF Numbered, Course, Rebuilds
    <3> QED
      BY <3>1, <3>2, <3>3 DEF Single
  <2> QED
    BY <2>1, <2>2, <2>3
<1> QED
  BY <1>8, <1>9

LEMMA EndRows ==
    ASSUME Locking, Numbered, Single, NEW s \in Session, Commit(s) \/ Refuse(s) \/ Abort(s) \/ Victim(s)
    PROVE  Numbered' /\ Single'
<1>1. CASE Commit(s)
  <2>1. /\ Release(s) /\ lastId' = lastId /\ raced' = raced /\ dict' = dict \cup job[s].own /\ job[s].at = "finish"
    BY <1>1 DEF Commit, sequences, At
  <2> QED
    BY <2>1, ReleaseRows
<1>2. CASE Refuse(s) \/ Abort(s) \/ Victim(s)
  <2>1. Release(s) /\ lastId' = lastId /\ raced' = raced /\ dict' = dict
    BY <1>2 DEF Refuse, Abort, Victim, sequences, tables
  <2> QED
    BY <2>1, ReleaseRows
<1> QED
  BY <1>1, <1>2

-----------------------------------------------------------------------------
\* The loads that begin.

LEMMA BeginRows ==
    ASSUME Locking, Numbered, Single, NEW s \in Session, Begin(s)
    PROVE  Numbered' /\ Single'
<1>1. PICK c \in Calls : /\ Start(s, c) /\ Step(s, BeginJob(c)) /\ held' = held
                         /\ dict' = dict /\ lastId' = lastId
  BY DEF Begin, BeginJob, tables, sequences
<1> DEFINE k == BeginJob(c)
<1>2. /\ k.at = Enter(c) /\ k.path = IF c.path = "staged" THEN "turtle" ELSE c.path
      /\ Keeps(Idle, k, Load \cup {"at", "lines"})
  BY BeginRecord
<1>3. Step(s, k)
  BY <1>1
<1> HIDE DEF k
<1>4. k.at \in {"probe", "record", "lines", "parse"} /\ (k.path \in Rebuilds <=> k.at = "probe")
  BY <1>2 DEF Enter, Rebuilds
<1>5. /\ Idle.own = {} /\ Idle.pool = <<>> /\ Idle.lo = 0 /\ Idle.cache = Empty /\ Idle.queue = <<>> /\ Idle.pending = <<>>
      /\ Idle.at = "idle" /\ Idle.path = "turtle"
  BY DEF Idle
<1>6. k.own = {} /\ k.pool = <<>> /\ k.lo = 0 /\ k.cache = Empty /\ k.queue = <<>> /\ k.pending = <<>>
  <2> HIDE DEF Idle
  <2> QED
    BY <1>2, <1>5 DEF Keeps, Fields, Load
<1>7. job[s] = Idle
  BY <1>1 DEF Start, At, Numbered, Course
<1> HIDE DEF Idle
<1>8. NewRows(s, k) = {} /\ job[s].own = {}
  BY <1>5, <1>6, <1>7 DEF NewRows
<1>9. IsSeq(<<>>) /\ IsInjective(<<>>) /\ ToSet(<<>>) = {} /\ <<>> \in Seq(Nat) /\ lastId \in Nat
  BY IsSeqFacts, ToSetFacts DEF IsInjective, Numbered
<1>10. AddsIds(s, k)
  BY <1>1, <1>6, <1>8, <1>9 DEF AddsIds
<1>11. Course(k, held'[s])
  BY <1>4, <1>6, <1>9 DEF Course, Reading, Rebuilds
<1>12. Sound(k.cache, dict \cup k.own)
  BY <1>6 DEF Sound, Empty
<1>13. Numbered'
  BY <1>1, <1>3, <1>10, <1>11, <1>12, NumberedStep
<1>14. Single'
  <2>1. job'[s] = k /\ \A t \in Session : t # s => job'[t] = job[t]
    BY <1>3, StepJobs DEF Locking
  <2>2. AllRows' = AllRows
    <3>1. k.own \ job[s].own = {} /\ job[s].own \subseteq k.own
      BY <1>6, <1>8
    <3>2. AllRows' = AllRows \cup (k.own \ job[s].own)
      BY <1>1, <1>3, <3>1, StepRows DEF Locking
    <3> QED
      BY <3>1, <3>2
  <2> SUFFICES ASSUME ~raced'
               PROVE  /\ \A t, u \in Session : t # u => job'[t].at = "idle" \/ job'[u].at = "idle"
                      /\ \A r1, r2 \in AllRows' : r1.key = r2.key => r1 = r2
                      /\ \A t \in Session : job'[t].path \in Rebuilds /\ job'[t].at # "probe" => dict' = {}
    BY DEF Single
  <2>3. ~raced /\ \A t \in Session : t # s => job[t].at = "idle"
    BY <1>1 DEF Start, Busy, At
  <2>4. \A t \in Session : t # s => job'[t] = Idle
    BY <2>1, <2>3 DEF Numbered, Course
  <2>5. \A t, u \in Session : t # u => job'[t].at = "idle" \/ job'[u].at = "idle"
    BY <1>5, <2>4
  <2>6. \A r1, r2 \in AllRows' : r1.key = r2.key => r1 = r2
    BY <2>2, <2>3 DEF Single
  <2>7. \A t \in Session : job'[t].path \in Rebuilds /\ job'[t].at # "probe" => dict' = {}
    BY <1>4, <1>5, <2>1, <2>4 DEF Rebuilds
  <2> QED
    BY <2>5, <2>6, <2>7
<1> QED
  BY <1>13, <1>14

-----------------------------------------------------------------------------
\* The ids of the streaming and the bulk loader.

LEMMA InjectiveConcat ==
    ASSUME NEW S, NEW p \in Seq(S), NEW q \in Seq(S), IsInjective(p), IsInjective(q),
           \A i \in ToSet(p) : i \notin ToSet(q)
    PROVE  IsInjective(p \o q)
<1>1. /\ DOMAIN (p \o q) = 1 .. Len(p) + Len(q) /\ Len(p) \in Nat /\ Len(q) \in Nat
      /\ \A i \in 1 .. Len(p) + Len(q) : (p \o q)[i] = IF i <= Len(p) THEN p[i] ELSE q[i - Len(p)]
  BY ConcatProperties
<1> SUFFICES ASSUME NEW i \in 1 .. Len(p) + Len(q), NEW k \in 1 .. Len(p) + Len(q), (p \o q)[i] = (p \o q)[k]
             PROVE  i = k
  BY <1>1 DEF IsInjective
<1>2. \A n \in 1 .. Len(p) + Len(q) : \/ n <= Len(p) /\ n \in DOMAIN p /\ (p \o q)[n] = p[n] /\ p[n] \in ToSet(p)
                                      \/ n > Len(p) /\ n - Len(p) \in DOMAIN q /\ (p \o q)[n] = q[n - Len(p)] /\ q[n - Len(p)] \in ToSet(q)
  BY <1>1 DEF ToSet
<1>3. CASE i <= Len(p) /\ k <= Len(p)
  BY <1>1, <1>2, <1>3 DEF IsInjective
<1>4. CASE i > Len(p) /\ k > Len(p)
  <2>1. i - Len(p) = k - Len(p)
    BY <1>1, <1>2, <1>4 DEF IsInjective
  <2> QED
    BY <1>1, <2>1
<1>5. CASE i <= Len(p) /\ k > Len(p)
  BY <1>1, <1>2, <1>5
<1>6. CASE i > Len(p) /\ k <= Len(p)
  BY <1>1, <1>2, <1>6
<1> QED
  BY <1>1, <1>3, <1>4, <1>5, <1>6

\* Only one session holds the dictionary exclusively.
LEMMA Exclusive ==
    ASSUME Locking, NEW s \in Session, Dict("AX") \in held[s]
    PROVE  \A t \in Session \ {s} : Dict("AX") \notin held[t]
<1>1. Conflict(Dict("AX"), Dict("AX"))
  BY DEF Conflict, Dict
<1> QED
  BY <1>1 DEF Locking, LocksAgree

LEMMA ReserveRows ==
    ASSUME Locking, Numbered, Single, NEW s \in Session, Reserve(s)
    PROVE  Numbered' /\ Single'
<1> DEFINE j == job[s]
<1>1. /\ Rec(j) /\ j.path = "stream" /\ j.at \in {"uris", "literals"} /\ Course(j, held[s]) /\ Stocked(j, held[s])
      /\ dict' = dict /\ raced' = raced /\ held' = held /\ lastId \in Nat /\ Sound(j.cache, dict \cup j.own)
  BY DEF Locking, Jobs, IsJob, Numbered, Reserve, tables
<1>2. Dict("AX") \in held[s]
  BY <1>1 DEF Course, Reading
<1>3. \A t \in Session \ {s} : Dict("AX") \notin held[t]
  BY <1>2, Exclusive
<1>4. \A i \in RowIds : i \in 1 .. lastId
  BY DEF RowIds, Numbered
<1> DEFINE block == [i \in 1 .. Block |-> j.lo + i - 1]
<1>5. \/ j.lo = 0 /\ Step(s, LoJob(j, lastId + 1)) /\ lastId' = lastId + 1
      \/ j.lo > 0 /\ Step(s, ReserveJob(j, j.pool \o block, 0)) /\ lastId' = lastId + Block - 1
  BY DEF Reserve, LoJob, ReserveJob
<1> SUFFICES \E k : /\ Step(s, k) /\ Keeps(j, k, {"pool", "lo"})
                    /\ (k.own = j.own => AddsIds(s, k))
  <2>1. PICK k : Step(s, k) /\ Keeps(j, k, {"pool", "lo"}) /\ (k.own = j.own => AddsIds(s, k))
    OBVIOUS
  <2>2. /\ k.own = j.own /\ k.cache = j.cache /\ k.queue = j.queue /\ k.pending = j.pending
        /\ k.at = j.at /\ k.path = j.path
    BY <2>1 DEF Keeps, Fields
  <2>3. Course(k, held'[s])
    BY <1>1, <2>2 DEF Course
  <2>4. Numbered'
    BY <1>1, <2>1, <2>2, <2>3, NumberedStep
  <2>5. NewRows(s, k) = {}
    BY <2>2 DEF NewRows
  <2>6. AddsKeys(s, k) /\ j.own \subseteq k.own
    BY <2>2, <2>5 DEF AddsKeys
  <2>7. j.at # "idle" /\ j.at # "probe"
    BY <1>1
  <2>8. Single'
    BY <1>1, <2>1, <2>2, <2>6, <2>7, SingleStep
  <2> QED
    BY <2>4, <2>8
<1>6. CASE j.lo = 0 /\ Step(s, LoJob(j, lastId + 1)) /\ lastId' = lastId + 1
  <2> DEFINE k == LoJob(j, lastId + 1)
  <2>1. Step(s, k)
    BY <1>6
  <2> HIDE DEF j
  <2>2. Keeps(j, k, {"lo"}) /\ k.lo = lastId + 1
    BY <1>1, LoRecord
  <2> HIDE DEF k
  <2>3. Keeps(j, k, {"pool", "lo"}) /\ k.pool = j.pool
    BY <2>2 DEF Keeps, Fields
  <2>4. ASSUME k.own = j.own
        PROVE  AddsIds(s, k)
    <3>1. NewRows(s, k) = {} /\ j.own \subseteq k.own
      BY <2>4 DEF NewRows, j
    <3>2. k.lo \notin ToSet(k.pool) /\ k.lo \notin RowIds /\ k.lo = lastId' /\ lastId' \in Nat /\ lastId <= lastId'
      BY <1>1, <1>4, <1>6, <2>2, <2>3 DEF Stocked
    <3> QED
      BY <1>1, <1>2, <1>3, <2>3, <3>1, <3>2 DEF AddsIds, Stocked, j
  <2> QED
    BY <2>1, <2>3, <2>4
<1>7. CASE j.lo > 0 /\ Step(s, ReserveJob(j, j.pool \o block, 0)) /\ lastId' = lastId + Block - 1
  <2>1. j.lo = lastId /\ lastId > 0 /\ j.lo \notin ToSet(j.pool) /\ j.pool \in Seq(Nat) /\ IsInjective(j.pool)
        /\ Block \in Nat /\ Block >= 1 /\ lastId \in Nat /\ ToSet(j.pool) \subseteq 1 .. lastId
    BY <1>1, <1>7, IngestAssumption DEF Stocked
  <2>2. /\ block \in Seq(Nat) /\ DOMAIN block = 1 .. Block
        /\ \A i \in 1 .. Block : block[i] = lastId + i - 1
    <3>1. block = [i \in 1 .. Block |-> lastId + i - 1]
      BY <2>1
    <3> HIDE DEF block
    <3>2. \A n \in Nat, m \in Nat : n >= 1 => \A i \in 1 .. m : n + i - 1 \in Nat
      OBVIOUS
    <3>3. lastId >= 1 /\ \A i \in 1 .. Block : lastId + i - 1 \in Nat
      BY <2>1, <3>2
    <3>4. block \in [1 .. Block -> Nat]
      BY <3>1, <3>3
    <3> QED
      BY <2>1, <3>1, <3>4
  <2> HIDE DEF block
  <2>3. IsInjective(block) /\ \A i \in ToSet(block) : i \in lastId .. lastId + Block - 1
    <3>1. \A i \in 1 .. Block, k \in 1 .. Block : lastId + i - 1 = lastId + k - 1 => i = k
      BY <2>1
    <3>2. \A i \in 1 .. Block : lastId + i - 1 \in lastId .. lastId + Block - 1
      BY <2>1
    <3> QED
      BY <2>2, <3>1, <3>2 DEF IsInjective, ToSet
  <2>4. \A i \in ToSet(j.pool) : i \notin ToSet(block)
    <3> SUFFICES ASSUME NEW i \in ToSet(j.pool) PROVE i \notin lastId .. lastId + Block - 1
      BY <2>3
    <3>1. i \in 1 .. lastId /\ i # lastId
      BY <2>1
    <3> QED
      BY <2>1, <3>1
  <2> DEFINE pool == j.pool \o block
             k == ReserveJob(j, pool, 0)
  <2>5. IsInjective(pool) /\ pool \in Seq(Nat) /\ ToSet(pool) = ToSet(j.pool) \cup ToSet(block)
    BY <2>1, <2>2, <2>3, <2>4, InjectiveConcat, ToSetFacts
  <2>6. Step(s, k)
    BY <1>7
  <2> HIDE DEF j, pool
  <2>7. Keeps(j, k, {"pool", "lo"}) /\ k.lo = 0 /\ k.pool = pool
    BY <1>1, ReserveRecord
  <2> HIDE DEF k
  <2>8. ASSUME k.own = j.own
        PROVE  AddsIds(s, k)
    <3>1. NewRows(s, k) = {} /\ j.own \subseteq k.own
      BY <2>8 DEF NewRows, j
    <3>2. lastId' \in Nat /\ lastId <= lastId'
      BY <1>1, <1>7, <2>1
    <3>3. ToSet(k.pool) \subseteq (lastId + 1 .. lastId') \cup ToSet(j.pool) \cup ({j.lo} \ {0})
      <4> SUFFICES ASSUME NEW i \in lastId .. lastId' PROVE i \in lastId + 1 .. lastId' \/ i = j.lo
        BY <1>7, <2>1, <2>3, <2>5, <2>7
      <4> QED
        BY <1>1, <2>1, <3>2
    <3> QED
      BY <1>1, <1>2, <1>3, <2>5, <2>7, <3>1, <3>2, <3>3 DEF AddsIds, j
  <2> QED
    BY <2>6, <2>7, <2>8
<1> QED
  BY <1>5, <1>6, <1>7

LEMMA NewKeysNew ==
    ASSUME NEW j
    PROVE  \A k \in NewKeys(j) : k \notin DOMAIN j.cache
BY DEF NewKeys

\* After the inserts: on to the literals, or to the rows.
AfterInsert(k) == IF k.at = "uris" THEN [k EXCEPT !.at = "literals"] ELSE Onward(DrainKeyed(k))
LEMMA AfterInsertGoesOn ==
    ASSUME NEW k, Rec(k), k.path \in Rebuilds, IsSeq(k.pending)
    PROVE  /\ Keeps(k, AfterInsert(k), {"at", "batch", "pending"}) /\ IsSeq(AfterInsert(k).pending)
           /\ AfterInsert(k).at \in {"literals", "flush", "finish", "window"}
<1>1. CASE k.at = "uris"
  <2>1. AfterInsert(k) = [k EXCEPT !.at = "literals"]
    BY <1>1 DEF AfterInsert
  <2>2. Keeps(k, AfterInsert(k), {"at"}) /\ AfterInsert(k).at = "literals"
    BY <2>1, MoveKeeps
  <2> QED
    BY <2>2 DEF Keeps, Fields
<1>2. CASE k.at # "uris"
  <2>1. AfterInsert(k) = Onward(DrainKeyed(k))
    BY <1>2 DEF AfterInsert
  <2>2. Rec(DrainKeyed(k)) /\ DrainKeyed(k).pending = <<>> /\ Keeps(k, DrainKeyed(k), {"batch", "pending"})
    BY DrainKeyedRecord, DrainKeeps
  <2>3. DrainKeyed(k).path = k.path
    BY <2>2 DEF Keeps, Fields
  <2>4. /\ Keeps(DrainKeyed(k), AfterInsert(k), {"at"}) /\ AfterInsert(k).at \in {"flush", "finish", "window", "lines"}
        /\ (AfterInsert(k).at = "lines" => DrainKeyed(k).path \notin Rebuilds)
    BY <2>1, <2>2, OnwardKeeps, OnwardAt
  <2>5. AfterInsert(k).pending = <<>>
    BY <2>2, <2>4 DEF Keeps, Fields
  <2> QED
    BY <2>2, <2>3, <2>4, <2>5, IsSeqFacts DEF Keeps
<1> QED
  BY <1>1, <1>2

\* The ids an insert takes: off the sequence, or out of the stock.
LEMMA InsertIds ==
    ASSUME Numbered, NEW j, NEW locks, Stocked(j, locks), NEW m \in Nat,
           NEW ids, ids = IF j.path = "bulk" THEN [i \in 1 .. m |-> lastId + i] ELSE j.pool, m <= Len(ids),
           lastId' = IF j.path = "bulk" THEN lastId + m ELSE lastId
    PROVE  /\ ids \in Seq(Nat) /\ IsInjective(ids) /\ lastId' \in Nat /\ lastId <= lastId'
           /\ \A i \in ToSet(ids) : i \in (lastId + 1 .. lastId') \cup ToSet(j.pool)
           /\ j.path = "bulk" => Len(ids) = m
           /\ j.path # "bulk" => ids = j.pool /\ lastId' = lastId
<1>1. lastId \in Nat
  BY DEF Numbered
<1>2. CASE j.path = "bulk"
  <2>1. \A i \in 1 .. m : lastId + i \in Nat /\ lastId + i \in lastId + 1 .. lastId + m
    BY <1>1
  <2>2. ids \in [1 .. m -> Nat] /\ \A i \in 1 .. m : ids[i] = lastId + i
    BY <1>2, <2>1
  <2>3. ids \in Seq(Nat) /\ Len(ids) = m /\ DOMAIN ids = 1 .. m
    BY <2>2
  <2>4. \A i, k \in 1 .. m : lastId + i = lastId + k => i = k
    BY <1>1
  <2>5. IsInjective(ids)
    BY <2>2, <2>3, <2>4 DEF IsInjective
  <2>6. \A i \in ToSet(ids) : i \in lastId + 1 .. lastId + m
    BY <2>1, <2>2, <2>3 DEF ToSet
  <2>7. lastId' = lastId + m
    BY <1>2
  <2> QED
    BY <1>1, <1>2, <2>3, <2>5, <2>6, <2>7
<1>3. CASE j.path # "bulk"
  BY <1>1, <1>3 DEF Stocked
<1> QED
  BY <1>2, <1>3

LEMMA InsertRows ==
    ASSUME Locking, Numbered, Single, NEW s \in Session, InsertNew(s)
    PROVE  Numbered' /\ Single'
<1> DEFINE j == job[s]
           N == NewKeys(j)
<1>1. PICK keys, ids, k :
          /\ keys = Listed(N)
          /\ ids = IF j.path = "bulk" THEN [i \in DOMAIN keys |-> lastId + i] ELSE j.pool
          /\ Len(keys) <= Len(ids)
          /\ k = [Fresh(j, keys, ids) EXCEPT !.pool = SubSeq(ids, Len(keys) + 1, Len(ids))]
          /\ Step(s, AfterInsert(k))
          /\ lastId' = IF j.path = "bulk" THEN lastId + Len(keys) ELSE lastId
  BY DEF InsertNew, AfterInsert
<1>2. /\ Rec(j) /\ j.at \in {"uris", "literals"} /\ Course(j, held[s]) /\ Stocked(j, held[s]) /\ Granted(s)
      /\ dict' = dict /\ raced' = raced /\ lastId \in Nat /\ Sound(j.cache, dict \cup j.own)
  BY DEF Locking, Jobs, IsJob, Numbered, InsertNew, tables
<1>3. j.path \in {"bulk", "stream"} /\ IsSeq(j.pending) /\ j.path \in Rebuilds
  BY <1>2 DEF Course, Rebuilds
<1>4. Dict("RX") \in Wants(s)
  BY <1>2 DEF Wants
<1>5. /\ \A t \in Session \ {s} : Dict("AX") \notin held[t] /\ held'[t] = held[t]
      /\ held[s] \subseteq held'[s]
  BY <1>2, <1>4, GrantedLocks
<1>6. /\ keys \in Seq(N) /\ ToSet(keys) = N /\ IsInjective(keys) /\ \A x \in N : x \notin DOMAIN j.cache
  <2>1. IsFiniteSet(N)
    BY <1>3, NewKeysFinite
  <2> QED
    BY <1>1, <2>1, ListedFacts, NewKeysNew
<1> DEFINE own == j.own \cup FreshRows(keys, ids)
           cache == FreshCache(j.cache, keys, ids)
           p == SubSeq(ids, Len(keys) + 1, Len(ids))
           l == AfterInsert(k)
<1>7. k = FreshJob(j, own, cache, p) /\ Step(s, l)
  BY <1>1 DEF Fresh, FreshJob, FreshRows, FreshCache
<1> HIDE DEF j, N, own, cache, p, l
<1>8. Keeps(j, k, {"own", "cache", "pool"}) /\ Rec(k) /\ k.own = own /\ k.cache = cache /\ k.pool = p
  BY <1>2, <1>7, FreshRecord
<1>9. k.path = j.path /\ k.lo = j.lo /\ k.queue = j.queue /\ k.pending = j.pending
  BY <1>8 DEF Keeps, Fields
<1>10. /\ Keeps(k, l, {"at", "batch", "pending"}) /\ IsSeq(l.pending) /\ l.at \in {"literals", "flush", "finish", "window"}
  BY <1>3, <1>8, <1>9, AfterInsertGoesOn DEF l
<1>11. l.path = j.path /\ l.lo = j.lo /\ l.queue = j.queue /\ l.own = own /\ l.cache = cache /\ l.pool = p
  BY <1>8, <1>9, <1>10 DEF Keeps, Fields
<1>12. /\ ids \in Seq(Nat) /\ IsInjective(ids) /\ lastId' \in Nat /\ lastId <= lastId'
       /\ \A i \in ToSet(ids) : i \in (lastId + 1 .. lastId') \cup ToSet(j.pool)
       /\ j.path = "bulk" => Len(ids) = Len(keys)
       /\ j.path # "bulk" => ids = j.pool /\ lastId' = lastId
  <2>1. Len(keys) \in Nat /\ DOMAIN keys = 1 .. Len(keys)
    BY <1>6
  <2> QED
    BY <1>1, <1>2, <2>1, InsertIds
<1>13. /\ p \in Seq(Nat) /\ IsInjective(p) /\ ToSet(p) \subseteq ToSet(ids)
       /\ \A i \in 1 .. Len(keys) : ids[i] \notin ToSet(p)
       /\ j.path = "bulk" => p = <<>>
  <2>1. Len(keys) \in 0 .. Len(ids)
    BY <1>1, <1>6, <1>12
  <2> QED
    BY <1>12, <2>1, PoolFacts DEF p
<1>14. /\ \A r \in FreshRows(keys, ids) : r = IdRow(r.id, r.key) /\ r.key \in N
       /\ \A r \in FreshRows(keys, ids) : \E i \in 1 .. Len(keys) : r.id = ids[i]
       /\ \A r1, r2 \in FreshRows(keys, ids) : r1.id = r2.id \/ r1.key = r2.key => r1 = r2
       /\ DOMAIN cache = DOMAIN j.cache \cup N
       /\ \A x \in N : IdRow(cache[x], x) \in FreshRows(keys, ids)
       /\ \A x \in DOMAIN j.cache \ N : cache[x] = j.cache[x]
  <2>1. keys \in Seq(N) /\ IsInjective(keys) /\ ids \in Seq(Nat) /\ IsInjective(ids) /\ Len(keys) <= Len(ids)
    BY <1>1, <1>6, <1>12
  <2>2. FreshIs(keys, ids, j.cache)
    BY <2>1, FreshFacts
  <2>3. ToSet(keys) = N /\ cache = FreshCache(j.cache, keys, ids)
    BY <1>6 DEF cache
  <2> QED
    BY <2>2, <2>3 DEF FreshIs
<1>15. NewRows(s, l) \subseteq FreshRows(keys, ids) /\ j.own \subseteq own
  BY <1>11 DEF NewRows, own, j
<1>16. AddsIds(s, l)
  <2>1. \A i \in 1 .. Len(keys) : ids[i] \in ToSet(ids)
    BY <1>1, <1>6, <1>12 DEF ToSet
  <2>2. \A r \in NewRows(s, l) : r = IdRow(r.id, r.key) /\ r.id \in (lastId + 1 .. lastId') \cup ToSet(j.pool)
                                 /\ r.id \notin ToSet(p) /\ r.id \in ToSet(ids)
    BY <1>12, <1>13, <1>14, <1>15, <2>1
  <2>3. j.path = "bulk" => p = <<>> /\ j.lo = 0
    BY <1>2, <1>13 DEF Course
  <2>4. p # <<>> \/ j.lo # 0 => Dict("AX") \in held'[s]
    BY <1>2, <1>3, <1>5, <2>3 DEF Course, Reading
  <2>5. j.lo \in {0, lastId'}
    BY <1>2, <1>12, <2>3 DEF Stocked
  <2>6. j.lo # 0 => j.lo \notin ToSet(p) \cup RowIds \cup {r.id : r \in NewRows(s, l)}
    <3> SUFFICES ASSUME j.lo # 0 PROVE j.lo \notin ToSet(p) \cup RowIds \cup {r.id : r \in NewRows(s, l)}
      OBVIOUS
    <3>1. j.lo \notin ToSet(j.pool) \cup RowIds /\ ids = j.pool
      BY <1>2, <1>12, <2>3 DEF Stocked
    <3> QED
      BY <1>13, <2>2, <3>1
  <2>7. ToSet(p) \subseteq (lastId + 1 .. lastId') \cup ToSet(j.pool) \cup ({j.lo} \ {0})
    BY <1>12, <1>13
  <2>8. \A r1, r2 \in NewRows(s, l) : r1.id = r2.id => r1 = r2
    BY <1>14, <1>15
  <2> QED
    BY <1>5, <1>11, <1>12, <1>13, <1>15, <2>2, <2>4, <2>5, <2>6, <2>7, <2>8 DEF AddsIds, j
<1>17. ~raced => AddsKeys(s, l)
  <2> SUFFICES ASSUME ~raced PROVE AddsKeys(s, l)
    OBVIOUS
  <2>1. dict = {}
    BY <1>2, <1>3 DEF Single, j
  <2>2. \A x \in j.own : x.key \in DOMAIN j.cache
    BY <1>2, <1>3 DEF Course
  <2>3. \A r \in NewRows(s, l), x \in dict \cup j.own : x.key # r.key
    BY <1>6, <1>14, <1>15, <2>1, <2>2
  <2>4. \A r1, r2 \in NewRows(s, l) : r1.key = r2.key => r1 = r2
    BY <1>14, <1>15
  <2> QED
    BY <2>3, <2>4 DEF AddsKeys, j
<1>18. Course(l, held'[s])
  <2>1. \A r \in own : r.key \in DOMAIN cache
    BY <1>2, <1>3, <1>14 DEF Course, own
  <2>2. l.path = "stream" => Dict("AX") \in held'[s]
    BY <1>2, <1>5, <1>11 DEF Course, Reading
  <2>3. l.at # "idle" /\ l.at \notin {"lines", "terms", "chunk", "parse", "record", "bind", "create"}
    BY <1>10
  <2>4. l.path = "bulk" => l.lo = 0
    BY <1>2, <1>11 DEF Course
  <2>5. IsSeq(l.queue) /\ IsInjective(l.queue)
    BY <1>2, <1>11 DEF Course
  <2> QED
    BY <1>3, <1>10, <1>11, <2>1, <2>2, <2>3, <2>4, <2>5 DEF Course
<1>19. Sound(l.cache, dict \cup l.own)
  <2> SUFFICES ASSUME NEW x \in DOMAIN cache PROVE IdRow(cache[x], x) \in dict \cup own
    BY <1>11 DEF Sound
  <2>1. CASE x \in N
    BY <1>14, <2>1 DEF own
  <2>2. CASE x \notin N
    BY <1>2, <1>14, <2>2 DEF own, Sound
  <2> QED
    BY <2>1, <2>2
<1>20. Numbered'
  BY <1>2, <1>7, <1>16, <1>18, <1>19, NumberedStep
<1>21. j.at # "idle" /\ j.at # "probe"
  BY <1>2
<1>22. Single'
  BY <1>2, <1>3, <1>7, <1>11, <1>15, <1>17, <1>21, SingleStep DEF j
<1> QED
  BY <1>20, <1>22

-----------------------------------------------------------------------------
\* The staged load.

LEMMA FreshFields ==
    ASSUME NEW j, Rec(j), NEW keys, NEW ids
    PROVE  /\ Keeps(j, Fresh(j, keys, ids), {"own", "cache"})
           /\ Fresh(j, keys, ids).own = j.own \cup FreshRows(keys, ids)
           /\ Fresh(j, keys, ids).cache = FreshCache(j.cache, keys, ids)
<1> DEFINE own == j.own \cup FreshRows(keys, ids)
           cache == FreshCache(j.cache, keys, ids)
           st == [own |-> own, cache |-> cache]
<1>1. Fresh(j, keys, ids) = [j EXCEPT !.own = own, !.cache = cache]
  BY DEF Fresh, FreshRows, FreshCache
<1>2. With(j, st) = [j EXCEPT !.own = own, !.cache = cache] /\ st.own = own /\ st.cache = cache
  BY DEF With
<1> HIDE DEF own, cache, st
<1>3. Keeps(j, Fresh(j, keys, ids), {"own", "cache"}) /\ Fresh(j, keys, ids).own = own /\ Fresh(j, keys, ids).cache = cache
  BY <1>1, <1>2, WithKeeps
<1> QED
  BY <1>3 DEF own, cache

\* Ids that follow each other.
After(n, m) == [i \in 1 .. m |-> n + i]
LEMMA AfterFacts ==
    ASSUME NEW n \in Nat, NEW m \in Nat
    PROVE  /\ After(n, m) \in Seq(Nat) /\ Len(After(n, m)) = m /\ IsInjective(After(n, m))
           /\ \A i \in 1 .. m : After(n, m)[i] = n + i
<1>1. /\ \A i \in 1 .. m : n + i \in Nat
      /\ \A i, k \in 1 .. m : n + i = n + k => i = k
  OBVIOUS
<1>2. After(n, m) \in [1 .. m -> Nat] /\ \A i \in 1 .. m : After(n, m)[i] = n + i
  BY <1>1 DEF After
<1>3. After(n, m) \in Seq(Nat) /\ Len(After(n, m)) = m /\ DOMAIN After(n, m) = 1 .. m
  BY <1>2
<1> QED
  BY <1>1, <1>2, <1>3 DEF IsInjective

NumberedRows(rows, n, m) ==
    /\ Cardinality(rows) = m
    /\ \A r \in rows : r = IdRow(r.id, r.key) /\ r.id \in n + 1 .. n + m
    /\ \A r1, r2 \in rows : r1.id = r2.id => r1 = r2
\* Two inserts, the second where the first stopped, make as many rows as they
\* have keys.
LEMMA TwoInserts ==
    ASSUME NEW n \in Nat, NEW A, NEW B, NEW a \in Seq(A), NEW b \in Seq(B)
    PROVE  NumberedRows(FreshRows(a, After(n, Len(a))) \cup FreshRows(b, After(n + Len(a), Len(b))), n, Len(a) + Len(b))
<1> DEFINE l == Len(a)
           m == Len(b)
           rowA == FreshRows(a, After(n, l))
           rowB == FreshRows(b, After(n + l, m))
           rows == rowA \cup rowB
           all == [i \in 1 .. l + m |-> IF i <= l THEN IdRow(n + i, a[i]) ELSE IdRow(n + i, b[i - l])]
<1>1. l \in Nat /\ m \in Nat /\ DOMAIN a = 1 .. l /\ DOMAIN b = 1 .. m
  OBVIOUS
<1>2. rowA = {IdRow(n + i, a[i]) : i \in 1 .. l}
  BY <1>1, AfterFacts DEF FreshRows
<1>3. rowB = {IdRow(n + l + i, b[i]) : i \in 1 .. m}
  <2>1. n + l \in Nat
    BY <1>1
  <2> QED
    BY <1>1, <2>1, AfterFacts DEF FreshRows
<1> HIDE DEF l, m, rowA, rowB
<1>4. \A i \in 1 .. l + m : all[i] \in rows /\ all[i].id = n + i /\ all[i] = IdRow(all[i].id, all[i].key)
  <2> SUFFICES ASSUME NEW i \in 1 .. l + m PROVE all[i] \in rows /\ all[i].id = n + i /\ all[i] = IdRow(all[i].id, all[i].key)
    OBVIOUS
  <2>1. CASE i <= l
    <3>1. all[i] = IdRow(n + i, a[i]) /\ i \in 1 .. l
      BY <1>1, <2>1
    <3> QED
      BY <1>2, <3>1 DEF IdRow
  <2>2. CASE i > l
    <3>1. all[i] = IdRow(n + i, b[i - l]) /\ i - l \in 1 .. m /\ n + l + (i - l) = n + i
      BY <1>1, <2>2
    <3>2. all[i] \in rowB
      BY <1>3, <3>1
    <3> QED
      BY <3>1, <3>2 DEF IdRow
  <2> QED
    BY <1>1, <2>1, <2>2
<1>5. \A r \in rows : \E i \in 1 .. l + m : r = all[i]
  <2>1. ASSUME NEW r \in rowA
        PROVE  \E i \in 1 .. l + m : r = all[i]
    <3>1. PICK i \in 1 .. l : r = IdRow(n + i, a[i])
      BY <1>2
    <3>2. i \in 1 .. l + m /\ i <= l
      BY <1>1
    <3> QED
      BY <3>1, <3>2
  <2>2. ASSUME NEW r \in rowB
        PROVE  \E i \in 1 .. l + m : r = all[i]
    <3>1. PICK i \in 1 .. m : r = IdRow(n + l + i, b[i])
      BY <1>3
    <3>2. /\ l + i \in 1 .. l + m /\ ~(l + i <= l) /\ (l + i) - l = i /\ n + (l + i) = n + l + i
      BY <1>1
    <3>3. all[l + i] = IdRow(n + (l + i), b[(l + i) - l])
      BY <3>2
    <3> QED
      BY <3>1, <3>2, <3>3
  <2> QED
    BY <2>1, <2>2
<1>6. DOMAIN all = 1 .. l + m
  OBVIOUS
<1>a. all = [i \in 1 .. l + m |-> all[i]]
  OBVIOUS
<1> HIDE DEF all, rows
<1>7. all \in Seq(rows) /\ Len(all) = l + m
  <2>1. all \in [1 .. l + m -> rows] /\ l + m \in Nat
    BY <1>1, <1>4, <1>a
  <2> QED
    BY <2>1
<1>8. \A i, k \in 1 .. l + m : n + i = n + k => i = k
  BY <1>1
<1>9. IsInjective(all) /\ ToSet(all) = rows
  BY <1>4, <1>5, <1>6, <1>8 DEF IsInjective, ToSet
<1>10. Cardinality(rows) = l + m
  BY <1>7, <1>9, InjectiveCounts
<1>11. \A r \in rows : r = IdRow(r.id, r.key) /\ r.id \in n + 1 .. n + (l + m)
  <2>1. \A i \in 1 .. l + m : n + i \in n + 1 .. n + (l + m)
    BY <1>1
  <2> QED
    BY <1>4, <1>5, <2>1
<1>12. \A r1, r2 \in rows : r1.id = r2.id => r1 = r2
  <2> SUFFICES ASSUME NEW r1 \in rows, NEW r2 \in rows, r1.id = r2.id PROVE r1 = r2
    OBVIOUS
  <2>1. PICK i \in 1 .. l + m : r1 = all[i]
    BY <1>5
  <2>2. PICK k \in 1 .. l + m : r2 = all[k]
    BY <1>5
  <2> QED
    BY <1>4, <1>8, <2>1, <2>2
<1> QED
  BY <1>10, <1>11, <1>12 DEF rows, rowA, rowB, l, m, NumberedRows

\* What the staged loader gives the dictionary.
StagedPlain(sts) == Listed(PlainKeys(sts) \cup DtypeKeys(sts))
StagedFirst(sts, n) == Fresh(Idle, StagedPlain(sts), [i \in DOMAIN StagedPlain(sts) |-> n + i])
StagedLiterals(sts, n) == Listed(LiteralKeys(sts, StagedFirst(sts, n).cache))
StagedJob(sts, n) ==
    Fresh(StagedFirst(sts, n), StagedLiterals(sts, n),
          [i \in DOMAIN StagedLiterals(sts, n) |-> n + Len(StagedPlain(sts)) + i])

StagedKeys(sts) == PlainKeys(sts) \cup DtypeKeys(sts)
\* Its two inserts: the plain keys, then those of the literals.
Inserts(sts, n, plain, first, p, literals, second, q) ==
    /\ plain \in Seq(StagedKeys(sts)) /\ ToSet(plain) = StagedKeys(sts) /\ IsInjective(plain)
    /\ first = After(n, Len(plain))
    /\ p.own = FreshRows(plain, first) /\ p.cache = FreshCache(Empty, plain, first)
    /\ literals \in Seq(LiteralKeys(sts, p.cache)) /\ ToSet(literals) = LiteralKeys(sts, p.cache) /\ IsInjective(literals)
    /\ second = After(n + Len(plain), Len(literals))
    /\ q = StagedJob(sts, n) /\ Keeps(Idle, q, {"own", "cache"})
    /\ q.own = FreshRows(plain, first) \cup FreshRows(literals, second)
    /\ q.cache = FreshCache(p.cache, literals, second)
    /\ Len(plain) \in Nat /\ Len(literals) \in Nat /\ n + Len(plain) \in Nat

LEMMA StagedParts ==
    ASSUME NEW sts, IsSeq(sts), NEW n \in Nat
    PROVE  \E plain, first, p, literals, second, q : Inserts(sts, n, plain, first, p, literals, second, q)
<1>1. PICK plain : plain = StagedPlain(sts)
  OBVIOUS
<1>2. plain \in Seq(StagedKeys(sts)) /\ ToSet(plain) = StagedKeys(sts) /\ IsInjective(plain)
  <2>1. IsFiniteSet(StagedKeys(sts))
    BY KeysFinite, FS_Union DEF StagedKeys
  <2> QED
    BY <1>1, <2>1, ListedFacts DEF StagedPlain, StagedKeys
<1>3. PICK first : first = After(n, Len(plain))
  OBVIOUS
<1>4. PICK p : p = Fresh(Idle, plain, first)
  OBVIOUS
<1>5. PICK literals : literals = Listed(LiteralKeys(sts, p.cache))
  OBVIOUS
<1>6. literals \in Seq(LiteralKeys(sts, p.cache)) /\ ToSet(literals) = LiteralKeys(sts, p.cache) /\ IsInjective(literals)
  BY <1>5, KeysFinite, ListedFacts
<1>7. PICK second : second = After(n + Len(plain), Len(literals))
  OBVIOUS
<1>8. PICK q : q = Fresh(p, literals, second)
  OBVIOUS
<1>9. StagedJob(sts, n) = q
  <2>1. DOMAIN plain = 1 .. Len(plain) /\ DOMAIN literals = 1 .. Len(literals)
    BY <1>2, <1>6
  <2>2. first = [i \in DOMAIN plain |-> n + i] /\ second = [i \in DOMAIN literals |-> n + Len(plain) + i]
    BY <1>3, <1>7, <2>1 DEF After
  <2>3. p = StagedFirst(sts, n)
    BY <1>1, <1>4, <2>2 DEF StagedFirst
  <2>4. literals = StagedLiterals(sts, n)
    BY <1>5, <2>3 DEF StagedLiterals
  <2> QED
    BY <1>1, <1>8, <2>2, <2>3, <2>4 DEF StagedJob
<1>10. Len(plain) \in Nat /\ Len(literals) \in Nat /\ n + Len(plain) \in Nat
  BY <1>2, <1>6
<1>11. p.own = FreshRows(plain, first) /\ p.cache = FreshCache(Empty, plain, first) /\ Keeps(Idle, p, {"own", "cache"})
  <2>1. Idle.own = {} /\ Idle.cache = Empty
    BY DEF Idle
  <2>2. /\ Keeps(Idle, p, {"own", "cache"}) /\ p.own = Idle.own \cup FreshRows(plain, first)
        /\ p.cache = FreshCache(Idle.cache, plain, first)
    BY <1>4, IdleRec, FreshFields
  <2> QED
    BY <2>1, <2>2
<1>12. /\ q.own = FreshRows(plain, first) \cup FreshRows(literals, second)
       /\ q.cache = FreshCache(p.cache, literals, second) /\ Keeps(p, q, {"own", "cache"})
  BY <1>8, <1>11, FreshFields DEF Keeps
<1>13. Keeps(Idle, q, {"own", "cache"})
  BY <1>11, <1>12 DEF Keeps
<1>14. Inserts(sts, n, plain, first, p, literals, second, q)
  BY <1>2, <1>3, <1>6, <1>7, <1>9, <1>10, <1>11, <1>12, <1>13 DEF Inserts
<1> QED
  BY <1>14

\* Each is cached, and a literal's key has the id of its datatype.
LEMMA InsertsFresh ==
    ASSUME NEW sts, NEW n \in Nat, NEW plain, NEW first, NEW p, NEW literals, NEW second, NEW q,
           Inserts(sts, n, plain, first, p, literals, second, q)
    PROVE  /\ FreshIs(plain, first, Empty) /\ FreshIs(literals, second, p.cache)
           /\ \A x \in StagedKeys(sts) : x[3] = 0
           /\ \A x \in LiteralKeys(sts, p.cache) : x[3] # 0
           /\ \A t \in TermsOf(sts) : Typed(t) => PlainKey(Dtype(t)) \in StagedKeys(sts)
<1>1. FreshIs(plain, first, Empty)
  <2>1. first \in Seq(Nat) /\ IsInjective(first) /\ Len(plain) <= Len(first)
    BY AfterFacts DEF Inserts
  <2> QED
    BY <2>1, FreshFacts DEF Inserts
<1>2. FreshIs(literals, second, p.cache)
  <2>1. second \in Seq(Nat) /\ IsInjective(second) /\ Len(literals) <= Len(second)
    BY AfterFacts DEF Inserts
  <2> QED
    BY <2>1, FreshFacts DEF Inserts
<1>3. \A x \in StagedKeys(sts) : x[3] = 0
  BY DEF StagedKeys, PlainKeys, DtypeKeys, PlainKey
<1>4. \A t \in TermsOf(sts) : Typed(t) => PlainKey(Dtype(t)) \in StagedKeys(sts)
  BY DEF StagedKeys, DtypeKeys
<1>5. ASSUME NEW t \in TermsOf(sts), Typed(t)
      PROVE  KeyIn(p.cache, t)[3] # 0
  <2>1. PICK x : x = PlainKey(Dtype(t))
    OBVIOUS
  <2>2. KeyIn(p.cache, t)[3] = p.cache[x] /\ x \in StagedKeys(sts)
    BY <1>4, <1>5, <2>1 DEF KeyIn
  <2>3. IdRow(p.cache[x], x) \in FreshRows(plain, first)
    BY <1>1, <2>2 DEF FreshIs, Inserts
  <2>4. PICK i \in 1 .. Len(plain) : p.cache[x] = first[i]
    BY <1>1, <2>3 DEF FreshIs, IdRow
  <2>5. first[i] = n + i
    BY AfterFacts DEF Inserts
  <2>6. n + i # 0
    BY DEF Inserts
  <2> QED
    BY <2>2, <2>4, <2>5, <2>6
<1>6. \A x \in LiteralKeys(sts, p.cache) : x[3] # 0
  BY <1>5 DEF LiteralKeys
<1> QED
  BY <1>1, <1>2, <1>3, <1>4, <1>6

LEMMA StagedJobFacts ==
    ASSUME NEW sts, IsSeq(sts), NEW n \in Nat
    PROVE  LET own == StagedJob(sts, n).own IN
           /\ Cardinality(own) \in Nat
           /\ \A r \in own : r = IdRow(r.id, r.key) /\ r.id \in n + 1 .. n + Cardinality(own)
           /\ \A r1, r2 \in own : r1.id = r2.id \/ r1.key = r2.key => r1 = r2
<1>1. PICK plain, first, p, literals, second, q : Inserts(sts, n, plain, first, p, literals, second, q)
  BY StagedParts
<1>2. /\ FreshIs(plain, first, Empty) /\ FreshIs(literals, second, p.cache)
      /\ (\A x \in StagedKeys(sts) : x[3] = 0) /\ (\A x \in LiteralKeys(sts, p.cache) : x[3] # 0)
  BY <1>1, InsertsFresh
<1>3. NumberedRows(q.own, n, Len(plain) + Len(literals))
  <2>1. PICK A, B : plain \in Seq(A) /\ literals \in Seq(B)
    BY <1>1 DEF Inserts
  <2>2. NumberedRows(FreshRows(plain, After(n, Len(plain))) \cup FreshRows(literals, After(n + Len(plain), Len(literals))),
                     n, Len(plain) + Len(literals))
    BY <2>1, TwoInserts
  <2> QED
    BY <1>1, <2>2 DEF Inserts
<1>4. /\ Cardinality(q.own) = Len(plain) + Len(literals)
      /\ \A r \in q.own : r = IdRow(r.id, r.key) /\ r.id \in n + 1 .. n + Cardinality(q.own)
      /\ \A r1, r2 \in q.own : r1.id = r2.id => r1 = r2
  BY <1>3 DEF NumberedRows
<1>5. \A r1, r2 \in q.own : r1.key = r2.key => r1 = r2
  <2>1. \A r1, r2 \in FreshRows(plain, first) : r1.key = r2.key => r1 = r2
    BY <1>2 DEF FreshIs
  <2>2. \A r1, r2 \in FreshRows(literals, second) : r1.key = r2.key => r1 = r2
    BY <1>2 DEF FreshIs
  <2>3. /\ \A r \in FreshRows(plain, first) : r.key \in StagedKeys(sts)
        /\ \A r \in FreshRows(literals, second) : r.key \in LiteralKeys(sts, p.cache)
    BY <1>1, <1>2 DEF FreshIs, Inserts
  <2>4. \A r1 \in FreshRows(plain, first), r2 \in FreshRows(literals, second) : r1.key # r2.key
    BY <1>2, <2>3
  <2> QED
    BY <1>1, <2>1, <2>2, <2>4 DEF Inserts
<1>6. Cardinality(q.own) \in Nat /\ q = StagedJob(sts, n)
  BY <1>1, <1>4 DEF Inserts
<1> QED
  BY <1>4, <1>5, <1>6

LEMMA StagedRows ==
    ASSUME Locking, Numbered, Single, NEW s \in Session, LoadStaged(s)
    PROVE  Numbered' /\ Single'
<1>1. PICK c \in Calls :
          /\ Start(s, c) /\ dict = {} /\ \A t \in Session : held[t] = {}
          /\ LET kept == Keep(c.doc, Bare(c.doc))
                 sts == [i \in DOMAIN kept |-> Place([g |-> c.g], kept[i])] IN
             /\ dict' = StagedJob(sts, lastId).own
             /\ lastId' = lastId + Cardinality(StagedJob(sts, lastId).own)
  BY ZenonT(90) DEF LoadStaged, StagedJob, StagedLiterals, StagedFirst, StagedPlain
<1>2. job' = job /\ held' = held /\ lastId \in Nat
  BY StagedLeaves DEF Numbered
<1> DEFINE kept == Keep(c.doc, Bare(c.doc))
           sts == [i \in DOMAIN kept |-> Place([g |-> c.g], kept[i])]
<1>3. IsSeq(sts)
  <2>1. kept \in Seq(Line)
    <3>1. c.doc \in Seq(Line)
      BY IngestAssumption
    <3> QED
      BY <3>1, KeepTyped
  <2> HIDE DEF kept
  <2>2. Len(kept) \in Nat /\ sts = [i \in 1 .. Len(kept) |-> sts[i]]
    BY <2>1
  <2> HIDE DEF sts
  <2> QED
    BY <2>2, IsSeqFacts
<1>4. dict' = StagedJob(sts, lastId).own /\ lastId' = lastId + Cardinality(StagedJob(sts, lastId).own)
  BY <1>1
<1> HIDE DEF sts
<1>5. /\ lastId' \in Nat /\ lastId <= lastId'
      /\ \A r \in dict' : r = IdRow(r.id, r.key) /\ r.id \in lastId + 1 .. lastId'
      /\ \A r1, r2 \in dict' : r1.id = r2.id \/ r1.key = r2.key => r1 = r2
  <2>1. PICK own : own = StagedJob(sts, lastId).own
    OBVIOUS
  <2>2. /\ Cardinality(own) \in Nat
        /\ \A r \in own : r = IdRow(r.id, r.key) /\ r.id \in lastId + 1 .. lastId + Cardinality(own)
        /\ \A r1, r2 \in own : r1.id = r2.id \/ r1.key = r2.key => r1 = r2
    BY <1>2, <1>3, <2>1, StagedJobFacts
  <2> QED
    BY <1>2, <1>4, <2>1, <2>2
<1>6. AllRows' = AllRows \cup dict'
  BY <1>1, <1>2 DEF AllRows
<1>7. \A r \in AllRows : r = IdRow(r.id, r.key) /\ r.id \in 1 .. lastId
  BY DEF Numbered
<1>8. \A r \in AllRows' : r = IdRow(r.id, r.key) /\ r.id \in 1 .. lastId'
  <2>1. 1 .. lastId \subseteq 1 .. lastId' /\ lastId + 1 .. lastId' \subseteq 1 .. lastId'
    BY <1>2, <1>5
  <2> QED
    BY <1>5, <1>6, <1>7, <2>1
<1>9. \A r1, r2 \in AllRows' : r1.id = r2.id => r1 = r2
  <2>1. \A r1 \in AllRows, r2 \in dict' : r1.id # r2.id
    BY <1>2, <1>5, <1>7
  <2>2. \A r1, r2 \in AllRows : r1.id = r2.id => r1 = r2
    BY DEF Numbered
  <2> QED
    BY <1>5, <1>6, <2>1, <2>2
<1>10. ASSUME NEW t \in Session
       PROVE  (Stocked(job[t], held[t]) /\ Course(job[t], held[t]) /\ Sound(job[t].cache, dict \cup job[t].own))'
  <2>1. Stocked(job[t], held[t]) /\ Course(job[t], held[t]) /\ Sound(job[t].cache, dict \cup job[t].own) /\ held[t] = {}
    BY <1>1 DEF Numbered
  <2>2. job[t].pool = <<>> /\ job[t].lo = 0
    BY <2>1 DEF Stocked
  <2>3. \A j : j.pool = <<>> /\ j.lo = 0 /\ Stocked(j, held[t]) => Stocked(j, held[t])'
    <3>1. ToSet(<<>>) = {}
      BY ToSetFacts
    <3> QED
      BY <1>2, <1>5, <3>1 DEF Stocked
  <2>4. Sound(job[t].cache, dict' \cup job[t].own)
    BY <1>1, <2>1 DEF Sound
  <2> QED
    BY <1>2, <2>1, <2>2, <2>3, <2>4 DEF Course, Sound, Stocked
<1>11. Numbered'
  BY <1>5, <1>8, <1>9, <1>10 DEF Numbered
<1>12. Single'
  <2> SUFFICES ASSUME ~raced'
               PROVE  /\ \A t, u \in Session : t # u => job'[t].at = "idle" \/ job'[u].at = "idle"
                      /\ \A r1, r2 \in AllRows' : r1.key = r2.key => r1 = r2
                      /\ \A t \in Session : job'[t].path \in Rebuilds /\ job'[t].at # "probe" => dict' = {}
    BY DEF Single
  <2>1. \A t \in Session : job[t].at = "idle"
    BY <1>1 DEF Start, Busy, At
  <2>2. \A t \in Session : job[t] = Idle
    BY <2>1 DEF Numbered, Course
  <2>3. Idle.own = {} /\ Idle.path \notin Rebuilds
    BY DEF Idle, Rebuilds
  <2>4. AllRows' = dict'
    BY <1>1, <1>6, <2>2, <2>3 DEF AllRows
  <2> QED
    BY <1>2, <1>5, <2>1, <2>2, <2>3, <2>4
<1> QED
  BY <1>11, <1>12

-----------------------------------------------------------------------------
\* The theorem.

LEMMA InitRows == Init => Numbered /\ Single
<1> SUFFICES ASSUME Init PROVE Numbered /\ Single
  OBVIOUS
<1>1. /\ dict = {} /\ lastId = 0 /\ \A s \in Session : job[s] = Idle
  BY DEF Init
<1>2. /\ Idle.own = {} /\ Idle.pool = <<>> /\ Idle.lo = 0 /\ Idle.cache = Empty /\ Idle.queue = <<>> /\ Idle.pending = <<>>
      /\ Idle.at = "idle" /\ Idle.path = "turtle"
  BY DEF Idle
<1>3. IsSeq(<<>>) /\ IsInjective(<<>>) /\ ToSet(<<>>) = {} /\ <<>> \in Seq(Nat)
  BY IsSeqFacts, ToSetFacts DEF IsInjective
<1> HIDE DEF Idle
<1>4. AllRows = {}
  BY <1>1, <1>2 DEF AllRows
<1>5. ASSUME NEW s \in Session
      PROVE  Stocked(job[s], held[s]) /\ Course(job[s], held[s]) /\ Sound(job[s].cache, dict \cup job[s].own)
  BY <1>1, <1>2, <1>3 DEF Stocked, Course, Sound, Empty, Rebuilds
<1>6. Numbered
  BY <1>1, <1>4, <1>5 DEF Numbered
<1>7. Single
  BY <1>1, <1>2, <1>4 DEF Single
<1> QED
  BY <1>6, <1>7

LEMMA NextRows == Locking /\ Numbered /\ Single /\ [Next]_vars => Numbered' /\ Single'
<1> SUFFICES ASSUME Locking, Numbered, Single, [Next]_vars PROVE Numbered' /\ Single'
  OBVIOUS
<1>1. CASE UNCHANGED vars
  <2>1. dict' = dict /\ lastId' = lastId /\ job' = job /\ held' = held /\ raced' = raced
    BY <1>1 DEF vars
  <2>2. AllRows' = AllRows /\ RowIds' = RowIds
    BY <2>1 DEF AllRows, RowIds
  <2>3. \A s \in Session : \A j : Stocked(j, held[s]) => Stocked(j, held[s])'
    BY <2>1, <2>2 DEF Stocked
  <2>4. \A s \in Session : (Stocked(job[s], held[s]) /\ Course(job[s], held[s]) /\ Sound(job[s].cache, dict \cup job[s].own))'
    BY <2>1, <2>3 DEF Numbered, Course, Sound, Stocked
  <2>5. Numbered'
    BY <2>1, <2>2, <2>4 DEF Numbered
  <2>6. Single'
    BY <2>1, <2>2 DEF Single
  <2> QED
    BY <2>5, <2>6
<1>2. ASSUME NEW s \in Session, Work(s)
      PROVE  Numbered' /\ Single'
  BY <1>2, ProbeRows, DropRows, MoveStepsRows, BaselineRows, CombinedRows, FlushDeferRows, PutChunkRows,
     QuietRows, ReserveRows, InsertRows, EndRows DEF Work
<1> QED
  BY <1>1, <1>2, BeginRows, StagedRows, EndRows DEF Next

LEMMA RowsAreSingle == Numbered /\ Single => OneRowPerTerm
BY DEF Numbered, Single, OneRowPerTerm, AllRows

\* No id is given out twice, on any of the dictionary paths, committed or not:
\* one by one, in batches, off the sequence or from a reserved block; and as long
\* as loads do not run side by side, no term has two rows.
THEOREM OneRowPerTermAlways == Spec => []OneRowPerTerm
<1>1. Init => Numbered /\ Single
  BY InitRows
<1>2. Locking /\ (Numbered /\ Single) /\ [Next]_vars => (Numbered /\ Single)'
  BY NextRows
<1>3. Numbered /\ Single => OneRowPerTerm
  BY RowsAreSingle
<1> QED
  BY <1>1, <1>2, <1>3, AlwaysLocking, PTL DEF Spec

-----------------------------------------------------------------------------
\* How often a sequence has a member in X.

Often(q, X) == Len(Keep(q, X))

LEMMA OftenNone == ASSUME NEW X PROVE Often(<<>>, X) = 0
BY KeepEmpty DEF Often

LEMMA OftenTyped ==
    ASSUME NEW S, NEW X, NEW q \in Seq(S)
    PROVE  Often(q, X) \in Nat
<1>1. Keep(q, X) \in Seq(S)
  BY KeepTyped
<1> QED
  BY <1>1 DEF Often

LEMMA OftenAppend ==
    ASSUME NEW S, NEW X, NEW q \in Seq(S), NEW e \in S
    PROVE  Often(Append(q, e), X) = IF e \in X THEN Often(q, X) + 1 ELSE Often(q, X)
<1>1. Keep(q, X) \in Seq(S)
  BY KeepTyped
<1>2. Keep(Append(q, e), X) = IF e \in X THEN Append(Keep(q, X), e) ELSE Keep(q, X)
  BY KeepAppend
<1> QED
  BY <1>1, <1>2 DEF Often

LEMMA OftenConcat ==
    ASSUME NEW S, NEW X, NEW p \in Seq(S), NEW q \in Seq(S)
    PROVE  Often(p \o q, X) = Often(p, X) + Often(q, X)
<1> DEFINE P == {r \in Seq(S) : Often(p \o r, X) = Often(p, X) + Often(r, X)}
<1>1. <<>> \in P
  <2>1. p \o <<>> = p /\ <<>> \in Seq(S)
    OBVIOUS
  <2>2. Often(p, X) \in Nat /\ Often(<<>>, X) = 0
    BY OftenTyped, OftenNone
  <2> QED
    BY <2>1, <2>2
<1>2. ASSUME NEW r \in Seq(S), NEW e \in S, r \in P
      PROVE  Append(r, e) \in P
  <2>1. p \o Append(r, e) = Append(p \o r, e) /\ p \o r \in Seq(S) /\ Append(r, e) \in Seq(S)
    OBVIOUS
  <2>2. Often(Append(p \o r, e), X) = IF e \in X THEN Often(p \o r, X) + 1 ELSE Often(p \o r, X)
    <3>1. PICK z \in Seq(S) : z = p \o r
      BY <2>1
    <3>2. Often(Append(z, e), X) = IF e \in X THEN Often(z, X) + 1 ELSE Often(z, X)
      BY OftenAppend
    <3> QED
      BY <3>1, <3>2
  <2>4. Often(Append(r, e), X) = IF e \in X THEN Often(r, X) + 1 ELSE Often(r, X)
    BY OftenAppend
  <2>5. Often(p, X) \in Nat /\ Often(r, X) \in Nat
    BY OftenTyped
  <2>3. Often(p \o r, X) = Often(p, X) + Often(r, X)
    BY <1>2
  <2>6. Often(Append(p \o r, e), X) = Often(p, X) + Often(Append(r, e), X)
    BY <2>2, <2>3, <2>4, <2>5
  <2> QED
    BY <2>1, <2>6
<1> HIDE DEF P
<1>3. Seq(S) \subseteq P
  BY <1>1, <1>2, SeqInductive
<1> QED
  BY <1>3 DEF P

LEMMA OftenSame ==
    ASSUME NEW S, NEW X, NEW Y, X \cap S = Y \cap S, NEW q \in Seq(S)
    PROVE  Often(q, X) = Often(q, Y)
BY KeepSame DEF Often

LEMMA OftenLess ==
    ASSUME NEW S, NEW X, NEW Y, X \cap S \subseteq Y, NEW q \in Seq(S)
    PROVE  Often(q, X) <= Often(q, Y)
<1> DEFINE P == {r \in Seq(S) : Often(r, X) <= Often(r, Y)}
<1>1. <<>> \in P
  <2>1. <<>> \in Seq(S) /\ Often(<<>>, Y) = 0 /\ Often(<<>>, X) = 0
    BY OftenNone
  <2> QED
    BY <2>1
<1>2. ASSUME NEW r \in Seq(S), NEW e \in S, r \in P
      PROVE  Append(r, e) \in P
  <2>1. \A Z : Often(Append(r, e), Z) = IF e \in Z THEN Often(r, Z) + 1 ELSE Often(r, Z)
    BY OftenAppend
  <2>2. Often(r, X) \in Nat /\ Often(r, Y) \in Nat
    BY OftenTyped
  <2>3. Often(r, X) <= Often(r, Y) /\ (e \in X => e \in Y)
    BY <1>2
  <2>4. Often(Append(r, e), X) <= Often(Append(r, e), Y)
    BY <2>1, <2>2, <2>3
  <2> QED
    BY <2>4
<1> HIDE DEF P
<1>3. Seq(S) \subseteq P
  BY <1>1, <1>2, SeqInductive
<1> QED
  BY <1>3 DEF P

\* What is kept, and what is left.
Splits(S, Y, X) == {r \in Seq(S) : /\ Often(Keep(r, Y), X) = Often(r, X \cap Y)
                                    /\ Often(Keep(r, Y), X) + Often(Keep(r, S \ Y), X) = Often(r, X)}
LEMMA AllSplit ==
    ASSUME NEW S, NEW Y, NEW X
    PROVE  Seq(S) \subseteq Splits(S, Y, X)
<1> DEFINE P == Splits(S, Y, X)
<1> USE DEF Splits
<1>1. <<>> \in P
  <2>1. <<>> \in Seq(S) /\ Often(<<>>, X) = 0 /\ Often(<<>>, X \cap Y) = 0 /\ \A Z : Keep(<<>>, Z) = <<>>
    BY OftenNone, KeepEmpty
  <2> QED
    BY <2>1
<1>2. ASSUME NEW r \in Seq(S), NEW e \in S, r \in P
      PROVE  Append(r, e) \in P
  <2>1. /\ Keep(r, Y) \in Seq(S) /\ Keep(r, S \ Y) \in Seq(S)
        /\ Keep(Append(r, e), Y) = IF e \in Y THEN Append(Keep(r, Y), e) ELSE Keep(r, Y)
        /\ Keep(Append(r, e), S \ Y) = IF e \in S \ Y THEN Append(Keep(r, S \ Y), e) ELSE Keep(r, S \ Y)
    BY KeepTyped, KeepAppend
  <2>2. \A Z : \A z \in Seq(S) : Often(z, Z) \in Nat
    BY OftenTyped
  <2>3. \A Z : \A z \in Seq(S) : Often(Append(z, e), Z) = IF e \in Z THEN Often(z, Z) + 1 ELSE Often(z, Z)
    BY OftenAppend
  <2>4. Often(Keep(r, Y), X) = Often(r, X \cap Y) /\ Often(Keep(r, Y), X) + Often(Keep(r, S \ Y), X) = Often(r, X)
    BY <1>2
  <2>5. /\ Often(Append(r, e), X) = IF e \in X THEN Often(r, X) + 1 ELSE Often(r, X)
        /\ Often(Append(r, e), X \cap Y) = IF e \in X \cap Y THEN Often(r, X \cap Y) + 1 ELSE Often(r, X \cap Y)
    BY <2>3
  <2>6. /\ Often(Append(Keep(r, Y), e), X) = IF e \in X THEN Often(Keep(r, Y), X) + 1 ELSE Often(Keep(r, Y), X)
        /\ Often(Append(Keep(r, S \ Y), e), X) = IF e \in X THEN Often(Keep(r, S \ Y), X) + 1 ELSE Often(Keep(r, S \ Y), X)
    BY <2>1, <2>3
  <2>7. /\ Often(r, X) \in Nat /\ Often(r, X \cap Y) \in Nat
        /\ Often(Keep(r, Y), X) \in Nat /\ Often(Keep(r, S \ Y), X) \in Nat
    BY <2>1, <2>2
  <2>8. /\ Often(Keep(Append(r, e), Y), X) = Often(Append(r, e), X \cap Y)
        /\ Often(Keep(Append(r, e), Y), X) + Often(Keep(Append(r, e), S \ Y), X) = Often(Append(r, e), X)
    <3>1. CASE e \in Y
      BY <2>1, <2>4, <2>5, <2>6, <2>7, <3>1
    <3>2. CASE e \notin Y
      <4>1. e \in S \ Y /\ e \notin X \cap Y
        BY <3>2
      <4>2. Keep(Append(r, e), Y) = Keep(r, Y) /\ Keep(Append(r, e), S \ Y) = Append(Keep(r, S \ Y), e)
        BY <2>1, <4>1
      <4>3. Often(Append(r, e), X \cap Y) = Often(r, X \cap Y)
        BY <2>5, <4>1
      <4>4. Often(Keep(r, Y), X) + Often(Append(Keep(r, S \ Y), e), X) = Often(Append(r, e), X)
        BY <2>4, <2>5, <2>6, <2>7
      <4> QED
        BY <2>4, <4>2, <4>3, <4>4
    <3> QED
      BY <3>1, <3>2
  <2> QED
    BY <2>8
<1> HIDE DEF P, Splits
<1>3. Seq(S) \subseteq P
  BY <1>1, <1>2, SeqInductive
<1> QED
  BY <1>3 DEF P

LEMMA OftenKept ==
    ASSUME NEW S, NEW Y, NEW X, NEW q \in Seq(S)
    PROVE  Often(Keep(q, Y), X) = Often(q, X \cap Y)
<1>1. q \in Splits(S, Y, X)
  BY AllSplit
<1> QED
  BY <1>1 DEF Splits
LEMMA OftenSplit ==
    ASSUME NEW S, NEW Y, NEW X, NEW q \in Seq(S)
    PROVE  Often(Keep(q, Y), X) + Often(Keep(q, S \ Y), X) = Often(q, X)
<1>1. q \in Splits(S, Y, X)
  BY AllSplit
<1> QED
  BY <1>1 DEF Splits

\* Element by element.
Into(S, f, X) == {e \in S : f[e] \in X}
Mapped(q, f) == [i \in DOMAIN q |-> f[q[i]]]
Images(S, T, f, X) == {q \in Seq(S) : Mapped(q, f) \in Seq(T) /\ Often(Mapped(q, f), X) = Often(q, Into(S, f, X))}
LEMMA AllImages ==
    ASSUME NEW S, NEW T, NEW f \in [S -> T], NEW X
    PROVE  Seq(S) \subseteq Images(S, T, f, X)
<1> DEFINE Z == Into(S, f, X)
           P == {r \in Seq(S) : Mapped(r, f) \in Seq(T) /\ Often(Mapped(r, f), X) = Often(r, Z)}
<1>1. <<>> \in P
  <2>1. Mapped(<<>>, f) = <<>>
    BY DEF Mapped
  <2>2. <<>> \in Seq(S) /\ <<>> \in Seq(T) /\ Often(<<>>, X) = 0 /\ Often(<<>>, Z) = 0
    BY OftenNone
  <2> QED
    BY <2>1, <2>2
<1>2. ASSUME NEW r \in Seq(S), NEW e \in S, r \in P
      PROVE  Append(r, e) \in P
  <2> DEFINE m == Mapped(r, f)
  <2>1. m \in Seq(T) /\ Often(m, X) = Often(r, Z) /\ f[e] \in T
    BY <1>2
  <2>2. Mapped(Append(r, e), f) = Append(m, f[e])
    <3>1. /\ Len(r) \in Nat /\ DOMAIN r = 1 .. Len(r) /\ DOMAIN Append(r, e) = 1 .. Len(r) + 1
          /\ Append(r, e)[Len(r) + 1] = e /\ \A i \in 1 .. Len(r) : Append(r, e)[i] = r[i]
      OBVIOUS
    <3>2. m = [i \in 1 .. Len(r) |-> f[r[i]]] /\ Len(m) = Len(r)
      BY <2>1, <3>1 DEF Mapped
    <3>3. Mapped(Append(r, e), f) = [i \in 1 .. Len(r) + 1 |-> f[Append(r, e)[i]]]
      BY <3>1 DEF Mapped
    <3> HIDE DEF m
    <3>4. Append(m, f[e]) = [i \in 1 .. Len(m) + 1 |-> IF i = Len(m) + 1 THEN f[e] ELSE m[i]]
      BY <2>1
    <3>5. \A i \in 1 .. Len(r) + 1 : f[Append(r, e)[i]] = IF i = Len(r) + 1 THEN f[e] ELSE m[i]
      BY <3>1, <3>2
    <3> QED
      BY <3>2, <3>3, <3>4, <3>5
  <2> HIDE DEF m, Z
  <2>3. Often(Append(m, f[e]), X) = IF f[e] \in X THEN Often(m, X) + 1 ELSE Often(m, X)
    BY <2>1, OftenAppend
  <2>6. Often(Append(r, e), Z) = IF e \in Z THEN Often(r, Z) + 1 ELSE Often(r, Z)
    BY OftenAppend
  <2>4. e \in Z <=> f[e] \in X
    BY DEF Z, Into
  <2>5. Append(m, f[e]) \in Seq(T) /\ Append(r, e) \in Seq(S)
    BY <2>1
  <2> QED
    BY <2>1, <2>2, <2>3, <2>4, <2>5, <2>6
<1> HIDE DEF P
<1>3. Seq(S) \subseteq P
  BY <1>1, <1>2, SeqInductive
<1> QED
  BY <1>3 DEF P, Z, Images

LEMMA OftenMapped ==
    ASSUME NEW S, NEW T, NEW f \in [S -> T], NEW X, NEW q \in Seq(S)
    PROVE  /\ Mapped(q, f) \in Seq(T)
           /\ Often(Mapped(q, f), X) = Often(q, Into(S, f, X))
<1>1. q \in Images(S, T, f, X)
  BY AllImages
<1> QED
  BY <1>1 DEF Images

\* The positions are as many.
Hits(q, X) == {i \in DOMAIN q : q[i] \in X}
LEMMA OftenHits ==
    ASSUME NEW S, NEW X, NEW q \in Seq(S)
    PROVE  IsFiniteSet(Hits(q, X)) /\ Cardinality(Hits(q, X)) = Often(q, X)
<1> DEFINE P == {r \in Seq(S) : IsFiniteSet(Hits(r, X)) /\ Cardinality(Hits(r, X)) = Often(r, X)}
<1>1. <<>> \in P
  <2>1. Hits(<<>>, X) = {}
    BY DEF Hits
  <2>2. IsFiniteSet({}) /\ Cardinality({}) = 0 /\ Often(<<>>, X) = 0 /\ <<>> \in Seq(S)
    BY FS_EmptySet, OftenNone
  <2> QED
    BY <2>1, <2>2
<1>2. ASSUME NEW r \in Seq(S), NEW e \in S, r \in P
      PROVE  Append(r, e) \in P
  <2>1. /\ Len(r) \in Nat /\ DOMAIN r = 1 .. Len(r) /\ DOMAIN Append(r, e) = 1 .. Len(r) + 1
        /\ Append(r, e)[Len(r) + 1] = e /\ \A i \in 1 .. Len(r) : Append(r, e)[i] = r[i]
    OBVIOUS
  <2>2. Hits(Append(r, e), X) = IF e \in X THEN Hits(r, X) \cup {Len(r) + 1} ELSE Hits(r, X)
    <3>1. \A i : i \in 1 .. Len(r) + 1 <=> i \in 1 .. Len(r) \/ i = Len(r) + 1
      BY <2>1
    <3> QED
      BY <2>1, <3>1 DEF Hits
  <2>3. Len(r) + 1 \notin Hits(r, X)
    BY <2>1 DEF Hits
  <2>4. IsFiniteSet(Hits(r, X)) /\ Cardinality(Hits(r, X)) = Often(r, X)
    BY <1>2
  <2>5. /\ IsFiniteSet(Hits(r, X) \cup {Len(r) + 1})
        /\ Cardinality(Hits(r, X) \cup {Len(r) + 1}) = Cardinality(Hits(r, X)) + 1
    BY <2>3, <2>4, FS_AddElement
  <2>6. Often(Append(r, e), X) = IF e \in X THEN Often(r, X) + 1 ELSE Often(r, X)
    BY OftenAppend
  <2>7. Append(r, e) \in Seq(S)
    OBVIOUS
  <2> QED
    BY <2>2, <2>4, <2>5, <2>6, <2>7
<1> HIDE DEF P
<1>3. Seq(S) \subseteq P
  BY <1>1, <1>2, SeqInductive
<1> QED
  BY <1>3 DEF P

-----------------------------------------------------------------------------
\* What rows of ids say, read through rows of the dictionary.

Statement == [g : Nat, t : Term \X Term \X Term]
Quad == Nat \X Nat \X Nat \X Nat
Key == STRING \X STRING \X Nat
Keyed == [g : Nat, k : Key \X Key \X Key]

\* The key, the id, the row, the waiting keys of a term or a statement.
KeySays(R, k, t) ==
    \/ t[3] = "" /\ k = <<t[1], t[2], 0>>
    \/ t[3] # "" /\ \E d \in Nat \ {0} : IdRow(d, <<"iri", t[3], 0>>) \in R /\ k = <<t[1], t[2], d>>
IdSays(R, id, t) == \E k : IdRow(id, k) \in R /\ KeySays(R, k, t)
RowSays(R, r, x) ==
    /\ r[1] = x.g
    /\ IdSays(R, r[2], x.t[1]) /\ IdSays(R, r[3], x.t[2]) /\ IdSays(R, r[4], x.t[3])
KeysSay(R, e, x) ==
    /\ e.g = x.g
    /\ KeySays(R, e.k[1], x.t[1]) /\ KeySays(R, e.k[2], x.t[2]) /\ KeySays(R, e.k[3], x.t[3])
Stored(R, x) == {r \in Quad : RowSays(R, r, x)}
Waiting(R, x) == {x} \cup {e \in Keyed : KeysSay(R, e, x)}
Legible(R) == {r \in Quad : \E x \in Statement : RowSays(R, r, x)}
Expected(R) == Statement \cup {e \in Keyed : \E x \in Statement : KeysSay(R, e, x)}

\* An id names one row.
Sane(R) ==
    /\ \A r \in R : r = IdRow(r.id, r.key) /\ r.id \in Nat \ {0}
    /\ \A r1, r2 \in R : r1.id = r2.id => r1 = r2

LEMMA SaneRows ==
    ASSUME NEW R, Sane(R)
    PROVE  \A id, k, l : IdRow(id, k) \in R /\ IdRow(id, l) \in R => k = l
<1>1. \A id, k : IdRow(id, k).id = id /\ IdRow(id, k).key = k
  BY DEF IdRow
<1> QED
  BY <1>1 DEF Sane

LEMMA KeySaysOne ==
    ASSUME NEW R, Sane(R), NEW k, NEW t \in Term, NEW u \in Term, KeySays(R, k, t), KeySays(R, k, u)
    PROVE  t = u
<1>1. t = <<t[1], t[2], t[3]>> /\ u = <<u[1], u[2], u[3]>>
  BY DEF Term
<1>2. CASE t[3] = "" /\ u[3] = ""
  <2>1. k = <<t[1], t[2], 0>> /\ k = <<u[1], u[2], 0>>
    BY <1>2 DEF KeySays
  <2>2. t[1] = u[1] /\ t[2] = u[2]
    BY <2>1
  <2>3. t[3] = u[3]
    BY <1>2, Zenon
  <2> QED
    BY <1>1, <2>2, <2>3
<1>3. CASE t[3] # "" /\ u[3] # ""
  <2>1. PICK d \in Nat \ {0} : IdRow(d, <<"iri", t[3], 0>>) \in R /\ k = <<t[1], t[2], d>>
    BY <1>3 DEF KeySays
  <2>2. PICK e \in Nat \ {0} : IdRow(e, <<"iri", u[3], 0>>) \in R /\ k = <<u[1], u[2], e>>
    BY <1>3 DEF KeySays
  <2>3. d = e /\ t[1] = u[1] /\ t[2] = u[2]
    BY <2>1, <2>2
  <2>4. <<"iri", t[3], 0>> = <<"iri", u[3], 0>>
    BY <2>1, <2>2, <2>3, SaneRows
  <2> QED
    BY <1>1, <2>3, <2>4
<1>4. CASE t[3] = "" /\ u[3] # ""
  <2>1. k = <<t[1], t[2], 0>>
    BY <1>4 DEF KeySays
  <2>2. PICK e \in Nat \ {0} : k = <<u[1], u[2], e>>
    BY <1>4 DEF KeySays
  <2> QED
    BY <2>1, <2>2
<1>5. CASE t[3] # "" /\ u[3] = ""
  <2>1. k = <<u[1], u[2], 0>>
    BY <1>5 DEF KeySays
  <2>2. PICK e \in Nat \ {0} : k = <<t[1], t[2], e>>
    BY <1>5 DEF KeySays
  <2> QED
    BY <2>1, <2>2
<1> QED
  BY <1>2, <1>3, <1>4, <1>5

LEMMA IdSaysOne ==
    ASSUME NEW R, Sane(R), NEW id, NEW t \in Term, NEW u \in Term, IdSays(R, id, t), IdSays(R, id, u)
    PROVE  t = u
<1>1. PICK k : IdRow(id, k) \in R /\ KeySays(R, k, t)
  BY DEF IdSays
<1>2. PICK l : IdRow(id, l) \in R /\ KeySays(R, l, u)
  BY DEF IdSays
<1>3. k = l
  BY <1>1, <1>2, SaneRows
<1> QED
  BY <1>1, <1>2, <1>3, KeySaysOne

LEMMA StatementParts ==
    ASSUME NEW x \in Statement
    PROVE  /\ x.g \in Nat /\ x.t[1] \in Term /\ x.t[2] \in Term /\ x.t[3] \in Term
           /\ x.t = <<x.t[1], x.t[2], x.t[3]>> /\ x = [g |-> x.g, t |-> x.t]
BY DEF Statement

LEMMA RowSaysOne ==
    ASSUME NEW R, Sane(R), NEW x \in Statement, NEW y \in Statement, NEW r, RowSays(R, r, x), RowSays(R, r, y)
    PROVE  x = y
<1>1. x.g = y.g
  BY DEF RowSays
<1>2. x.t[1] = y.t[1] /\ x.t[2] = y.t[2] /\ x.t[3] = y.t[3]
  BY IdSaysOne, StatementParts DEF RowSays
<1> QED
  BY <1>1, <1>2, StatementParts

LEMMA KeysSayOne ==
    ASSUME NEW R, Sane(R), NEW x \in Statement, NEW y \in Statement, NEW e, KeysSay(R, e, x), KeysSay(R, e, y)
    PROVE  x = y
<1>1. x.g = y.g
  BY DEF KeysSay
<1>2. x.t[1] = y.t[1] /\ x.t[2] = y.t[2] /\ x.t[3] = y.t[3]
  BY KeySaysOne, StatementParts DEF KeysSay
<1> QED
  BY <1>1, <1>2, StatementParts

\* More rows take nothing back.
LEMMA SaysMore ==
    ASSUME NEW R, NEW Q, R \subseteq Q
    PROVE  /\ \A k, t : KeySays(R, k, t) => KeySays(Q, k, t)
           /\ \A id, t : IdSays(R, id, t) => IdSays(Q, id, t)
           /\ \A r, x : RowSays(R, r, x) => RowSays(Q, r, x)
           /\ \A e, x : KeysSay(R, e, x) => KeysSay(Q, e, x)
<1>1. \A k, t : KeySays(R, k, t) => KeySays(Q, k, t)
  BY DEF KeySays
<1>2. \A id, t : IdSays(R, id, t) => IdSays(Q, id, t)
  BY <1>1 DEF IdSays
<1>3. \A r, x : RowSays(R, r, x) => RowSays(Q, r, x)
  BY <1>2 DEF RowSays
<1>4. \A e, x : KeysSay(R, e, x) => KeysSay(Q, e, x)
  BY <1>1 DEF KeysSay
<1> QED
  BY <1>1, <1>2, <1>3, <1>4

LEMMA ReadsSame ==
    ASSUME NEW R, NEW Q, R \subseteq Q, Sane(Q)
    PROVE  /\ Legible(R) \subseteq Legible(Q) /\ Expected(R) \subseteq Expected(Q)
           /\ \A x \in Statement : /\ Stored(R, x) \cap Legible(R) = Stored(Q, x) \cap Legible(R)
                                   /\ Waiting(R, x) \cap Expected(R) = Waiting(Q, x) \cap Expected(R)
<1>1. Legible(R) \subseteq Legible(Q) /\ Expected(R) \subseteq Expected(Q)
  BY SaysMore DEF Legible, Expected
<1>2. ASSUME NEW x \in Statement
      PROVE  Stored(R, x) \cap Legible(R) = Stored(Q, x) \cap Legible(R)
  <2>1. ASSUME NEW r \in Legible(R), RowSays(Q, r, x)
        PROVE  RowSays(R, r, x)
    <3>1. PICK y \in Statement : RowSays(R, r, y)
      BY DEF Legible
    <3>2. RowSays(Q, r, y)
      BY <3>1, SaysMore
    <3>3. x = y
      BY <2>1, <3>2, RowSaysOne
    <3> QED
      BY <3>1, <3>3
  <2> QED
    BY <2>1, SaysMore DEF Stored
<1>3. ASSUME NEW x \in Statement
      PROVE  Waiting(R, x) \cap Expected(R) = Waiting(Q, x) \cap Expected(R)
  <2>1. ASSUME NEW e \in Expected(R), e \in Keyed, KeysSay(Q, e, x)
        PROVE  KeysSay(R, e, x)
    <3>1. e \notin Statement
      BY <2>1 DEF Keyed, Statement
    <3>2. PICK y \in Statement : KeysSay(R, e, y)
      BY <3>1 DEF Expected
    <3>3. KeysSay(Q, e, y)
      BY <3>2, SaysMore
    <3>4. x = y
      BY <2>1, <3>3, KeysSayOne
    <3> QED
      BY <3>2, <3>4
  <2> QED
    BY <2>1, SaysMore DEF Waiting
<1> QED
  BY <1>1, <1>2, <1>3

\* What a load writes says what it read.
Dtyped(cache, st) == \A m \in 1 .. 3 : Typed(st.t[m]) => PlainKey(Dtype(st.t[m])) \in DOMAIN cache
Cached(cache, e) == e.k[1] \in DOMAIN cache /\ e.k[2] \in DOMAIN cache /\ e.k[3] \in DOMAIN cache

LEMMA NotBoth ==
    /\ \A e \in Keyed : e \notin Statement
    /\ \A R : \A x \in Statement : /\ \A st \in Statement : st \in Waiting(R, x) <=> st = x
                                   /\ \A e \in Keyed : e \in Waiting(R, x) <=> KeysSay(R, e, x)
<1>1. \A e \in Keyed : e \notin Statement
  BY DEF Keyed, Statement
<1> QED
  BY <1>1 DEF Waiting

LEMMA SoundIds ==
    ASSUME NEW R, Sane(R), NEW cache, Sound(cache, R), NEW k \in DOMAIN cache
    PROVE  cache[k] \in Nat \ {0} /\ IdRow(cache[k], k) \in R
<1>1. IdRow(cache[k], k) \in R
  BY DEF Sound
<1>2. IdRow(cache[k], k).id = cache[k]
  BY DEF IdRow
<1> QED
  BY <1>1, <1>2 DEF Sane

LEMMA KeyInSays ==
    ASSUME NEW R, Sane(R), NEW cache, Sound(cache, R), NEW t \in Term,
           Typed(t) => PlainKey(Dtype(t)) \in DOMAIN cache
    PROVE  KeyIn(cache, t) \in Key /\ KeySays(R, KeyIn(cache, t), t)
<1>1. t[1] \in STRING /\ t[2] \in STRING /\ t[3] \in STRING
  BY DEF Term
<1>2. CASE Typed(t)
  <2>1. PICK d : d = cache[PlainKey(Dtype(t))]
    OBVIOUS
  <2>2. KeyIn(cache, t) = <<t[1], t[2], d>>
    BY <1>2, <2>1 DEF KeyIn
  <2>3. d \in Nat \ {0} /\ IdRow(d, PlainKey(Dtype(t))) \in R
    BY <1>2, <2>1, SoundIds
  <2>4. PlainKey(Dtype(t)) = <<"iri", t[3], 0>>
    BY DEF PlainKey, Dtype
  <2>5. t[3] # ""
    BY <1>2 DEF Typed
  <2>6. IdRow(d, <<"iri", t[3], 0>>) \in R /\ d \in Nat
    BY <2>3, <2>4
  <2>7. <<t[1], t[2], d>> \in Key
    BY <1>1, <2>6 DEF Key
  <2>8. KeySays(R, <<t[1], t[2], d>>, t)
    BY <2>3, <2>5, <2>6 DEF KeySays
  <2> QED
    BY <2>2, <2>7, <2>8
<1>3. CASE ~Typed(t)
  <2>1. KeyIn(cache, t) = <<t[1], t[2], 0>> /\ t[3] = ""
    BY <1>3 DEF KeyIn, PlainKey, Typed
  <2>2. <<t[1], t[2], 0>> \in Key
    BY <1>1 DEF Key
  <2>3. KeySays(R, <<t[1], t[2], 0>>, t)
    BY <2>1 DEF KeySays
  <2> QED
    BY <2>1, <2>2, <2>3
<1> QED
  BY <1>2, <1>3

LEMMA KeysOfSay ==
    ASSUME NEW R, Sane(R), NEW cache, Sound(cache, R), NEW st \in Statement, Dtyped(cache, st)
    PROVE  /\ KeysOf(cache, st) \in Keyed /\ KeysOf(cache, st) \in Expected(R) /\ KeysSay(R, KeysOf(cache, st), st)
           /\ \A x \in Statement : KeysOf(cache, st) \in Waiting(R, x) <=> st = x
<1>1. PICK k1, k2, k3 : k1 = KeyIn(cache, st.t[1]) /\ k2 = KeyIn(cache, st.t[2]) /\ k3 = KeyIn(cache, st.t[3])
  OBVIOUS
<1>2. PICK e : e = KeysOf(cache, st)
  OBVIOUS
<1>3. e = [g |-> st.g, k |-> <<k1, k2, k3>>]
  BY <1>1, <1>2 DEF KeysOf
<1>4. /\ k1 \in Key /\ KeySays(R, k1, st.t[1])
      /\ k2 \in Key /\ KeySays(R, k2, st.t[2])
      /\ k3 \in Key /\ KeySays(R, k3, st.t[3])
  BY <1>1, KeyInSays, StatementParts DEF Dtyped
<1>5. e \in Keyed
  BY <1>3, <1>4, StatementParts DEF Keyed
<1>6. KeysSay(R, e, st)
  BY <1>3, <1>4 DEF KeysSay
<1>7. \A x \in Statement : e \in Waiting(R, x) <=> st = x
  <2>1. \A x \in Statement : e \in Waiting(R, x) <=> KeysSay(R, e, x)
    BY <1>5, NotBoth
  <2>2. \A x \in Statement : KeysSay(R, e, x) => st = x
    BY <1>6, KeysSayOne
  <2> QED
    BY <1>6, <2>1, <2>2
<1>8. e \in Expected(R)
  BY <1>5, <1>6 DEF Expected
<1> QED
  BY <1>2, <1>5, <1>6, <1>7, <1>8

LEMMA IdsOfSay ==
    ASSUME NEW R, Sane(R), NEW cache, Sound(cache, R), NEW e \in Keyed, Cached(cache, e)
    PROVE  /\ \A x : IdsOf(cache, e) \in Stored(R, x) <=> KeysSay(R, e, x)
           /\ e \in Expected(R) => IdsOf(cache, e) \in Legible(R)
<1>1. ASSUME NEW k \in DOMAIN cache, NEW t
      PROVE  IdSays(R, cache[k], t) <=> KeySays(R, k, t)
  <2>1. IdRow(cache[k], k) \in R
    BY SoundIds
  <2>2. \A l : IdRow(cache[k], l) \in R => l = k
    BY <2>1, SaneRows
  <2> QED
    BY <2>1, <2>2 DEF IdSays
<1>2. PICK r : r = IdsOf(cache, e)
  OBVIOUS
<1>3. r = <<e.g, cache[e.k[1]], cache[e.k[2]], cache[e.k[3]]>>
  BY <1>2 DEF IdsOf
<1>4. r \in Quad
  <2>1. cache[e.k[1]] \in Nat /\ cache[e.k[2]] \in Nat /\ cache[e.k[3]] \in Nat
    BY SoundIds DEF Cached
  <2>2. e.g \in Nat
    BY DEF Keyed
  <2> QED
    BY <1>3, <2>1, <2>2 DEF Quad
<1>5. ASSUME NEW x
      PROVE  RowSays(R, r, x) <=> KeysSay(R, e, x)
  <2>1. r[1] = e.g /\ r[2] = cache[e.k[1]] /\ r[3] = cache[e.k[2]] /\ r[4] = cache[e.k[3]]
    BY <1>3
  <2>2. /\ IdSays(R, r[2], x.t[1]) <=> KeySays(R, e.k[1], x.t[1])
        /\ IdSays(R, r[3], x.t[2]) <=> KeySays(R, e.k[2], x.t[2])
        /\ IdSays(R, r[4], x.t[3]) <=> KeySays(R, e.k[3], x.t[3])
    BY <1>1, <2>1 DEF Cached
  <2> QED
    BY <2>1, <2>2 DEF RowSays, KeysSay
<1>6. e \in Expected(R) => \E x \in Statement : KeysSay(R, e, x)
  BY NotBoth DEF Expected
<1> QED
  BY <1>2, <1>4, <1>5, <1>6 DEF Stored, Legible

LEMMA RowOfSays ==
    ASSUME NEW R, Sane(R), NEW cache, Sound(cache, R), NEW st \in Statement, Dtyped(cache, st),
           Cached(cache, KeysOf(cache, st))
    PROVE  /\ IdsOf(cache, KeysOf(cache, st)) \in Legible(R)
           /\ \A x \in Statement : IdsOf(cache, KeysOf(cache, st)) \in Stored(R, x) <=> st = x
<1>1. PICK e : e = KeysOf(cache, st)
  OBVIOUS
<1>2. e \in Keyed /\ e \in Expected(R) /\ \A x \in Statement : e \in Waiting(R, x) <=> st = x
  BY <1>1, KeysOfSay
<1>3. IdsOf(cache, e) \in Legible(R) /\ \A x : IdsOf(cache, e) \in Stored(R, x) <=> KeysSay(R, e, x)
  BY <1>1, <1>2, IdsOfSay
<1>4. \A x \in Statement : e \in Waiting(R, x) <=> KeysSay(R, e, x)
  BY <1>2, NotBoth
<1> QED
  BY <1>1, <1>2, <1>3, <1>4

-----------------------------------------------------------------------------
\* The books of a load: what it has written or keeps waiting are the statements
\* of the lines it has read, each as often as its path promises.

Placed(j) == {l \in Line : l.g \in DOMAIN j.gids \cup {Default}}
Saying(j, x, forms) == {l \in Line : l.form \in forms /\ Place(j, l) = x}
Least(j) == MustStore([by |-> j.path])
Most(j) == MayStore([by |-> j.path])
Total(j, R, x) == Often(j.out, Stored(R, x)) + Often(j.batch, Stored(R, x)) + Often(j.pending, Waiting(R, x))
Collected(j, R) == j.out \in Seq(Legible(R)) /\ j.batch \in Seq(Legible(R)) /\ j.pending \in Seq(Expected(R))
Bounded(j, R, p, x) ==
    /\ Often(p, Saying(j, x, Least(j))) <= Total(j, R, x)
    /\ Total(j, R, x) <= Often(p, Saying(j, x, Most(j)))
Books(j, R) ==
    /\ Collected(j, R)
    /\ \E p \in Seq(Placed(j)) : j.doc = p \o j.lines /\ \A x \in Statement : Bounded(j, R, p, x)

LEMMA TotalIsNat ==
    ASSUME NEW j, NEW R, Collected(j, R)
    PROVE  \A x : /\ Total(j, R, x) \in Nat /\ Often(j.out, Stored(R, x)) \in Nat
                  /\ Often(j.batch, Stored(R, x)) \in Nat /\ Often(j.pending, Waiting(R, x)) \in Nat
<1>1. \A x : /\ Often(j.out, Stored(R, x)) \in Nat
             /\ Often(j.batch, Stored(R, x)) \in Nat /\ Often(j.pending, Waiting(R, x)) \in Nat
  BY OftenTyped DEF Collected
<1> QED
  BY <1>1 DEF Total

LEMMA SeqMore ==
    ASSUME NEW S, NEW T, S \subseteq T, NEW q \in Seq(S)
    PROVE  q \in Seq(T)
OBVIOUS

LEMMA BooksMore ==
    ASSUME NEW j, NEW R, NEW Q, R \subseteq Q, Sane(Q), Books(j, R)
    PROVE  Books(j, Q)
<1>1. Collected(j, Q)
  BY ReadsSame, SeqMore DEF Books, Collected
<1>2. ASSUME NEW x \in Statement
      PROVE  Total(j, Q, x) = Total(j, R, x)
  <2>1. /\ Stored(R, x) \cap Legible(R) = Stored(Q, x) \cap Legible(R)
        /\ Waiting(R, x) \cap Expected(R) = Waiting(Q, x) \cap Expected(R)
    BY ReadsSame
  <2>2. Often(j.out, Stored(R, x)) = Often(j.out, Stored(Q, x)) /\ Often(j.batch, Stored(R, x)) = Often(j.batch, Stored(Q, x))
    BY <2>1, OftenSame DEF Books, Collected
  <2>3. Often(j.pending, Waiting(R, x)) = Often(j.pending, Waiting(Q, x))
    BY <2>1, OftenSame, SMTT(30) DEF Books, Collected
  <2> QED
    BY <2>2, <2>3 DEF Total
<1>3. PICK p \in Seq(Placed(j)) : j.doc = p \o j.lines /\ \A x \in Statement : Bounded(j, R, p, x)
  BY DEF Books
<1>4. \A x \in Statement : Bounded(j, Q, p, x)
  BY <1>2, <1>3 DEF Bounded
<1> QED
  BY <1>1, <1>3, <1>4 DEF Books

\* What a load is known by, as far as its books go.
Same(j, k) == k.doc = j.doc /\ k.path = j.path /\ k.g = j.g /\ k.gids = j.gids

LEMMA SameLines ==
    ASSUME NEW j, NEW k, Same(j, k)
    PROVE  /\ Placed(k) = Placed(j) /\ Least(k) = Least(j) /\ Most(k) = Most(j)
           /\ \A l : Place(k, l) = Place(j, l)
           /\ \A x, F : Saying(k, x, F) = Saying(j, x, F)
<1>1. Placed(k) = Placed(j) /\ Least(k) = Least(j) /\ Most(k) = Most(j)
  BY DEF Same, Placed, Least, Most
<1>2. \A l : Place(k, l) = Place(j, l)
  BY DEF Same, Place
<1>3. \A x, F : Saying(k, x, F) = Saying(j, x, F)
  BY <1>2 DEF Saying
<1> QED
  BY <1>1, <1>2, <1>3

LEMMA ThreeInARow ==
    ASSUME NEW S, NEW a \in Seq(S), NEW b \in Seq(S), NEW c \in Seq(S)
    PROVE  a \o (b \o c) = (a \o b) \o c
<1> DEFINE P == {r \in Seq(S) : a \o (b \o r) = (a \o b) \o r}
<1>1. <<>> \in P
  OBVIOUS
<1>2. ASSUME NEW r \in Seq(S), NEW e \in S, r \in P
      PROVE  Append(r, e) \in P
  <2>1. \A p, q \in Seq(S) : p \o Append(q, e) = Append(p \o q, e) /\ p \o q \in Seq(S)
    OBVIOUS
  <2>2. a \o (b \o Append(r, e)) = Append(a \o (b \o r), e)
    BY <2>1
  <2>3. (a \o b) \o Append(r, e) = Append((a \o b) \o r, e)
    BY <2>1
  <2> QED
    BY <1>2, <2>2, <2>3
<1> HIDE DEF P
<1>3. Seq(S) \subseteq P
  BY <1>1, <1>2, SeqInductive
<1> QED
  BY <1>3 DEF P

\* A step that reads w, and adds as much to the books.
Adds(j, k, R, w, x) ==
    /\ Total(j, R, x) + Often(w, Saying(j, x, Least(j))) <= Total(k, R, x)
    /\ Total(k, R, x) <= Total(j, R, x) + Often(w, Saying(j, x, Most(j)))

LEMMA BooksGrow ==
    ASSUME NEW j, NEW k, NEW R, Books(j, R), Same(j, k), Collected(k, R), k.lines \in Seq(Line),
           NEW w \in Seq(Placed(j)), j.lines = w \o k.lines, \A x \in Statement : Adds(j, k, R, w, x)
    PROVE  Books(k, R)
<1>1. PICK p \in Seq(Placed(j)) : j.doc = p \o j.lines /\ \A x \in Statement : Bounded(j, R, p, x)
  BY DEF Books
<1>2. p \o w \in Seq(Placed(j))
  OBVIOUS
<1>3. k.doc = (p \o w) \o k.lines
  <2>1. Placed(j) \subseteq Line
    BY DEF Placed
  <2>2. p \in Seq(Line) /\ w \in Seq(Line)
    BY <2>1, SeqMore
  <2>3. k.doc = p \o (w \o k.lines)
    BY <1>1 DEF Same
  <2>4. p \o (w \o k.lines) = (p \o w) \o k.lines
    <3>1. k.lines \in Seq(Line)
      OBVIOUS
    <3> QED
      <4>1. PICK S, a, b, c : S = Line /\ a = p /\ b = w /\ c = k.lines
        OBVIOUS
      <4>2. a \in Seq(S) /\ b \in Seq(S) /\ c \in Seq(S)
        BY <2>2, <3>1, <4>1
      <4>3. a \o (b \o c) = (a \o b) \o c
        BY <4>2, ThreeInARow, SMTT(30)
      <4> QED
        BY <4>1, <4>3
  <2> QED
    BY <2>3, <2>4
<1>4. ASSUME NEW x \in Statement
      PROVE  Bounded(k, R, p \o w, x)
  <2>1. \A F : Often(p \o w, Saying(j, x, F)) = Often(p, Saying(j, x, F)) + Often(w, Saying(j, x, F))
    BY OftenConcat
  <2>2. \A F : Often(p, Saying(j, x, F)) \in Nat /\ Often(w, Saying(j, x, F)) \in Nat
    BY OftenTyped
  <2>3. Total(j, R, x) \in Nat /\ Total(k, R, x) \in Nat
    BY TotalIsNat DEF Books
  <2>4. Bounded(j, R, p, x) /\ Adds(j, k, R, w, x)
    BY <1>1
  <2>5. /\ Often(p \o w, Saying(j, x, Least(j))) <= Total(k, R, x)
        /\ Total(k, R, x) <= Often(p \o w, Saying(j, x, Most(j)))
    <3> DEFINE a == Often(p, Saying(j, x, Least(j)))
               b == Often(w, Saying(j, x, Least(j)))
               c == Often(p, Saying(j, x, Most(j)))
               d == Often(w, Saying(j, x, Most(j)))
               m == Total(j, R, x)
               n == Total(k, R, x)
    <3>1. a \in Nat /\ b \in Nat /\ c \in Nat /\ d \in Nat /\ m \in Nat /\ n \in Nat
      BY <2>2, <2>3
    <3>2. a <= m /\ m <= c /\ m + b <= n /\ n <= m + d
      BY <2>4 DEF Bounded, Adds
    <3>3. Often(p \o w, Saying(j, x, Least(j))) = a + b /\ Often(p \o w, Saying(j, x, Most(j))) = c + d
      BY <2>1
    <3> HIDE DEF a, b, c, d, m, n
    <3>4. a + b <= n /\ n <= c + d
      BY <3>1, <3>2
    <3> QED
      BY <3>3, <3>4 DEF n
  <2> QED
    BY <2>5, SameLines DEF Bounded
<1>5. p \o w \in Seq(Placed(k))
  BY <1>2, SameLines
<1> QED
  BY <1>3, <1>4, <1>5 DEF Books

\* A step that leaves the books alone, but for where things lie.
LEMMA BooksKept ==
    ASSUME NEW j, NEW k, NEW R, Books(j, R), Same(j, k), Collected(k, R), k.lines = j.lines,
           \A x \in Statement : Total(k, R, x) = Total(j, R, x)
    PROVE  Books(k, R)
<1>1. PICK p \in Seq(Placed(j)) : j.doc = p \o j.lines /\ \A x \in Statement : Bounded(j, R, p, x)
  BY DEF Books
<1>2. p \in Seq(Placed(k)) /\ k.doc = p \o k.lines
  BY <1>1, SameLines DEF Same
<1>3. \A x \in Statement : Bounded(k, R, p, x)
  BY <1>1, SameLines DEF Bounded
<1> QED
  BY <1>2, <1>3 DEF Books

LEMMA BooksUntouched ==
    ASSUME NEW j, NEW k, NEW R, Books(j, R), Same(j, k), k.lines = j.lines,
           k.out = j.out, k.batch = j.batch, k.pending = j.pending
    PROVE  Books(k, R)
<1>1. Collected(k, R)
  BY DEF Books, Collected
<1>2. \A x \in Statement : Total(k, R, x) = Total(j, R, x)
  BY DEF Total
<1> QED
  BY <1>1, <1>2, BooksKept

-----------------------------------------------------------------------------
\* What the steps of a load do to its books.

\* Statements that wait take their ids.
LEMMA BooksDrained ==
    ASSUME NEW j, NEW k, NEW R, Books(j, R), Same(j, k), k.lines = j.lines, k.out = j.out, k.pending = <<>>,
           NEW S, NEW f \in [S -> Legible(R)], j.pending \in Seq(S), k.batch = j.batch \o Mapped(j.pending, f),
           \A e \in S, x \in Statement : f[e] \in Stored(R, x) <=> e \in Waiting(R, x)
    PROVE  Books(k, R)
<1>1. PICK q, m : q = j.pending /\ m = Mapped(q, f)
  OBVIOUS
<1>2. q \in Seq(S) /\ m \in Seq(Legible(R)) /\ k.batch = j.batch \o m
  <2>1. q \in Seq(S)
    BY <1>1
  <2>2. Mapped(q, f) \in Seq(Legible(R))
    BY <2>1, OftenMapped
  <2> QED
    BY <1>1, <2>1, <2>2
<1>3. /\ j.out \in Seq(Legible(R)) /\ j.batch \in Seq(Legible(R)) /\ Collected(j, R)
  BY DEF Books, Collected
<1>4. Collected(k, R)
  <2>1. k.batch \in Seq(Legible(R))
    BY <1>2, <1>3
  <2>2. k.pending \in Seq(Expected(R)) /\ k.out \in Seq(Legible(R))
    BY <1>3
  <2> QED
    BY <2>1, <2>2 DEF Collected
<1>5. ASSUME NEW x \in Statement
      PROVE  Total(k, R, x) = Total(j, R, x)
  <2>1. Often(Mapped(q, f), Stored(R, x)) = Often(q, Into(S, f, Stored(R, x)))
    BY <1>2, OftenMapped, SMTT(30)
  <2>2. Into(S, f, Stored(R, x)) \cap S = Waiting(R, x) \cap S
    BY DEF Into
  <2>3. Often(q, Into(S, f, Stored(R, x))) = Often(q, Waiting(R, x))
    BY <1>2, <2>2, OftenSame
  <2>4. Often(j.batch \o m, Stored(R, x)) = Often(j.batch, Stored(R, x)) + Often(m, Stored(R, x))
    BY <1>2, <1>3, OftenConcat
  <2>5. Often(k.pending, Waiting(R, x)) = 0
    BY OftenNone
  <2>6. /\ Often(j.out, Stored(R, x)) \in Nat
        /\ Often(j.batch, Stored(R, x)) \in Nat /\ Often(j.pending, Waiting(R, x)) \in Nat
    BY <1>3, TotalIsNat
  <2> QED
    BY <1>1, <1>2, <2>1, <2>3, <2>4, <2>5, <2>6 DEF Total
<1> QED
  BY <1>4, <1>5, BooksKept

\* Some of the batch is inserted.
LEMMA BooksFlushed ==
    ASSUME NEW j, NEW k, NEW R, Books(j, R), Same(j, k), k.lines = j.lines, k.pending = j.pending, NEW Y,
           k.out = j.out \o Keep(j.batch, Y), k.batch = Keep(j.batch, ToSet(j.batch) \ Y)
    PROVE  Books(k, R)
<1>1. PICK o, b, m, n : o = j.out /\ b = j.batch /\ m = Keep(b, Y) /\ n = Keep(b, ToSet(b) \ Y)
  OBVIOUS
<1>2. /\ o \in Seq(Legible(R)) /\ b \in Seq(Legible(R)) /\ Collected(j, R) /\ j.pending \in Seq(Expected(R))
  BY <1>1 DEF Books, Collected
<1>3. m \in Seq(Legible(R)) /\ n \in Seq(Legible(R))
  BY <1>1, <1>2, KeepTyped
<1>4. Collected(k, R)
  <2>1. o \o m \in Seq(Legible(R))
    BY <1>2, <1>3
  <2> QED
    BY <1>1, <1>2, <1>3, <2>1 DEF Collected
<1>5. ASSUME NEW x \in Statement
      PROVE  Total(k, R, x) = Total(j, R, x)
  <2>1. b \in Seq(ToSet(b))
    BY <1>2, ToSetFacts
  <2>2. Often(Keep(b, Y), Stored(R, x)) + Often(Keep(b, ToSet(b) \ Y), Stored(R, x)) = Often(b, Stored(R, x))
    BY <2>1, OftenSplit
  <2>3. Often(o \o m, Stored(R, x)) = Often(o, Stored(R, x)) + Often(m, Stored(R, x))
    BY <1>2, <1>3, OftenConcat
  <2>4. /\ Often(o, Stored(R, x)) \in Nat /\ Often(m, Stored(R, x)) \in Nat /\ Often(n, Stored(R, x)) \in Nat
        /\ Often(j.pending, Waiting(R, x)) \in Nat
    BY <1>2, <1>3, OftenTyped
  <2>5. /\ Total(k, R, x) = Often(o \o m, Stored(R, x)) + Often(n, Stored(R, x)) + Often(j.pending, Waiting(R, x))
        /\ Total(j, R, x) = Often(o, Stored(R, x)) + Often(b, Stored(R, x)) + Often(j.pending, Waiting(R, x))
    BY <1>1 DEF Total
  <2>6. Often(m, Stored(R, x)) + Often(n, Stored(R, x)) = Often(b, Stored(R, x))
    BY <1>1, <2>2
  <2> QED
    BY <2>3, <2>4, <2>5, <2>6
<1> QED
  BY <1>4, <1>5, BooksKept

\* One line is read: how often it says x.
LEMMA OneLine ==
    ASSUME NEW j, NEW l \in Line, NEW x, NEW F
    PROVE  Often(<<l>>, Saying(j, x, F)) = IF l.form \in F /\ Place(j, l) = x THEN 1 ELSE 0
<1>1. <<l>> = Append(<<>>, l) /\ <<>> \in Seq(Line)
  OBVIOUS
<1>2. Often(Append(<<>>, l), Saying(j, x, F)) = IF l \in Saying(j, x, F) THEN Often(<<>>, Saying(j, x, F)) + 1 ELSE Often(<<>>, Saying(j, x, F))
  <2>1. PICK q, X : q = <<>> /\ X = Saying(j, x, F)
    OBVIOUS
  <2>2. q \in Seq(Line)
    BY <1>1, <2>1
  <2>3. Often(Append(q, l), X) = IF l \in X THEN Often(q, X) + 1 ELSE Often(q, X)
    BY <2>2, OftenAppend
  <2> QED
    BY <2>1, <2>3
<1>3. Often(<<>>, Saying(j, x, F)) = 0
  BY OftenNone
<1>4. l \in Saying(j, x, F) <=> l.form \in F /\ Place(j, l) = x
  BY DEF Saying
<1> QED
  BY <1>1, <1>2, <1>3, <1>4

\* The parsers of whole documents store every line.
Whole(j) == j.path \notin Rebuilds \cup {"staged"}
LEMMA WholeForms ==
    ASSUME NEW j, Whole(j)
    PROVE  Least(j) = Form /\ Most(j) = Form
BY DEF Whole, Least, Most, MustStore, MayStore, Rebuilds

LEMMA BooksLine ==
    ASSUME NEW j, NEW k, NEW R, Books(j, R), Same(j, k), Whole(j), j.lines \in Seq(Line), j.lines # <<>>,
           Head(j.lines) \in Placed(j), k.lines = Tail(j.lines), Collected(k, R),
           \A x \in Statement : Total(k, R, x) = IF Place(j, Head(j.lines)) = x THEN Total(j, R, x) + 1 ELSE Total(j, R, x)
    PROVE  Books(k, R)
<1>1. PICK l : l = Head(j.lines)
  OBVIOUS
<1>2. l \in Line /\ l.form \in Form /\ <<l>> \in Seq(Placed(j))
  BY <1>1 DEF Placed, Line
<1>3. k.lines \in Seq(Line) /\ j.lines = <<l>> \o k.lines
  BY <1>1
<1>4. ASSUME NEW x \in Statement
      PROVE  Adds(j, k, R, <<l>>, x)
  <2>1. Often(<<l>>, Saying(j, x, Form)) = IF Place(j, l) = x THEN 1 ELSE 0
    BY <1>2, OneLine
  <2>2. Total(j, R, x) \in Nat
    BY TotalIsNat DEF Books
  <2>3. Total(k, R, x) = IF Place(j, l) = x THEN Total(j, R, x) + 1 ELSE Total(j, R, x)
    BY <1>1
  <2>4. Total(k, R, x) = Total(j, R, x) + Often(<<l>>, Saying(j, x, Form))
    BY <2>1, <2>2, <2>3
  <2>5. Total(k, R, x) <= Total(k, R, x)
    BY <2>2, <2>3
  <2> QED
    BY <2>4, <2>5, WholeForms DEF Adds
<1> QED
  BY <1>2, <1>3, <1>4, BooksGrow

\* ... into the batch,
LEMMA BooksRow ==
    ASSUME NEW j, NEW k, NEW R, Books(j, R), Same(j, k), Whole(j), j.lines \in Seq(Line), j.lines # <<>>,
           Head(j.lines) \in Placed(j), k.lines = Tail(j.lines), k.out = j.out, k.pending = j.pending,
           NEW r \in Legible(R), k.batch = Append(j.batch, r),
           \A x \in Statement : r \in Stored(R, x) <=> Place(j, Head(j.lines)) = x
    PROVE  Books(k, R)
<1>1. Collected(j, R)
  BY DEF Books
<1>2. Collected(k, R)
  BY <1>1 DEF Collected
<1>3. ASSUME NEW x \in Statement
      PROVE  Total(k, R, x) = IF Place(j, Head(j.lines)) = x THEN Total(j, R, x) + 1 ELSE Total(j, R, x)
  <2>1. PICK b : b = j.batch
    OBVIOUS
  <2>2. b \in Seq(Legible(R)) /\ k.batch = Append(b, r)
    BY <1>1, <2>1 DEF Collected
  <2>3. Often(Append(b, r), Stored(R, x)) = IF r \in Stored(R, x) THEN Often(b, Stored(R, x)) + 1 ELSE Often(b, Stored(R, x))
    BY <2>2, OftenAppend
  <2>4. /\ Often(j.out, Stored(R, x)) \in Nat /\ Often(b, Stored(R, x)) \in Nat /\ Often(j.pending, Waiting(R, x)) \in Nat
    BY <1>1, <2>1, TotalIsNat
  <2>5. r \in Stored(R, x) <=> Place(j, Head(j.lines)) = x
    OBVIOUS
  <2>6. /\ Total(j, R, x) = Often(j.out, Stored(R, x)) + Often(b, Stored(R, x)) + Often(j.pending, Waiting(R, x))
        /\ Total(k, R, x) = Often(j.out, Stored(R, x)) + Often(Append(b, r), Stored(R, x)) + Often(j.pending, Waiting(R, x))
    BY <2>1, <2>2 DEF Total
  <2> QED
    BY <2>3, <2>4, <2>5, <2>6
<1> QED
  BY <1>2, <1>3, BooksLine

\* ... or to wait for ids.
LEMMA BooksWait ==
    ASSUME NEW j, NEW k, NEW R, Books(j, R), Same(j, k), Whole(j), j.lines \in Seq(Line), j.lines # <<>>,
           Head(j.lines) \in Placed(j), k.lines = Tail(j.lines), k.out = j.out, k.batch = j.batch,
           NEW e \in Expected(R), k.pending = Append(j.pending, e),
           \A x \in Statement : e \in Waiting(R, x) <=> Place(j, Head(j.lines)) = x
    PROVE  Books(k, R)
<1>1. Collected(j, R)
  BY DEF Books
<1>2. Collected(k, R)
  BY <1>1 DEF Collected
<1>3. ASSUME NEW x \in Statement
      PROVE  Total(k, R, x) = IF Place(j, Head(j.lines)) = x THEN Total(j, R, x) + 1 ELSE Total(j, R, x)
  <2>1. PICK b : b = j.pending
    OBVIOUS
  <2>2. b \in Seq(Expected(R)) /\ k.pending = Append(b, e)
    BY <1>1, <2>1 DEF Collected
  <2>3. Often(Append(b, e), Waiting(R, x)) = IF e \in Waiting(R, x) THEN Often(b, Waiting(R, x)) + 1 ELSE Often(b, Waiting(R, x))
    BY <2>2, OftenAppend
  <2>4. /\ Often(j.out, Stored(R, x)) \in Nat /\ Often(j.batch, Stored(R, x)) \in Nat /\ Often(b, Waiting(R, x)) \in Nat
    BY <1>1, <2>1, TotalIsNat
  <2>5. e \in Waiting(R, x) <=> Place(j, Head(j.lines)) = x
    OBVIOUS
  <2>6. /\ Total(j, R, x) = Often(j.out, Stored(R, x)) + Often(j.batch, Stored(R, x)) + Often(b, Waiting(R, x))
        /\ Total(k, R, x) = Often(j.out, Stored(R, x)) + Often(j.batch, Stored(R, x)) + Often(Append(b, e), Waiting(R, x))
    BY <2>1, <2>2 DEF Total
  <2> QED
    BY <2>3, <2>4, <2>5, <2>6
<1> QED
  BY <1>2, <1>3, BooksLine

\* A window, a chunk or a document of lines is read at once.
LEMMA BooksGathered ==
    ASSUME NEW j, NEW k, NEW R, Books(j, R), Same(j, k), k.out = j.out, k.batch = j.batch, j.pending = <<>>,
           k.lines \in Seq(Line), NEW w \in Seq(Placed(j)), j.lines = w \o k.lines,
           NEW q \in Seq(Placed(j)), k.pending = [i \in DOMAIN q |-> Place(j, q[i])],
           \A l \in Placed(j) : Place(j, l) \in Statement,
           \A x \in Statement : /\ Often(w, Saying(j, x, Least(j))) <= Often(q, Saying(j, x, Form))
                                /\ Often(q, Saying(j, x, Form)) <= Often(w, Saying(j, x, Most(j)))
    PROVE  Books(k, R) /\ k.pending \in Seq(Statement)
<1> DEFINE f == [l \in Placed(j) |-> Place(j, l)]
<1>1. f \in [Placed(j) -> Statement]
  OBVIOUS
<1>2. k.pending = Mapped(q, f)
  <2>1. \A i \in DOMAIN q : q[i] \in Placed(j)
    OBVIOUS
  <2>2. \A i \in DOMAIN q : f[q[i]] = Place(j, q[i])
    BY <2>1
  <2> HIDE DEF f
  <2> QED
    BY <2>2 DEF Mapped
<1> HIDE DEF f
<1>a. Mapped(q, f) \in Seq(Statement)
  BY <1>1, OftenMapped
<1>3. k.pending \in Seq(Statement)
  BY <1>2, <1>a
<1>4. Collected(j, R)
  BY DEF Books
<1>5. Collected(k, R)
  BY <1>3, <1>4 DEF Collected, Expected
<1>6. ASSUME NEW x \in Statement
      PROVE  Adds(j, k, R, w, x)
  <2>1. \A l \in Placed(j) : f[l] \in Waiting(R, x) <=> Place(j, l) = x
    <3>1. \A l \in Placed(j) : f[l] = Place(j, l)
      BY DEF f
    <3>2. \A st \in Statement : st \in Waiting(R, x) <=> st = x
      BY NotBoth
    <3> QED
      BY <3>1, <3>2
  <2>2. \A l \in Placed(j) : l \in Line /\ l.form \in Form
    BY DEF Placed, Line
  <2>3. Into(Placed(j), f, Waiting(R, x)) \cap Placed(j) = Saying(j, x, Form) \cap Placed(j)
    BY <2>1, <2>2 DEF Saying, Into
  <2>4. Often(k.pending, Waiting(R, x)) = Often(q, Saying(j, x, Form))
    <3>1. Often(k.pending, Waiting(R, x)) = Often(q, Into(Placed(j), f, Waiting(R, x)))
      <4>1. Often(Mapped(q, f), Waiting(R, x)) = Often(q, Into(Placed(j), f, Waiting(R, x)))
        <5>1. PICK S, g, X : S = Placed(j) /\ g = f /\ X = Waiting(R, x)
          OBVIOUS
        <5>2. g \in [S -> Statement] /\ q \in Seq(S)
          BY <1>1, <5>1
        <5>3. q \in Images(S, Statement, g, X)
          BY <5>2, AllImages
        <5>4. Often(Mapped(q, g), X) = Often(q, Into(S, g, X))
          BY <5>3 DEF Images
        <5> QED
          BY <5>1, <5>4
      <4> QED
        BY <1>2, <4>1
    <3>2. Often(q, Into(Placed(j), f, Waiting(R, x))) = Often(q, Saying(j, x, Form))
      BY <2>3, OftenSame
    <3> QED
      BY <3>1, <3>2
  <2>5. Often(<<>>, Waiting(R, x)) = 0
    BY OftenNone
  <2>6. /\ Often(j.out, Stored(R, x)) \in Nat /\ Often(j.batch, Stored(R, x)) \in Nat
    BY <1>4, TotalIsNat
  <2>7. /\ Often(q, Saying(j, x, Form)) \in Nat /\ Often(w, Saying(j, x, Least(j))) \in Nat
        /\ Often(w, Saying(j, x, Most(j))) \in Nat
    BY OftenTyped
  <2>8. Total(k, R, x) = Total(j, R, x) + Often(q, Saying(j, x, Form))
    BY <2>4, <2>5, <2>6, <2>7 DEF Total
  <2>9. Total(j, R, x) \in Nat
    BY <1>4, TotalIsNat
  <2>10. /\ Often(w, Saying(j, x, Least(j))) <= Often(q, Saying(j, x, Form))
         /\ Often(q, Saying(j, x, Form)) <= Often(w, Saying(j, x, Most(j)))
    OBVIOUS
  <2> QED
    BY <2>7, <2>8, <2>9, <2>10 DEF Adds
<1>7. Books(k, R)
  BY <1>5, <1>6, BooksGrow
<1> QED
  BY <1>3, <1>7

\* A graph's id is learned: the lines read before are placed as they were.
LEMMA BooksPlaced ==
    ASSUME NEW j, NEW k, NEW R, Books(j, R), k.doc = j.doc, k.path = j.path, k.g = j.g,
           k.lines = j.lines, k.out = j.out, k.batch = j.batch, k.pending = j.pending,
           NEW n, n \notin DOMAIN j.gids, NEW id, k.gids = Learn(j.gids, n, id)
    PROVE  Books(k, R)
<1>1. DOMAIN k.gids = DOMAIN j.gids \cup {n} /\ \A m \in DOMAIN j.gids : k.gids[m] = j.gids[m]
  BY DEF Learn
<1>2. Placed(j) \subseteq Placed(k)
  BY <1>1 DEF Placed
<1>3. Least(k) = Least(j) /\ Most(k) = Most(j)
  BY DEF Least, Most
<1>4. \A l \in Placed(j) : Place(k, l) = Place(j, l)
  <2>1. \A l \in Placed(j) : l.g = Default \/ k.gids[l.g] = j.gids[l.g]
    BY <1>1 DEF Placed
  <2> QED
    BY <2>1 DEF Place
<1>5. \A x, F : Saying(k, x, F) \cap Placed(j) = Saying(j, x, F) \cap Placed(j)
  BY <1>4 DEF Saying
<1>6. PICK p \in Seq(Placed(j)) : j.doc = p \o j.lines /\ \A x \in Statement : Bounded(j, R, p, x)
  BY DEF Books
<1>7. \A x, F : Often(p, Saying(k, x, F)) = Often(p, Saying(j, x, F))
  BY <1>5, OftenSame
<1>8. \A x : Total(k, R, x) = Total(j, R, x)
  BY DEF Total
<1>9. \A x \in Statement : Bounded(k, R, p, x)
  BY <1>3, <1>6, <1>7, <1>8 DEF Bounded
<1>10. p \in Seq(Placed(k)) /\ k.doc = p \o k.lines
  BY <1>2, <1>6, SeqMore
<1>11. Collected(k, R)
  BY DEF Books, Collected
<1> QED
  BY <1>9, <1>10, <1>11 DEF Books

\* Nothing is read yet.
LEMMA BooksEmpty ==
    ASSUME NEW j, NEW R, j.lines = j.doc, j.doc \in Seq(Line), j.out = <<>>, j.batch = <<>>, j.pending = <<>>
    PROVE  Books(j, R)
<1>1. Collected(j, R)
  BY DEF Collected
<1>2. <<>> \in Seq(Placed(j)) /\ j.doc = <<>> \o j.lines
  OBVIOUS
<1>3. \A x \in Statement : Bounded(j, R, <<>>, x)
  BY OftenNone DEF Bounded, Total
<1> QED
  BY <1>1, <1>2, <1>3 DEF Books

-----------------------------------------------------------------------------
\* What waits, by the state of the load: statements whose keys are settled, in
\* the path that asks for them as it reads; statements as they were read, in the
\* others; nothing, between two of their rounds.

Keying == {"lines", "terms", "bind", "create"}
Gathering == {"gate", "drop", "lock", "chunk", "uris", "literals"}
Within(K, e) == e.k[1] \in K /\ e.k[2] \in K /\ e.k[3] \in K
Ready(j) == {e \in Keyed : Within(DOMAIN j.cache \cup ToSet(j.queue), e)}
OneTarget(j) == j.path # "staged" /\ (j.path # "quads" => OneGraph(j))
Calm(j) == j.mode = "baseline" \/ j.doc = <<>> => j.pending = <<>>
Stage(j) ==
    /\ OneTarget(j)
    /\ j.at \in Keying => j.pending \in Seq(Ready(j)) /\ Calm(j)
    /\ j.at \in Gathering => j.pending \in Seq(Statement)
    /\ j.at \notin Keying \cup Gathering => j.pending = <<>>
    /\ j.at = "literals" => PlainKeys(j.pending) \cup DtypeKeys(j.pending) \subseteq DOMAIN j.cache
    /\ j.at = "finish" => j.lines = <<>> /\ j.batch = <<>>
    /\ j.at = "probe" => j.lines = j.doc
    /\ j.at \in Naming => Unplaced(j)
    /\ j.at = "parse" => j.path # "quads"
    /\ j.at \in {"gate", "drop", "lock"} /\ j.path # "bulk" => j.pending = <<>>

LEMMA KeepsSame ==
    ASSUME NEW j, NEW k, NEW X, Keeps(j, k, X), X \cap {"doc", "path", "g", "gids"} = {}
    PROVE  Same(j, k)
BY DEF Keeps, Fields, Same

LEMMA OnwardEnds ==
    ASSUME NEW j, Rec(j), NEW S, j.batch \in Seq(S), Onward(j).at = "finish"
    PROVE  j.lines = <<>> /\ j.batch = <<>>
<1>1. "at" \in DOMAIN j
  BY DEF Rec, Fields
<1>2. Onward(j).at = CASE Due(j) # {} -> "flush"
                       [] Due(j) = {} /\ Finished(j) -> "finish"
                       [] OTHER -> IF j.path \in Rebuilds THEN "window" ELSE "lines"
  BY <1>1 DEF Onward
<1>3. Due(j) = {} /\ Finished(j)
  BY <1>2
<1>4. ToSet(j.batch) = {}
  BY <1>3 DEF Due
<1>5. j.batch = <<>>
  BY <1>4, ToSetFacts
<1> QED
  BY <1>3, <1>5 DEF Finished

LEMMA OnwardFine ==
    ASSUME NEW k, NEW R, Rec(k), Books(k, R), k.pending = <<>>, OneTarget(k)
    PROVE  Books(Onward(k), R) /\ Stage(Onward(k))
<1>1. PICK l : l = Onward(k)
  OBVIOUS
<1>2. Keeps(k, l, {"at"}) /\ l.at \in {"flush", "finish", "window", "lines"}
  BY <1>1, OnwardKeeps
<1>3. /\ Same(k, l) /\ l.lines = k.lines /\ l.out = k.out /\ l.batch = k.batch /\ l.pending = <<>>
      /\ l.path = k.path
  BY <1>2 DEF Keeps, Fields, Same
<1>4. Books(l, R)
  BY <1>3, BooksUntouched
<1>5. k.batch \in Seq(Legible(R))
  BY DEF Books, Collected
<1>6. l.at = "finish" => l.lines = <<>> /\ l.batch = <<>>
  BY <1>1, <1>3, <1>5, OnwardEnds
<1>7. OneTarget(l)
  BY <1>3 DEF OneTarget, OneGraph
<1>8. l.pending \in Seq(Ready(l)) /\ Calm(l)
  BY <1>3 DEF Calm
<1>9. Stage(l)
  BY <1>2, <1>3, <1>6, <1>7, <1>8 DEF Stage, Keying, Gathering, Naming
<1> QED
  BY <1>1, <1>4, <1>9

\* drain_pending_into_batch.
LEMMA DrainFine ==
    ASSUME NEW k, NEW R, Rec(k), Sane(R), Sound(k.cache, R), Books(k, R), k.pending \in Seq(Keyed),
           \A i \in DOMAIN k.pending : Cached(k.cache, k.pending[i])
    PROVE  Books(Drain(k), R)
<1> DEFINE S == {e \in Keyed : Cached(k.cache, e) /\ e \in Expected(R)}
           f == [e \in S |-> IdsOf(k.cache, e)]
<1>1. PICK q, l : q = k.pending /\ l = Drain(k)
  OBVIOUS
<1>2. q \in Seq(S)
  <2>1. q \in Seq(Keyed) /\ q \in Seq(Expected(R)) /\ \A i \in DOMAIN q : Cached(k.cache, q[i])
    BY <1>1 DEF Books, Collected
  <2>2. \A i \in 1 .. Len(q) : q[i] \in S
    BY <2>1
  <2> HIDE DEF S
  <2> QED
    BY <2>1, <2>2
<1>3. \A e \in S : f[e] = IdsOf(k.cache, e)
  OBVIOUS
<1>4. ASSUME NEW e \in S
      PROVE  f[e] \in Legible(R) /\ \A x \in Statement : f[e] \in Stored(R, x) <=> e \in Waiting(R, x)
  <2>1. e \in Keyed /\ Cached(k.cache, e) /\ e \in Expected(R)
    OBVIOUS
  <2>2. PICK r : r = f[e]
    OBVIOUS
  <2>3. r = IdsOf(k.cache, e)
    BY <1>3, <2>2
  <2> HIDE DEF S, f
  <2>4. r \in Legible(R) /\ \A x : r \in Stored(R, x) <=> KeysSay(R, e, x)
    BY <2>1, <2>3, IdsOfSay
  <2>5. \A x \in Statement : e \in Waiting(R, x) <=> KeysSay(R, e, x)
    BY <2>1, NotBoth
  <2> QED
    BY <2>2, <2>4, <2>5
<1>5. f \in [S -> Legible(R)]
  BY <1>4
<1>6. \A i \in DOMAIN q : f[q[i]] = IdsOf(k.cache, q[i])
  <2>1. \A i \in DOMAIN q : q[i] \in S
    BY <1>2
  <2> HIDE DEF S, f
  <2> QED
    BY <1>3, <2>1
<1> HIDE DEF S, f
<1>7. Keeps(k, l, {"batch", "pending"}) /\ l.pending = <<>> /\ l.batch = k.batch \o [i \in DOMAIN q |-> IdsOf(k.cache, q[i])]
  BY <1>1, DrainKeeps, DrainRecord
<1>8. l.batch = k.batch \o Mapped(q, f)
  BY <1>6, <1>7 DEF Mapped
<1>9. Same(k, l) /\ l.lines = k.lines /\ l.out = k.out
  BY <1>7 DEF Keeps, Fields, Same
<1> QED
  BY <1>1, <1>2, <1>4, <1>5, <1>7, <1>8, <1>9, BooksDrained

\* The keys of what waits are known.
LEMMA KnownCached ==
    ASSUME NEW k, k.pending \in Seq(Statement), Known3(k), NEW i \in DOMAIN k.pending
    PROVE  Dtyped(k.cache, k.pending[i]) /\ Cached(k.cache, KeysOf(k.cache, k.pending[i]))
<1>1. PICK q, c : q = k.pending /\ c = k.cache
  OBVIOUS
<1>2. \A m \in 1 .. 3 : q[i].t[m] \in TermsOf(q)
  BY <1>1 DEF TermsOf
<1>3. ASSUME NEW t \in TermsOf(q)
      PROVE  (Typed(t) => PlainKey(Dtype(t)) \in DOMAIN c) /\ KeyIn(c, t) \in DOMAIN c
  <2>1. CASE Typed(t)
    <3>1. PlainKey(Dtype(t)) \in DtypeKeys(q) /\ KeyIn(c, t) \in LiteralKeys(q, c)
      BY <2>1 DEF DtypeKeys, LiteralKeys
    <3> QED
      BY <1>1, <3>1 DEF Known3
  <2>2. CASE ~Typed(t)
    <3>1. PlainKey(t) \in PlainKeys(q)
      BY <2>2 DEF PlainKeys
    <3>2. KeyIn(c, t) = PlainKey(t)
      BY <2>2 DEF KeyIn
    <3> QED
      BY <1>1, <2>2, <3>1, <3>2 DEF Known3
  <2> QED
    BY <2>1, <2>2
<1>4. Dtyped(c, q[i])
  BY <1>2, <1>3 DEF Dtyped
<1>5. /\ KeyIn(c, q[i].t[1]) \in DOMAIN c /\ KeyIn(c, q[i].t[2]) \in DOMAIN c /\ KeyIn(c, q[i].t[3]) \in DOMAIN c
  BY <1>2, <1>3
<1>6. Cached(c, KeysOf(c, q[i]))
  BY <1>5 DEF Cached, KeysOf
<1> QED
  BY <1>1, <1>4, <1>6

LEMMA DrainKeyedFine ==
    ASSUME NEW k, NEW R, Rec(k), Sane(R), Sound(k.cache, R), Books(k, R), k.pending \in Seq(Statement), Known3(k)
    PROVE  Books(DrainKeyed(k), R)
<1> DEFINE S == {st \in Statement : Dtyped(k.cache, st) /\ Cached(k.cache, KeysOf(k.cache, st))}
           f == [st \in S |-> IdsOf(k.cache, KeysOf(k.cache, st))]
<1>1. PICK q, l : q = k.pending /\ l = DrainKeyed(k)
  OBVIOUS
<1>2. q \in Seq(S)
  <2>1. q \in Seq(Statement) /\ \A i \in DOMAIN q : Dtyped(k.cache, q[i]) /\ Cached(k.cache, KeysOf(k.cache, q[i]))
    BY <1>1, KnownCached
  <2>2. \A i \in 1 .. Len(q) : q[i] \in S
    BY <2>1
  <2> HIDE DEF S
  <2> QED
    BY <2>1, <2>2
<1>3. \A st \in S : f[st] = IdsOf(k.cache, KeysOf(k.cache, st))
  OBVIOUS
<1>4. ASSUME NEW st \in S
      PROVE  f[st] \in Legible(R) /\ \A x \in Statement : f[st] \in Stored(R, x) <=> st \in Waiting(R, x)
  <2>1. st \in Statement /\ Dtyped(k.cache, st) /\ Cached(k.cache, KeysOf(k.cache, st))
    OBVIOUS
  <2>2. PICK r : r = f[st]
    OBVIOUS
  <2>3. r = IdsOf(k.cache, KeysOf(k.cache, st))
    BY <1>3, <2>2
  <2> HIDE DEF S, f
  <2>4. r \in Legible(R) /\ \A x \in Statement : r \in Stored(R, x) <=> st = x
    BY <2>1, <2>3, RowOfSays
  <2>5. \A x \in Statement : st \in Waiting(R, x) <=> st = x
    BY <2>1, NotBoth
  <2> QED
    BY <2>2, <2>4, <2>5
<1>5. f \in [S -> Legible(R)]
  BY <1>4
<1>6. \A i \in DOMAIN q : f[q[i]] = IdsOf(k.cache, KeysOf(k.cache, q[i]))
  <2>1. \A i \in DOMAIN q : q[i] \in S
    BY <1>2
  <2> HIDE DEF S, f
  <2> QED
    BY <1>3, <2>1
<1> HIDE DEF S, f
<1>7. Keeps(k, l, {"batch", "pending"}) /\ l.pending = <<>>
      /\ l.batch = k.batch \o [i \in DOMAIN q |-> IdsOf(k.cache, KeysOf(k.cache, q[i]))]
  BY <1>1, DrainKeeps, DrainKeyedRecord
<1>8. l.batch = k.batch \o Mapped(q, f)
  BY <1>6, <1>7 DEF Mapped
<1>9. Same(k, l) /\ l.lines = k.lines /\ l.out = k.out
  BY <1>7 DEF Keeps, Fields, Same
<1> QED
  BY <1>1, <1>2, <1>4, <1>5, <1>7, <1>8, <1>9, BooksDrained

\* A load that only changes its place.
LEMMA MoveFine ==
    ASSUME NEW k, NEW R, Rec(k), Books(k, R), OneTarget(k), NEW l, Keeps(k, l, {"at", "queue"}),
           \/ l.at \in Keying \ Naming /\ k.pending \in Seq(Ready(l)) /\ Calm(k)
           \/ l.at = "chunk" /\ k.pending \in Seq(Statement)
    PROVE  Books(l, R) /\ Stage(l)
<1>1. /\ Same(k, l) /\ l.lines = k.lines /\ l.out = k.out /\ l.batch = k.batch /\ l.pending = k.pending
      /\ l.path = k.path /\ l.mode = k.mode /\ l.doc = k.doc
  BY DEF Keeps, Fields, Same
<1>2. Books(l, R)
  BY <1>1, BooksUntouched
<1>3. OneTarget(l) /\ (Calm(k) => Calm(l))
  BY <1>1 DEF OneTarget, OneGraph, Calm
<1>4. l.at \notin {"literals", "finish", "probe", "bind", "create", "parse", "gate", "drop", "lock"}
  BY DEF Keying, Naming
<1>5. CASE l.at \in Keying \ Naming /\ k.pending \in Seq(Ready(l)) /\ Calm(k)
  BY <1>1, <1>2, <1>3, <1>4, <1>5 DEF Stage, Keying, Gathering, Naming
<1>6. CASE l.at = "chunk" /\ k.pending \in Seq(Statement)
  BY <1>1, <1>2, <1>3, <1>4, <1>6 DEF Stage, Keying, Gathering, Naming
<1> QED
  BY <1>2, <1>5, <1>6

LEMMA CombineFine ==
    ASSUME NEW k, NEW R, Rec(k), Sane(R), Sound(k.cache, R), Books(k, R), OneTarget(k),
           k.pending \in Seq(Ready(k)), Calm(k)
    PROVE  Books(Combine(k), R) /\ Stage(Combine(k))
<1>1. ASSUME NEW at \in {"terms", "lines"}, NEW l, l = [k EXCEPT !.at = at]
      PROVE  Books(l, R) /\ Stage(l)
  <2>1. Keeps(k, l, {"at"}) /\ l.at = at
    BY <1>1, MoveKeeps
  <2>2. Keeps(k, l, {"at", "queue"}) /\ l.cache = k.cache /\ l.queue = k.queue
    BY <2>1 DEF Keeps, Fields
  <2>3. Ready(l) = Ready(k)
    BY <2>2 DEF Ready
  <2>4. l.at \in Keying \ Naming
    BY <2>1 DEF Keying, Naming
  <2> QED
    BY <2>2, <2>3, <2>4, MoveFine
<1>2. ASSUME k.queue = <<>>
      PROVE  Books(Onward(Drain(k)), R) /\ Stage(Onward(Drain(k)))
  <2>1. ToSet(k.queue) = {}
    BY <1>2, ToSetFacts
  <2>2. Ready(k) \subseteq Keyed /\ \A e \in Ready(k) : Cached(k.cache, e)
    BY <2>1 DEF Ready, Within, Cached
  <2>3. k.pending \in Seq(Keyed) /\ \A i \in DOMAIN k.pending : Cached(k.cache, k.pending[i])
    <3>1. \A i \in DOMAIN k.pending : k.pending[i] \in Ready(k)
      OBVIOUS
    <3>2. k.pending \in Seq(Keyed)
      BY <2>2, SeqMore
    <3> QED
      BY <2>2, <3>1, <3>2
  <2>4. PICK l : l = Drain(k)
    OBVIOUS
  <2>5. Books(l, R)
    BY <2>3, <2>4, DrainFine
  <2>6. Keeps(k, l, {"batch", "pending"}) /\ Rec(l) /\ l.pending = <<>>
    BY <2>4, DrainKeeps, DrainRecord
  <2>7. OneTarget(l)
    BY <2>6 DEF Keeps, Fields, OneTarget, OneGraph
  <2> QED
    BY <2>4, <2>5, <2>6, <2>7, OnwardFine
<1>3. \/ Combine(k) = [k EXCEPT !.at = "terms"]
      \/ Combine(k) = [k EXCEPT !.at = "lines"]
      \/ k.queue = <<>> /\ Combine(k) = Onward(Drain(k))
  BY CombineCases
<1> QED
  BY <1>1, <1>2, <1>3

LEMMA DrainKeyedOnward ==
    ASSUME NEW k, NEW R, Rec(k), Sane(R), Sound(k.cache, R), Books(k, R), OneTarget(k), k.pending \in Seq(Statement), Known3(k)
    PROVE  Books(Onward(DrainKeyed(k)), R) /\ Stage(Onward(DrainKeyed(k)))
<1>1. PICK l : l = DrainKeyed(k)
  OBVIOUS
<1>2. Books(l, R)
  BY <1>1, DrainKeyedFine
<1>3. Keeps(k, l, {"batch", "pending"}) /\ Rec(l) /\ l.pending = <<>>
  BY <1>1, DrainKeeps, DrainKeyedRecord
<1>4. OneTarget(l)
  BY <1>3 DEF Keeps, Fields, OneTarget, OneGraph
<1> QED
  BY <1>1, <1>2, <1>3, <1>4, OnwardFine

LEMMA BatchedFine ==
    ASSUME NEW k, NEW R, Rec(k), Sane(R), Sound(k.cache, R), Books(k, R), OneTarget(k), k.pending \in Seq(Statement)
    PROVE  Books(Batched(k), R) /\ Stage(Batched(k))
<1>1. ASSUME NEW l, Keeps(k, l, {"at", "queue"}), l.at = "chunk"
      PROVE  Books(l, R) /\ Stage(l)
  BY <1>1, MoveFine
<1>2. CASE Batched(k) = [k EXCEPT !.at = "chunk"]
  <2>0. Keeps(k, [k EXCEPT !.at = "chunk"], {"at"}) /\ [k EXCEPT !.at = "chunk"].at = "chunk"
    BY MoveKeeps
  <2>1. Keeps(k, Batched(k), {"at"}) /\ Batched(k).at = "chunk"
    BY ONLY <1>2, <2>0
  <2>2. Keeps(k, Batched(k), {"at", "queue"})
    BY <2>1 DEF Keeps
  <2>3. PICK l : l = Batched(k)
    OBVIOUS
  <2>4. Keeps(k, l, {"at", "queue"}) /\ l.at = "chunk"
    BY <2>1, <2>2, <2>3
  <2>5. Books(l, R) /\ Stage(l)
    BY <1>1, <2>4
  <2> QED
    BY <2>3, <2>5
<1>3. CASE Batched(k) = ChunkJob(k, Listed(Wanted(k)))
  <2>1. Keeps(k, Batched(k), {"queue", "at"}) /\ Batched(k).at = "chunk"
    BY <1>3, ChunkRecord
  <2>2. Keeps(k, Batched(k), {"at", "queue"})
    BY <2>1 DEF Keeps
  <2>3. PICK l : l = Batched(k)
    OBVIOUS
  <2>4. Keeps(k, l, {"at", "queue"}) /\ l.at = "chunk"
    BY <2>1, <2>2, <2>3
  <2>5. Books(l, R) /\ Stage(l)
    BY <1>1, <2>4
  <2> QED
    BY <2>3, <2>5
<1>4. CASE Known3(k) /\ Batched(k) = Onward(DrainKeyed(k))
  BY <1>4, DrainKeyedOnward
<1> QED
  BY <1>2, <1>3, <1>4, BatchedCases

-----------------------------------------------------------------------------
\* The loads that run: their books are kept, and the names of graphs they know
\* are those of the registry, but for those that they gave an id themselves.

NameIn(j, rg, n) == IF n \in DOMAIN j.named THEN j.named[n] ELSE rg[n]
Names(j, locks, rg) ==
    /\ \A n \in DOMAIN j.gids : j.gids[n] \in Nat /\ n \in DOMAIN j.named \cup DOMAIN rg /\ j.gids[n] = NameIn(j, rg, n)
    /\ DOMAIN j.named \subseteq DOMAIN j.gids /\ DOMAIN j.named \cap DOMAIN rg = {}
    /\ DOMAIN j.named # {} => Gate \in locks
    /\ j.at = "create" => Head(j.lines).g \notin DOMAIN rg
Fine(j, locks, R, rg) == Books(j, R) /\ Stage(j) /\ Names(j, locks, rg)
Loading == \A s \in Session : Fine(job[s], held[s], dict \cup job[s].own, reg)

LEMMA SaneOf ==
    ASSUME NEW n \in Nat, NEW A, NEW R, R \subseteq A, \A r \in A : r = IdRow(r.id, r.key) /\ r.id \in 1 .. n,
           \A r1, r2 \in A : r1.id = r2.id => r1 = r2
    PROVE  Sane(R)
BY DEF Sane

LEMMA SaneNow ==
    ASSUME Numbered, NEW s \in Session
    PROVE  /\ Sane(dict) /\ Sane(dict \cup job[s].own) /\ Sound(job[s].cache, dict \cup job[s].own)
<1>1. dict \subseteq AllRows /\ dict \cup job[s].own \subseteq AllRows
  BY DEF AllRows
<1> QED
  BY <1>1, SaneOf DEF Numbered

LEMMA SaneNext ==
    ASSUME Numbered', NEW s \in Session
    PROVE  /\ Sane(dict') /\ Sane(dict' \cup job'[s].own) /\ Sound(job'[s].cache, dict' \cup job'[s].own)
<1>1. dict' \subseteq AllRows' /\ dict' \cup job'[s].own \subseteq AllRows'
  BY DEF AllRows
<1> QED
  BY <1>1, SaneOf DEF Numbered

LEMMA StepFine ==
    ASSUME Locking, Loading, NEW s \in Session, NEW k, Step(s, k), UNCHANGED <<dict, reg>>,
           \A t \in Session \ {s} : held'[t] = held[t], Fine(k, held'[s], dict \cup k.own, reg)
    PROVE  Loading'
<1>1. job'[s] = k /\ \A t \in Session : t # s => job'[t] = job[t]
  BY StepJobs DEF Locking
<1>2. ASSUME NEW t \in Session
      PROVE  Fine(job'[t], held'[t], dict' \cup job'[t].own, reg')
  <2>1. CASE t = s
    BY <1>1, <2>1
  <2>2. CASE t # s
    BY <1>1, <2>2 DEF Loading
  <2> QED
    BY <2>1, <2>2
<1> QED
  BY <1>2 DEF Loading

LEMMA LocksGrow ==
    ASSUME Locking, NEW s \in Session, held' = held \/ Granted(s)
    PROVE  held[s] \subseteq held'[s] /\ \A t \in Session \ {s} : held'[t] = held[t]
BY GrantedLocks

\* A step of a load that names no graph.
LEMMA ReadFine ==
    ASSUME Locking, Loading, NEW s \in Session, NEW k, Step(s, k), UNCHANGED <<dict, reg>>, held' = held \/ Granted(s),
           k.gids = job[s].gids, k.named = job[s].named, k.at # "create", Books(k, dict \cup k.own), Stage(k)
    PROVE  Loading'
<1>1. held[s] \subseteq held'[s] /\ \A t \in Session \ {s} : held'[t] = held[t]
  BY LocksGrow
<1>2. Names(job[s], held[s], reg)
  BY DEF Loading, Fine
<1>3. \A n : NameIn(k, reg, n) = NameIn(job[s], reg, n)
  BY DEF NameIn
<1>4. Names(k, held'[s], reg)
  BY <1>1, <1>2, <1>3 DEF Names
<1> QED
  BY <1>1, <1>4, StepFine DEF Fine

\* What is known of the load that takes a step.
LEMMA BeforeFine ==
    ASSUME Locking, Numbered, Loading, NEW s \in Session
    PROVE  /\ Rec(job[s]) /\ job[s].lines \in Seq(Line) /\ job[s].doc \in Seq(Line) /\ job[s].g \in Nat
           /\ Books(job[s], dict \cup job[s].own) /\ Stage(job[s]) /\ OneTarget(job[s])
           /\ Course(job[s], held[s]) /\ Names(job[s], held[s], reg)
BY DEF Locking, Jobs, IsJob, Loading, Fine, Stage, Numbered

LEMMA QuietFine ==
    ASSUME Locking, Numbered, Loading, NEW s \in Session, EndOfFile(s) \/ Flush(s)
    PROVE  Loading'
<1>1. PICK j, R : j = job[s] /\ R = dict \cup j.own
  OBVIOUS
<1>2. Rec(j) /\ Books(j, R) /\ Stage(j) /\ OneTarget(j)
  BY <1>1, BeforeFine
<1>3. UNCHANGED <<dict, reg>> /\ (held' = held \/ Granted(s))
  BY DEF EndOfFile, Flush, tables
<1>4. ASSUME NEW k, Keeps(j, k, {"out", "batch"}), Rec(k), Books(k, R), k.pending = <<>>, Step(s, Onward(k))
      PROVE  Loading'
  <2>1. PICK l : l = Onward(k)
    OBVIOUS
  <2>2. Keeps(k, l, {"at"}) /\ l.at # "create"
    BY <1>4, <2>1, OnwardKeeps
  <2>3. l.gids = j.gids /\ l.named = j.named /\ l.own = j.own /\ k.path = j.path /\ k.lines = j.lines
    BY <1>4, <2>2 DEF Keeps, Fields
  <2>4. OneTarget(k)
    BY <1>2, <2>3 DEF OneTarget, OneGraph
  <2>5. Books(l, R) /\ Stage(l)
    BY <1>4, <2>1, <2>4, OnwardFine
  <2> QED
    BY <1>1, <1>3, <1>4, <2>1, <2>2, <2>3, <2>5, ReadFine
<1>5. CASE EndOfFile(s)
  <2>1. j.at = "lines" /\ j.doc = <<>> /\ Step(s, Onward(j))
    BY <1>1, <1>5 DEF EndOfFile, At
  <2>2. j.pending = <<>>
    BY <1>2, <2>1 DEF Stage, Keying, Calm
  <2>3. Keeps(j, j, {"out", "batch"})
    BY <1>2 DEF Keeps
  <2> QED
    BY <1>2, <1>4, <2>1, <2>2, <2>3
<1>6. CASE Flush(s)
  <2>1. j.at = "flush" /\ Step(s, Onward([j EXCEPT !.out = @ \o Keep(j.batch, Due(j)), !.batch = Keep(@, ToSet(@) \ Due(j))]))
    BY <1>1, <1>6 DEF Flush, At
  <2>2. PICK o, b : o = j.out \o Keep(j.batch, Due(j)) /\ b = Keep(j.batch, ToSet(j.batch) \ Due(j))
    OBVIOUS
  <2>3. [j EXCEPT !.out = @ \o Keep(j.batch, Due(j)), !.batch = Keep(@, ToSet(@) \ Due(j))] = FlushJob(j, o, b)
    BY <1>2, <2>2 DEF FlushJob, Rec, Fields
  <2>4. PICK k : k = FlushJob(j, o, b)
    OBVIOUS
  <2>5. Keeps(j, k, {"out", "batch"}) /\ Rec(k) /\ k.out = o /\ k.batch = b
    BY <1>2, <2>4, FlushRecord
  <2>6. Same(j, k) /\ k.lines = j.lines /\ k.pending = j.pending
    BY <2>5 DEF Keeps, Fields, Same
  <2>7. Books(k, R)
    BY <1>2, <2>2, <2>5, <2>6, BooksFlushed
  <2>8. k.pending = <<>>
    BY <1>2, <2>1, <2>6 DEF Stage, Keying, Gathering
  <2> QED
    BY <1>4, <2>1, <2>3, <2>4, <2>5, <2>7, <2>8
<1> QED
  BY <1>5, <1>6

\* Steps that only move the load on.
LEMMA PlaceFine ==
    ASSUME Locking, Numbered, Loading, NEW s \in Session, NEW k, Step(s, k), UNCHANGED <<dict, reg>>,
           held' = held \/ Granted(s), k.at # "create", Keeps(job[s], k, {"at", "loads", "pool", "lo"}), Stage(k)
    PROVE  Loading'
<1>1. PICK j, R : j = job[s] /\ R = dict \cup j.own
  OBVIOUS
<1>2. Same(j, k) /\ k.lines = j.lines /\ k.out = j.out /\ k.batch = j.batch /\ k.pending = j.pending
      /\ k.gids = j.gids /\ k.named = j.named /\ k.own = j.own
  BY <1>1 DEF Keeps, Fields, Same
<1>3. Books(k, R)
  BY <1>1, <1>2, BeforeFine, BooksUntouched
<1> QED
  BY <1>1, <1>2, <1>3, ReadFine

LEMMA DropFine ==
    ASSUME Locking, Numbered, Loading, NEW s \in Session, DropIndexes(s)
    PROVE  Loading'
<1>1. PICK j : j = job[s]
  OBVIOUS
<1>2. Rec(j) /\ Stage(j)
  BY <1>1, BeforeFine
<1>3. UNCHANGED <<dict, reg>> /\ (held' = held \/ Granted(s))
  BY DEF DropIndexes, tables
<1>4. ASSUME NEW at \in {"drop", "lock", "uris", "window"}, j.at \in {"gate", "drop", "lock"},
             at = "window" => j.path # "bulk", Go(s, at)
      PROVE  Loading'
  <2>1. PICK k : k = [j EXCEPT !.at = at]
    OBVIOUS
  <2>2. Step(s, k)
    BY <1>1, <1>4, <2>1 DEF Go
  <2>3. Keeps(j, k, {"at"}) /\ k.at = at
    BY <1>2, <2>1, MoveKeeps
  <2>4. k.path = j.path /\ k.lines = j.lines /\ k.pending = j.pending
    BY <2>3 DEF Keeps, Fields
  <2>5. OneTarget(k) /\ j.pending \in Seq(Statement) /\ (j.path # "bulk" => j.pending = <<>>)
    BY <1>2, <1>4, <2>4 DEF Stage, OneTarget, OneGraph, Gathering
  <2>6. Stage(k)
    BY <1>4, <2>3, <2>4, <2>5 DEF Stage, Keying, Gathering, Naming
  <2>7. Keeps(j, k, {"at", "loads", "pool", "lo"}) /\ k.at # "create"
    BY <1>4, <2>3 DEF Keeps
  <2> QED
    BY <1>1, <1>3, <2>2, <2>6, <2>7, PlaceFine
<1>5. \/ j.at = "gate" /\ Go(s, "drop")
      \/ j.at = "drop" /\ Go(s, "lock")
      \/ j.at = "lock" /\ j.path = "bulk" /\ Go(s, "uris")
      \/ j.at = "lock" /\ j.path # "bulk" /\ Go(s, "window")
  BY <1>1 DEF DropIndexes, At
<1>6. CASE j.at = "gate" /\ Go(s, "drop")
  BY <1>4, <1>6
<1>7. CASE j.at = "drop" /\ Go(s, "lock")
  BY <1>4, <1>7
<1>8. CASE j.at = "lock" /\ j.path = "bulk" /\ Go(s, "uris")
  BY <1>4, <1>8
<1>9. CASE j.at = "lock" /\ j.path # "bulk" /\ Go(s, "window")
  BY <1>4, <1>9
<1> QED
  BY <1>5, <1>6, <1>7, <1>8, <1>9

LEMMA ReserveFine ==
    ASSUME Locking, Numbered, Loading, NEW s \in Session, Reserve(s)
    PROVE  Loading'
<1>1. PICK j : j = job[s]
  OBVIOUS
<1>2. Rec(j) /\ Stage(j) /\ j.at \in {"uris", "literals"}
  BY <1>1, BeforeFine DEF Reserve
<1>3. UNCHANGED <<dict, reg>> /\ held' = held
  BY DEF Reserve, tables
<1>4. ASSUME NEW p, NEW l, Step(s, ReserveJob(j, p, l))
      PROVE  Loading'
  <2>1. PICK k : k = ReserveJob(j, p, l)
    OBVIOUS
  <2>2. Keeps(j, k, {"pool", "lo"})
    BY <1>2, <2>1, ReserveRecord
  <2>3. /\ k.at = j.at /\ k.path = j.path /\ k.lines = j.lines /\ k.pending = j.pending /\ k.cache = j.cache
        /\ k.mode = j.mode /\ k.doc = j.doc
    BY <2>2 DEF Keeps, Fields
  <2>4. Stage(k)
    BY <1>2, <2>3 DEF Stage, OneTarget, OneGraph, Calm, Keying, Gathering, Naming
  <2>5. Keeps(j, k, {"at", "loads", "pool", "lo"}) /\ k.at # "create"
    BY <1>2, <2>2, <2>3 DEF Keeps
  <2> QED
    BY <1>1, <1>3, <1>4, <2>1, <2>4, <2>5, PlaceFine
<1>5. \/ \E n : Step(s, [j EXCEPT !.lo = n])
      \/ \E q : Step(s, [j EXCEPT !.pool = @ \o q, !.lo = 0])
  BY <1>1 DEF Reserve
<1>6. CASE \E n : Step(s, [j EXCEPT !.lo = n])
  <2>1. PICK n : Step(s, [j EXCEPT !.lo = n])
    BY <1>6
  <2>2. [j EXCEPT !.lo = n] = ReserveJob(j, j.pool, n)
    BY <1>2 DEF Rec, Fields, ReserveJob
  <2> QED
    BY <1>4, <2>1, <2>2
<1>7. CASE \E q : Step(s, [j EXCEPT !.pool = @ \o q, !.lo = 0])
  <2>1. PICK q : Step(s, [j EXCEPT !.pool = @ \o q, !.lo = 0])
    BY <1>7
  <2>2. [j EXCEPT !.pool = @ \o q, !.lo = 0] = ReserveJob(j, j.pool \o q, 0)
    BY <1>2 DEF Rec, Fields, ReserveJob
  <2> QED
    BY <1>4, <2>1, <2>2
<1> QED
  BY <1>5, <1>6, <1>7

\* begin_source_record.
LEMMA RecordFine ==
    ASSUME Locking, Numbered, Loading, NEW s \in Session, Record(s)
    PROVE  Loading'
<1>1. PICK j : j = job[s]
  OBVIOUS
<1>2. Rec(j) /\ Stage(j) /\ OneTarget(j) /\ j.at = "record"
  BY <1>1, BeforeFine DEF Record, At
<1>3. UNCHANGED <<dict, reg>> /\ (held' = held \/ Granted(s))
  BY DEF Record, tables
<1>4. PICK n, at : n = Source(j.g).loads + 1 /\ at = IF j.path = "turtle" /\ j.mode = "batched" THEN "parse" ELSE "lines"
  OBVIOUS
<1>5. PICK k : k = RecordJob(j, n, at)
  OBVIOUS
<1>6. Step(s, k)
  BY <1>1, <1>4, <1>5 DEF Record, RecordJob
<1>7. Keeps(j, k, {"loads", "at"}) /\ k.at = at
  BY <1>2, <1>5, RecordRecord
<1>8. k.path = j.path /\ k.lines = j.lines /\ k.pending = <<>>
  BY <1>2, <1>7 DEF Keeps, Fields, Stage, Keying, Gathering
<1>9. OneTarget(k) /\ k.pending \in Seq(Ready(k)) /\ Calm(k)
  BY <1>2, <1>8 DEF OneTarget, OneGraph, Calm
<1>10. at \in {"parse", "lines"} /\ (at = "parse" => k.path # "quads")
  BY <1>4, <1>8
<1>11. Stage(k)
  BY <1>7, <1>8, <1>9, <1>10 DEF Stage, Keying, Gathering, Naming
<1>12. Keeps(j, k, {"at", "loads", "pool", "lo"}) /\ k.at # "create"
  BY <1>7, <1>10 DEF Keeps
<1> QED
  BY <1>1, <1>3, <1>6, <1>11, <1>12, PlaceFine

\* No load, or one that begins.
LEMMA NoNames == ASSUME NEW j, j.gids = Empty, j.named = Empty, j.at # "create", NEW locks, NEW rg PROVE Names(j, locks, rg)
<1>1. DOMAIN Empty = {}
  BY DEF Empty
<1> QED
  BY <1>1 DEF Names

LEMMA IdleFine == ASSUME NEW locks, NEW R, NEW rg PROVE Fine(Idle, locks, R, rg)
<1>1. /\ Idle.at = "idle" /\ Idle.path = "turtle" /\ Idle.doc = <<>> /\ Idle.lines = <<>> /\ Idle.gids = Empty /\ Idle.named = Empty
      /\ Idle.pending = <<>> /\ Idle.batch = <<>> /\ Idle.out = <<>>
  BY DEF Idle
<1>2. Books(Idle, R)
  <2>1. PICK j : j = Idle
    OBVIOUS
  <2>2. j.doc = <<>>
    BY <1>1, <2>1
  <2>3. j.doc \in Seq(Line)
    BY <2>2
  <2> QED
    BY <1>1, <2>1, <2>3, BooksEmpty
<1>3. Names(Idle, locks, rg)
  BY <1>1, NoNames
<1>4. OneTarget(Idle)
  BY <1>1 DEF OneTarget, OneGraph
<1>5. Stage(Idle)
  BY <1>1, <1>4 DEF Stage, Keying, Gathering, Naming
<1> QED
  BY <1>2, <1>3, <1>5 DEF Fine

LEMMA BeginFine ==
    ASSUME Locking, Numbered, Loading, NEW s \in Session, Begin(s)
    PROVE  Loading'
<1>1. PICK c \in Calls : Step(s, BeginJob(c))
  BY DEF Begin, BeginJob
<1>2. UNCHANGED <<dict, reg>> /\ held' = held
  BY DEF Begin, tables
<1>3. PICK k : k = BeginJob(c)
  OBVIOUS
<1>4. /\ c.path \in Path /\ c.doc \in Seq(Line)
      /\ (c.path # "quads" => \A i \in DOMAIN c.doc : c.doc[i].g = Default)
  BY IngestAssumption
<1>5. /\ Keeps(Idle, k, Load \cup {"at", "lines"})
      /\ k.at = Enter(c) /\ k.path = (IF c.path = "staged" THEN "turtle" ELSE c.path)
      /\ k.doc = c.doc /\ k.lines = c.doc
  BY <1>3, BeginRecord
<1>6. /\ k.gids = Empty /\ k.named = Empty /\ k.pending = <<>> /\ k.batch = <<>> /\ k.out = <<>>
  BY <1>5 DEF Keeps, Fields, Load, Idle
<1>7. Books(k, dict \cup k.own)
  BY <1>4, <1>5, <1>6, BooksEmpty
<1>8. k.at \in {"probe", "parse", "record", "lines"} /\ (k.at = "parse" => k.path # "quads")
  <2>1. CASE c.path \in Rebuilds
    BY <1>5, <2>1 DEF Enter
  <2>2. CASE c.path = "dict_batched"
    BY <1>5, <2>2 DEF Enter, Rebuilds
  <2>3. CASE c.path = "quads"
    BY <1>5, <2>3 DEF Enter, Rebuilds
  <2>4. CASE c.path \notin Rebuilds /\ c.path # "dict_batched" /\ c.path # "quads"
    BY <1>5, <2>4 DEF Enter
  <2> QED
    BY <2>1, <2>2, <2>3, <2>4
<1>9. OneTarget(k)
  BY <1>4, <1>5 DEF OneTarget, OneGraph
<1>10. k.pending \in Seq(Ready(k)) /\ Calm(k)
  BY <1>6 DEF Calm
<1>11. Stage(k)
  BY <1>5, <1>6, <1>8, <1>9, <1>10 DEF Stage, Keying, Gathering, Naming
<1>12. Names(k, held'[s], reg)
  BY <1>6, <1>8, NoNames
<1> QED
  BY <1>1, <1>2, <1>3, <1>7, <1>11, <1>12, StepFine DEF Fine

LEMMA ReleaseFine ==
    ASSUME Locking, Numbered, Loading, NEW s \in Session, Release(s), UNCHANGED <<dict, reg>>
    PROVE  Loading'
<1>1. Step(s, Idle)
  BY DEF Release, Step
<1>2. \A t \in Session \ {s} : held'[t] = held[t]
  BY DEF Release, Locking, Jobs
<1> QED
  BY <1>1, <1>2, IdleFine, StepFine

-----------------------------------------------------------------------------
\* The steps that read lines.

LEMMA PlaceTyped ==
    ASSUME NEW j, j.g \in Nat, \A n \in DOMAIN j.gids : j.gids[n] \in Nat, NEW l \in Placed(j)
    PROVE  /\ Place(j, l) \in Statement /\ Place(j, l).t = l.t
           /\ ~Typed(Place(j, l).t[1]) /\ ~Typed(Place(j, l).t[2])
<1>1. l \in Line /\ l.g \in DOMAIN j.gids \cup {Default}
  BY DEF Placed
<1>2. l.t \in Resource \X Resource \X Term
  BY <1>1 DEF Line
<1>3. l.t \in Term \X Term \X Term
  <2>2. Resource \subseteq Term
    BY DEF Resource
  <2> QED
    BY <1>2, <2>2
<1>4. l.t[1][3] = "" /\ l.t[2][3] = ""
  BY <1>2 DEF Resource
<1>5. PICK st : st = Place(j, l)
  OBVIOUS
<1>6. st = [g |-> IF l.g = Default THEN j.g ELSE j.gids[l.g], t |-> l.t]
  BY <1>5 DEF Place
<1>7. st.g \in Nat /\ st.t = l.t
  BY <1>1, <1>6
<1>8. st \in Statement
  BY <1>3, <1>6, <1>7 DEF Statement
<1>9. ~Typed(st.t[1]) /\ ~Typed(st.t[2])
  BY <1>4, <1>7 DEF Typed
<1> QED
  BY <1>5, <1>7, <1>8, <1>9

\* The line a whole-document reader has at hand.
LEMMA HeadPlaced ==
    ASSUME Locking, Numbered, Loading, NEW s \in Session, Readable(s)
    PROVE  LET j == job[s] IN
           /\ j.at = "lines" /\ Whole(j) /\ j.lines # <<>> /\ Head(j.lines) \in Placed(j)
           /\ Place(j, Head(j.lines)) \in Statement
           /\ ~Typed(Place(j, Head(j.lines)).t[1]) /\ ~Typed(Place(j, Head(j.lines)).t[2])
<1>1. PICK j, l : j = job[s] /\ l = Head(j.lines)
  OBVIOUS
<1>2. j.lines \in Seq(Line) /\ OneTarget(j) /\ j.g \in Nat /\ Names(j, held[s], reg) /\ Course(j, held[s])
  BY <1>1, BeforeFine
<1>3. j.at = "lines" /\ j.lines # <<>> /\ ~Unplaced(j)
  BY <1>1 DEF Readable, At
<1>4. l \in Line
  BY <1>1, <1>2, <1>3
<1>5. l \in Placed(j)
  BY <1>1, <1>3, <1>4 DEF Unplaced, Placed
<1>6. Whole(j)
  BY <1>2, <1>3 DEF Course, OneTarget, Whole
<1>7. \A n \in DOMAIN j.gids : j.gids[n] \in Nat
  BY <1>2 DEF Names
<1>8. Place(j, l) \in Statement /\ ~Typed(Place(j, l).t[1]) /\ ~Typed(Place(j, l).t[2])
  BY <1>2, <1>5, <1>7, PlaceTyped
<1> QED
  BY <1>1, <1>3, <1>5, <1>6, <1>8

\* put_term_full, three times: each key keeps its id.
LEMMA ThreePuts ==
    ASSUME NEW st \in Statement, NEW d0, Tidy(d0), NEW late \in BOOLEAN, NEW d1, NEW d2, NEW d,
           d1 = PutFull(d0, st.t[1], late), d2 = PutFull(d1, st.t[2], late), d = PutFull(d2, st.t[3], late)
    PROVE  Dtyped(d.cache, st) /\ Cached(d.cache, KeysOf(d.cache, st))
<1>1. /\ Tidy(d1) /\ (Typed(st.t[1]) => PlainKey(Dtype(st.t[1])) \in DOMAIN d1.cache) /\ KeyIn(d1.cache, st.t[1]) \in DOMAIN d1.cache
  BY PutFullGrows
<1>2. /\ Tidy(d2) /\ (Typed(st.t[2]) => PlainKey(Dtype(st.t[2])) \in DOMAIN d2.cache) /\ KeyIn(d2.cache, st.t[2]) \in DOMAIN d2.cache
      /\ Extends(d1, d2)
  BY <1>1, PutFullGrows
<1>3. /\ (Typed(st.t[3]) => PlainKey(Dtype(st.t[3])) \in DOMAIN d.cache) /\ KeyIn(d.cache, st.t[3]) \in DOMAIN d.cache
      /\ Extends(d2, d)
  BY <1>2, PutFullGrows
<1>4. ASSUME NEW a, NEW b, NEW t, Typed(t) => PlainKey(Dtype(t)) \in DOMAIN a.cache, KeyIn(a.cache, t) \in DOMAIN a.cache, Extends(a, b)
      PROVE  (Typed(t) => PlainKey(Dtype(t)) \in DOMAIN b.cache) /\ KeyIn(b.cache, t) \in DOMAIN b.cache
  <2>1. KeyIn(b.cache, t) = KeyIn(a.cache, t)
    BY <1>4 DEF KeyIn, Extends
  <2> QED
    BY <1>4, <2>1 DEF Extends
<1>5. (Typed(st.t[2]) => PlainKey(Dtype(st.t[2])) \in DOMAIN d.cache) /\ KeyIn(d.cache, st.t[2]) \in DOMAIN d.cache
  BY <1>2, <1>3, <1>4
<1>6. (Typed(st.t[1]) => PlainKey(Dtype(st.t[1])) \in DOMAIN d2.cache) /\ KeyIn(d2.cache, st.t[1]) \in DOMAIN d2.cache
  BY <1>1, <1>2, <1>4
<1>7. (Typed(st.t[1]) => PlainKey(Dtype(st.t[1])) \in DOMAIN d.cache) /\ KeyIn(d.cache, st.t[1]) \in DOMAIN d.cache
  BY <1>3, <1>4, <1>6
<1>8. Dtyped(d.cache, st)
  <2>1. \A m \in 1 .. 3 : m = 1 \/ m = 2 \/ m = 3
    OBVIOUS
  <2> QED
    BY <1>3, <1>5, <1>7, <2>1 DEF Dtyped
<1>9. Cached(d.cache, KeysOf(d.cache, st))
  <2>1. PICK k1, k2, k3 : k1 = KeyIn(d.cache, st.t[1]) /\ k2 = KeyIn(d.cache, st.t[2]) /\ k3 = KeyIn(d.cache, st.t[3])
    OBVIOUS
  <2>2. KeysOf(d.cache, st) = [g |-> st.g, k |-> <<k1, k2, k3>>]
    BY <2>1 DEF KeysOf
  <2> QED
    BY <1>3, <1>5, <1>7, <2>1, <2>2 DEF Cached
<1> QED
  BY <1>8, <1>9

LEMMA TailTarget ==
    ASSUME NEW j, NEW k, OneTarget(j), j.lines \in Seq(Line), j.lines # <<>>, k.lines = Tail(j.lines), k.path = j.path
    PROVE  OneTarget(k)
<1>1. \A i \in DOMAIN Tail(j.lines) : Tail(j.lines)[i] = j.lines[i + 1] /\ i + 1 \in DOMAIN j.lines
  BY SeqFacts
<1>2. OneGraph(j) => OneGraph(k)
  BY <1>1 DEF OneGraph
<1> QED
  BY <1>2 DEF OneTarget

LEMMA BaselineFine ==
    ASSUME Locking, Numbered, Loading, Numbered', NEW s \in Session, BaselineLine(s)
    PROVE  Loading'
<1> DEFINE j == job[s]
           st == Place(j, Head(j.lines))
           d0 == State(j)
<1>0. PICK late \in BOOLEAN :
          \E d1 \in {PutFull(d0, st.t[1], late)} :
          \E d2 \in {PutFull(d1, st.t[2], late)} :
          \E d \in {PutFull(d2, st.t[3], late)} :
          \E k \in {BaselineJob(j, d, IdsOf(d.cache, KeysOf(d.cache, st)))} :
              Step(s, Onward(k))
  BY ZenonT(60) DEF BaselineLine, BaselineJob
<1>1. j = job[s] /\ st = Place(j, Head(j.lines)) /\ d0 = State(j)
  OBVIOUS
<1> HIDE DEF j, st, d0
<1>2. PICK d1, d2, d, k :
          /\ d1 = PutFull(d0, st.t[1], late)
          /\ d2 = PutFull(d1, st.t[2], late)
          /\ d = PutFull(d2, st.t[3], late)
          /\ k = BaselineJob(j, d, IdsOf(d.cache, KeysOf(d.cache, st)))
          /\ Step(s, Onward(k))
  BY <1>0
<1>3. Rec(j) /\ j.lines \in Seq(Line) /\ Books(j, dict \cup j.own) /\ Stage(j) /\ OneTarget(j)
  BY <1>1, BeforeFine
<1>4. /\ Readable(s) /\ j.mode = "baseline" /\ UNCHANGED <<dict, reg>> /\ Granted(s)
  BY <1>1 DEF BaselineLine, tables
<1>5. /\ j.at = "lines" /\ Whole(j) /\ j.lines # <<>> /\ Head(j.lines) \in Placed(j) /\ st \in Statement
  BY <1>1, <1>4, HeadPlaced
<1>6. Tidy(d0)
  BY <1>1, StateTidy
<1>7. Dtyped(d.cache, st) /\ Cached(d.cache, KeysOf(d.cache, st))
  BY <1>2, <1>5, <1>6, ThreePuts
<1>8. PICK r : r = IdsOf(d.cache, KeysOf(d.cache, st))
  OBVIOUS
<1>9. k = BaselineJob(j, d, r)
  BY <1>2, <1>8
<1>10. /\ Keeps(j, k, {"own", "cache", "batch", "lines"}) /\ Rec(k) /\ k.own = d.own /\ k.cache = d.cache
       /\ k.batch = Append(j.batch, r) /\ k.lines = Tail(j.lines)
  BY <1>3, <1>9, BaselineRecord
<1>11. PICK l : l = Onward(k)
  OBVIOUS
<1>12. Keeps(k, l, {"at"}) /\ l.at # "create"
  BY <1>10, <1>11, OnwardKeeps
<1>13. l.own = d.own /\ l.cache = d.cache /\ l.gids = j.gids /\ l.named = j.named
  BY <1>10, <1>12 DEF Keeps, Fields
<1>14. Step(s, l)
  BY <1>2, <1>11
<1>15. PICK R : R = dict \cup d.own
  OBVIOUS
<1>16. Sane(R) /\ Sound(d.cache, R) /\ j.own \subseteq d.own
  <2>1. job'[s] = l
    BY <1>14, StepJobs DEF Locking
  <2>2. Sane(R) /\ Sound(d.cache, R)
    BY <1>4, <1>13, <1>15, <2>1, SaneNext
  <2>3. j.own \subseteq d.own
    <3>1. Tidy(d1) /\ Grows(d0, d1)
      BY <1>2, <1>6, PutFullGrows
    <3>2. Tidy(d2) /\ Grows(d1, d2)
      BY <1>2, <3>1, PutFullGrows
    <3>3. Grows(d2, d)
      BY <1>2, <3>2, PutFullGrows
    <3> QED
      BY <1>1, <3>1, <3>2, <3>3 DEF Grows, State
  <2> QED
    BY <2>2, <2>3
<1>17. r \in Legible(R) /\ \A x \in Statement : r \in Stored(R, x) <=> st = x
  BY <1>5, <1>7, <1>8, <1>16, RowOfSays
<1>18. Books(j, R)
  <2>1. dict \cup j.own \subseteq R
    BY <1>15, <1>16
  <2> QED
    BY <1>3, <1>16, <2>1, BooksMore
<1>19. Same(j, k) /\ k.out = j.out /\ k.pending = j.pending /\ k.path = j.path
  BY <1>10 DEF Keeps, Fields, Same
<1>20. Books(k, R)
  BY <1>1, <1>3, <1>5, <1>10, <1>17, <1>18, <1>19, BooksRow
<1>21. k.pending = <<>>
  BY <1>3, <1>4, <1>5, <1>19 DEF Stage, Keying, Calm
<1>22. OneTarget(k)
  BY <1>3, <1>5, <1>10, <1>19, TailTarget
<1>23. Books(l, R) /\ Stage(l)
  BY <1>10, <1>11, <1>20, <1>21, <1>22, OnwardFine
<1> QED
  BY <1>1, <1>4, <1>12, <1>13, <1>14, <1>15, <1>23, ReadFine

LEMMA NextBooks ==
    ASSUME Locking, Numbered, Loading, Numbered', NEW s \in Session, NEW l, Step(s, l), UNCHANGED dict, job[s].own \subseteq l.own
    PROVE  Sane(dict \cup l.own) /\ Sound(l.cache, dict \cup l.own) /\ Books(job[s], dict \cup l.own)
<1>1. job'[s] = l
  BY StepJobs DEF Locking
<1>2. PICK R : R = dict \cup l.own
  OBVIOUS
<1>3. Sane(R) /\ Sound(l.cache, R)
  BY <1>1, <1>2, SaneNext
<1>4. dict \cup job[s].own \subseteq R /\ Books(job[s], dict \cup job[s].own)
  BY <1>2, BeforeFine
<1>5. Books(job[s], R)
  BY <1>3, <1>4, BooksMore
<1> QED
  BY <1>2, <1>3, <1>5

LEMMA DeferHolds ==
    ASSUME NEW queue, IsSeq(queue), NEW key, NEW cache
    PROVE  /\ IsSeq(Defer(queue, key, cache)) /\ ToSet(queue) \subseteq ToSet(Defer(queue, key, cache))
           /\ key \in DOMAIN cache \cup ToSet(Defer(queue, key, cache))
<1>1. CASE key \in DOMAIN cache \cup ToSet(queue)
  BY <1>1 DEF Defer
<1>2. CASE key \notin DOMAIN cache \cup ToSet(queue)
  <2>1. Defer(queue, key, cache) = Append(queue, key)
    BY <1>2 DEF Defer
  <2>2. PICK S : S = ToSet(queue) \cup {key}
    OBVIOUS
  <2>3. queue \in Seq(S) /\ key \in S
    BY <2>2, SeqMore DEF IsSeq
  <2>4. ToSet(Append(queue, key)) = ToSet(queue) \cup {key}
    BY <2>3, ToSetFacts
  <2>5. IsSeq(Append(queue, key))
    BY IsSeqFacts
  <2> QED
    BY <2>1, <2>4, <2>5
<1> QED
  BY <1>1, <1>2

LEMMA ThreeDefers ==
    ASSUME NEW queue, IsSeq(queue), NEW a, NEW b, NEW c, NEW cache, NEW q,
           q = Defer(Defer(Defer(queue, a, cache), b, cache), c, cache)
    PROVE  /\ ToSet(queue) \subseteq ToSet(q)
           /\ a \in DOMAIN cache \cup ToSet(q) /\ b \in DOMAIN cache \cup ToSet(q) /\ c \in DOMAIN cache \cup ToSet(q)
<1>1. PICK q1, q2 : q1 = Defer(queue, a, cache) /\ q2 = Defer(q1, b, cache) /\ q = Defer(q2, c, cache)
  OBVIOUS
<1>2. IsSeq(q1) /\ ToSet(queue) \subseteq ToSet(q1) /\ a \in DOMAIN cache \cup ToSet(q1)
  BY <1>1, DeferHolds
<1>3. IsSeq(q2) /\ ToSet(q1) \subseteq ToSet(q2) /\ b \in DOMAIN cache \cup ToSet(q2)
  BY <1>1, <1>2, DeferHolds
<1>4. ToSet(q2) \subseteq ToSet(q) /\ c \in DOMAIN cache \cup ToSet(q)
  BY <1>1, <1>3, DeferHolds
<1> QED
  BY <1>2, <1>3, <1>4

LEMMA ReadyMore ==
    ASSUME NEW j, NEW k, DOMAIN j.cache \cup ToSet(j.queue) \subseteq DOMAIN k.cache \cup ToSet(k.queue), j.pending \in Seq(Ready(j))
    PROVE  j.pending \in Seq(Ready(k))
<1>1. Ready(j) \subseteq Ready(k)
  BY DEF Ready, Within
<1> QED
  BY <1>1, SeqMore

LEMMA CombinedFine ==
    ASSUME Locking, Numbered, Loading, Numbered', NEW s \in Session, CombinedLine(s)
    PROVE  Loading'
<1> DEFINE j == job[s]
           st == Place(j, Head(j.lines))
           d0 == State(j)
<1>0. PICK late \in BOOLEAN :
          \E d \in {PutDtype(d0, st.t[3], late)} :
          \E e \in {KeysOf(d.cache, st)} :
          \E q \in {Defer(Defer(Defer(j.queue, e.k[1], d.cache), e.k[2], d.cache), e.k[3], d.cache)} :
          \E k \in {CombinedJob(j, d, q, e)} : Step(s, Combine(k))
  BY ZenonT(60) DEF CombinedLine, CombinedJob
<1>1. j = job[s] /\ st = Place(j, Head(j.lines)) /\ d0 = State(j)
  OBVIOUS
<1> HIDE DEF j, st, d0
<1>2. PICK d, e, q, k :
          /\ d = PutDtype(d0, st.t[3], late)
          /\ e = KeysOf(d.cache, st)
          /\ q = Defer(Defer(Defer(j.queue, e.k[1], d.cache), e.k[2], d.cache), e.k[3], d.cache)
          /\ k = CombinedJob(j, d, q, e)
          /\ Step(s, Combine(k))
  BY <1>0
<1>3. Rec(j) /\ j.lines \in Seq(Line) /\ Books(j, dict \cup j.own) /\ Stage(j) /\ OneTarget(j) /\ Course(j, held[s])
  BY <1>1, BeforeFine
<1>4. /\ Readable(s) /\ j.mode # "baseline" /\ UNCHANGED <<dict, reg>> /\ Granted(s)
  BY <1>1 DEF CombinedLine, tables
<1>5. /\ j.at = "lines" /\ Whole(j) /\ j.lines # <<>> /\ Head(j.lines) \in Placed(j) /\ st \in Statement
      /\ ~Typed(st.t[1]) /\ ~Typed(st.t[2])
  BY <1>1, <1>4, HeadPlaced
<1>6. Tidy(d0)
  BY <1>1, StateTidy
<1>7. Grows(d0, d) /\ (Typed(st.t[3]) => PlainKey(Dtype(st.t[3])) \in DOMAIN d.cache)
  BY <1>2, <1>6, PutDtypeGrows
<1>8. Dtyped(d.cache, st)
  <2>1. \A m \in 1 .. 3 : m = 1 \/ m = 2 \/ m = 3
    OBVIOUS
  <2> QED
    BY <1>5, <1>7, <2>1 DEF Dtyped
<1>9. /\ Keeps(j, k, {"own", "cache", "queue", "pending", "lines"}) /\ Rec(k) /\ k.own = d.own /\ k.cache = d.cache
      /\ k.queue = q /\ k.pending = Append(j.pending, e) /\ k.lines = Tail(j.lines)
  <2>1. k = CombinedJob(j, d, q, e)
    BY <1>2
  <2>2. Rec(j)
    BY <1>3
  <2> QED
    BY <2>1, <2>2, CombinedRecord
<1>10. PICK l : l = Combine(k)
  OBVIOUS
<1>11. Keeps(k, l, {"at", "batch", "pending"}) /\ l.at # "create"
  BY <1>9, <1>10, CombineKeeps DEF Reading
<1>12. l.own = d.own /\ l.cache = d.cache /\ l.gids = j.gids /\ l.named = j.named
  BY <1>9, <1>11 DEF Keeps, Fields
<1>13. Step(s, l)
  BY <1>2, <1>10
<1>14. j.own \subseteq d.own /\ DOMAIN j.cache \subseteq DOMAIN d.cache
  BY <1>1, <1>7 DEF Grows, State
<1>15. PICK R : R = dict \cup d.own
  OBVIOUS
<1>16. Sane(R) /\ Sound(d.cache, R) /\ Books(j, R)
  BY <1>1, <1>4, <1>12, <1>13, <1>14, <1>15, NextBooks
<1>17. e \in Keyed /\ e \in Expected(R) /\ \A x \in Statement : e \in Waiting(R, x) <=> st = x
  <2>1. e = KeysOf(d.cache, st)
    BY <1>2
  <2>2. Sane(R) /\ Sound(d.cache, R) /\ st \in Statement /\ Dtyped(d.cache, st)
    BY <1>5, <1>8, <1>16
  <2> QED
    BY <2>1, <2>2, KeysOfSay
<1>18. Same(j, k) /\ k.out = j.out /\ k.batch = j.batch /\ k.path = j.path /\ k.mode = j.mode /\ k.doc = j.doc
  BY <1>9 DEF Keeps, Fields, Same
<1>19. Books(k, R)
  BY <1>1, <1>3, <1>5, <1>9, <1>16, <1>17, <1>18, BooksWait
<1>20. OneTarget(k)
  BY <1>3, <1>5, <1>9, <1>18, TailTarget
<1>21. /\ ToSet(j.queue) \subseteq ToSet(q)
       /\ e.k[1] \in DOMAIN d.cache \cup ToSet(q) /\ e.k[2] \in DOMAIN d.cache \cup ToSet(q) /\ e.k[3] \in DOMAIN d.cache \cup ToSet(q)
  <2>1. PICK a, b, c, D : a = e.k[1] /\ b = e.k[2] /\ c = e.k[3] /\ D = d.cache
    OBVIOUS
  <2>2. q = Defer(Defer(Defer(j.queue, a, D), b, D), c, D)
    BY <1>2, <2>1
  <2>3. IsSeq(j.queue)
    BY <1>3 DEF Course
  <2>4. ToSet(j.queue) \subseteq ToSet(q) /\ a \in DOMAIN D \cup ToSet(q) /\ b \in DOMAIN D \cup ToSet(q) /\ c \in DOMAIN D \cup ToSet(q)
    BY <2>2, <2>3, ThreeDefers
  <2> QED
    BY <2>1, <2>4
<1>22. k.pending \in Seq(Ready(k))
  <2>1. j.pending \in Seq(Ready(j))
    BY <1>3, <1>5 DEF Stage, Keying
  <2>2. j.pending \in Seq(Ready(k))
    BY <1>9, <1>14, <1>21, <2>1, ReadyMore
  <2>3. e \in Ready(k)
    BY <1>9, <1>17, <1>21 DEF Ready, Within
  <2> QED
    BY <1>9, <2>2, <2>3
<1>23. Calm(k)
  <2>1. k.mode # "baseline"
    BY <1>4, <1>18
  <2>2. k.doc # <<>>
    <3>1. PICK p \in Seq(Placed(j)) : j.doc = p \o j.lines
      BY <1>3 DEF Books
    <3>2. Len(p \o j.lines) = Len(p) + Len(j.lines) /\ Len(p) \in Nat /\ Len(j.lines) \in Nat /\ Len(j.lines) # 0
      BY <1>3, <1>5
    <3> QED
      BY <1>18, <3>1, <3>2
  <2> QED
    BY <2>1, <2>2 DEF Calm
<1>24. Books(l, R) /\ Stage(l)
  BY <1>9, <1>10, <1>16, <1>19, <1>20, <1>22, <1>23, CombineFine
<1> QED
  BY <1>1, <1>4, <1>11, <1>12, <1>13, <1>15, <1>24, ReadFine

LEMMA FlushDeferFine ==
    ASSUME Locking, Numbered, Loading, Numbered', NEW s \in Session, FlushDefer(s)
    PROVE  Loading'
<1> DEFINE j == job[s]
           d0 == State(j)
<1>0. PICK late \in BOOLEAN :
          \E d \in {PutBatch(d0, j.queue, late)} :
          \E k \in {QueueJob(j, d, <<>>)} : Step(s, Combine(k))
  BY DEF FlushDefer, QueueJob
<1>1. j = job[s] /\ d0 = State(j)
  OBVIOUS
<1> HIDE DEF j, d0
<1>2. PICK d, k : d = PutBatch(d0, j.queue, late) /\ k = QueueJob(j, d, <<>>) /\ Step(s, Combine(k))
  BY <1>0
<1>3. Rec(j) /\ Stage(j) /\ OneTarget(j) /\ Course(j, held[s])
  BY <1>1, BeforeFine
<1>4. j.at = "terms" /\ UNCHANGED <<dict, reg>> /\ Granted(s)
  BY <1>1 DEF FlushDefer, tables, At
<1>5. Tidy(d0)
  BY <1>1, StateTidy
<1>6. Grows(d0, d) /\ ToSet(j.queue) \subseteq DOMAIN d.cache
  BY <1>2, <1>3, <1>5, PutBatchGrows DEF Course, IsSeq
<1>7. j.own \subseteq d.own /\ DOMAIN j.cache \subseteq DOMAIN d.cache
  BY <1>1, <1>6 DEF Grows, State
<1>8. Keeps(j, k, {"own", "cache", "queue"}) /\ Rec(k) /\ k.own = d.own /\ k.cache = d.cache /\ k.queue = <<>>
  BY <1>2, <1>3, QueueRecord
<1>9. PICK l : l = Combine(k)
  OBVIOUS
<1>10. Keeps(k, l, {"at", "batch", "pending"}) /\ l.at # "create"
  BY <1>8, <1>9, CombineKeeps DEF Reading
<1>11. l.own = d.own /\ l.cache = d.cache /\ l.gids = j.gids /\ l.named = j.named
  BY <1>8, <1>10 DEF Keeps, Fields
<1>12. Step(s, l)
  BY <1>2, <1>9
<1>13. PICK R : R = dict \cup d.own
  OBVIOUS
<1>14. Sane(R) /\ Sound(d.cache, R) /\ Books(j, R)
  BY <1>1, <1>4, <1>7, <1>11, <1>12, <1>13, NextBooks
<1>15. /\ Same(j, k) /\ k.out = j.out /\ k.batch = j.batch /\ k.path = j.path /\ k.mode = j.mode /\ k.doc = j.doc
       /\ k.pending = j.pending /\ k.lines = j.lines
  BY <1>8 DEF Keeps, Fields, Same
<1>16. Books(k, R)
  BY <1>14, <1>15, BooksUntouched
<1>17. OneTarget(k)
  BY <1>3, <1>15 DEF OneTarget, OneGraph
<1>18. k.pending \in Seq(Ready(k)) /\ Calm(k)
  <2>1. j.pending \in Seq(Ready(j)) /\ Calm(j)
    BY <1>3, <1>4 DEF Stage, Keying
  <2>2. j.pending \in Seq(Ready(k))
    BY <1>6, <1>7, <1>8, <2>1, ReadyMore
  <2> QED
    BY <1>15, <2>1, <2>2 DEF Calm
<1>19. Books(l, R) /\ Stage(l)
  BY <1>8, <1>9, <1>14, <1>16, <1>17, <1>18, CombineFine
<1> QED
  BY <1>1, <1>4, <1>10, <1>11, <1>12, <1>13, <1>19, ReadFine

-----------------------------------------------------------------------------
\* The steps that read many lines, or ask for many keys.

\* ingest_turtle_dict_batched reads the whole document,
LEMMA ParseFine ==
    ASSUME Locking, Numbered, Loading, NEW s \in Session, Parse(s)
    PROVE  Loading'
<1> DEFINE j == job[s]
           q == [i \in DOMAIN j.lines |-> Place(j, j.lines[i])]
<1>0. Step(s, Batched(ParseJob(j, q, <<>>)))
  BY DEF Parse, ParseJob
<1>1. j = job[s] /\ q = [i \in DOMAIN j.lines |-> Place(j, j.lines[i])]
  OBVIOUS
<1>2. j.at = "parse" /\ UNCHANGED <<dict, reg>> /\ held' = held
  BY DEF Parse, tables, At
<1> HIDE DEF j, q
<1>3. PICK k, l, R : k = ParseJob(j, q, <<>>) /\ l = Batched(k) /\ R = dict \cup j.own
  OBVIOUS
<1>4. /\ Rec(j) /\ j.lines \in Seq(Line) /\ j.g \in Nat /\ Books(j, R) /\ Stage(j) /\ OneTarget(j)
      /\ Course(j, held[s]) /\ Names(j, held[s], reg) /\ Sane(R) /\ Sound(j.cache, R)
  BY <1>1, <1>3, BeforeFine, SaneNow
<1>5. Whole(j) /\ OneGraph(j) /\ j.pending = <<>>
  BY <1>2, <1>4 DEF Course, OneTarget, Stage, Whole, Keying, Gathering
<1>6. j.lines \in Seq(Placed(j))
  <2>1. \A i \in 1 .. Len(j.lines) : j.lines[i] \in Placed(j)
    BY <1>4, <1>5 DEF OneGraph, Placed
  <2> QED
    BY <1>4, <2>1
<1>7. /\ Keeps(j, k, {"pending", "lines"}) /\ Rec(k) /\ k.pending = q /\ k.lines = <<>>
  BY <1>3, <1>4, ParseRecord
<1>8. Same(j, k) /\ k.out = j.out /\ k.batch = j.batch /\ k.path = j.path /\ k.own = j.own /\ k.cache = j.cache
      /\ k.gids = j.gids /\ k.named = j.named
  BY <1>7 DEF Keeps, Fields, Same
<1>9. \A m \in Placed(j) : Place(j, m) \in Statement
  BY <1>4, PlaceTyped DEF Names
<1>10. \A x \in Statement : /\ Often(j.lines, Saying(j, x, Least(j))) <= Often(j.lines, Saying(j, x, Form))
                            /\ Often(j.lines, Saying(j, x, Form)) <= Often(j.lines, Saying(j, x, Most(j)))
  BY <1>5, <1>6, WholeForms, OftenTyped
<1>11. Books(k, R) /\ k.pending \in Seq(Statement)
  <2>1. PICK w : w = j.lines
    OBVIOUS
  <2>2. w \in Seq(Placed(j)) /\ j.lines = w \o k.lines /\ k.lines \in Seq(Line)
    BY <1>4, <1>6, <1>7, <2>1
  <2>3. k.pending = [i \in DOMAIN w |-> Place(j, w[i])]
    BY <1>1, <1>7, <2>1
  <2> QED
    BY <1>4, <1>5, <1>8, <1>9, <1>10, <2>1, <2>2, <2>3, BooksGathered
<1>12. OneTarget(k)
  BY <1>4, <1>7, <1>8 DEF OneTarget, OneGraph
<1>13. Books(l, R) /\ Stage(l)
  BY <1>3, <1>4, <1>7, <1>8, <1>11, <1>12, BatchedFine
<1>14. Keeps(k, l, {"at", "batch", "pending", "queue"}) /\ l.at # "create"
  BY <1>3, <1>7, BatchedKeeps DEF Reading
<1>15. l.own = j.own /\ l.gids = j.gids /\ l.named = j.named
  BY <1>8, <1>14 DEF Keeps, Fields
<1> QED
  BY <1>0, <1>1, <1>2, <1>3, <1>13, <1>14, <1>15, ReadFine

\* ... then a chunk of keys at a time.
LEMMA PutChunkFine ==
    ASSUME Locking, Numbered, Loading, Numbered', NEW s \in Session, PutChunk(s)
    PROVE  Loading'
<1> DEFINE j == job[s]
           size == IF DictBatch < Len(j.queue) THEN DictBatch ELSE Len(j.queue)
           keys == SubSeq(j.queue, 1, size)
           rest == SubSeq(j.queue, size + 1, Len(j.queue))
<1>1. PICK late \in BOOLEAN :
          \E d \in {PutBatch(State(j), keys, late)} :
          \E k \in {[With(j, d) EXCEPT !.queue = SubSeq(@, size + 1, Len(@))]} :
              Step(s, Batched(k))
  BY DEF PutChunk
<1>2. /\ j.at = "chunk" /\ Granted(s) /\ UNCHANGED <<dict, reg>>
      /\ Rec(j) /\ Stage(j) /\ OneTarget(j) /\ Course(j, held[s])
  BY BeforeFine DEF PutChunk, At, tables
<1>3. j.queue \in Seq(ToSet(j.queue)) /\ IsInjective(j.queue)
  BY <1>2 DEF Course, IsSeq
<1>4. size \in 0 .. Len(j.queue)
  BY <1>3, IngestAssumption
<1>5. \A d : [With(j, d) EXCEPT !.queue = SubSeq(@, size + 1, Len(@))] = QueueJob(j, d, rest)
  <2> SUFFICES ASSUME NEW d PROVE With(j, d).queue = j.queue
    BY DEF QueueJob
  <2> HIDE DEF j
  <2> QED
    BY <1>2, WithKeeps DEF Keeps, Fields
<1> HIDE DEF size
<1>6. keys \in Seq(ToSet(j.queue)) /\ IsInjective(keys)
  BY <1>3, <1>4, CutInjective
<1> HIDE DEF keys, rest
<1>7. PICK d, k : d = PutBatch(State(j), keys, late) /\ k = QueueJob(j, d, rest) /\ Step(s, Batched(k))
  BY <1>1, <1>5
<1>8. j = job[s]
  OBVIOUS
<1> HIDE DEF j
<1>9. Grows(State(j), d)
  <2>1. Tidy(State(j))
    BY <1>8, StateTidy
  <2> QED
    BY <1>6, <1>7, <2>1, PutBatchGrows
<1>10. j.own \subseteq d.own
  BY <1>9 DEF Grows, State
<1>11. Keeps(j, k, {"own", "cache", "queue"}) /\ Rec(k) /\ k.own = d.own /\ k.cache = d.cache
  BY <1>2, <1>7, QueueRecord
<1>12. PICK l, R : l = Batched(k) /\ R = dict \cup d.own
  OBVIOUS
<1>13. Keeps(k, l, {"at", "batch", "pending", "queue"}) /\ l.at # "create"
  BY <1>11, <1>12, BatchedKeeps DEF Reading
<1>14. l.own = d.own /\ l.cache = d.cache /\ l.gids = j.gids /\ l.named = j.named
  BY <1>11, <1>13 DEF Keeps, Fields
<1>15. Step(s, l)
  BY <1>7, <1>12
<1>16. Sane(R) /\ Sound(d.cache, R) /\ Books(j, R)
  BY <1>2, <1>8, <1>10, <1>12, <1>14, <1>15, NextBooks
<1>17. /\ Same(j, k) /\ k.out = j.out /\ k.batch = j.batch /\ k.path = j.path /\ k.pending = j.pending /\ k.lines = j.lines
  BY <1>11 DEF Keeps, Fields, Same
<1>18. Books(k, R)
  BY <1>16, <1>17, BooksUntouched
<1>19. OneTarget(k) /\ k.pending \in Seq(Statement)
  BY <1>2, <1>17 DEF OneTarget, OneGraph, Stage, Gathering
<1>20. Books(l, R) /\ Stage(l)
  BY <1>11, <1>12, <1>16, <1>18, <1>19, BatchedFine
<1> QED
  BY <1>2, <1>8, <1>12, <1>13, <1>14, <1>15, <1>20, ReadFine

\* The lines of these forms, counted.
LEMMA KeptForms ==
    ASSUME NEW S, NEW w \in Seq(S), S \subseteq Line, NEW Y, NEW F, F \subseteq Form, \A l \in ToSet(w) : l \in Y <=> l.form \in F,
           NEW j, NEW x
    PROVE  Often(Keep(w, Y), Saying(j, x, Form)) = Often(w, Saying(j, x, F))
<1>1. w \in Seq(ToSet(w))
  BY ToSetFacts
<1>2. Often(Keep(w, Y), Saying(j, x, Form)) = Often(w, Saying(j, x, Form) \cap Y)
  BY <1>1, OftenKept
<1>3. (Saying(j, x, Form) \cap Y) \cap ToSet(w) = Saying(j, x, F) \cap ToSet(w)
  <2>1. ToSet(w) \subseteq Line
    BY ToSetFacts
  <2>2. \A l \in Line : l.form \in Form
    BY DEF Line
  <2> QED
    BY <2>1, <2>2 DEF Saying
<1>4. Often(w, Saying(j, x, Form) \cap Y) = Often(w, Saying(j, x, F))
  BY <1>1, <1>3, OftenSame
<1> QED
  BY <1>2, <1>4

LEMMA MoreForms ==
    ASSUME NEW S, NEW w \in Seq(S), NEW F, NEW G, F \subseteq G, NEW j, NEW x
    PROVE  Often(w, Saying(j, x, F)) <= Often(w, Saying(j, x, G))
<1>1. Saying(j, x, F) \cap S \subseteq Saying(j, x, G)
  BY DEF Saying
<1> QED
  BY <1>1, OftenLess

LEMMA CutHolds ==
    ASSUME NEW S, NEW q \in Seq(S), NEW m \in 0 .. Len(q)
    PROVE  /\ SubSeq(q, 1, m) \in Seq(S) /\ SubSeq(q, m + 1, Len(q)) \in Seq(S)
           /\ q = SubSeq(q, 1, m) \o SubSeq(q, m + 1, Len(q))
           /\ ToSet(SubSeq(q, 1, m)) \subseteq ToSet(q) /\ ToSet(SubSeq(q, m + 1, Len(q))) \subseteq ToSet(q)
<1> DEFINE a == SubSeq(q, 1, m)
           b == SubSeq(q, m + 1, Len(q))
           r == a \o b
<1>1. /\ m \in Nat /\ Len(q) \in Nat /\ a \in Seq(S) /\ b \in Seq(S) /\ Len(a) = m /\ Len(b) = Len(q) - m /\ Len(q) - m \in Nat
      /\ \A i \in 1 .. m : a[i] = q[i]
      /\ \A i \in 1 .. Len(q) - m : b[i] = q[m + i]
  OBVIOUS
<1> HIDE DEF a, b
<1>a. /\ r \in Seq(S) /\ Len(r) = Len(a) + Len(b)
      /\ \A i \in 1 .. Len(a) : r[i] = a[i]
      /\ \A i \in 1 .. Len(b) : r[Len(a) + i] = b[i]
  BY <1>1
<1> HIDE DEF r
<1>2. q = r
  <2>1. r \in Seq(S) /\ Len(r) = Len(q)
    BY <1>1, <1>a
  <2>2. ASSUME NEW i \in 1 .. Len(q)
        PROVE  r[i] = q[i]
    <3>1. CASE i \in 1 .. m
      BY <1>1, <1>a, <3>1
    <3>2. CASE i \notin 1 .. m
      <4>1. i - m \in 1 .. Len(q) - m /\ m + (i - m) = i
        BY <1>1, <3>2
      <4>2. r[m + (i - m)] = q[m + (i - m)]
        BY <1>1, <1>a, <4>1
      <4> QED
        BY <4>1, <4>2
    <3> QED
      BY <3>1, <3>2
  <2> QED
    BY <2>1, <2>2
<1>3. \A p, t \in Seq(S) : ToSet(p \o t) = ToSet(p) \cup ToSet(t)
  BY ToSetFacts
<1>4. ToSet(q) = ToSet(a) \cup ToSet(b)
  BY <1>1, <1>2, <1>3 DEF r
<1> QED
  BY <1>1, <1>2, <1>4 DEF a, b, r

\* The rebuilding loaders leave out what they cannot read.
LEMMA RebuildForms ==
    ASSUME NEW j, j.path \in Rebuilds
    PROVE  /\ Least(j) = {"bare"} /\ {"bare"} \subseteq Most(j)
           /\ j.path = "bulk" => Most(j) = {"bare", "short"}
           /\ {"bare"} \subseteq Form /\ {"bare", "short"} \subseteq Form
BY DEF Least, Most, MustStore, MayStore, Rebuilds, Form

\* The statements of a rebuilding load all have one graph.
LEMMA OneGraphPlaced ==
    ASSUME NEW j, OneGraph(j), j.lines \in Seq(Line), j.g \in Nat, \A n \in DOMAIN j.gids : j.gids[n] \in Nat
    PROVE  j.lines \in Seq(Placed(j)) /\ \A l \in Placed(j) : Place(j, l) \in Statement
<1>1. \A i \in 1 .. Len(j.lines) : j.lines[i] \in Placed(j)
  BY DEF OneGraph, Placed
<1>2. \A l \in Placed(j) : Place(j, l) \in Statement
  BY PlaceTyped
<1> QED
  BY <1>1, <1>2

\* ingest_turtle_streaming reads a window.
LEMMA WindowFine ==
    ASSUME Locking, Numbered, Loading, NEW s \in Session, ReadWindow(s)
    PROVE  Loading'
<1> DEFINE j == job[s]
           size == IF Window < Len(j.lines) THEN Window ELSE Len(j.lines)
           w == SubSeq(j.lines, 1, size)
           rest == SubSeq(j.lines, size + 1, Len(j.lines))
           q == Keep(w, Bare(j.lines))
           sts == [i \in DOMAIN q |-> Place(j, q[i])]
<1>1. Rec(j) /\ j.lines \in Seq(Line) /\ j.at = "window" /\ UNCHANGED <<dict, reg>> /\ held' = held
  BY BeforeFine DEF ReadWindow, At, tables
<1>2. Step(s, WindowJob(j, sts, rest, "uris"))
  BY DEF ReadWindow, WindowJob
<1>3. size \in 0 .. Len(j.lines)
  BY <1>1, IngestAssumption
<1>4. j = job[s] /\ w = SubSeq(j.lines, 1, size) /\ rest = SubSeq(j.lines, size + 1, Len(j.lines))
      /\ q = Keep(w, Bare(j.lines)) /\ sts = [i \in DOMAIN q |-> Place(j, q[i])]
  OBVIOUS
<1> HIDE DEF j, size, w, rest, q, sts
<1>5. PICK k, R : k = WindowJob(j, sts, rest, "uris") /\ R = dict \cup j.own
  OBVIOUS
<1>6. /\ j.g \in Nat /\ Books(j, R) /\ Stage(j) /\ OneTarget(j) /\ Course(j, held[s]) /\ Names(j, held[s], reg)
  BY <1>4, <1>5, BeforeFine
<1>7. j.path \in Rebuilds /\ OneGraph(j) /\ j.pending = <<>>
  BY <1>1, <1>6 DEF Course, OneTarget, Rebuilds, Stage, Keying, Gathering
<1>8. j.lines \in Seq(Placed(j)) /\ \A l \in Placed(j) : Place(j, l) \in Statement
  BY <1>1, <1>6, <1>7, OneGraphPlaced DEF Names
<1>9. /\ w \in Seq(Placed(j)) /\ rest \in Seq(Placed(j)) /\ j.lines = w \o rest /\ ToSet(w) \subseteq ToSet(j.lines)
      /\ ToSet(rest) \subseteq ToSet(j.lines)
  <2>1. PICK p : p = j.lines
    OBVIOUS
  <2>2. p \in Seq(Placed(j)) /\ size \in 0 .. Len(p)
    BY <1>3, <1>8, <2>1
  <2>3. /\ SubSeq(p, 1, size) \in Seq(Placed(j)) /\ SubSeq(p, size + 1, Len(p)) \in Seq(Placed(j))
        /\ p = SubSeq(p, 1, size) \o SubSeq(p, size + 1, Len(p))
        /\ ToSet(SubSeq(p, 1, size)) \subseteq ToSet(p) /\ ToSet(SubSeq(p, size + 1, Len(p))) \subseteq ToSet(p)
    BY <2>2, CutHolds
  <2> QED
    BY <1>4, <2>1, <2>3
<1>10. q \in Seq(Placed(j))
  BY <1>4, <1>9, KeepTyped
<1>11. Placed(j) \subseteq Line
  BY DEF Placed
<1>12. ASSUME NEW x \in Statement
       PROVE  /\ Often(w, Saying(j, x, Least(j))) <= Often(q, Saying(j, x, Form))
              /\ Often(q, Saying(j, x, Form)) <= Often(w, Saying(j, x, Most(j)))
  <2>1. \A l \in ToSet(w) : l \in Bare(j.lines) <=> l.form \in {"bare"}
    BY <1>9 DEF Bare
  <2>2. Often(q, Saying(j, x, Form)) = Often(w, Saying(j, x, {"bare"}))
    <3>1. PICK F : F = {"bare"}
      OBVIOUS
    <3>2. PICK Y, S : Y = Bare(j.lines) /\ S = Placed(j)
      OBVIOUS
    <3>3. F \subseteq Form /\ w \in Seq(S) /\ S \subseteq Line /\ \A l \in ToSet(w) : l \in Y <=> l.form \in F
      BY <1>9, <1>11, <2>1, <3>1, <3>2 DEF Form
    <3>4. Often(Keep(w, Y), Saying(j, x, Form)) = Often(w, Saying(j, x, F))
      BY <3>3, KeptForms
    <3> QED
      BY <1>4, <3>1, <3>2, <3>4
  <2>3. Often(w, Saying(j, x, {"bare"})) <= Often(w, Saying(j, x, Most(j)))
    BY <1>7, <1>9, MoreForms, RebuildForms
  <2>4. Often(w, Saying(j, x, {"bare"})) \in Nat
    BY <1>9, OftenTyped
  <2>5. Least(j) = {"bare"}
    BY <1>7, RebuildForms
  <2> QED
    BY <2>2, <2>3, <2>4, <2>5
<1>13. /\ Keeps(j, k, {"pending", "lines", "at"}) /\ k.pending = sts /\ k.lines = rest /\ k.at = "uris"
  BY <1>1, <1>5, WindowRecord
<1>14. Same(j, k) /\ k.out = j.out /\ k.batch = j.batch /\ k.path = j.path /\ k.own = j.own
       /\ k.gids = j.gids /\ k.named = j.named
  BY <1>13 DEF Keeps, Fields, Same
<1>15. Books(k, R) /\ k.pending \in Seq(Statement)
  <2>1. k.lines \in Seq(Line) /\ j.lines = w \o k.lines
    BY <1>9, <1>11, <1>13, SeqMore
  <2>2. k.pending = [i \in DOMAIN q |-> Place(j, q[i])]
    BY <1>4, <1>13
  <2> QED
    BY <1>6, <1>7, <1>8, <1>9, <1>10, <1>12, <1>14, <2>1, <2>2, BooksGathered
<1>16. OneTarget(k)
  <2>1. \A i \in DOMAIN rest : rest[i].g = Default
    <3>1. \A i \in DOMAIN rest : rest[i] \in ToSet(j.lines)
      BY <1>9 DEF ToSet
    <3>2. \A l \in ToSet(j.lines) : l.g = Default
      BY <1>7 DEF ToSet, OneGraph
    <3> QED
      BY <3>1, <3>2
  <2> QED
    BY <1>6, <1>13, <1>14, <2>1 DEF OneTarget, OneGraph
<1>17. Stage(k)
  BY <1>13, <1>15, <1>16 DEF Stage, Keying, Gathering, Naming
<1> QED
  BY <1>1, <1>2, <1>4, <1>5, <1>13, <1>14, <1>15, <1>17, ReadFine

\* A load that has read nothing may still change its path.
LEMMA BooksFresh ==
    ASSUME NEW j, NEW k, NEW R, Books(j, R), j.lines = j.doc, j.doc \in Seq(Line), k.doc = j.doc, k.lines = j.lines,
           k.out = j.out, k.batch = j.batch, k.pending = j.pending
    PROVE  Books(k, R)
<1>1. PICK p \in Seq(Placed(j)) : j.doc = p \o j.lines /\ \A x \in Statement : Bounded(j, R, p, x)
  BY DEF Books
<1>2. p = <<>>
  <2>1. PICK d : d = j.doc
    OBVIOUS
  <2>2. d \in Seq(Line) /\ d = p \o d /\ p \in Seq(Placed(j))
    BY <1>1, <2>1
  <2>3. Len(p \o d) = Len(p) + Len(d) /\ Len(p) \in Nat /\ Len(d) \in Nat
    BY <2>2
  <2>4. Len(p) = 0
    BY <2>2, <2>3
  <2> QED
    BY <2>2, <2>4
<1>3. Collected(k, R)
  BY DEF Books, Collected
<1>4. ASSUME NEW x \in Statement
      PROVE  Bounded(k, R, <<>>, x)
  <2>1. Bounded(j, R, <<>>, x)
    BY <1>1, <1>2
  <2>2. Total(k, R, x) = Total(j, R, x)
    BY DEF Total
  <2> QED
    BY <2>1, <2>2, OftenNone DEF Bounded
<1>5. <<>> \in Seq(Placed(k)) /\ k.doc = <<>> \o k.lines
  OBVIOUS
<1> QED
  BY <1>3, <1>4, <1>5 DEF Books

\* bulk_load_guarded reads all it can; its first chunk may know the prefixes.
LEMMA BulkForms ==
    ASSUME NEW j, j.path = "bulk", NEW S, S \subseteq Line, NEW d \in Seq(S), NEW first \in 0 .. Len(d), NEW q,
           q = Keep(SubSeq(d, 1, first), {l \in ToSet(d) : l.form # "broken"}) \o Keep(SubSeq(d, first + 1, Len(d)), Bare(d))
    PROVE  /\ q \in Seq(S)
           /\ \A x \in Statement : /\ Often(d, Saying(j, x, Least(j))) <= Often(q, Saying(j, x, Form))
                                   /\ Often(q, Saying(j, x, Form)) <= Often(d, Saying(j, x, Most(j)))
<1>1. PICK a, b, A, B, F, G :
          /\ a = SubSeq(d, 1, first) /\ b = SubSeq(d, first + 1, Len(d))
          /\ A = {l \in ToSet(d) : l.form # "broken"} /\ B = Bare(d)
          /\ F = {"bare"} /\ G = {"bare", "short"}
  OBVIOUS
<1>2. a \in Seq(S) /\ b \in Seq(S) /\ d = a \o b /\ ToSet(a) \subseteq ToSet(d) /\ ToSet(b) \subseteq ToSet(d)
  BY <1>1, CutHolds
<1>3. q = Keep(a, A) \o Keep(b, B) /\ Keep(a, A) \in Seq(S) /\ Keep(b, B) \in Seq(S)
  BY <1>1, <1>2, KeepTyped
<1>4. Least(j) = F /\ Most(j) = G /\ F \subseteq G /\ G \subseteq Form /\ F \subseteq Form
  <2>1. j.path \in Rebuilds
    BY DEF Rebuilds
  <2> QED
    BY <1>1, <2>1, RebuildForms
<1>5. \A l \in ToSet(a) : l \in A <=> l.form \in G
  <2>1. ToSet(a) \subseteq Line
    BY <1>2, ToSetFacts
  <2>2. \A l \in Line : l.form \in Form
    BY DEF Line
  <2> QED
    BY <1>1, <1>2, <2>1, <2>2 DEF Form
<1>6. \A l \in ToSet(b) : l \in B <=> l.form \in F
  BY <1>1, <1>2 DEF Bare
<1>7. q \in Seq(S)
  <2>1. PICK p, t : p = Keep(a, A) /\ t = Keep(b, B)
    OBVIOUS
  <2>2. p \in Seq(S) /\ t \in Seq(S) /\ q = p \o t
    BY <1>3, <2>1
  <2>3. p \o t \in Seq(S)
    BY <2>2
  <2> QED
    BY <2>2, <2>3
<1>8. ASSUME NEW x \in Statement
      PROVE  /\ Often(d, Saying(j, x, Least(j))) <= Often(q, Saying(j, x, Form))
             /\ Often(q, Saying(j, x, Form)) <= Often(d, Saying(j, x, Most(j)))
  <2>1. PICK p, t : p = Keep(a, A) /\ t = Keep(b, B)
    OBVIOUS
  <2>2. Often(q, Saying(j, x, Form)) = Often(p, Saying(j, x, Form)) + Often(t, Saying(j, x, Form))
    <3>1. p \in Seq(S) /\ t \in Seq(S) /\ q = p \o t
      BY <1>3, <2>1
    <3> QED
      BY <3>1, OftenConcat
  <2>3. Often(p, Saying(j, x, Form)) = Often(a, Saying(j, x, G))
    BY <1>2, <1>4, <1>5, <2>1, KeptForms
  <2>4. Often(t, Saying(j, x, Form)) = Often(b, Saying(j, x, F))
    BY <1>2, <1>4, <1>6, <2>1, KeptForms
  <2>5. \A X : Often(d, X) = Often(a, X) + Often(b, X)
    BY <1>2, OftenConcat
  <2>6. /\ Often(a, Saying(j, x, F)) <= Often(a, Saying(j, x, G))
        /\ Often(b, Saying(j, x, F)) <= Often(b, Saying(j, x, G))
    BY <1>2, <1>4, MoreForms
  <2>7. /\ Often(a, Saying(j, x, F)) \in Nat /\ Often(a, Saying(j, x, G)) \in Nat
        /\ Often(b, Saying(j, x, F)) \in Nat /\ Often(b, Saying(j, x, G)) \in Nat
    BY <1>2, OftenTyped
  <2>8. Often(q, Saying(j, x, Form)) = Often(a, Saying(j, x, G)) + Often(b, Saying(j, x, F))
    BY <2>2, <2>3, <2>4
  <2>9. /\ Often(d, Saying(j, x, F)) = Often(a, Saying(j, x, F)) + Often(b, Saying(j, x, F))
        /\ Often(d, Saying(j, x, G)) = Often(a, Saying(j, x, G)) + Often(b, Saying(j, x, G))
    BY <2>5
  <2>10. /\ Often(d, Saying(j, x, F)) <= Often(q, Saying(j, x, Form))
         /\ Often(q, Saying(j, x, Form)) <= Often(d, Saying(j, x, G))
    BY <2>6, <2>7, <2>8, <2>9
  <2> QED
    BY <1>4, <2>10
<1> QED
  BY <1>7, <1>8

LEMMA ProbeFine ==
    ASSUME Locking, Numbered, Loading, NEW s \in Session, Probe(s)
    PROVE  Loading'
<1>1. PICK j, R : j = job[s] /\ R = dict \cup j.own
  OBVIOUS
<1>2. /\ j.at = "probe" /\ UNCHANGED <<dict, reg>> /\ Granted(s)
  BY <1>1 DEF Probe, At, tables
<1>3. /\ Rec(j) /\ j.doc \in Seq(Line) /\ j.lines \in Seq(Line) /\ j.g \in Nat /\ Books(j, R) /\ Stage(j) /\ OneTarget(j)
      /\ Names(j, held[s], reg)
  BY <1>1, BeforeFine
<1>4. j.path \in Rebuilds
  BY <1>1, <1>2 DEF Locking, Custody, Rebuilding
<1>5. j.pending = <<>> /\ j.lines = j.doc /\ OneGraph(j)
  BY <1>2, <1>3, <1>4 DEF Stage, Keying, Gathering, OneTarget, Rebuilds
<1>6. \/ Step(s, PathJob(j, "turtle", "record"))
      \/ j.path = "stream" /\ Step(s, [j EXCEPT !.at = "gate"])
      \/ /\ j.path = "bulk"
         /\ \E first \in 0 .. Len(j.doc) :
               LET d == j.doc
                   prefixed == {l \in ToSet(d) : l.form # "broken"}
                   kept == Keep(SubSeq(d, 1, first), prefixed)
                           \o Keep(SubSeq(d, first + 1, Len(d)), Bare(d))
                   sts == [i \in DOMAIN kept |-> Place(j, kept[i])] IN
               Step(s, ProbeJob(j, sts))
  BY <1>1, ZenonT(60) DEF Probe, PathJob, ProbeJob, Go
<1>7. CASE Step(s, PathJob(j, "turtle", "record"))
  <2>1. PICK k : k = PathJob(j, "turtle", "record")
    OBVIOUS
  <2>2. Keeps(j, k, {"at", "path"}) /\ k.at = "record" /\ k.path = "turtle"
    BY <1>3, <2>1, PathRecord
  <2>3. /\ k.doc = j.doc /\ k.lines = j.lines /\ k.out = j.out /\ k.batch = j.batch /\ k.pending = j.pending
        /\ k.own = j.own /\ k.gids = j.gids /\ k.named = j.named
    BY <2>2 DEF Keeps, Fields
  <2>4. Books(k, R)
    BY <1>3, <1>5, <2>3, BooksFresh
  <2>5. OneTarget(k)
    BY <1>5, <2>2, <2>3 DEF OneTarget, OneGraph
  <2>6. Stage(k)
    BY <1>5, <2>2, <2>3, <2>5 DEF Stage, Keying, Gathering, Naming
  <2> QED
    BY <1>1, <1>2, <1>7, <2>1, <2>2, <2>3, <2>4, <2>6, ReadFine
<1>8. CASE j.path = "stream" /\ Step(s, [j EXCEPT !.at = "gate"])
  <2>1. PICK k : k = [j EXCEPT !.at = "gate"]
    OBVIOUS
  <2>2. Keeps(j, k, {"at"}) /\ k.at = "gate"
    BY <1>3, <2>1, MoveKeeps
  <2>3. k.path = j.path /\ k.lines = j.lines /\ k.pending = <<>>
    BY <1>5, <2>2 DEF Keeps, Fields
  <2>4. OneTarget(k) /\ k.pending \in Seq(Statement)
    BY <1>3, <2>3 DEF OneTarget, OneGraph
  <2>5. Stage(k)
    BY <2>2, <2>3, <2>4 DEF Stage, Keying, Gathering, Naming
  <2>6. Keeps(j, k, {"at", "loads", "pool", "lo"}) /\ k.at # "create"
    BY <2>2 DEF Keeps
  <2> QED
    BY <1>1, <1>2, <1>8, <2>1, <2>5, <2>6, PlaceFine
<1>9. ASSUME j.path = "bulk", NEW d, d = j.doc, NEW first \in 0 .. Len(d), NEW q, NEW sts,
             q = Keep(SubSeq(d, 1, first), {l \in ToSet(d) : l.form # "broken"}) \o Keep(SubSeq(d, first + 1, Len(d)), Bare(d)),
             sts = [i \in DOMAIN q |-> Place(j, q[i])], Step(s, ProbeJob(j, sts))
      PROVE  Loading'
  <2>1. PICK k : k = ProbeJob(j, sts)
    OBVIOUS
  <2>2. Keeps(j, k, {"pending", "lines", "at"}) /\ k.pending = sts /\ k.lines = <<>> /\ k.at \in {"gate", "uris"}
    BY <1>3, <2>1, ProbeRecord
  <2>3. /\ Same(j, k) /\ k.out = j.out /\ k.batch = j.batch /\ k.path = j.path /\ k.own = j.own
        /\ k.gids = j.gids /\ k.named = j.named
    BY <2>2 DEF Keeps, Fields, Same
  <2>4. j.lines \in Seq(Placed(j)) /\ \A l \in Placed(j) : Place(j, l) \in Statement
    BY <1>3, <1>5, OneGraphPlaced DEF Names
  <2>5. d \in Seq(Placed(j)) /\ Placed(j) \subseteq Line
    BY <1>5, <1>9, <2>4 DEF Placed
  <2>6. /\ q \in Seq(Placed(j))
        /\ \A x \in Statement : /\ Often(d, Saying(j, x, Least(j))) <= Often(q, Saying(j, x, Form))
                                /\ Often(q, Saying(j, x, Form)) <= Often(d, Saying(j, x, Most(j)))
    BY <1>9, <2>5, BulkForms
  <2>7. j.lines = d \o k.lines /\ k.lines \in Seq(Line)
    BY <1>5, <1>9, <2>2, <2>5
  <2>8. k.pending = [i \in DOMAIN q |-> Place(j, q[i])]
    BY <1>9, <2>2
  <2>9. Books(k, R) /\ k.pending \in Seq(Statement)
    BY <1>3, <1>5, <2>3, <2>4, <2>5, <2>6, <2>7, <2>8, BooksGathered
  <2>10. OneTarget(k)
    BY <1>3, <2>2, <2>3 DEF OneTarget, OneGraph
  <2>11. Stage(k)
    BY <1>9, <2>2, <2>3, <2>9, <2>10 DEF Stage, Keying, Gathering, Naming
  <2> QED
    BY <1>1, <1>2, <1>9, <2>1, <2>2, <2>3, <2>9, <2>11, ReadFine
<1>10. CASE j.path = "bulk" /\ \E first \in 0 .. Len(j.doc) :
               LET d == j.doc
                   prefixed == {l \in ToSet(d) : l.form # "broken"}
                   kept == Keep(SubSeq(d, 1, first), prefixed)
                           \o Keep(SubSeq(d, first + 1, Len(d)), Bare(d))
                   sts == [i \in DOMAIN kept |-> Place(j, kept[i])] IN
               Step(s, ProbeJob(j, sts))
  <2>1. PICK first \in 0 .. Len(j.doc) :
               LET d == j.doc
                   prefixed == {l \in ToSet(d) : l.form # "broken"}
                   kept == Keep(SubSeq(d, 1, first), prefixed)
                           \o Keep(SubSeq(d, first + 1, Len(d)), Bare(d))
                   sts == [i \in DOMAIN kept |-> Place(j, kept[i])] IN
               Step(s, ProbeJob(j, sts))
    BY <1>10
  <2>2. PICK d : d = j.doc
    OBVIOUS
  <2>3. PICK q : q = Keep(SubSeq(d, 1, first), {l \in ToSet(d) : l.form # "broken"}) \o Keep(SubSeq(d, first + 1, Len(d)), Bare(d))
    OBVIOUS
  <2>4. PICK sts : sts = [i \in DOMAIN q |-> Place(j, q[i])]
    OBVIOUS
  <2>5. Step(s, ProbeJob(j, sts)) /\ first \in 0 .. Len(d)
    BY <2>1, <2>2, <2>3, <2>4
  <2> QED
    BY <1>9, <1>10, <2>2, <2>3, <2>4, <2>5
<1> QED
  BY <1>6, <1>7, <1>8, <1>10

\* The inserts of the rebuilding loaders: every key of what waits is known at the end.
LEMMA InsertedKnown ==
    ASSUME NEW j, NEW k, k.pending = j.pending, DOMAIN k.cache = DOMAIN j.cache \cup NewKeys(j),
           \A x \in DOMAIN j.cache \ NewKeys(j) : k.cache[x] = j.cache[x]
    PROVE  /\ j.at = "uris" => PlainKeys(k.pending) \cup DtypeKeys(k.pending) \subseteq DOMAIN k.cache
           /\ j.at # "uris" /\ PlainKeys(j.pending) \cup DtypeKeys(j.pending) \subseteq DOMAIN j.cache => Known3(k)
<1>1. j.at = "uris" => PlainKeys(k.pending) \cup DtypeKeys(k.pending) \subseteq DOMAIN k.cache
  BY DEF NewKeys
<1>2. ASSUME j.at # "uris", PlainKeys(j.pending) \cup DtypeKeys(j.pending) \subseteq DOMAIN j.cache
      PROVE  Known3(k)
  <2>1. NewKeys(j) = LiteralKeys(j.pending, j.cache) \ DOMAIN j.cache
    BY <1>2 DEF NewKeys
  <2>2. \A x \in DOMAIN j.cache : k.cache[x] = j.cache[x]
    BY <2>1
  <2>3. PICK p, c, d : p = j.pending /\ c = j.cache /\ d = k.cache
    OBVIOUS
  <2>4. LiteralKeys(p, d) = LiteralKeys(p, c)
    <3>1. ASSUME NEW t \in TermsOf(p), Typed(t)
          PROVE  KeyIn(d, t) = KeyIn(c, t)
      <4>1. PlainKey(Dtype(t)) \in DtypeKeys(p)
        BY <3>1 DEF DtypeKeys
      <4>2. d[PlainKey(Dtype(t))] = c[PlainKey(Dtype(t))]
        BY <1>2, <2>2, <2>3, <4>1
      <4> QED
        BY <4>2 DEF KeyIn
    <3> QED
      BY <3>1 DEF LiteralKeys
  <2>5. LiteralKeys(p, c) \subseteq DOMAIN d /\ DtypeKeys(p) \subseteq DOMAIN d /\ PlainKeys(p) \subseteq DOMAIN d
    BY <1>2, <2>1, <2>3
  <2> QED
    BY <2>3, <2>4, <2>5 DEF Known3
<1> QED
  BY <1>1, <1>2

LEMMA InsertFine ==
    ASSUME Locking, Numbered, Loading, Numbered', NEW s \in Session, InsertNew(s)
    PROVE  Loading'
<1> DEFINE j == job[s]
           N == NewKeys(j)
<1>1. PICK keys, ids, k :
          /\ keys = Listed(N)
          /\ ids = IF j.path = "bulk" THEN [i \in DOMAIN keys |-> lastId + i] ELSE j.pool
          /\ Len(keys) <= Len(ids)
          /\ k = [Fresh(j, keys, ids) EXCEPT !.pool = SubSeq(ids, Len(keys) + 1, Len(ids))]
          /\ Step(s, AfterInsert(k))
          /\ lastId' = IF j.path = "bulk" THEN lastId + Len(keys) ELSE lastId
  BY DEF InsertNew, AfterInsert
<1>2. /\ Rec(j) /\ j.at \in {"uris", "literals"} /\ Course(j, held[s]) /\ Stocked(j, held[s]) /\ Granted(s)
      /\ UNCHANGED <<dict, reg>> /\ lastId \in Nat /\ Stage(j) /\ OneTarget(j)
  BY BeforeFine DEF Numbered, InsertNew, tables
<1>3. IsSeq(j.pending) /\ j.path \in Rebuilds
  BY <1>2 DEF Course
<1>4. /\ keys \in Seq(N) /\ ToSet(keys) = N /\ IsInjective(keys) /\ \A x \in N : x \notin DOMAIN j.cache
  <2>1. IsFiniteSet(N)
    BY <1>3, NewKeysFinite
  <2> QED
    BY <1>1, <2>1, ListedFacts, NewKeysNew
<1> DEFINE own == j.own \cup FreshRows(keys, ids)
           cache == FreshCache(j.cache, keys, ids)
           p == SubSeq(ids, Len(keys) + 1, Len(ids))
           l == AfterInsert(k)
<1>5. k = FreshJob(j, own, cache, p) /\ Step(s, l)
  BY <1>1 DEF Fresh, FreshJob, FreshRows, FreshCache
<1>6. j = job[s] /\ N = NewKeys(j) /\ own = j.own \cup FreshRows(keys, ids) /\ cache = FreshCache(j.cache, keys, ids)
      /\ l = AfterInsert(k)
  OBVIOUS
<1> HIDE DEF j, N, own, cache, p, l
<1>7. Keeps(j, k, {"own", "cache", "pool"}) /\ Rec(k) /\ k.own = own /\ k.cache = cache
  BY <1>2, <1>5, FreshRecord
<1>8. /\ Same(j, k) /\ k.out = j.out /\ k.batch = j.batch /\ k.path = j.path /\ k.pending = j.pending /\ k.lines = j.lines
      /\ k.at = j.at /\ k.gids = j.gids /\ k.named = j.named
  BY <1>7 DEF Keeps, Fields, Same
<1>9. IsSeq(k.pending) /\ k.path \in Rebuilds
  BY <1>3, <1>8
<1>10. /\ Keeps(k, l, {"at", "batch", "pending"}) /\ l.at \in {"literals", "flush", "finish", "window"}
  BY <1>6, <1>7, <1>9, AfterInsertGoesOn
<1>11. l.own = own /\ l.cache = cache /\ l.gids = j.gids /\ l.named = j.named
  BY <1>7, <1>8, <1>10 DEF Keeps, Fields
<1>12. ids \in Seq(Nat) /\ IsInjective(ids)
  <2>1. Len(keys) \in Nat /\ DOMAIN keys = 1 .. Len(keys)
    BY <1>4
  <2> QED
    BY <1>1, <1>2, <2>1, InsertIds
<1>13. DOMAIN cache = DOMAIN j.cache \cup N /\ \A x \in DOMAIN j.cache \ N : cache[x] = j.cache[x]
  <2>1. FreshIs(keys, ids, j.cache)
    BY <1>1, <1>4, <1>12, FreshFacts
  <2> QED
    BY <1>4, <1>6, <2>1 DEF FreshIs
<1>14. PICK R : R = dict \cup own
  OBVIOUS
<1>15. Sane(R) /\ Sound(cache, R) /\ Books(j, R)
  BY <1>2, <1>5, <1>6, <1>11, <1>14, NextBooks
<1>16. Books(k, R)
  BY <1>8, <1>15, BooksUntouched
<1>17. OneTarget(k) /\ k.pending \in Seq(Statement)
  BY <1>2, <1>8 DEF OneTarget, OneGraph, Stage, Gathering
<1>18. /\ j.at = "uris" => PlainKeys(k.pending) \cup DtypeKeys(k.pending) \subseteq DOMAIN k.cache
       /\ j.at # "uris" => Known3(k)
  <2>1. k.pending = j.pending /\ DOMAIN k.cache = DOMAIN j.cache \cup NewKeys(j)
        /\ \A x \in DOMAIN j.cache \ NewKeys(j) : k.cache[x] = j.cache[x]
    BY <1>6, <1>7, <1>8, <1>13
  <2>2. j.at # "uris" => PlainKeys(j.pending) \cup DtypeKeys(j.pending) \subseteq DOMAIN j.cache
    BY <1>2 DEF Stage
  <2> QED
    BY <2>1, <2>2, InsertedKnown
<1>19. Books(l, R) /\ Stage(l)
  <2>1. CASE j.at = "uris"
    <3>1. l = [k EXCEPT !.at = "literals"]
      BY <1>6, <1>8, <2>1 DEF AfterInsert
    <3>2. Keeps(k, l, {"at"}) /\ l.at = "literals"
      BY <1>7, <3>1, MoveKeeps
    <3>3. /\ Same(k, l) /\ l.out = k.out /\ l.batch = k.batch /\ l.path = k.path /\ l.pending = k.pending /\ l.lines = k.lines
          /\ l.cache = k.cache
      BY <3>2 DEF Keeps, Fields, Same
    <3>4. Books(l, R)
      BY <1>16, <3>3, BooksUntouched
    <3>5. OneTarget(l)
      BY <1>17, <3>3 DEF OneTarget, OneGraph
    <3>6. Stage(l)
      BY <1>17, <1>18, <2>1, <3>2, <3>3, <3>5 DEF Stage, Keying, Gathering, Naming
    <3> QED
      BY <3>4, <3>6
  <2>2. CASE j.at # "uris"
    <3>1. l = Onward(DrainKeyed(k))
      BY <1>6, <1>8, <2>2 DEF AfterInsert
    <3> QED
      BY <1>7, <1>15, <1>16, <1>17, <1>18, <2>2, <3>1, DrainKeyedOnward
  <2> QED
    BY <2>1, <2>2
<1> QED
  BY <1>2, <1>5, <1>6, <1>10, <1>11, <1>14, <1>19, ReadFine

-----------------------------------------------------------------------------
\* The steps that find the id of a graph.

Registered == lastGraph \in Nat /\ \A n \in DOMAIN reg : reg[n] \in Nat

LEMMA NamesLearn ==
    ASSUME NEW j, NEW k, NEW locks, NEW locks2, NEW rg, Names(j, locks, rg), locks \subseteq locks2,
           NEW n, n \notin DOMAIN j.gids, NEW id \in Nat, k.gids = Learn(j.gids, n, id), k.at # "create",
           \/ k.named = j.named /\ n \in DOMAIN rg /\ id = rg[n]
           \/ k.named = Learn(j.named, n, id) /\ n \notin DOMAIN rg /\ Gate \in locks2
    PROVE  Names(k, locks2, rg)
<1>1. /\ DOMAIN k.gids = DOMAIN j.gids \cup {n} /\ k.gids[n] = id /\ \A m \in DOMAIN j.gids : k.gids[m] = j.gids[m]
  BY DEF Learn
<1>2. n \notin DOMAIN j.named
  BY DEF Names
<1>3. /\ DOMAIN j.named \subseteq DOMAIN k.named /\ DOMAIN k.named \subseteq DOMAIN j.named \cup {n}
      /\ \A m \in DOMAIN j.named : k.named[m] = j.named[m]
      /\ NameIn(k, rg, n) = id /\ n \in DOMAIN k.named \cup DOMAIN rg
      /\ DOMAIN k.named \cap DOMAIN rg = {} /\ (DOMAIN k.named # {} => Gate \in locks2)
  <2>1. CASE k.named = j.named /\ n \in DOMAIN rg /\ id = rg[n]
    BY <1>2, <2>1 DEF NameIn, Names
  <2>2. CASE k.named = Learn(j.named, n, id) /\ n \notin DOMAIN rg /\ Gate \in locks2
    <3>1. /\ DOMAIN k.named = DOMAIN j.named \cup {n} /\ k.named[n] = id /\ \A m \in DOMAIN j.named : m # n => k.named[m] = j.named[m]
      BY <2>2 DEF Learn
    <3> QED
      BY <1>2, <2>2, <3>1 DEF NameIn, Names
  <2> QED
    BY <2>1, <2>2
<1>4. ASSUME NEW m \in DOMAIN k.gids
      PROVE  k.gids[m] \in Nat /\ m \in DOMAIN k.named \cup DOMAIN rg /\ k.gids[m] = NameIn(k, rg, m)
  <2>1. CASE m = n
    BY <1>1, <1>3, <2>1
  <2>2. CASE m # n
    <3>1. m \in DOMAIN j.gids /\ k.gids[m] = j.gids[m]
      BY <1>1, <2>2
    <3>2. j.gids[m] \in Nat /\ m \in DOMAIN j.named \cup DOMAIN rg /\ j.gids[m] = NameIn(j, rg, m)
      BY <3>1 DEF Names
    <3>3. m \in DOMAIN k.named <=> m \in DOMAIN j.named
      BY <1>3, <2>2
    <3>4. NameIn(k, rg, m) = NameIn(j, rg, m)
      BY <1>3, <3>3 DEF NameIn
    <3> QED
      BY <1>3, <3>1, <3>2, <3>4
  <2> QED
    BY <2>1, <2>2
<1>5. DOMAIN k.named \subseteq DOMAIN k.gids
  BY <1>1, <1>3 DEF Names
<1> QED
  BY <1>3, <1>4, <1>5 DEF Names

\* resolve_graph_id finds the graph, or makes it.
LEMMA LearnFine ==
    ASSUME Locking, Numbered, Loading, NEW s \in Session, NEW k, Step(s, k), UNCHANGED <<dict, reg>>,
           held' = held \/ Granted(s), NEW n, n \notin DOMAIN job[s].gids, NEW id \in Nat,
           Keeps(job[s], k, {"gids", "named", "at"}), k.gids = Learn(job[s].gids, n, id), k.at = "lines",
           job[s].at \in {"lines", "bind", "create"},
           \/ k.named = job[s].named /\ n \in DOMAIN reg /\ id = reg[n]
           \/ k.named = Learn(job[s].named, n, id) /\ n \notin DOMAIN reg /\ Gate \in held[s]
    PROVE  Loading'
<1>1. PICK j, R : j = job[s] /\ R = dict \cup j.own
  OBVIOUS
<1>2. /\ Rec(j) /\ Books(j, R) /\ Stage(j) /\ OneTarget(j) /\ Names(j, held[s], reg)
  BY <1>1, BeforeFine
<1>3. held[s] \subseteq held'[s] /\ \A t \in Session \ {s} : held'[t] = held[t]
  BY LocksGrow
<1>4. /\ k.doc = j.doc /\ k.path = j.path /\ k.g = j.g /\ k.lines = j.lines /\ k.out = j.out /\ k.batch = j.batch
      /\ k.pending = j.pending /\ k.own = j.own /\ k.cache = j.cache /\ k.queue = j.queue /\ k.mode = j.mode
  BY <1>1 DEF Keeps, Fields
<1>5. Books(k, R)
  BY <1>1, <1>2, <1>4, BooksPlaced
<1>6. Names(k, held'[s], reg)
  BY <1>1, <1>2, <1>3, NamesLearn
<1>7. OneTarget(k) /\ Ready(k) = Ready(j) /\ (Calm(j) => Calm(k))
  BY <1>2, <1>4 DEF OneTarget, OneGraph, Ready, Calm
<1>8. k.pending \in Seq(Ready(k)) /\ Calm(k)
  BY <1>1, <1>2, <1>4, <1>7 DEF Stage, Keying
<1>9. Stage(k)
  BY <1>7, <1>8 DEF Stage, Keying, Gathering, Naming
<1>10. Fine(k, held'[s], dict \cup k.own, reg)
  BY <1>1, <1>4, <1>5, <1>6, <1>9 DEF Fine
<1> QED
  BY <1>3, <1>10, StepFine

LEMMA NamingFine ==
    ASSUME Locking, Numbered, Loading, NEW s \in Session, UNCHANGED <<dict, reg>>, held' = held \/ Granted(s),
           NEW at \in Naming, job[s].at \in {"lines", "bind"}, Unplaced(job[s]), Go(s, at),
           at = "create" => Head(job[s].lines).g \notin DOMAIN reg
    PROVE  Loading'
<1>1. PICK j, k, R : j = job[s] /\ k = [j EXCEPT !.at = at] /\ R = dict \cup j.own
  OBVIOUS
<1>2. /\ Rec(j) /\ Books(j, R) /\ Stage(j) /\ OneTarget(j) /\ Names(j, held[s], reg)
  BY <1>1, BeforeFine
<1>3. held[s] \subseteq held'[s] /\ \A t \in Session \ {s} : held'[t] = held[t]
  BY LocksGrow
<1>4. Keeps(j, k, {"at"}) /\ k.at = at /\ Step(s, k)
  BY <1>1, <1>2, MoveKeeps DEF Go
<1>5. /\ Same(j, k) /\ k.lines = j.lines /\ k.out = j.out /\ k.batch = j.batch /\ k.path = j.path /\ k.doc = j.doc
      /\ k.pending = j.pending /\ k.own = j.own /\ k.cache = j.cache /\ k.queue = j.queue /\ k.mode = j.mode
      /\ k.gids = j.gids /\ k.named = j.named
  BY <1>4 DEF Keeps, Fields, Same
<1>6. Books(k, R)
  BY <1>2, <1>5, BooksUntouched
<1>7. OneTarget(k) /\ Ready(k) = Ready(j) /\ (Calm(j) => Calm(k)) /\ Unplaced(k)
  BY <1>1, <1>2, <1>5 DEF OneTarget, OneGraph, Ready, Calm, Unplaced
<1>8. k.pending \in Seq(Ready(k)) /\ Calm(k)
  BY <1>1, <1>2, <1>5, <1>7 DEF Stage, Keying
<1>9. Stage(k)
  BY <1>4, <1>7, <1>8 DEF Stage, Keying, Gathering, Naming
<1>10. Names(k, held'[s], reg)
  <2>1. \A n : NameIn(k, reg, n) = NameIn(j, reg, n)
    BY <1>5 DEF NameIn
  <2>2. k.at = "create" => Head(k.lines).g \notin DOMAIN reg
    BY <1>1, <1>4, <1>5
  <2> QED
    BY <1>2, <1>3, <1>5, <2>1, <2>2 DEF Names
<1>11. Fine(k, held'[s], dict \cup k.own, reg)
  BY <1>1, <1>5, <1>6, <1>9, <1>10 DEF Fine
<1> QED
  BY <1>3, <1>4, <1>11, StepFine

LEMMA LookUpFine ==
    ASSUME Locking, Numbered, Loading, Registered, NEW s \in Session, LookUp(s) \/ Bind(s)
    PROVE  Loading'
<1>1. PICK j, n : j = job[s] /\ n = Head(j.lines).g
  OBVIOUS
<1>2. UNCHANGED <<dict, reg>> /\ (held' = held \/ Granted(s)) /\ j.at \in {"lines", "bind"}
  BY <1>1 DEF LookUp, Bind, tables, At
<1>3. Rec(j) /\ Stage(j)
  BY <1>1, BeforeFine
<1>4. Unplaced(j)
  BY <1>1, <1>3 DEF LookUp, Bind, At, Stage, Naming
<1>5. n \notin DOMAIN j.gids
  BY <1>1, <1>4 DEF Unplaced
<1>6. \/ n \in DOMAIN reg /\ j.at = "lines" /\ Step(s, PlaceJob(j, Learn(j.gids, n, reg[n])))
      \/ n \in DOMAIN reg /\ Step(s, FoundJob(j, Learn(j.gids, n, reg[n]), "lines"))
      \/ Go(s, "bind")
      \/ n \notin DOMAIN reg /\ Go(s, "create")
  BY <1>1 DEF LookUp, Bind, PlaceJob, FoundJob, At
<1>7. ASSUME NEW k, n \in DOMAIN reg, Step(s, k), Keeps(j, k, {"gids", "at"}), k.gids = Learn(j.gids, n, reg[n]), k.at = "lines"
      PROVE  Loading'
  <2>1. Keeps(j, k, {"gids", "named", "at"}) /\ k.named = j.named
    BY <1>7 DEF Keeps, Fields
  <2>2. PICK id : id = reg[n]
    OBVIOUS
  <2>3. id \in Nat /\ k.gids = Learn(j.gids, n, id)
    BY <1>7, <2>2 DEF Registered
  <2> QED
    BY <1>1, <1>2, <1>5, <1>7, <2>1, <2>2, <2>3, LearnFine
<1>8. CASE n \in DOMAIN reg /\ j.at = "lines" /\ Step(s, PlaceJob(j, Learn(j.gids, n, reg[n])))
  <2>1. PICK k, f : f = Learn(j.gids, n, reg[n]) /\ k = PlaceJob(j, f)
    OBVIOUS
  <2>2. Keeps(j, k, {"gids"}) /\ k.gids = f
    BY <1>3, <2>1, PlaceRecord
  <2>3. Keeps(j, k, {"gids", "at"}) /\ k.at = "lines"
    BY <1>8, <2>2 DEF Keeps, Fields
  <2> QED
    BY <1>7, <1>8, <2>1, <2>2, <2>3
<1>9. CASE n \in DOMAIN reg /\ Step(s, FoundJob(j, Learn(j.gids, n, reg[n]), "lines"))
  <2>1. PICK k, f : f = Learn(j.gids, n, reg[n]) /\ k = FoundJob(j, f, "lines")
    OBVIOUS
  <2>2. Keeps(j, k, {"gids", "at"}) /\ k.gids = f /\ k.at = "lines"
    BY <1>3, <2>1, FoundRecord
  <2> QED
    BY <1>7, <1>9, <2>1, <2>2
<1>10. CASE Go(s, "bind")
  <2>1. PICK at : at = "bind"
    OBVIOUS
  <2>2. at \in Naming /\ Go(s, at) /\ at # "create"
    BY <1>10, <2>1 DEF Naming
  <2> QED
    BY <1>1, <1>2, <1>4, <2>2, NamingFine
<1>11. CASE n \notin DOMAIN reg /\ Go(s, "create")
  <2>1. PICK at : at = "create"
    OBVIOUS
  <2>2. at \in Naming /\ Go(s, at)
    BY <1>11, <2>1 DEF Naming
  <2> QED
    BY <1>1, <1>2, <1>4, <1>11, <2>2, NamingFine
<1> QED
  BY <1>6, <1>8, <1>9, <1>10, <1>11

LEMMA CreateFine ==
    ASSUME Locking, Numbered, Loading, Registered, NEW s \in Session, Create(s)
    PROVE  Loading'
<1>1. PICK j, n, id : j = job[s] /\ n = Head(j.lines).g /\ id = lastGraph'
  OBVIOUS
<1>2. UNCHANGED <<dict, reg>> /\ Granted(s) /\ j.at = "create"
  BY <1>1 DEF Create, tables, At
<1>3. Rec(j) /\ Stage(j) /\ Names(j, held[s], reg) /\ Gate \in held[s]
  BY <1>1, <1>2, BeforeFine DEF Locking, Custody
<1>4. Unplaced(j)
  BY <1>2, <1>3 DEF Stage, Naming
<1>5. n \notin DOMAIN j.gids /\ n \notin DOMAIN reg
  BY <1>1, <1>2, <1>3, <1>4 DEF Unplaced, Names
<1>6. id \in Nat
  BY <1>1 DEF Create, Registered
<1>7. PICK k : k = NamedJob(j, Learn(j.gids, n, id), Learn(j.named, n, id), "lines")
  OBVIOUS
<1>8. Step(s, k)
  BY <1>1, <1>7 DEF Create, NamedJob
<1>9. PICK f, g : f = Learn(j.gids, n, id) /\ g = Learn(j.named, n, id)
  OBVIOUS
<1>10. Keeps(j, k, {"gids", "named", "at"}) /\ k.gids = f /\ k.named = g /\ k.at = "lines"
  BY <1>3, <1>7, <1>9, NamedRecord
<1> QED
  BY <1>1, <1>2, <1>3, <1>5, <1>6, <1>8, <1>9, <1>10, LearnFine

-----------------------------------------------------------------------------
\* What the committed loads promise, for any log and registry: the lines of
\* each entry that say x.

Tell(rg, e, x, forms) ==
    {l \in Line : l.form \in forms /\ (IF l.g = Default THEN e.g ELSE rg[l.g]) = x.g /\ l.t = x.t}
Pairs(lg, rg, x, may) == UNION {{i} \X Hits(lg[i].doc, Tell(rg, lg[i], x, Forms(lg[i], may))) : i \in DOMAIN lg}
PromisedIn(lg, rg, x, may) == Cardinality(Pairs(lg, rg, x, may))

LEMMA PairsAppend ==
    ASSUME NEW lg \in Seq(Entry), NEW e \in Entry, NEW rg, NEW x, NEW may
    PROVE  /\ Pairs(Append(lg, e), rg, x, may) = Pairs(lg, rg, x, may) \cup ({Len(lg) + 1} \X Hits(e.doc, Tell(rg, e, x, Forms(e, may))))
           /\ Pairs(lg, rg, x, may) \cap ({Len(lg) + 1} \X Hits(e.doc, Tell(rg, e, x, Forms(e, may)))) = {}
<1>1. PICK n, F : /\ n = Len(lg)
                  /\ F = [i \in DOMAIN Append(lg, e) |->
                            Hits(Append(lg, e)[i].doc, Tell(rg, Append(lg, e)[i], x, Forms(Append(lg, e)[i], may)))]
  OBVIOUS
<1>2. /\ n \in Nat /\ DOMAIN lg = 1 .. n /\ DOMAIN Append(lg, e) = 1 .. n + 1
      /\ Append(lg, e)[n + 1] = e /\ \A i \in 1 .. n : Append(lg, e)[i] = lg[i]
  BY <1>1
<1>3. /\ F[n + 1] = Hits(e.doc, Tell(rg, e, x, Forms(e, may)))
      /\ \A i \in 1 .. n : F[i] = Hits(lg[i].doc, Tell(rg, lg[i], x, Forms(lg[i], may)))
  BY <1>1, <1>2
<1>4. Pairs(Append(lg, e), rg, x, may) = UNION {{i} \X F[i] : i \in 1 .. n + 1}
  BY <1>1, <1>2 DEF Pairs
<1>5. Pairs(lg, rg, x, may) = UNION {{i} \X F[i] : i \in 1 .. n}
  BY <1>2, <1>3 DEF Pairs
<1>6. /\ UNION {{i} \X F[i] : i \in 1 .. n + 1} = (UNION {{i} \X F[i] : i \in 1 .. n}) \cup ({n + 1} \X F[n + 1])
      /\ (UNION {{i} \X F[i] : i \in 1 .. n}) \cap ({n + 1} \X F[n + 1]) = {}
  <2>1. PICK m, I, K : m = n + 1 /\ I = 1 .. n /\ K = 1 .. n + 1
    OBVIOUS
  <2>2. K = I \cup {m} /\ m \notin I
    BY <1>2, <2>1
  <2>3. /\ UNION {{i} \X F[i] : i \in K} = (UNION {{i} \X F[i] : i \in I}) \cup ({m} \X F[m])
        /\ (UNION {{i} \X F[i] : i \in I}) \cap ({m} \X F[m]) = {}
    BY ONLY <2>2
  <2> QED
    BY <2>1, <2>3
<1> QED
  BY <1>1, <1>3, <1>4, <1>5, <1>6

LEMMA PairsFinite ==
    ASSUME NEW rg, NEW x, NEW may
    PROVE  \A lg \in Seq(Entry) : IsFiniteSet(Pairs(lg, rg, x, may))
<1> DEFINE P == {lg \in Seq(Entry) : IsFiniteSet(Pairs(lg, rg, x, may))}
<1>1. <<>> \in P
  <2>1. Pairs(<<>>, rg, x, may) = {}
    BY DEF Pairs
  <2> QED
    BY <2>1, FS_EmptySet
<1>2. ASSUME NEW lg \in Seq(Entry), NEW e \in Entry, lg \in P
      PROVE  Append(lg, e) \in P
  <2>1. e.doc \in Seq(Line)
    BY DEF Entry
  <2>2. PICK H : H = Hits(e.doc, Tell(rg, e, x, Forms(e, may)))
    OBVIOUS
  <2>3. IsFiniteSet(H)
    BY <2>1, <2>2, OftenHits
  <2>4. IsFiniteSet({Len(lg) + 1} \X H)
    BY <2>3, FS_Product, FS_Singleton
  <2>5. IsFiniteSet(Pairs(lg, rg, x, may))
    BY <1>2
  <2>6. IsFiniteSet(Pairs(Append(lg, e), rg, x, may))
    <3>1. PICK A, B : A = Pairs(lg, rg, x, may) /\ B = {Len(lg) + 1} \X H
      OBVIOUS
    <3>2. Pairs(Append(lg, e), rg, x, may) = A \cup B
      BY <2>2, <3>1, PairsAppend
    <3>3. IsFiniteSet(A \cup B)
      BY <2>4, <2>5, <3>1, FS_Union
    <3> QED
      BY <3>2, <3>3
  <2> QED
    BY <2>6
<1> HIDE DEF P
<1>3. Seq(Entry) \subseteq P
  BY <1>1, <1>2, SeqInductive
<1> QED
  BY <1>3 DEF P

LEMMA PromisedAppend ==
    ASSUME NEW lg \in Seq(Entry), NEW e \in Entry, NEW rg, NEW x, NEW may
    PROVE  /\ PromisedIn(lg, rg, x, may) \in Nat
           /\ PromisedIn(Append(lg, e), rg, x, may) = PromisedIn(lg, rg, x, may) + Often(e.doc, Tell(rg, e, x, Forms(e, may)))
<1>1. PICK H, T, n : H = Hits(e.doc, T) /\ T = Tell(rg, e, x, Forms(e, may)) /\ n = Len(lg) + 1
  OBVIOUS
<1>2. e.doc \in Seq(Line)
  BY DEF Entry
<1>3. IsFiniteSet(H) /\ Cardinality(H) = Often(e.doc, T) /\ Cardinality(H) \in Nat
  BY <1>1, <1>2, OftenHits, FS_CardinalityType
<1>4. IsFiniteSet({n}) /\ Cardinality({n}) = 1
  BY FS_Singleton
<1>5. IsFiniteSet({n} \X H) /\ Cardinality({n} \X H) = Cardinality({n}) * Cardinality(H)
  BY <1>3, <1>4, FS_Product
<1>6. Cardinality({n} \X H) = Cardinality(H)
  BY <1>3, <1>4, <1>5
<1>7. PICK A, B : A = Pairs(lg, rg, x, may) /\ B = {n} \X H
  OBVIOUS
<1>8. IsFiniteSet(A) /\ Cardinality(A) \in Nat
  BY <1>7, PairsFinite, FS_CardinalityType
<1>9. Pairs(Append(lg, e), rg, x, may) = A \cup B /\ A \cap B = {}
  BY <1>1, <1>7, PairsAppend
<1>10. Cardinality(A \cup B) = Cardinality(A) + Cardinality(B) - Cardinality(A \cap B) /\ Cardinality(A \cap B) = 0
  BY <1>5, <1>7, <1>8, <1>9, FS_Union, FS_EmptySet
<1> QED
  BY <1>1, <1>3, <1>6, <1>7, <1>8, <1>9, <1>10 DEF PromisedIn

\* The graphs that the documents of a log name.
NamesGraphs(lg, N) == \A i \in DOMAIN lg : \A k \in DOMAIN lg[i].doc : lg[i].doc[k].g \in N \cup {Default}

\* A longer registry changes no promise.
LEMMA PromisedSame ==
    ASSUME NEW lg \in Seq(Entry), NEW rg, NEW rh, NamesGraphs(lg, DOMAIN rg), \A n \in DOMAIN rg : rh[n] = rg[n], NEW x, NEW may
    PROVE  PromisedIn(lg, rg, x, may) = PromisedIn(lg, rh, x, may)
<1>1. ASSUME NEW i \in DOMAIN lg
      PROVE  Hits(lg[i].doc, Tell(rg, lg[i], x, Forms(lg[i], may))) = Hits(lg[i].doc, Tell(rh, lg[i], x, Forms(lg[i], may)))
  <2>1. PICK d : d = lg[i].doc
    OBVIOUS
  <2>2. ASSUME NEW k \in DOMAIN d
        PROVE  d[k] \in Tell(rg, lg[i], x, Forms(lg[i], may)) <=> d[k] \in Tell(rh, lg[i], x, Forms(lg[i], may))
    <3>1. d[k].g = Default \/ d[k].g \in DOMAIN rg
      BY <2>1 DEF NamesGraphs
    <3>2. (IF d[k].g = Default THEN lg[i].g ELSE rg[d[k].g]) = (IF d[k].g = Default THEN lg[i].g ELSE rh[d[k].g])
      BY <3>1
    <3> QED
      BY <3>2 DEF Tell
  <2> QED
    BY <2>1, <2>2 DEF Hits
<1>2. Pairs(lg, rg, x, may) = Pairs(lg, rh, x, may)
  BY <1>1 DEF Pairs
<1> QED
  BY <1>2 DEF PromisedIn

LEMMA PromisedIs ==
    ASSUME log \in Seq(Entry), NEW x, NEW may
    PROVE  Promised(x, may) = PromisedIn(log, reg, x, may)
<1>1. ASSUME NEW i \in DOMAIN log
      PROVE  Hits(log[i].doc, Tell(reg, log[i], x, Forms(log[i], may)))
             = {k \in DOMAIN log[i].doc : log[i].doc[k].form \in Forms(log[i], may) /\ Says(log[i], log[i].doc[k], x)}
  <2>1. log[i] \in Entry
    OBVIOUS
  <2>0. log[i].doc \in Seq(Line)
    BY <2>1 DEF Entry
  <2>2. ASSUME NEW k \in DOMAIN log[i].doc
        PROVE  log[i].doc[k] \in Tell(reg, log[i], x, Forms(log[i], may))
               <=> log[i].doc[k].form \in Forms(log[i], may) /\ Says(log[i], log[i].doc[k], x)
    <3>1. log[i].doc[k] \in Line
      BY <2>0
    <3> QED
      BY <3>1 DEF Tell, Says, GraphOf
  <2> QED
    BY <2>2 DEF Hits
<1>2. Pairs(log, reg, x, may)
      = UNION {{i} \X {k \in DOMAIN log[i].doc :
            log[i].doc[k].form \in Forms(log[i], may) /\ Says(log[i], log[i].doc[k], x)} : i \in DOMAIN log}
  BY <1>1 DEF Pairs
<1> QED
  BY <1>2 DEF PromisedIn, Promised

-----------------------------------------------------------------------------
\* The committed rows are what the committed loads promised.

Faithful ==
    /\ Registered /\ quads \in Seq(Legible(dict)) /\ NamesGraphs(log, DOMAIN reg)
    /\ \A x \in Statement : /\ PromisedIn(log, reg, x, FALSE) <= Often(quads, Stored(dict, x))
                            /\ Often(quads, Stored(dict, x)) <= PromisedIn(log, reg, x, TRUE)

\* A load says what its entry in the log will.
Enters(j, e, rg) == e \in Entry /\ e.g = j.g /\ e.by = j.path /\ \A n \in DOMAIN j.gids : j.gids[n] = rg[n]

LEMMA EntersForms ==
    ASSUME NEW j, NEW e, NEW rg, Enters(j, e, rg)
    PROVE  Forms(e, FALSE) = Least(j) /\ Forms(e, TRUE) = Most(j)
<1>1. [by |-> j.path].by = e.by
  BY DEF Enters
<1> QED
  BY <1>1 DEF Least, Most, Forms, MustStore, MayStore

LEMMA SayingTells ==
    ASSUME NEW j, NEW e, NEW rg, Enters(j, e, rg),
           NEW x \in Statement
    PROVE  /\ Saying(j, x, Least(j)) \cap Placed(j) = Tell(rg, e, x, Least(j)) \cap Placed(j)
           /\ Saying(j, x, Most(j)) \cap Placed(j) = Tell(rg, e, x, Most(j)) \cap Placed(j)
<1>2. ASSUME NEW l \in Placed(j)
      PROVE  Place(j, l) = x <=> (IF l.g = Default THEN e.g ELSE rg[l.g]) = x.g /\ l.t = x.t
  <2>1. l.g = Default \/ j.gids[l.g] = rg[l.g]
    BY DEF Placed, Enters
  <2>2. Place(j, l) = [g |-> IF l.g = Default THEN e.g ELSE rg[l.g], t |-> l.t]
    BY <2>1 DEF Place, Enters
  <2>3. x = [g |-> x.g, t |-> x.t]
    BY StatementParts
  <2> QED
    BY <2>2, <2>3
<1>3. \A l \in Placed(j) : l \in Line
  BY DEF Placed
<1> QED
  BY <1>2, <1>3 DEF Saying, Tell

LEMMA OftenReads ==
    ASSUME NEW R, NEW Q, R \subseteq Q, Sane(Q), NEW x \in Statement, NEW q \in Seq(Legible(R))
    PROVE  Often(q, Stored(R, x)) = Often(q, Stored(Q, x))
<1>1. PICK S, X, Y : S = Legible(R) /\ X = Stored(R, x) /\ Y = Stored(Q, x)
  OBVIOUS
<1>2. X \cap S = Y \cap S
  BY <1>1, ReadsSame
<1>3. Often(q, X) = Often(q, Y)
  BY <1>1, <1>2, OftenSame
<1> QED
  BY <1>1, <1>3

LEMMA PromisedGrows ==
    ASSUME NEW lg \in Seq(Entry), NEW e \in Entry, NEW rg, NEW rh, NamesGraphs(lg, DOMAIN rg),
           \A n \in DOMAIN rg : rh[n] = rg[n], NEW x, NEW may
    PROVE  PromisedIn(Append(lg, e), rh, x, may) = PromisedIn(lg, rg, x, may) + Often(e.doc, Tell(rh, e, x, Forms(e, may)))
<1>1. PromisedIn(lg, rg, x, may) = PromisedIn(lg, rh, x, may)
  BY PromisedSame
<1>2. PromisedIn(Append(lg, e), rh, x, may) = PromisedIn(lg, rh, x, may) + Often(e.doc, Tell(rh, e, x, Forms(e, may)))
  BY PromisedAppend
<1> QED
  BY <1>1, <1>2

LEMMA OftenTells ==
    ASSUME NEW j, NEW e, NEW rg, Enters(j, e, rg),
           NEW x \in Statement, NEW p \in Seq(Placed(j))
    PROVE  /\ Often(p, Tell(rg, e, x, Least(j))) = Often(p, Saying(j, x, Least(j)))
           /\ Often(p, Tell(rg, e, x, Most(j))) = Often(p, Saying(j, x, Most(j)))
<1>1. PICK S, A, B, C, D : S = Placed(j) /\ A = Saying(j, x, Least(j)) /\ B = Tell(rg, e, x, Least(j))
                           /\ C = Saying(j, x, Most(j)) /\ D = Tell(rg, e, x, Most(j))
  OBVIOUS
<1>2. A \cap S = B \cap S /\ C \cap S = D \cap S
  <2>1. /\ Saying(j, x, Least(j)) \cap Placed(j) = Tell(rg, e, x, Least(j)) \cap Placed(j)
        /\ Saying(j, x, Most(j)) \cap Placed(j) = Tell(rg, e, x, Most(j)) \cap Placed(j)
    BY SayingTells
  <2> QED
    BY <1>1, <2>1
<1>3. Often(p, A) = Often(p, B) /\ Often(p, C) = Often(p, D)
  BY <1>1, <1>2, OftenSame
<1> QED
  BY <1>1, <1>3

LEMMA LogGrows ==
    ASSUME Faithful, log \in Seq(Entry), dict \subseteq dict', Sane(dict'), Registered',
           \A n \in DOMAIN reg : n \in DOMAIN reg' /\ reg'[n] = reg[n],
           NEW j, Books(j, dict'), j.doc \in Seq(Line), j.lines = <<>>,
           \A n \in DOMAIN j.gids : n \in DOMAIN reg' /\ j.gids[n] = reg'[n],
           NEW e \in Entry, e.doc = j.doc, e.g = j.g, e.by = j.path, log' = Append(log, e),
           NEW q \in Seq(Legible(dict')), quads' = quads \o q,
           \A x \in Statement : Total(j, dict', x) = Often(q, Stored(dict', x))
    PROVE  Faithful'
<1>1. quads \in Seq(Legible(dict')) /\ quads \in Seq(Legible(dict))
  BY ReadsSame, SeqMore DEF Faithful
<1>2. quads' \in Seq(Legible(dict'))
  BY <1>1
<1>3. PICK p \in Seq(Placed(j)) : j.doc = p \o j.lines /\ \A x \in Statement : Bounded(j, dict', p, x)
  BY DEF Books
<1>4. e.doc = p
  BY <1>3
<1>5. ASSUME NEW x \in Statement
      PROVE  /\ PromisedIn(log', reg', x, FALSE) <= Often(quads', Stored(dict', x))
             /\ Often(quads', Stored(dict', x)) <= PromisedIn(log', reg', x, TRUE)
  <2>1. PICK a, b, c, m, n, u, v :
            /\ a = PromisedIn(log, reg, x, FALSE) /\ b = Often(quads, Stored(dict, x)) /\ c = PromisedIn(log, reg, x, TRUE)
            /\ m = Often(p, Saying(j, x, Least(j))) /\ n = Often(q, Stored(dict', x)) /\ u = Often(p, Saying(j, x, Most(j)))
            /\ v = Often(quads', Stored(dict', x))
    OBVIOUS
  <2>2. a \in Nat /\ c \in Nat
    BY <2>1, PromisedAppend
  <2>3. b \in Nat /\ m \in Nat /\ n \in Nat /\ u \in Nat
    BY <1>1, <1>3, <2>1, OftenTyped
  <2>4. a <= b /\ b <= c
    BY <2>1 DEF Faithful
  <2>5. m <= n /\ n <= u
    BY <1>3, <2>1 DEF Bounded
  <2>6. v = b + n
    <3>1. PICK R, Q : R = dict /\ Q = dict'
      OBVIOUS
    <3>4. R \subseteq Q /\ Sane(Q) /\ quads \in Seq(Legible(R))
      BY <1>1, <3>1
    <3>5. Often(quads, Stored(R, x)) = Often(quads, Stored(Q, x))
      BY ONLY x \in Statement, <3>4, OftenReads
    <3>2. Often(quads, Stored(dict, x)) = Often(quads, Stored(dict', x))
      BY <3>1, <3>5
    <3>3. Often(quads \o q, Stored(dict', x)) = Often(quads, Stored(dict', x)) + Often(q, Stored(dict', x))
      BY <1>1, OftenConcat
    <3> QED
      BY <2>1, <3>2, <3>3
  <2>7. \A may \in BOOLEAN : PromisedIn(log', reg', x, may) = PromisedIn(log, reg, x, may) + Often(p, Tell(reg', e, x, Forms(e, may)))
    <3>1. PICK rg, rh : rg = reg /\ rh = reg'
      OBVIOUS
    <3>2. NamesGraphs(log, DOMAIN rg) /\ \A k \in DOMAIN rg : rh[k] = rg[k]
      BY <3>1 DEF Faithful
    <3>3. \A may : PromisedIn(Append(log, e), rh, x, may) = PromisedIn(log, rg, x, may) + Often(e.doc, Tell(rh, e, x, Forms(e, may)))
      BY ONLY log \in Seq(Entry), e \in Entry, <3>2, PromisedGrows, SMTT(30)
    <3> QED
      BY <1>4, <3>1, <3>3
  <2>8. Often(p, Tell(reg', e, x, Forms(e, FALSE))) = m /\ Often(p, Tell(reg', e, x, Forms(e, TRUE))) = u
    <3>1. PICK rh : rh = reg'
      OBVIOUS
    <3>2. Enters(j, e, rh)
      BY <3>1 DEF Enters
    <3>4. Forms(e, FALSE) = Least(j) /\ Forms(e, TRUE) = Most(j)
      BY <3>2, EntersForms
    <3>3. /\ Often(p, Tell(rh, e, x, Least(j))) = Often(p, Saying(j, x, Least(j)))
          /\ Often(p, Tell(rh, e, x, Most(j))) = Often(p, Saying(j, x, Most(j)))
      BY ONLY x \in Statement, p \in Seq(Placed(j)), <3>2, OftenTells
    <3> QED
      BY <2>1, <3>1, <3>3, <3>4
  <2>9. PromisedIn(log', reg', x, FALSE) = a + m /\ PromisedIn(log', reg', x, TRUE) = c + u
    BY <2>1, <2>7, <2>8
  <2>10. a + m <= b + n /\ b + n <= c + u
    BY <2>2, <2>3, <2>4, <2>5
  <2> QED
    BY <2>1, <2>6, <2>9, <2>10
<1>6. NamesGraphs(log', DOMAIN reg')
  <2>1. ASSUME NEW i \in DOMAIN log', NEW k \in DOMAIN log'[i].doc
        PROVE  log'[i].doc[k].g \in DOMAIN reg' \cup {Default}
    <3>1. CASE i \in DOMAIN log
      <4>1. log'[i] = log[i]
        BY <3>1
      <4>2. log[i].doc[k].g \in DOMAIN reg \cup {Default}
        BY <2>1, <3>1, <4>1 DEF Faithful, NamesGraphs
      <4> QED
        BY <4>1, <4>2
    <3>2. CASE i \notin DOMAIN log
      <4>1. log'[i] = e
        BY <3>2
      <4>2. p[k] \in Placed(j) /\ log'[i].doc[k] = p[k]
        BY <1>4, <2>1, <4>1
      <4> QED
        BY <4>2 DEF Placed
    <3> QED
      BY <3>1, <3>2
  <2> QED
    BY <2>1 DEF NamesGraphs
<1> QED
  BY <1>2, <1>5, <1>6 DEF Faithful

\* Nothing else touches what is committed.
LEMMA FaithfulKept ==
    ASSUME Faithful, UNCHANGED <<dict, quads, reg, log>>, lastGraph' \in Nat
    PROVE  Faithful'
BY DEF Faithful, Registered

-----------------------------------------------------------------------------
\* The commit.

\* What the registry becomes.
LEMMA CommitNames ==
    ASSUME Locking, Loading, Registered, NEW s \in Session, Commit(s)
    PROVE  /\ \A n \in DOMAIN reg : n \in DOMAIN reg' /\ reg'[n] = reg[n]
           /\ \A n \in DOMAIN job[s].gids : n \in DOMAIN reg' /\ job[s].gids[n] = reg'[n]
           /\ DOMAIN reg' = DOMAIN reg \cup DOMAIN job[s].named
           /\ Registered'
<1>1. PICK j : j = job[s]
  OBVIOUS
<1>2. reg' = [n \in DOMAIN reg \cup DOMAIN j.named |-> NamedOf(j, n)] /\ lastGraph' = lastGraph
  BY <1>1 DEF Commit, sequences
<1>3. Names(j, held[s], reg)
  BY <1>1 DEF Loading, Fine
<1>4. DOMAIN reg' = DOMAIN reg \cup DOMAIN j.named /\ \A n \in DOMAIN reg' : reg'[n] = NameIn(j, reg, n)
  BY <1>2 DEF NamedOf, NameIn
<1>5. \A n \in DOMAIN reg : reg'[n] = reg[n]
  BY <1>3, <1>4 DEF Names, NameIn
<1>6. \A n \in DOMAIN j.gids : n \in DOMAIN reg' /\ j.gids[n] = reg'[n]
  BY <1>3, <1>4 DEF Names
<1>7. ASSUME NEW n \in DOMAIN reg'
      PROVE  reg'[n] \in Nat
  <2>1. CASE n \in DOMAIN reg
    BY <1>5, <2>1 DEF Registered
  <2>2. CASE n \in DOMAIN j.named
    BY <1>3, <1>6, <2>2 DEF Names
  <2> QED
    BY <1>4, <2>1, <2>2
<1>8. Registered'
  BY <1>2, <1>7 DEF Registered
<1> QED
  BY <1>1, <1>4, <1>5, <1>6, <1>8

LEMMA CommitFaithful ==
    ASSUME Locking, Numbered, Numbered', Loading, Recording, Faithful, NEW s \in Session, Commit(s)
    PROVE  Faithful'
<1>1. PICK j, R : j = job[s] /\ R = dict \cup j.own
  OBVIOUS
<1>2. /\ dict' = R /\ quads' = quads \o j.out /\ j.at = "finish"
      /\ log' = Append(log, [doc |-> j.doc, g |-> j.g, by |-> j.path, recorded |-> j.loads > 0])
  BY <1>1 DEF Commit, At
<1>3. Books(j, R) /\ Stage(j) /\ IsJob(j)
  BY <1>1 DEF Loading, Fine, Locking, Jobs
<1>4. j.lines = <<>> /\ j.batch = <<>> /\ j.pending = <<>>
  BY <1>2, <1>3 DEF Stage, Keying, Gathering
<1>5. \A x \in Statement : Total(j, R, x) = Often(j.out, Stored(R, x))
  <2>1. ASSUME NEW x \in Statement
        PROVE  Total(j, R, x) = Often(j.out, Stored(R, x))
    <3>1. PICK a, b, c : a = Often(j.out, Stored(R, x)) /\ b = Often(j.batch, Stored(R, x)) /\ c = Often(j.pending, Waiting(R, x))
      OBVIOUS
    <3>2. a \in Nat
      BY <1>3, <3>1, TotalIsNat DEF Books
    <3>3. b = 0 /\ c = 0
      BY <1>4, <3>1, OftenNone
    <3>4. Total(j, R, x) = a + b + c
      BY <3>1 DEF Total
    <3> QED
      BY <3>1, <3>2, <3>3, <3>4
  <2> QED
    BY <2>1
<1>6. j.out \in Seq(Legible(R))
  BY <1>3 DEF Books, Collected
<1>7. PICK e : e = [doc |-> j.doc, g |-> j.g, by |-> j.path, recorded |-> j.loads > 0]
  OBVIOUS
<1>8. e \in Entry /\ e.doc = j.doc /\ e.g = j.g /\ e.by = j.path /\ log' = Append(log, e)
  BY <1>2, <1>3, <1>7 DEF Entry, IsJob
<1>9. Sane(dict') /\ dict \subseteq dict'
  BY <1>1, <1>2, SaneNow
<1>10. /\ \A n \in DOMAIN reg : n \in DOMAIN reg' /\ reg'[n] = reg[n]
       /\ \A n \in DOMAIN j.gids : n \in DOMAIN reg' /\ j.gids[n] = reg'[n]
       /\ Registered'
  BY <1>1, CommitNames DEF Faithful
<1>11. log \in Seq(Entry) /\ j.doc \in Seq(Line)
  BY <1>3 DEF Recording, IsJob
<1> QED
  BY <1>2, <1>3, <1>4, <1>5, <1>6, <1>8, <1>9, <1>10, <1>11, LogGrows

LEMMA CommitFine ==
    ASSUME Locking, Numbered, Numbered', Loading, Registered, NEW s \in Session, Commit(s)
    PROVE  Loading'
<1>1. job' = [job EXCEPT ![s] = Idle] /\ held' = [held EXCEPT ![s] = {}] /\ dict \subseteq dict'
  BY DEF Commit, Release
<1>2. job'[s] = Idle /\ \A t \in Session \ {s} : job'[t] = job[t] /\ held'[t] = held[t]
  BY <1>1 DEF Locking, Jobs
<1>3. ASSUME NEW t \in Session \ {s}
      PROVE  Fine(job'[t], held'[t], dict' \cup job'[t].own, reg')
  <2>1. PICK j, rg, rh : j = job[t] /\ rg = reg /\ rh = reg'
    OBVIOUS
  <2>2. Books(j, dict \cup j.own) /\ Stage(j) /\ Names(j, held[t], rg) /\ Custody(j, held[t])
    BY <2>1 DEF Loading, Fine, Locking
  <2>3. Books(j, dict' \cup j.own)
    <3>1. PICK R, Q : R = dict \cup j.own /\ Q = dict' \cup j.own
      OBVIOUS
    <3>2. Sane(dict' \cup job'[t].own)
      BY SaneNext
    <3>3. R \subseteq Q /\ Sane(Q) /\ Books(j, R)
      BY <1>1, <1>2, <2>1, <2>2, <3>1, <3>2
    <3>4. Books(j, Q)
      BY <3>3, BooksMore
    <3> QED
      BY <3>1, <3>4
  <2>4. /\ \A n \in DOMAIN rg : n \in DOMAIN rh /\ rh[n] = rg[n]
        /\ DOMAIN rh = DOMAIN rg \cup DOMAIN job[s].named
    BY <2>1, CommitNames
  <2>5. DOMAIN job[s].named = {} \/ Gate \notin held[t]
    <3>1. DOMAIN job[s].named # {} => Gate \in held[s]
      BY DEF Loading, Fine, Names
    <3>2. Conflict(Gate, Gate)
      BY DEF Conflict, Gate
    <3>3. Gate \in held[s] => Gate \notin held[t]
      BY <3>2 DEF Locking, LocksAgree
    <3> QED
      BY <3>1, <3>3
  <2>6. DOMAIN rh = DOMAIN rg \/ Gate \notin held[t]
    BY <2>4, <2>5
  <2>7. DOMAIN j.named \cap DOMAIN rh = {}
    BY <2>2, <2>6 DEF Names
  <2>8. j.at = "create" => Head(j.lines).g \notin DOMAIN rh
    BY <2>2, <2>6 DEF Names, Custody
  <2>9. ASSUME NEW n \in DOMAIN j.gids
        PROVE  n \in DOMAIN j.named \cup DOMAIN rh /\ j.gids[n] = NameIn(j, rh, n)
    BY <2>2, <2>4 DEF Names, NameIn
  <2>10. Names(j, held[t], rh)
    BY <2>2, <2>7, <2>8, <2>9 DEF Names
  <2> QED
    BY <1>2, <2>1, <2>2, <2>3, <2>10 DEF Fine
<1>4. Fine(job'[s], held'[s], dict' \cup job'[s].own, reg')
  BY <1>2, IdleFine
<1> QED
  BY <1>3, <1>4 DEF Loading

-----------------------------------------------------------------------------
\* The staged loader, whose one step reads, inserts and commits.

LEMMA StagedCached ==
    ASSUME NEW sts, IsSeq(sts), NEW n \in Nat, NEW q, q = StagedJob(sts, n)
    PROVE  /\ Keeps(Idle, q, {"own", "cache"}) /\ Sound(q.cache, q.own)
           /\ DtypeKeys(sts) \subseteq DOMAIN q.cache /\ PlainKeys(sts) \subseteq DOMAIN q.cache
           /\ LiteralKeys(sts, q.cache) \subseteq DOMAIN q.cache
<1>1. PICK plain, first, p, literals, second : Inserts(sts, n, plain, first, p, literals, second, q)
  <2>1. PICK plain, first, p, literals, second, r : Inserts(sts, n, plain, first, p, literals, second, r)
    BY StagedParts
  <2>2. r = q
    BY <2>1 DEF Inserts
  <2> QED
    BY <2>1, <2>2
<1>2. /\ FreshIs(plain, first, Empty) /\ FreshIs(literals, second, p.cache)
      /\ (\A x \in StagedKeys(sts) : x[3] = 0) /\ (\A x \in LiteralKeys(sts, p.cache) : x[3] # 0)
      /\ \A t \in TermsOf(sts) : Typed(t) => PlainKey(Dtype(t)) \in StagedKeys(sts)
  BY <1>1, InsertsFresh
<1>3. /\ ToSet(plain) = StagedKeys(sts) /\ ToSet(literals) = LiteralKeys(sts, p.cache)
      /\ p.cache = FreshCache(Empty, plain, first) /\ q.cache = FreshCache(p.cache, literals, second)
      /\ q.own = FreshRows(plain, first) \cup FreshRows(literals, second)
      /\ Keeps(Idle, q, {"own", "cache"})
  BY <1>1 DEF Inserts
<1>4. DOMAIN p.cache = StagedKeys(sts)
  <2>1. DOMAIN Empty = {}
    BY DEF Empty
  <2> QED
    BY <1>2, <1>3, <2>1 DEF FreshIs
<1>5. DOMAIN q.cache = StagedKeys(sts) \cup LiteralKeys(sts, p.cache)
  BY <1>2, <1>3, <1>4 DEF FreshIs
<1>6. \A x \in StagedKeys(sts) : x \notin LiteralKeys(sts, p.cache) /\ q.cache[x] = p.cache[x]
  <2>1. \A x \in StagedKeys(sts) : x \notin LiteralKeys(sts, p.cache)
    BY <1>2
  <2> QED
    BY <1>2, <1>3, <1>4, <2>1 DEF FreshIs
<1>7. LiteralKeys(sts, q.cache) = LiteralKeys(sts, p.cache)
  <2>1. ASSUME NEW t \in TermsOf(sts), Typed(t)
        PROVE  KeyIn(q.cache, t) = KeyIn(p.cache, t)
    BY <1>2, <1>6, <2>1 DEF KeyIn
  <2> QED
    BY <2>1 DEF LiteralKeys
<1>8. Sound(q.cache, q.own)
  <2>1. ASSUME NEW k \in DOMAIN q.cache
        PROVE  IdRow(q.cache[k], k) \in q.own
    <3>1. CASE k \in LiteralKeys(sts, p.cache)
      BY <1>2, <1>3, <3>1 DEF FreshIs
    <3>2. CASE k \in StagedKeys(sts)
      BY <1>2, <1>3, <1>6, <3>2 DEF FreshIs
    <3> QED
      BY <1>5, <2>1, <3>1, <3>2
  <2> QED
    BY <2>1 DEF Sound
<1>9. DtypeKeys(sts) \subseteq DOMAIN q.cache /\ PlainKeys(sts) \subseteq DOMAIN q.cache
  BY <1>5 DEF StagedKeys
<1> QED
  BY <1>3, <1>5, <1>7, <1>8, <1>9

\* Seen as a load that has begun, with its terms known.
StagedLoad(c, cache) ==
    [Idle EXCEPT !.path = "staged", !.doc = c.doc, !.g = c.g, !.lines = c.doc, !.cache = cache]
LEMMA StagedRecord ==
    ASSUME NEW c, NEW cache
    PROVE  LET j == StagedLoad(c, cache) IN
           /\ Rec(j) /\ j.path = "staged" /\ j.doc = c.doc /\ j.g = c.g /\ j.lines = c.doc /\ j.cache = cache
           /\ j.gids = Empty /\ j.out = <<>> /\ j.batch = <<>> /\ j.pending = <<>>
BY ZenonT(60) DEF StagedLoad, Idle, Rec, Fields

\* The lines it can read, as they will be stored.
StagedDoc(c, kept, sts) ==
    /\ c.doc \in Seq(Line) /\ c.g \in Nat /\ \A i \in DOMAIN c.doc : c.doc[i].g = Default
    /\ kept = Keep(c.doc, Bare(c.doc)) /\ sts = [i \in DOMAIN kept |-> Place([g |-> c.g], kept[i])]
LEMMA StagedReads ==
    ASSUME NEW c, NEW kept, NEW sts, StagedDoc(c, kept, sts), NEW R, NEW cache
    PROVE  LET k == ParseJob(StagedLoad(c, cache), sts, <<>>) IN
           /\ sts \in Seq(Statement) /\ Books(k, R)
           /\ Rec(k) /\ k.path = "staged" /\ k.doc = c.doc /\ k.g = c.g /\ k.lines = <<>> /\ k.cache = cache
           /\ k.gids = Empty /\ k.out = <<>> /\ k.batch = <<>> /\ k.pending = sts
<1>1. PICK j : j = StagedLoad(c, cache)
  OBVIOUS
<1>2. /\ Rec(j) /\ j.path = "staged" /\ j.doc = c.doc /\ j.g = c.g /\ j.lines = c.doc /\ j.cache = cache
      /\ j.gids = Empty /\ j.out = <<>> /\ j.batch = <<>> /\ j.pending = <<>>
  BY <1>1, StagedRecord
<1>3. PICK k : k = ParseJob(j, sts, <<>>)
  OBVIOUS
<1>4. Keeps(j, k, {"pending", "lines"}) /\ Rec(k) /\ k.pending = sts /\ k.lines = <<>>
  BY <1>2, <1>3, ParseRecord
<1>5. /\ k.path = "staged" /\ k.doc = c.doc /\ k.g = c.g /\ k.cache = cache
      /\ k.gids = Empty /\ k.out = <<>> /\ k.batch = <<>> /\ Same(j, k)
  BY <1>2, <1>4 DEF Keeps, Fields, Same
<1>0. /\ c.doc \in Seq(Line) /\ c.g \in Nat /\ \A i \in DOMAIN c.doc : c.doc[i].g = Default
      /\ kept = Keep(c.doc, Bare(c.doc)) /\ sts = [i \in DOMAIN kept |-> Place([g |-> c.g], kept[i])]
  BY DEF StagedDoc
<1>6. Books(j, R)
  BY <1>0, <1>2, BooksEmpty
<1>7. j.lines \in Seq(Placed(j)) /\ \A l \in Placed(j) : Place(j, l) \in Statement
  <2>1. OneGraph(j) /\ j.lines \in Seq(Line) /\ j.g \in Nat
    BY <1>0, <1>2 DEF OneGraph
  <2>2. \A n \in DOMAIN j.gids : j.gids[n] \in Nat
    BY <1>2 DEF Empty
  <2> QED
    BY <2>1, <2>2, OneGraphPlaced
<1>8. PICK w : w = c.doc
  OBVIOUS
<1>9. w \in Seq(Placed(j)) /\ kept \in Seq(Placed(j)) /\ kept = Keep(w, Bare(w))
  BY <1>0, <1>2, <1>7, <1>8, KeepTyped
<1>10. sts = [i \in DOMAIN kept |-> Place(j, kept[i])]
  <2>1. \A l \in Placed(j) : Place([g |-> c.g], l) = Place(j, l)
    <3>1. DOMAIN j.gids = {}
      BY <1>2 DEF Empty
    <3>2. \A l \in Placed(j) : l.g = Default
      BY <3>1 DEF Placed
    <3> QED
      BY <1>2, <3>2 DEF Place
  <2>2. \A i \in DOMAIN kept : kept[i] \in Placed(j)
    BY <1>9
  <2> QED
    BY <1>0, <2>1, <2>2
<1>11. ASSUME NEW x \in Statement
       PROVE  /\ Often(w, Saying(j, x, Least(j))) <= Often(kept, Saying(j, x, Form))
              /\ Often(kept, Saying(j, x, Form)) <= Often(w, Saying(j, x, Most(j)))
  <2>1. PICK F, Y, S : F = {"bare"} /\ Y = Bare(w) /\ S = Placed(j)
    OBVIOUS
  <2>2. ToSet(w) \subseteq Line
    BY <1>0, <1>2, <1>8, ToSetFacts
  <2>3. F \subseteq Form /\ w \in Seq(S) /\ S \subseteq Line /\ \A l \in ToSet(w) : l \in Y <=> l.form \in F
    BY <1>9, <2>1, <2>2 DEF Form, Placed, Bare
  <2>4. Often(Keep(w, Y), Saying(j, x, Form)) = Often(w, Saying(j, x, F))
    BY <2>3, KeptForms
  <2>5. Least(j) = F /\ Most(j) = F
    BY <1>2, <2>1 DEF Least, Most, MustStore, MayStore, Rebuilds
  <2>6. Often(w, Saying(j, x, F)) \in Nat
    BY <1>9, OftenTyped
  <2> QED
    BY <1>9, <2>1, <2>4, <2>5, <2>6
<1>12. Books(k, R) /\ k.pending \in Seq(Statement)
  <2>1. j.lines = w \o k.lines /\ k.lines \in Seq(Line)
    BY <1>0, <1>2, <1>4, <1>8, <1>9
  <2>2. k.out = j.out /\ k.batch = j.batch /\ k.pending = [i \in DOMAIN kept |-> Place(j, kept[i])]
    BY <1>2, <1>4, <1>5, <1>10
  <2> QED
    BY <1>2, <1>5, <1>6, <1>7, <1>9, <1>11, <2>1, <2>2, BooksGathered
<1> QED
  BY <1>1, <1>3, <1>4, <1>5, <1>12

RowsOfAll(rows, q, sts) == rows = [i \in DOMAIN sts |-> IdsOf(q.cache, KeysOf(q.cache, sts[i]))]
\* Its rows are those of a load whose statements have all become rows.
LEMMA StagedDrained ==
    ASSUME NEW c, NEW kept, NEW sts, StagedDoc(c, kept, sts),
           NEW n \in Nat, NEW q, q = StagedJob(sts, n), Sane(q.own),
           NEW rows, RowsOfAll(rows, q, sts)
    PROVE  \E m : /\ Books(m, q.own) /\ m.doc = c.doc /\ m.lines = <<>> /\ m.path = "staged" /\ m.g = c.g /\ m.gids = Empty
                  /\ rows \in Seq(Legible(q.own))
                  /\ \A x \in Statement : Total(m, q.own, x) = Often(rows, Stored(q.own, x))
<1>1. PICK k, R : k = ParseJob(StagedLoad(c, q.cache), sts, <<>>) /\ R = q.own
  OBVIOUS
<1>2. /\ sts \in Seq(Statement) /\ Books(k, R)
      /\ Rec(k) /\ k.path = "staged" /\ k.doc = c.doc /\ k.g = c.g /\ k.lines = <<>> /\ k.cache = q.cache
      /\ k.gids = Empty /\ k.out = <<>> /\ k.batch = <<>> /\ k.pending = sts
  BY <1>1, StagedReads
<1>3. IsSeq(sts)
  BY <1>2, IsSeqFacts
<1>4. /\ Sound(q.cache, q.own) /\ DtypeKeys(sts) \subseteq DOMAIN q.cache /\ PlainKeys(sts) \subseteq DOMAIN q.cache
      /\ LiteralKeys(sts, q.cache) \subseteq DOMAIN q.cache
  BY <1>3, StagedCached
<1>5. Known3(k) /\ Sound(k.cache, R) /\ Sane(R) /\ k.pending \in Seq(Statement)
  BY <1>1, <1>2, <1>4 DEF Known3
<1>6. PICK m : m = DrainKeyed(k)
  OBVIOUS
<1>7. Books(m, R)
  BY <1>2, <1>5, <1>6, DrainKeyedFine
<1>8. Keeps(k, m, {"batch", "pending"})
  BY <1>2, <1>6, DrainKeeps
<1>9. m.pending = <<>> /\ m.batch = <<>> \o rows
  <2>1. k.batch \o [i \in DOMAIN k.pending |-> IdsOf(k.cache, KeysOf(k.cache, k.pending[i]))] = <<>> \o rows
    BY <1>2 DEF RowsOfAll
  <2> QED
    BY <1>2, <1>6, <2>1, DrainKeyedRecord
<1>10. rows = <<>> \o rows
  <2>1. DOMAIN sts = 1 .. Len(sts) /\ Len(sts) \in Nat
    BY <1>2
  <2>2. rows = [i \in 1 .. Len(sts) |-> rows[i]]
    BY <2>1 DEF RowsOfAll
  <2>3. IsSeq(rows)
    BY <2>1, <2>2, IsSeqFacts
  <2>4. rows \in Seq(ToSet(rows))
    BY <2>3 DEF IsSeq
  <2> HIDE <2>2
  <2> QED
    BY <2>4
<1>11. m.batch = rows
  BY <1>9, <1>10
<1>12. m.doc = c.doc /\ m.lines = <<>> /\ m.path = "staged" /\ m.g = c.g /\ m.gids = Empty /\ m.out = <<>>
  BY <1>2, <1>8 DEF Keeps, Fields
<1>13. rows \in Seq(Legible(R))
  BY <1>7, <1>11 DEF Books, Collected
<1>14. ASSUME NEW x \in Statement
       PROVE  Total(m, R, x) = Often(rows, Stored(R, x))
  <2>1. PICK a, b, d : a = Often(m.out, Stored(R, x)) /\ b = Often(m.batch, Stored(R, x)) /\ d = Often(m.pending, Waiting(R, x))
    OBVIOUS
  <2>2. b \in Nat
    BY <1>7, <2>1, TotalIsNat DEF Books
  <2>3. a = 0 /\ d = 0
    BY <1>9, <1>12, <2>1, OftenNone
  <2>4. Total(m, R, x) = a + b + d
    BY <2>1 DEF Total
  <2> QED
    BY <1>11, <2>1, <2>2, <2>3, <2>4
<1> QED
  BY <1>1, <1>7, <1>12, <1>13, <1>14

LEMMA StagedFine ==
    ASSUME Locking, Numbered, Numbered', Loading, NEW s \in Session, LoadStaged(s)
    PROVE  Loading'
<1>1. job' = job /\ held' = held
  BY StagedLeaves
<1>2. dict = {} /\ reg' = reg
  <2>1. PICK c \in Calls : dict = {} /\ UNCHANGED <<reg, src, lastGraph, job, held>>
    BY ZenonT(90) DEF LoadStaged
  <2> QED
    BY <2>1
<1>3. ASSUME NEW t \in Session
      PROVE  Fine(job'[t], held'[t], dict' \cup job'[t].own, reg')
  <2>1. PICK j, R, Q : j = job[t] /\ R = dict \cup j.own /\ Q = dict' \cup j.own
    OBVIOUS
  <2>2. Books(j, R) /\ Stage(j) /\ Names(j, held[t], reg)
    BY <2>1 DEF Loading, Fine
  <2>3. R \subseteq Q /\ Sane(Q)
    BY <1>1, <1>2, <2>1, SaneNext
  <2>4. Books(j, Q)
    BY <2>2, <2>3, BooksMore
  <2> QED
    BY <1>1, <1>2, <2>1, <2>2, <2>4 DEF Fine
<1> QED
  BY <1>3 DEF Loading

LEMMA StagedFaithful ==
    ASSUME Locking, Numbered, Numbered', Recording, Faithful, NEW s \in Session, LoadStaged(s)
    PROVE  Faithful'
<1>1. PICK c \in Calls :
          /\ c.path = "staged" /\ c.g \in {0} \cup {reg[n] : n \in DOMAIN reg} /\ dict = {}
          /\ LET kept == Keep(c.doc, Bare(c.doc))
                 sts == [i \in DOMAIN kept |-> Place([g |-> c.g], kept[i])]
                 q == StagedJob(sts, lastId) IN
             /\ dict' = q.own
             /\ quads' = quads \o [i \in DOMAIN sts |-> IdsOf(q.cache, KeysOf(q.cache, sts[i]))]
          /\ log' = Append(log, [doc |-> c.doc, g |-> c.g, by |-> "staged", recorded |-> FALSE])
          /\ UNCHANGED <<reg, src, lastGraph, job, held>>
  BY ZenonT(90) DEF LoadStaged, StagedJob, StagedLiterals, StagedFirst, StagedPlain, Start
<1>2. PICK kept : kept = Keep(c.doc, Bare(c.doc))
  OBVIOUS
<1>3. PICK sts : sts = [i \in DOMAIN kept |-> Place([g |-> c.g], kept[i])]
  OBVIOUS
<1>4. PICK q, n : q = StagedJob(sts, n) /\ n = lastId
  OBVIOUS
<1>5. PICK rows : rows = [i \in DOMAIN sts |-> IdsOf(q.cache, KeysOf(q.cache, sts[i]))]
  OBVIOUS
<1>6. dict' = q.own /\ quads' = quads \o rows
  BY <1>1, <1>2, <1>3, <1>4, <1>5
<1>7. c.doc \in Seq(Line) /\ c.g \in Nat /\ \A i \in DOMAIN c.doc : c.doc[i].g = Default
  BY <1>1, IngestAssumption
<1>8. n \in Nat
  BY <1>4 DEF Numbered
<1>9. Sane(dict')
  BY SaneNext
<1>10. Sane(q.own)
  BY <1>6, <1>9
<1>11. PICK m : /\ Books(m, q.own) /\ m.doc = c.doc /\ m.lines = <<>> /\ m.path = "staged" /\ m.g = c.g /\ m.gids = Empty
                /\ rows \in Seq(Legible(q.own))
                /\ \A x \in Statement : Total(m, q.own, x) = Often(rows, Stored(q.own, x))
  <2>1. StagedDoc(c, kept, sts) /\ RowsOfAll(rows, q, sts)
    BY <1>2, <1>3, <1>5, <1>7 DEF StagedDoc, RowsOfAll
  <2> QED
    BY <1>4, <1>8, <1>10, <2>1, StagedDrained
<1>12. PICK e : e = [doc |-> c.doc, g |-> c.g, by |-> "staged", recorded |-> FALSE]
  OBVIOUS
<1>13. e \in Entry /\ e.doc = m.doc /\ e.g = m.g /\ e.by = m.path /\ log' = Append(log, e)
  BY <1>1, <1>7, <1>11, <1>12 DEF Entry, Path
<1>14. DOMAIN m.gids = {} /\ dict \subseteq dict' /\ reg' = reg /\ log \in Seq(Entry)
  BY <1>1, <1>11 DEF Empty, Recording
<1>15. Registered'
  BY <1>1 DEF Faithful, Registered
<1>16. Books(m, dict') /\ rows \in Seq(Legible(dict')) /\ \A x \in Statement : Total(m, dict', x) = Often(rows, Stored(dict', x))
  BY <1>6, <1>11
<1> QED
  BY <1>6, <1>7, <1>9, <1>11, <1>13, <1>14, <1>15, <1>16, LogGrows

-----------------------------------------------------------------------------
\* Every step.

\* An empty log promises nothing.
LEMMA PromisedNone ==
    ASSUME NEW rg, NEW x, NEW may
    PROVE  PromisedIn(<<>>, rg, x, may) = 0
<1>1. Pairs(<<>>, rg, x, may) = {}
  BY DEF Pairs
<1> QED
  BY <1>1, FS_EmptySet DEF PromisedIn

LEMMA InitFine == Init => Loading /\ Faithful
<1> SUFFICES ASSUME Init PROVE Loading /\ Faithful
  OBVIOUS
<1>1. /\ dict = {} /\ quads = <<>> /\ log = <<>> /\ lastGraph = Len(Known)
      /\ reg = [n \in ToSet(Known) |-> CHOOSE i \in DOMAIN Known : Known[i] = n]
      /\ \A s \in Session : job[s] = Idle
  BY DEF Init
<1>2. Loading
  BY <1>1, IdleFine DEF Loading
<1>3. Registered
  <2>1. Known \in Seq(Name)
    BY IngestAssumption
  <2>2. lastGraph \in Nat /\ DOMAIN Known \subseteq Nat
    BY <1>1, <2>1
  <2>3. ASSUME NEW n \in DOMAIN reg
        PROVE  reg[n] \in Nat
    <3>1. n \in ToSet(Known) /\ reg[n] = CHOOSE i \in DOMAIN Known : Known[i] = n
      BY <1>1
    <3>2. \E i \in DOMAIN Known : Known[i] = n
      BY <3>1 DEF ToSet
    <3>3. reg[n] \in DOMAIN Known
      BY <3>1, <3>2
    <3> QED
      BY <2>2, <3>3
  <2> QED
    BY <2>2, <2>3 DEF Registered
<1>4. ASSUME NEW x \in Statement
      PROVE  /\ PromisedIn(log, reg, x, FALSE) <= Often(quads, Stored(dict, x))
             /\ Often(quads, Stored(dict, x)) <= PromisedIn(log, reg, x, TRUE)
  <2>1. log = <<>>
    BY <1>1
  <2>3. Often(quads, Stored(dict, x)) = 0
    BY <1>1, OftenNone
  <2>6. 0 <= 0
    OBVIOUS
  <2>4. PromisedIn(log, reg, x, FALSE) = 0
    BY <2>1, PromisedNone
  <2>5. PromisedIn(log, reg, x, TRUE) = 0
    BY <2>1, PromisedNone
  <2> QED
    BY <2>3, <2>4, <2>5, <2>6, Zenon
<1>5. quads \in Seq(Legible(dict)) /\ NamesGraphs(log, DOMAIN reg)
  BY <1>1 DEF NamesGraphs
<1> QED
  BY <1>2, <1>3, <1>4, <1>5 DEF Faithful

\* What the steps that commit nothing leave alone.
LEMMA QuietTables ==
    ASSUME NEW s \in Session,
           \/ Begin(s) \/ Probe(s) \/ DropIndexes(s) \/ Record(s) \/ LookUp(s) \/ Bind(s) \/ Create(s)
           \/ Refuse(s) \/ Victim(s) \/ Abort(s) \/ EndOfFile(s) \/ Parse(s) \/ ReadWindow(s) \/ Flush(s)
    PROVE  UNCHANGED tables /\ (lastGraph' = lastGraph \/ lastGraph' = lastGraph + 1)
<1>1. CASE Begin(s) \/ Probe(s) \/ DropIndexes(s) \/ Record(s) \/ LookUp(s) \/ Bind(s)
  BY <1>1 DEF Begin, Probe, DropIndexes, Record, LookUp, Bind, sequences
<1>2. CASE Create(s)
  BY <1>2 DEF Create
<1>3. CASE Refuse(s) \/ Victim(s) \/ Abort(s) \/ EndOfFile(s) \/ Parse(s) \/ ReadWindow(s) \/ Flush(s)
  BY <1>3 DEF Refuse, Victim, Abort, EndOfFile, Parse, ReadWindow, Flush, sequences
<1> QED
  BY <1>1, <1>2, <1>3

LEMMA PuttingTables ==
    ASSUME NEW s \in Session,
           \/ BaselineLine(s) \/ CombinedLine(s) \/ FlushDefer(s) \/ PutChunk(s) \/ Reserve(s) \/ InsertNew(s)
    PROVE  UNCHANGED tables /\ lastGraph' = lastGraph
<1>1. CASE BaselineLine(s)
  BY <1>1 DEF BaselineLine
<1>2. CASE CombinedLine(s)
  BY <1>2 DEF CombinedLine
<1>3. CASE FlushDefer(s)
  BY <1>3 DEF FlushDefer
<1>4. CASE PutChunk(s)
  BY <1>4 DEF PutChunk
<1>5. CASE Reserve(s)
  BY <1>5 DEF Reserve
<1>6. CASE InsertNew(s)
  BY <1>6 DEF InsertNew
<1> QED
  BY <1>1, <1>2, <1>3, <1>4, <1>5, <1>6

LEMMA NextFine == Locking /\ Recording /\ Numbered /\ Single /\ Loading /\ Faithful /\ [Next]_vars => Loading' /\ Faithful'
<1> SUFFICES ASSUME Locking, Recording, Numbered, Single, Loading, Faithful, [Next]_vars PROVE Loading' /\ Faithful'
  OBVIOUS
<1>1. Locking' /\ Numbered'
  BY NextLocks, NextRows
<1>2. Registered
  BY DEF Faithful
<1>3. ASSUME UNCHANGED tables, lastGraph' = lastGraph \/ lastGraph' = lastGraph + 1
      PROVE  Faithful'
  BY <1>2, <1>3, FaithfulKept DEF tables, Registered
<1>4. CASE UNCHANGED vars
  <2>1. UNCHANGED tables /\ lastGraph' = lastGraph /\ job' = job /\ held' = held
    BY <1>4 DEF vars, tables
  <2>2. Loading'
    BY <2>1 DEF Loading, tables
  <2> QED
    BY <1>3, <2>1, <2>2
<1>5. ASSUME NEW s \in Session, Begin(s) \/ LoadStaged(s) \/ Work(s) \/ Abort(s)
      PROVE  Loading' /\ Faithful'
  <2>1. CASE Begin(s)
    BY <1>3, <2>1, BeginFine, QuietTables
  <2>2. CASE LoadStaged(s)
    BY <1>1, <2>2, StagedFine, StagedFaithful
  <2>3. CASE Probe(s) \/ DropIndexes(s) \/ Record(s)
    BY <1>1, <1>3, <2>3, ProbeFine, DropFine, RecordFine, QuietTables
  <2>4. CASE LookUp(s) \/ Bind(s) \/ Create(s)
    BY <1>1, <1>2, <1>3, <2>4, LookUpFine, CreateFine, QuietTables
  <2>5. CASE BaselineLine(s) \/ CombinedLine(s) \/ FlushDefer(s)
    BY <1>1, <1>3, <2>5, BaselineFine, CombinedFine, FlushDeferFine, PuttingTables
  <2>6. CASE PutChunk(s) \/ Reserve(s) \/ InsertNew(s)
    BY <1>1, <1>3, <2>6, PutChunkFine, ReserveFine, InsertFine, PuttingTables
  <2>7. CASE EndOfFile(s) \/ Parse(s) \/ ReadWindow(s) \/ Flush(s)
    BY <1>1, <1>3, <2>7, QuietFine, ParseFine, WindowFine, QuietTables
  <2>8. CASE Commit(s)
    BY <1>1, <1>2, <2>8, CommitFine, CommitFaithful
  <2>9. CASE Refuse(s) \/ Victim(s) \/ Abort(s)
    <3>1. UNCHANGED tables /\ Release(s) /\ (lastGraph' = lastGraph \/ lastGraph' = lastGraph + 1)
      BY <2>9, QuietTables DEF Refuse, Victim, Abort
    <3> QED
      BY <1>3, <3>1, ReleaseFine DEF tables
  <2> QED
    BY <1>5, <2>1, <2>2, <2>3, <2>4, <2>5, <2>6, <2>7, <2>8, <2>9 DEF Work
<1> QED
  BY <1>4, <1>5 DEF Next

-----------------------------------------------------------------------------
\* The rows, read back.

LEMMA TermIsSaid ==
    ASSUME Sane(dict), NEW id, NEW t \in Term, IdSays(dict, id, t)
    PROVE  TermOf(id) = t
<1>1. ASSUME NEW i, NEW k, IdRow(i, k) \in dict
      PROVE  KeyOf(i) = k
  <2>1. PICK r : r = CHOOSE x \in dict : x.id = i
    OBVIOUS
  <2>2. IdRow(i, k).id = i /\ IdRow(i, k).key = k
    BY DEF IdRow
  <2>3. r \in dict /\ r.id = i
    BY <1>1, <2>1, <2>2
  <2>4. r = IdRow(i, k)
    BY <1>1, <2>2, <2>3 DEF Sane
  <2> QED
    BY <2>1, <2>2, <2>4 DEF KeyOf
<1>2. PICK k : IdRow(id, k) \in dict /\ KeySays(dict, k, t)
  BY DEF IdSays
<1>3. KeyOf(id) = k
  BY <1>1, <1>2
<1>4. t = <<t[1], t[2], t[3]>>
  BY DEF Term
<1>5. CASE t[3] = "" /\ k = <<t[1], t[2], 0>>
  <2>1. k[1] = t[1] /\ k[2] = t[2] /\ k[3] = 0
    BY <1>5
  <2> QED
    BY <1>3, <1>4, <1>5, <2>1 DEF TermOf
<1>6. CASE \E d \in Nat \ {0} : IdRow(d, <<"iri", t[3], 0>>) \in dict /\ k = <<t[1], t[2], d>>
  <2>1. PICK d \in Nat \ {0} : IdRow(d, <<"iri", t[3], 0>>) \in dict /\ k = <<t[1], t[2], d>>
    BY <1>6
  <2>2. KeyOf(d) = <<"iri", t[3], 0>>
    BY <1>1, <2>1
  <2>3. k[1] = t[1] /\ k[2] = t[2] /\ k[3] = d /\ d # 0 /\ KeyOf(d)[2] = t[3]
    BY <2>1, <2>2
  <2> QED
    BY <1>3, <1>4, <2>3 DEF TermOf
<1> QED
  BY <1>2, <1>5, <1>6 DEF KeySays

LEMMA ReadsBack ==
    ASSUME Sane(dict), NEW r \in Legible(dict)
    PROVE  Read(r) \in Statement /\ \A x \in Statement : r \in Stored(dict, x) <=> Read(r) = x
<1>1. ASSUME NEW x \in Statement, RowSays(dict, r, x)
      PROVE  Read(r) = x
  <2>1. /\ x.g \in Nat /\ x.t[1] \in Term /\ x.t[2] \in Term /\ x.t[3] \in Term
        /\ x.t = <<x.t[1], x.t[2], x.t[3]>> /\ x = [g |-> x.g, t |-> x.t]
    BY StatementParts
  <2>2. r[1] = x.g /\ TermOf(r[2]) = x.t[1] /\ TermOf(r[3]) = x.t[2] /\ TermOf(r[4]) = x.t[3]
    BY <1>1, <2>1, TermIsSaid DEF RowSays
  <2> QED
    BY <2>1, <2>2 DEF Read
<1>2. PICK y \in Statement : r \in Quad /\ RowSays(dict, r, y)
  BY DEF Legible
<1>3. Read(r) = y
  BY <1>1, <1>2
<1> QED
  BY <1>1, <1>2, <1>3 DEF Stored

LEMMA FaithfulRows == Numbered /\ Recording /\ Faithful => RowsAreTheDocuments
<1> SUFFICES ASSUME Numbered, Recording, Faithful PROVE RowsAreTheDocuments
  OBVIOUS
<1>1. Sane(dict)
  <2>1. dict \subseteq AllRows
    BY DEF AllRows
  <2> QED
    BY <2>1, SaneOf DEF Numbered
<1>2. PICK read : read = [i \in DOMAIN quads |-> Read(quads[i])]
  OBVIOUS
<1>3. PICK asked : asked = UNION {{[g |-> GraphOf(log[i], l), t |-> l.t] : l \in ToSet(log[i].doc)} : i \in DOMAIN log}
  OBVIOUS
<1>4. quads \in Seq(Legible(dict)) /\ log \in Seq(Entry)
  BY DEF Faithful, Recording
<1>5. \A i \in DOMAIN quads : quads[i] \in Legible(dict)
  BY <1>4
<1>6. ToSet(read) \subseteq Statement
  BY <1>1, <1>2, <1>5, ReadsBack DEF ToSet
<1>7. asked \subseteq Statement
  <2>1. ASSUME NEW i \in DOMAIN log, NEW l \in ToSet(log[i].doc)
        PROVE  [g |-> GraphOf(log[i], l), t |-> l.t] \in Statement
    <3>1. PICK k \in DOMAIN log[i].doc : l = log[i].doc[k]
      BY DEF ToSet
    <3>2. log[i] \in Entry
      BY <1>4
    <3>3. log[i].doc \in Seq(Line) /\ log[i].g \in Nat
      BY <3>2 DEF Entry
    <3>4. l \in Line
      BY <3>1, <3>3
    <3>5. l.g \in DOMAIN reg \cup {Default}
      BY <3>1 DEF Faithful, NamesGraphs
    <3>6. GraphOf(log[i], l) \in Nat
      BY <3>3, <3>5 DEF GraphOf, Faithful, Registered
    <3>7. l.t \in Term \X Term \X Term
      <4>1. l.t \in Resource \X Resource \X Term /\ Resource \subseteq Term
        BY <3>4 DEF Line, Resource
      <4> QED
        BY <4>1
    <3> QED
      BY <3>6, <3>7 DEF Statement
  <2> QED
    BY <1>3, <2>1
<1>8. ASSUME NEW x \in ToSet(read) \cup asked
      PROVE  LET n == Cardinality({i \in DOMAIN read : read[i] = x}) IN Promised(x, FALSE) <= n /\ n <= Promised(x, TRUE)
  <2>1. x \in Statement
    BY <1>6, <1>7
  <2>2. PICK X, S : X = Stored(dict, x) /\ S = Legible(dict)
    OBVIOUS
  <2>3. {i \in DOMAIN read : read[i] = x} = Hits(quads, X)
    <3>1. DOMAIN read = DOMAIN quads /\ \A i \in DOMAIN quads : read[i] = Read(quads[i])
      BY <1>2
    <3>2. \A i \in DOMAIN quads : quads[i] \in X <=> Read(quads[i]) = x
      BY <1>1, <1>5, <2>1, <2>2, ReadsBack
    <3> QED
      BY <3>1, <3>2 DEF Hits
  <2>4. Cardinality(Hits(quads, X)) = Often(quads, X)
    <3>1. quads \in Seq(S)
      BY <1>4, <2>2
    <3> QED
      BY <3>1, OftenHits
  <2>5. PromisedIn(log, reg, x, FALSE) <= Often(quads, X) /\ Often(quads, X) <= PromisedIn(log, reg, x, TRUE)
    BY <2>1, <2>2 DEF Faithful
  <2>6. Promised(x, FALSE) = PromisedIn(log, reg, x, FALSE) /\ Promised(x, TRUE) = PromisedIn(log, reg, x, TRUE)
    BY <1>4, PromisedIs
  <2> QED
    BY <2>3, <2>4, <2>5, <2>6
<1> QED
  BY <1>2, <1>3, <1>8 DEF RowsAreTheDocuments

\* The stored rows, read back through the dictionary, are the statements of the
\* committed documents, each in its graph and as often as it was read, on every
\* path into the tables: no batch, queue or window drops one, doubles one or
\* gives a literal another's datatype, however loads interleave or end early.
THEOREM RowsAreTheDocumentsAlways == Spec => []RowsAreTheDocuments
<1>1. Init => Numbered /\ Single /\ Recording /\ Loading /\ Faithful
  BY InitRows, InitRecords, InitFine
<1>2. Locking /\ (Numbered /\ Single /\ Recording /\ Loading /\ Faithful) /\ [Next]_vars
      => (Numbered /\ Single /\ Recording /\ Loading /\ Faithful)'
  BY NextRows, NextRecords, NextFine
<1>3. Numbered /\ Single /\ Recording /\ Loading /\ Faithful => RowsAreTheDocuments
  BY FaithfulRows
<1> QED
  BY <1>1, <1>2, <1>3, AlwaysLocking, PTL DEF Spec
=============================================================================
