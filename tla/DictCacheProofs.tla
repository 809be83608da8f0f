-------------------------- MODULE DictCacheProofs --------------------------
(***************************************************************************)
(* Proofs about DictCache for any number of backends, databases, terms,    *)
(* slots and savepoints: type correctness, and that the cache never        *)
(* answers with an id that is not a committed row of the dictionary in     *)
(* force, as long as no transaction re-creates the extension after it has  *)
(* staged mappings of the old one.                                         *)
(***************************************************************************)
EXTENDS DictCache, TLAPS

-----------------------------------------------------------------------------
(***************************************************************************)
(* The inductive invariant.                                                *)
(***************************************************************************)

\* Everything a transaction holds belongs to one of its open subtransactions;
\* a backend outside a transaction holds nothing.
HoldingsOK(b) ==
    /\ pc[b] = "idle" => open[b] = {}
    /\ \A s \in open[b] : s \in 1 .. lastSub[b]
    /\ touch[b] \in open[b] \cup {0}
    /\ ddl[b] # NoDdl => ddl[b].sub \in open[b]
    /\ \A w \in wip[b] : w.sub \in open[b]
    /\ \A e \in pending[b] : e.owner \in open[b]
    /\ pc[b] = "insert" => touch[b] # 0

\* The tag of a staged entry tells its owner apart from every younger open
\* subtransaction: comparing tags is as good as walking the nesting.
TagsOK(b) == \A e \in pending[b] :
    /\ e.owner <= e.sub
    /\ e.sub <= lastSub[b]
    /\ \A s \in open[b] : e.owner < s => e.sub < s

\* The row a staged entry names, as old as the entry or older.
Backed(b, e) ==
    \/ \E r \in dict[Db(b)] :
          r.era = ViewEra(b) /\ r.term = e.fp[2] /\ r.id = e.id
    \/ \E w \in wip[b] :
          w.era = ViewEra(b) /\ w.term = e.fp[2] /\ w.id = e.id /\ w.sub <= e.owner

\* A staged entry names a row its transaction sees, and the lock and the
\* re-creation it depends on outlive it.
StagedOK(b) == \A e \in pending[b] :
    /\ e.fp[1] = Db(b)
    /\ touch[b] # 0 /\ touch[b] <= e.owner
    /\ ddl[b] # NoDdl => ddl[b].sub <= e.owner
    /\ Backed(b, e)

\* A session re-creating the extension excludes every other holder of a lock.
ExclusiveOK == \A b, c \in Backend :
    (b # c /\ Db(b) = Db(c) /\ ddl[b] # NoDdl) => ddl[c] = NoDdl /\ touch[c] = 0

\* After the commit record nothing is uncommitted any more.
CommittedOK(b) == pc[b] \in {"commit", "publish"} =>
    /\ wip[b] = {}
    /\ ddl[b] # NoDdl => live[Db(b)] = ddl[b].era

GenerationsOK ==
    /\ \A p \in Position : slots[p].gen <= gen
    /\ \A b \in Backend : seen[b] <= gen

\* Between re-creation and commit the cache knows nothing of the database.
ColdWhileRecreating == \A b \in Backend :
    (ddl[b] # NoDdl /\ pc[b] \in InTxn) =>
        \A p \in Position : Usable(slots[p], gen) => slots[p].fp[1] # Db(b)

TxnOK(b) == HoldingsOK(b) /\ TagsOK(b) /\ StagedOK(b) /\ CommittedOK(b)

IInv ==
    /\ TypeOK
    /\ \A b \in Backend : TxnOK(b)
    /\ ExclusiveOK
    /\ GenerationsOK
    /\ ColdWhileRecreating
    /\ CacheNamesLiveTerms

-----------------------------------------------------------------------------
(***************************************************************************)
(* Type correctness.                                                       *)
(***************************************************************************)

LEMMA InitTyped == Init => TypeOK
BY CacheAssumption DEF Init, TypeOK, CacheAssumption, Era, Position, Slot, ColdSlot, NoDdl, Phase

LEMMA NextTyped == ASSUME TypeOK, [Next]_vars PROVE TypeOK'
<1> USE CacheAssumption DEF CacheAssumption, TypeOK, Goto, EndCall, Phase, InTxn, Db,
        diskVars, shmemVars, txnVars, callVars, Row, OwnRow, Staged, Slot, NoDdl, Fingerprint
<1>0. 1 \in Era BY DEF Era
<1>1. ASSUME NEW b \in Backend, Transaction(b) PROVE TypeOK'
  <2>1. CASE Begin(b) BY <2>1 DEF Begin
  <2>2. CASE Savepoint(b) BY <2>2 DEF Savepoint
  <2>3. CASE Abort(b) BY <1>0, <2>3 DEF Abort, EndTxn
  <2>4. CASE Commit(b)
    <3>1. ViewEra(b) \in Era BY DEF ViewEra
    <3>2. {Bare(w) : w \in {v \in wip[b] : v.era = ViewEra(b)}} \subseteq Row BY DEF Bare
    <3> QED BY <2>4, <3>1, <3>2 DEF Commit
  <2>5. ASSUME NEW s \in open[b], NEW p \in open[b], ReleaseSavepoint(b, s, p) PROVE TypeOK'
    <3>0. p \in Nat OBVIOUS
    <3>1. wip' \in [Backend -> SUBSET OwnRow]
      <4>1. ASSUME NEW w \in OwnRow PROVE ToParent(w, s, p) \in OwnRow
        BY <3>0 DEF ToParent
      <4>2. wip' = [wip EXCEPT ![b] = {ToParent(w, s, p) : w \in wip[b]}]
        BY <2>5 DEF ReleaseSavepoint
      <4> QED BY <4>1, <4>2
    <3>2. pending' \in [Backend -> SUBSET Staged]
      <4> DEFINE Moved(e) == IF e.owner = s THEN [e EXCEPT !.owner = p] ELSE e
      <4>1. ASSUME NEW e \in Staged PROVE Moved(e) \in Staged BY <3>0
      <4>2. pending' = [pending EXCEPT ![b] = {Moved(e) : e \in pending[b]}]
        BY <2>5 DEF ReleaseSavepoint
      <4> HIDE DEF Moved
      <4>3. {Moved(e) : e \in pending[b]} \subseteq Staged BY <4>1
      <4> QED BY <4>2, <4>3
    <3>3. ddl' \in [Backend -> [era : Era, sub : Nat] \cup {NoDdl}]
      <4>1. ToParent(ddl[b], s, p) \in [era : Era, sub : Nat] \cup {NoDdl}
        <5>1. CASE ddl[b] = NoDdl
          BY <5>1, <2>5 DEF ReleaseSavepoint, ToParent, Current
        <5>2. CASE ddl[b] # NoDdl BY <3>0, <5>2 DEF ToParent
        <5> QED BY <5>1, <5>2
      <4> QED BY <4>1, <2>5 DEF ReleaseSavepoint
    <3> QED BY <2>5, <3>1, <3>2, <3>3 DEF ReleaseSavepoint
  <2>6. ASSUME NEW s \in open[b], RollbackToSavepoint(b, s) PROVE TypeOK'
    BY <1>0, <2>6 DEF RollbackToSavepoint, KeptOnAbortSub
  <2> QED BY <1>1, <2>1, <2>2, <2>3, <2>4, <2>5, <2>6 DEF Transaction
<1>2. ASSUME NEW b \in Backend, Flush(b) PROVE TypeOK'
  <2>1. CASE ReadGeneration(b) BY <2>1 DEF ReadGeneration
  <2>2. CASE FinishCommit(b) BY <1>0, <2>2 DEF FinishCommit, EndTxn
  <2>3. ASSUME NEW e \in pending[b], Publish(b, e) PROVE TypeOK'
    BY <1>0, <2>3 DEF Publish, InsertSlot
  <2> QED BY <1>2, <2>1, <2>2, <2>3 DEF Flush
<1>3. ASSUME NEW b \in Backend, PutTerm(b) PROVE TypeOK'
  <2>1. ViewEra(b) \in Era BY DEF ViewEra
  <2>2. PICK t \in Term :
          \/ LookupStart(b, t) \/ LookupHit(b, t) \/ LookupMiss(b, t)
          \/ \E s \in open[b] :
                \/ SelectAbsent(b, t, s) \/ InsertTerm(b, t, s)
                \/ \E r \in Visible(b) : SelectFound(b, t, r, s)
    BY <1>3 DEF PutTerm
  <2>3. CASE LookupStart(b, t) BY <2>1, <2>3 DEF LookupStart
  <2>4. CASE LookupHit(b, t) BY <1>0, <2>4 DEF LookupHit
  <2>5. CASE LookupMiss(b, t) BY <2>5 DEF LookupMiss
  <2>6. ASSUME NEW s \in open[b], SelectAbsent(b, t, s) PROVE TypeOK'
    BY <2>6 DEF SelectAbsent, TakeLock
  <2>7. ASSUME NEW s \in open[b], InsertTerm(b, t, s) PROVE TypeOK'
    <3>1. NewRow(b, t, s) \in OwnRow BY <2>1, <2>7 DEF InsertTerm, InsertRow, NewRow
    <3>2. wip' \in [Backend -> SUBSET OwnRow] BY <2>7, <3>1 DEF InsertTerm, InsertRow
    <3>3. lastId' \in [Database -> [Era -> Nat]] BY <2>1, <2>7 DEF InsertTerm, InsertRow
    <3>4. pending' \in [Backend -> SUBSET Staged]
      BY <2>7, <3>1 DEF InsertTerm, StageAs, FingerprintOf
    <3> QED BY <1>0, <2>7, <3>2, <3>3, <3>4 DEF InsertTerm, InsertRow
  <2>8. ASSUME NEW s \in open[b], NEW r \in Visible(b), SelectFound(b, t, r, s) PROVE TypeOK'
    <3>1. r \in Row BY DEF Visible, Bare
    <3>2. pending' \in [Backend -> SUBSET Staged]
      BY <2>8, <3>1 DEF SelectFound, StageAs, FingerprintOf
    <3> QED BY <1>0, <2>8, <3>2 DEF SelectFound, TakeLock
  <2> QED BY <2>2, <2>3, <2>4, <2>5, <2>6, <2>7, <2>8
<1>4. ASSUME NEW b \in Backend, PutTermsBatch(b) PROVE TypeOK'
  <2>1. ViewEra(b) \in Era BY DEF ViewEra
  <2>2. CASE BatchEnd(b) BY <2>2 DEF BatchEnd
  <2>3. ASSUME NEW s \in open[b], NEW T \in SUBSET Term, BatchStart(b, T, s) PROVE TypeOK'
    BY <2>3 DEF BatchStart, TakeLock
  <2>4. ASSUME NEW s \in open[b], NEW t \in Term, BatchInsert(b, t, s) PROVE TypeOK'
    BY <2>1, <2>4 DEF BatchInsert, InsertRow, NewRow
  <2> QED BY <1>4, <2>2, <2>3, <2>4 DEF PutTermsBatch
<1>5. ASSUME NEW b \in Backend, Admin(b) PROVE TypeOK'
  <2>1. CASE ShmemReset(b) BY <2>1 DEF ShmemReset, BumpGeneration
  <2>2. ASSUME NEW s \in open[b], Prewarm(b, s) PROVE TypeOK'
    BY <2>2 DEF Prewarm, TakeLock, StageAs, FingerprintOf, Visible, Bare
  <2>3. ASSUME NEW s \in open[b], RecreateExtension(b, s) PROVE TypeOK'
    <3>1. lastEra[Db(b)] + 1 \in Era BY <2>3 DEF RecreateExtension, Era
    <3> QED BY <2>3, <3>1 DEF RecreateExtension, BumpGeneration
  <2> QED BY <1>5, <2>1, <2>2, <2>3 DEF Admin
<1>6. CASE Restart BY <1>0, <1>6 DEF Restart, ColdSlot
<1>7. CASE UNCHANGED vars BY <1>7 DEF vars
<1> QED BY <1>1, <1>2, <1>3, <1>4, <1>5, <1>6, <1>7 DEF Next

\* Every variable keeps its type, whatever the bounds and however many
\* backends, databases, terms and slots there are.
THEOREM TypeCorrect == Spec => []TypeOK
<1>1. Init => TypeOK BY InitTyped
<1>2. TypeOK /\ [Next]_vars => TypeOK' BY NextTyped
<1> QED BY <1>1, <1>2, PTL DEF Spec

-----------------------------------------------------------------------------
(***************************************************************************)
(* The invariant is inductive.                                             *)
(***************************************************************************)

\* A step leaves what backend c holds alone.
Same(c) ==
    /\ pc'[c] = pc[c] /\ open'[c] = open[c] /\ lastSub'[c] = lastSub[c]
    /\ wip'[c] = wip[c] /\ pending'[c] = pending[c] /\ touch'[c] = touch[c]
    /\ ddl'[c] = ddl[c] /\ seen'[c] = seen[c]

\* A backend is not disturbed by a step of another one that only adds rows to
\* its dictionary, or replaces the dictionary while it has nothing staged.
LEMMA Frame ==
    ASSUME NEW c \in Backend, TxnOK(c), Same(c),
           dict[Db(c)] \subseteq dict'[Db(c)],
           live'[Db(c)] = live[Db(c)] \/ (pending[c] = {} /\ ddl[c] = NoDdl)
    PROVE  TxnOK(c)'
<1> USE DEF Same, Db
<1>1. HoldingsOK(c)' BY DEF TxnOK, HoldingsOK
<1>2. TagsOK(c)' BY DEF TxnOK, TagsOK
<1>3. CommittedOK(c)' BY DEF TxnOK, CommittedOK
<1>4. StagedOK(c)'
  <2>1. CASE pending[c] = {} BY <2>1 DEF StagedOK
  <2>2. CASE pending[c] # {}
    <3>1. ViewEra(c)' = ViewEra(c) BY <2>2 DEF ViewEra
    <3>2. ASSUME NEW e \in pending[c] PROVE Backed(c, e)'
      BY <3>1 DEF Backed, TxnOK, StagedOK
    <3> QED BY <3>2 DEF StagedOK, TxnOK
  <2> QED BY <2>1, <2>2
<1> QED BY <1>1, <1>2, <1>3, <1>4 DEF TxnOK

\* A step of b that touches neither the tables others see nor shared memory
\* preserves the invariant if it leaves b itself in order and takes locks by
\* the rules.
LEMMA LocalStep ==
    ASSUME IInv, TypeOK', NEW b \in Backend,
           UNCHANGED <<dict, live, gen, slots>>,
           \A c \in Backend \ {b} : Same(c),
           seen'[b] <= gen,
           ddl'[b] # NoDdl => ddl[b] # NoDdl,
           touch'[b] # 0 => touch[b] # 0 \/ CanReadTable(b),
           (ddl'[b] # NoDdl /\ pc'[b] \in InTxn) => pc[b] \in InTxn,
           TxnOK(b)'
    PROVE  IInv'
<1>1. ASSUME NEW c \in Backend PROVE TxnOK(c)'
  <2>1. CASE c = b BY <2>1
  <2>2. CASE c # b BY <2>2, Frame DEF IInv
  <2> QED BY <2>1, <2>2
<1>2. ExclusiveOK' BY DEF IInv, ExclusiveOK, Same, CanReadTable, Db
<1>3. GenerationsOK' BY DEF IInv, GenerationsOK, Same
<1>4. ColdWhileRecreating' BY DEF IInv, ColdWhileRecreating, Same, Usable, Db
<1>5. CacheNamesLiveTerms' BY DEF IInv, CacheNamesLiveTerms, LiveRow, Usable
<1> QED BY <1>1, <1>2, <1>3, <1>4, <1>5 DEF IInv

LEMMA InitInv == Init => IInv
<1> SUFFICES ASSUME Init PROVE IInv OBVIOUS
<1>1. TypeOK BY InitTyped
<1>2. ASSUME NEW b \in Backend PROVE TxnOK(b)
  BY DEF Init, TxnOK, HoldingsOK, TagsOK, StagedOK, CommittedOK
<1>3. ExclusiveOK BY DEF Init, ExclusiveOK
<1>4. GenerationsOK BY DEF Init, GenerationsOK, ColdSlot
<1>5. ColdWhileRecreating BY DEF Init, ColdWhileRecreating
<1>6. CacheNamesLiveTerms BY DEF Init, CacheNamesLiveTerms, Usable, ColdSlot
<1> QED BY <1>1, <1>2, <1>3, <1>4, <1>5, <1>6 DEF IInv

\* Transaction control.
LEMMA BeginInv == ASSUME IInv, TypeOK', NEW b \in Backend, Begin(b) PROVE IInv'
<1> USE DEF Begin, Goto, diskVars, shmemVars, callVars
<1>1. TypeOK /\ TxnOK(b) BY DEF IInv
<1>2. \A c \in Backend \ {b} : Same(c) BY <1>1 DEF Same, TypeOK
<1>3. open[b] \subseteq Nat /\ open'[b] = {1} /\ lastSub'[b] = 1 BY <1>1 DEF TypeOK
<1>4. /\ touch'[b] = 0 /\ ddl'[b] = NoDdl /\ wip'[b] = {} /\ pending'[b] = {}
      /\ pc'[b] = "ready"
  BY <1>1 DEF TxnOK, HoldingsOK, TypeOK
<1>5. TxnOK(b)' BY <1>3, <1>4 DEF TxnOK, HoldingsOK, TagsOK, StagedOK, CommittedOK
<1>6. seen'[b] <= gen BY DEF IInv, GenerationsOK
<1> QED BY <1>2, <1>4, <1>5, <1>6, LocalStep

LEMMA SavepointInv == ASSUME IInv, TypeOK', NEW b \in Backend, Savepoint(b) PROVE IInv'
<1> USE DEF Savepoint, diskVars, shmemVars, callVars
<1>1. TypeOK /\ TxnOK(b) BY DEF IInv
<1>2. \A c \in Backend \ {b} : Same(c) BY <1>1 DEF Same, TypeOK
<1>3. lastSub'[b] = lastSub[b] + 1 /\ open'[b] = open[b] \cup {lastSub[b] + 1}
      /\ lastSub[b] \in Nat
  BY <1>1 DEF TypeOK
<1>4. HoldingsOK(b)' BY <1>1, <1>3 DEF TxnOK, HoldingsOK
<1>5. TagsOK(b)' BY <1>1, <1>3 DEF TxnOK, TagsOK, TypeOK, Staged
<1>6. StagedOK(b)' BY <1>1 DEF TxnOK, StagedOK, Backed, ViewEra, Db
<1>7. CommittedOK(b)' BY <1>1 DEF TxnOK, CommittedOK
<1>8. seen'[b] <= gen BY DEF IInv, GenerationsOK
<1> QED BY <1>2, <1>4, <1>5, <1>6, <1>7, <1>8, LocalStep DEF TxnOK

\* A transaction that ends holds nothing.
LEMMA EndTxnOK ==
    ASSUME TypeOK, NEW b \in Backend, EndTxn(b), pending'[b] = {}
    PROVE  /\ TxnOK(b)'
           /\ seen'[b] = 0 /\ ddl'[b] = NoDdl /\ touch'[b] = 0
<1>1. /\ pc'[b] = "idle" /\ open'[b] = {} /\ wip'[b] = {} /\ touch'[b] = 0
      /\ ddl'[b] = NoDdl /\ seen'[b] = 0
  BY DEF EndTxn, TypeOK, Goto, EndCall
<1> QED BY <1>1 DEF TxnOK, HoldingsOK, TagsOK, StagedOK, CommittedOK

LEMMA AbortInv == ASSUME IInv, TypeOK', NEW b \in Backend, Abort(b) PROVE IInv'
<1>1. TypeOK BY DEF IInv
<1>2. \A c \in Backend \ {b} : Same(c)
  BY <1>1 DEF Same, TypeOK, Abort, EndTxn, Goto, EndCall
<1>3. pending'[b] = {} /\ EndTxn(b) BY <1>1 DEF Abort, TypeOK
<1>4. 0 <= gen BY <1>1 DEF TypeOK
<1>5. UNCHANGED <<dict, live, gen, slots>> BY DEF Abort, diskVars, shmemVars
<1> QED BY <1>1, <1>2, <1>3, <1>4, <1>5, EndTxnOK, LocalStep

LEMMA FinishCommitInv == ASSUME IInv, TypeOK', NEW b \in Backend, FinishCommit(b) PROVE IInv'
<1>1. TypeOK BY DEF IInv
<1>2. \A c \in Backend \ {b} : Same(c)
  BY <1>1 DEF Same, TypeOK, FinishCommit, EndTxn, Goto, EndCall
<1>3. pending'[b] = {} /\ EndTxn(b) BY <1>1 DEF FinishCommit, TypeOK
<1>4. 0 <= gen BY <1>1 DEF TypeOK
<1>5. UNCHANGED <<dict, live, gen, slots>> BY DEF FinishCommit, diskVars, shmemVars
<1> QED BY <1>1, <1>2, <1>3, <1>4, <1>5, EndTxnOK, LocalStep

\* A rollback keeps the staged entries whose rows it keeps: an entry tagged
\* below s is owned below s, and so is the row it names.
LEMMA RollbackInv ==
    ASSUME IInv, TypeOK', NEW b \in Backend, NEW s \in open[b], RollbackToSavepoint(b, s)
    PROVE  IInv'
<1> USE DEF RollbackToSavepoint, Goto, diskVars, shmemVars, EndCall, KeptOnAbortSub
<1>1. TypeOK /\ TxnOK(b) BY DEF IInv
<1>2. \A c \in Backend \ {b} : Same(c) BY <1>1 DEF Same, TypeOK
<1>3. /\ pc'[b] = "ready" /\ open'[b] = open[b] \ {s} /\ lastSub'[b] = lastSub[b]
      /\ wip'[b] = {w \in wip[b] : w.sub # s}
      /\ pending'[b] = {e \in pending[b] : e.sub < s}
      /\ touch'[b] = (IF touch[b] = s THEN 0 ELSE touch[b])
      /\ ddl'[b] = (IF ddl[b].sub = s THEN NoDdl ELSE ddl[b])
      /\ seen'[b] = 0
  BY <1>1 DEF TypeOK
<1>4. ASSUME NEW e \in pending'[b]
      PROVE  /\ e \in pending[b] /\ e \in Staged /\ e.owner < s /\ e.owner \in open[b]
             /\ touch[b] < s /\ (ddl[b] # NoDdl => ddl[b].sub # s)
  <2>1. e \in pending[b] /\ e.sub < s BY <1>3
  <2>2. e \in Staged BY <1>1, <2>1 DEF TypeOK
  <2>3. e.owner <= e.sub /\ e.owner \in open[b] BY <1>1, <2>1 DEF TxnOK, TagsOK, HoldingsOK
  <2>4. touch[b] <= e.owner /\ (ddl[b] # NoDdl => ddl[b].sub <= e.owner)
    BY <1>1, <2>1 DEF TxnOK, StagedOK
  <2>5. s \in Nat /\ e.owner \in Nat /\ e.sub \in Nat /\ touch[b] \in Nat
    BY <1>1, <2>2 DEF TypeOK, Staged
  <2>6. ddl[b] # NoDdl => ddl[b].sub \in Nat BY <1>1 DEF TypeOK
  <2> QED BY <2>1, <2>2, <2>3, <2>4, <2>5, <2>6
<1>5. HoldingsOK(b)' BY <1>1, <1>3, <1>4 DEF TxnOK, HoldingsOK
<1>6. TagsOK(b)' BY <1>1, <1>3, <1>4 DEF TxnOK, TagsOK
<1>7. StagedOK(b)'
  <2> SUFFICES ASSUME NEW e \in pending'[b]
               PROVE  /\ e.fp[1] = Db(b)
                      /\ touch'[b] # 0 /\ touch'[b] <= e.owner
                      /\ ddl'[b] # NoDdl => ddl'[b].sub <= e.owner
                      /\ Backed(b, e)'
    BY DEF StagedOK, Db
  <2>1. e \in pending[b] /\ touch'[b] = touch[b] BY <1>1, <1>3, <1>4 DEF TypeOK
  <2>2. ddl'[b] = ddl[b] BY <1>3, <1>4
  <2>3. ViewEra(b)' = ViewEra(b) BY <2>2 DEF ViewEra, Db
  <2>4. ASSUME NEW w \in wip[b], w.sub <= e.owner PROVE w \in wip'[b]
    <3>1. w.sub \in Nat /\ e.owner \in Nat /\ s \in Nat
      BY <1>1, <1>4 DEF TypeOK, OwnRow, Staged
    <3> QED BY <1>3, <1>4, <2>4, <3>1
  <2>5. Backed(b, e)'
    <3>1. Backed(b, e) BY <1>1, <2>1 DEF TxnOK, StagedOK
    <3> QED BY <3>1, <2>3, <2>4 DEF Backed, Db
  <2> QED BY <1>1, <2>1, <2>2, <2>5 DEF TxnOK, StagedOK
<1>8. CommittedOK(b)' BY <1>3 DEF CommittedOK
<1>9. seen'[b] <= gen BY <1>1, <1>3 DEF TypeOK
<1> QED BY <1>2, <1>3, <1>5, <1>6, <1>7, <1>8, <1>9, LocalStep DEF TxnOK

\* A release moves rows, entries, lock and re-creation together; the parent is
\* younger than every other subtransaction still open.
LEMMA ReleaseInv ==
    ASSUME IInv, TypeOK', NEW b \in Backend, NEW s \in open[b], NEW p \in open[b],
           ReleaseSavepoint(b, s, p)
    PROVE  IInv'
<1> USE DEF ReleaseSavepoint, diskVars, shmemVars, callVars
<1>1. TypeOK /\ TxnOK(b) BY DEF IInv
<1>2. \A c \in Backend \ {b} : Same(c) BY <1>1 DEF Same, TypeOK
<1> DEFINE Moved(e) == IF e.owner = s THEN [e EXCEPT !.owner = p] ELSE e
<1>3. /\ pc'[b] = "ready" /\ pc[b] = "ready"
      /\ open'[b] = open[b] \ {s} /\ lastSub'[b] = lastSub[b]
      /\ wip'[b] = {ToParent(w, s, p) : w \in wip[b]}
      /\ pending'[b] = {Moved(e) : e \in pending[b]}
      /\ touch'[b] = (IF touch[b] = s THEN p ELSE touch[b])
      /\ ddl'[b] = ToParent(ddl[b], s, p)
      /\ seen'[b] = seen[b]
  BY <1>1 DEF TypeOK
<1>4. s \in Nat /\ p \in Nat /\ p < s /\ s > 0 /\ p > 0 /\ p \in open'[b]
  <2>1. s \in 1 .. lastSub[b] /\ p \in 1 .. lastSub[b] BY <1>1 DEF TxnOK, HoldingsOK
  <2>2. lastSub[b] \in Nat BY <1>1 DEF TypeOK
  <2>3. p # s /\ p <= s BY DEF Current
  <2>4. s \in Nat /\ p \in Nat /\ p < s /\ s > 0 /\ p > 0 BY <2>1, <2>2, <2>3
  <2> QED BY <2>4, <1>3
<1>5. \A t \in open'[b] : t \in Nat /\ t <= p BY <1>1, <1>3 DEF TypeOK
<1>6. ASSUME NEW w \in OwnRow
      PROVE  /\ ToParent(w, s, p).era = w.era /\ ToParent(w, s, p).id = w.id
             /\ ToParent(w, s, p).term = w.term
             /\ ToParent(w, s, p).sub = (IF w.sub = s THEN p ELSE w.sub)
  BY DEF ToParent, OwnRow
<1>7. ASSUME NEW e \in Staged
      PROVE  /\ Moved(e).fp = e.fp /\ Moved(e).id = e.id /\ Moved(e).sub = e.sub
             /\ Moved(e).owner = (IF e.owner = s THEN p ELSE e.owner)
  BY DEF Staged
<1>8. /\ ddl[b] = NoDdl => ddl'[b] = NoDdl
      /\ ddl[b] # NoDdl => /\ ddl'[b] # NoDdl /\ ddl'[b].era = ddl[b].era
                           /\ ddl'[b].sub = (IF ddl[b].sub = s THEN p ELSE ddl[b].sub)
  <2>1. CASE ddl[b] = NoDdl BY <2>1, <1>3, <1>4 DEF ToParent, NoDdl
  <2>2. CASE ddl[b] # NoDdl
    <3>1. ddl[b] \in [era : Era, sub : Nat] /\ 0 \notin Era BY <1>1, <2>2 DEF TypeOK, Era
    <3> QED BY <2>2, <3>1, <1>3 DEF ToParent, NoDdl
  <2> QED BY <2>1, <2>2
<1> HIDE DEF Moved, ReleaseSavepoint
<1>9. HoldingsOK(b)'
  <2>1. \A w \in wip'[b] : w.sub \in open'[b]
    <3>1. \A w \in wip[b] : w \in OwnRow /\ w.sub \in open[b]
      BY <1>1 DEF TxnOK, HoldingsOK, TypeOK
    <3> QED BY <1>3, <1>4, <1>6, <3>1
  <2>2. \A e \in pending'[b] : e.owner \in open'[b]
    <3>1. \A e \in pending[b] : e \in Staged /\ e.owner \in open[b]
      BY <1>1 DEF TxnOK, HoldingsOK, TypeOK
    <3> QED BY <1>3, <1>4, <1>7, <3>1
  <2> QED BY <1>1, <1>3, <1>4, <1>8, <2>1, <2>2 DEF TxnOK, HoldingsOK
<1>10. TagsOK(b)'
  <2> SUFFICES ASSUME NEW e \in pending[b]
               PROVE  /\ Moved(e).owner <= Moved(e).sub
                      /\ Moved(e).sub <= lastSub[b]
                      /\ \A t \in open'[b] : Moved(e).owner < t => Moved(e).sub < t
    BY <1>3 DEF TagsOK
  <2>1. e \in Staged /\ e.owner \in Nat /\ e.sub \in Nat BY <1>1 DEF TypeOK, Staged
  <2>2. /\ e.owner <= e.sub /\ e.sub <= lastSub[b]
        /\ \A t \in open[b] : e.owner < t => e.sub < t
    BY <1>1 DEF TxnOK, TagsOK
  <2>3. CASE e.owner = s BY <2>1, <2>2, <2>3, <1>4, <1>5, <1>7
  <2>4. CASE e.owner # s BY <2>1, <2>2, <2>4, <1>3, <1>7
  <2> QED BY <2>3, <2>4
<1>11. StagedOK(b)'
  <2> SUFFICES ASSUME NEW e \in pending[b]
               PROVE  /\ Moved(e).fp[1] = Db(b)
                      /\ touch'[b] # 0 /\ touch'[b] <= Moved(e).owner
                      /\ ddl'[b] # NoDdl => ddl'[b].sub <= Moved(e).owner
                      /\ Backed(b, Moved(e))'
    BY <1>3 DEF StagedOK, Db
  <2>1. e \in Staged /\ e.owner \in Nat BY <1>1 DEF TypeOK, Staged
  <2>2. /\ e.fp[1] = Db(b) /\ touch[b] # 0 /\ touch[b] <= e.owner
        /\ ddl[b] # NoDdl => ddl[b].sub <= e.owner
        /\ Backed(b, e) /\ e.owner \in open[b]
    BY <1>1 DEF TxnOK, StagedOK, HoldingsOK
  <2>3. touch[b] \in open[b] /\ touch[b] \in Nat
    BY <1>1, <2>2 DEF TxnOK, HoldingsOK, TypeOK
  <2>4. touch'[b] # 0 /\ touch'[b] <= Moved(e).owner
    BY <1>3, <1>4, <1>5, <1>7, <2>1, <2>2, <2>3
  <2>5. ddl'[b] # NoDdl => ddl'[b].sub <= Moved(e).owner
    <3>1. ddl[b] # NoDdl => ddl[b].sub \in open[b] /\ ddl[b].sub \in Nat
      BY <1>1 DEF TxnOK, HoldingsOK, TypeOK
    <3> QED BY <1>3, <1>4, <1>5, <1>7, <1>8, <2>1, <2>2, <3>1
  <2>6. ViewEra(b)' = ViewEra(b) BY <1>8 DEF ViewEra, Db, ReleaseSavepoint
  <2>7. ASSUME NEW w \in wip[b], w.era = ViewEra(b), w.term = e.fp[2], w.id = e.id,
               w.sub <= e.owner
        PROVE  Backed(b, Moved(e))'
    <3>1. w \in OwnRow /\ w.sub \in open[b] /\ w.sub \in Nat
      BY <1>1 DEF TypeOK, TxnOK, HoldingsOK, OwnRow
    <3>2. ToParent(w, s, p) \in wip'[b] BY <1>3
    <3>3. ToParent(w, s, p).sub <= Moved(e).owner
      BY <1>3, <1>4, <1>5, <1>6, <1>7, <2>1, <2>2, <2>7, <3>1
    <3> QED BY <1>6, <1>7, <2>1, <2>6, <2>7, <3>1, <3>2, <3>3 DEF Backed
  <2>8. dict'[Db(b)] = dict[Db(b)] BY DEF ReleaseSavepoint
  <2>9. Backed(b, Moved(e))' BY <1>7, <2>1, <2>2, <2>6, <2>7, <2>8 DEF Backed, Db
  <2> QED BY <1>7, <2>1, <2>2, <2>4, <2>5, <2>9
<1>12. CommittedOK(b)' BY <1>3 DEF CommittedOK
<1>13. seen'[b] <= gen BY <1>3 DEF IInv, GenerationsOK
<1>14. UNCHANGED <<dict, live, gen, slots>> BY DEF ReleaseSavepoint
<1>15. ddl'[b] # NoDdl => ddl[b] # NoDdl BY <1>8
<1>16. touch'[b] # 0 => touch[b] # 0 BY <1>3, <1>4
<1>17. TxnOK(b)' BY <1>9, <1>10, <1>11, <1>12 DEF TxnOK
<1> QED BY <1>2, <1>3, <1>13, <1>14, <1>15, <1>16, <1>17, LocalStep DEF InTxn

\* Steps that leave the whole transaction as it is and move pc elsewhere.
LEMMA QuietOK ==
    ASSUME TypeOK, NEW b \in Backend, TxnOK(b),
           UNCHANGED <<dict, live, open, lastSub, wip, pending, touch, ddl>>,
           pc'[b] \in {"ready", "lookup", "select"}
              \/ (pc[b] = "commit" /\ pc'[b] = "publish")
    PROVE  TxnOK(b)'
<1>1. HoldingsOK(b)' BY DEF TxnOK, HoldingsOK
<1>2. TagsOK(b)' BY DEF TxnOK, TagsOK
<1>3. StagedOK(b)' BY DEF TxnOK, StagedOK, Backed, ViewEra, Db
<1>4. CommittedOK(b)' BY DEF TxnOK, CommittedOK
<1> QED BY <1>1, <1>2, <1>3, <1>4 DEF TxnOK

LEMMA QuietInv ==
    ASSUME IInv, TypeOK', NEW b \in Backend,
           \/ ReadGeneration(b) \/ BatchEnd(b)
           \/ \E t \in Term : LookupStart(b, t) \/ LookupHit(b, t) \/ LookupMiss(b, t)
    PROVE  IInv'
<1> USE DEF ReadGeneration, BatchEnd, LookupStart, LookupHit, LookupMiss, Goto, EndCall,
        diskVars, shmemVars, txnVars, callVars
<1>1. TypeOK /\ TxnOK(b) BY DEF IInv
<1>2. \A c \in Backend \ {b} : Same(c) BY <1>1 DEF Same, TypeOK
<1>3. /\ UNCHANGED <<dict, live, open, lastSub, wip, pending, touch, ddl, gen, slots>>
      /\ pc'[b] \in {"ready", "lookup", "select"} \/ (pc[b] = "commit" /\ pc'[b] = "publish")
      /\ pc[b] = "commit" \/ pc[b] \in InTxn
      /\ pc'[b] \in InTxn => pc[b] \in InTxn
  BY <1>1 DEF TypeOK, InTxn
<1>4. seen'[b] <= gen
  <2>1. seen[b] <= gen /\ gen \in Nat BY <1>1 DEF IInv, GenerationsOK, TypeOK
  <2> QED BY <1>1, <2>1 DEF TypeOK
<1>5. TxnOK(b)' BY <1>1, <1>3, QuietOK
<1> QED BY <1>2, <1>3, <1>4, <1>5, LocalStep

\* Reading the table: a lock is taken, and rows the transaction sees may be
\* staged, tagged with the current subtransaction.
LEMMA ReadOK ==
    ASSUME TypeOK, TypeOK', NEW b \in Backend, TxnOK(b), NEW s \in open[b],
           Current(b, s), TakeLock(b, s),
           NEW S, S \subseteq Visible(b),
           StageAs(b, s, S),
           UNCHANGED <<dict, live, open, lastSub, wip, ddl>>,
           pc'[b] \in {"ready", "insert", "batch"}
    PROVE  TxnOK(b)'
<1> DEFINE New == {[fp |-> FingerprintOf(b, r.term), id |-> r.id, sub |-> s, owner |-> s] : r \in S}
<1>1. pending'[b] = pending[b] \cup New BY DEF StageAs, TypeOK
<1>2. touch'[b] = (IF touch[b] = 0 THEN s ELSE touch[b]) BY DEF TakeLock, TypeOK
<1>3. s \in Nat /\ s > 0 /\ s <= lastSub[b] /\ lastSub[b] \in Nat
  <2>1. s \in 1 .. lastSub[b] /\ lastSub[b] \in Nat BY DEF TxnOK, HoldingsOK, TypeOK
  <2> QED BY <2>1
<1>4. touch'[b] \in open[b] /\ touch'[b] # 0 /\ touch'[b] <= s
  <2>1. touch[b] \in open[b] \cup {0} BY DEF TxnOK, HoldingsOK
  <2>2. \A t \in open[b] : t <= s BY DEF Current
  <2> QED BY <1>2, <1>3, <2>1, <2>2
<1>5. ASSUME NEW e \in New
      PROVE  /\ e.sub = s /\ e.owner = s
             /\ \E r \in S : e.fp = FingerprintOf(b, r.term) /\ e.id = r.id
  OBVIOUS
<1> HIDE DEF New
<1>6. HoldingsOK(b)' BY <1>1, <1>4, <1>5 DEF TxnOK, HoldingsOK
<1>7. TagsOK(b)'
  <2>1. ASSUME NEW e \in New
        PROVE  /\ e.owner <= e.sub /\ e.sub <= lastSub[b]
               /\ \A t \in open[b] : e.owner < t => e.sub < t
    BY <1>3, <1>5
  <2> QED BY <1>1, <2>1 DEF TxnOK, TagsOK
<1>8. StagedOK(b)'
  <2>1. ViewEra(b)' = ViewEra(b) BY DEF ViewEra, Db
  <2>2. ASSUME NEW e \in pending[b]
        PROVE  /\ e.fp[1] = Db(b) /\ touch'[b] # 0 /\ touch'[b] <= e.owner
               /\ ddl'[b] # NoDdl => ddl'[b].sub <= e.owner
               /\ Backed(b, e)'
    BY <1>2, <2>1 DEF TxnOK, StagedOK, Backed, Db
  <2>3. ASSUME NEW e \in New
        PROVE  /\ e.fp[1] = Db(b) /\ touch'[b] # 0 /\ touch'[b] <= e.owner
               /\ ddl'[b] # NoDdl => ddl'[b].sub <= e.owner
               /\ Backed(b, e)'
    <3>1. PICK r \in S : e.fp = FingerprintOf(b, r.term) /\ e.id = r.id BY <1>5
    <3>2. e.owner = s BY <1>5
    <3>3. e.fp[1] = Db(b) /\ e.fp[2] = r.term BY <3>1 DEF FingerprintOf
    <3>4. ddl[b] # NoDdl => ddl[b].sub <= s BY DEF TxnOK, HoldingsOK, Current
    <3>5. r \in Visible(b) /\ r.era = ViewEra(b) BY DEF Visible
    <3>6. ASSUME r \in dict[Db(b)] PROVE Backed(b, e) BY <3>1, <3>3, <3>5, <3>6 DEF Backed
    <3>7. ASSUME r \in {Bare(w) : w \in wip[b]} PROVE Backed(b, e)
      <4>1. PICK w \in wip[b] : r = Bare(w) BY <3>7
      <4>2. w.sub <= s BY DEF TxnOK, HoldingsOK, Current
      <4>3. w.era = r.era /\ w.id = r.id /\ w.term = r.term BY <4>1 DEF Bare
      <4> QED BY <3>1, <3>2, <3>3, <3>5, <4>2, <4>3 DEF Backed
    <3>8. Backed(b, e) BY <3>5, <3>6, <3>7 DEF Visible
    <3>9. Backed(b, e)' BY <2>1, <3>8 DEF Backed, Db
    <3> QED BY <1>4, <3>2, <3>3, <3>4, <3>9
  <2> QED BY <1>1, <2>2, <2>3 DEF StagedOK, Db
<1>9. CommittedOK(b)' BY DEF CommittedOK
<1> QED BY <1>6, <1>7, <1>8, <1>9 DEF TxnOK

LEMMA ReadInv ==
    ASSUME IInv, TypeOK', NEW b \in Backend, NEW s \in open[b],
           \/ \E t \in Term : \/ SelectAbsent(b, t, s)
                              \/ \E r \in Visible(b) : SelectFound(b, t, r, s)
           \/ \E T \in SUBSET Term : BatchStart(b, T, s)
           \/ Prewarm(b, s)
    PROVE  IInv'
<1>1. TypeOK /\ TxnOK(b) BY DEF IInv
<1>2. /\ UNCHANGED <<dict, live, gen, slots, open, lastSub, wip, ddl>>
      /\ CanReadTable(b) /\ Current(b, s) /\ TakeLock(b, s)
      /\ pc[b] \in InTxn
  BY DEF SelectAbsent, SelectFound, BatchStart, Prewarm, diskVars, shmemVars, callVars, InTxn
<1>3. pc'[b] \in {"ready", "insert", "batch"}
  BY <1>1 DEF TypeOK, SelectAbsent, SelectFound, BatchStart, Prewarm, Goto
<1>4. \E S \in SUBSET Visible(b) : StageAs(b, s, S)
  <2>1. CASE pending' = pending
    <3>1. StageAs(b, s, {}) BY <1>1, <2>1 DEF StageAs, TypeOK
    <3> QED BY <3>1
  <2>2. CASE Prewarm(b, s) BY <2>2 DEF Prewarm
  <2>3. CASE \E t \in Term, r \in Visible(b) : SelectFound(b, t, r, s)
    <3>1. PICK r \in Visible(b) : StageAs(b, s, {r}) BY <2>3 DEF SelectFound
    <3> QED BY <3>1
  <2> QED BY <2>1, <2>2, <2>3 DEF SelectAbsent, BatchStart
<1>5. TxnOK(b)'
  <2>1. PICK S \in SUBSET Visible(b) : StageAs(b, s, S) BY <1>4
  <2> QED BY <1>1, <1>2, <1>3, <2>1, ReadOK
<1>6. \A c \in Backend \ {b} : Same(c)
  BY <1>1, <1>2 DEF Same, TypeOK, SelectAbsent, SelectFound, BatchStart, Prewarm,
     Goto, TakeLock, StageAs, EndCall, callVars
<1>7. seen'[b] <= gen
  <2>1. seen[b] <= gen /\ gen \in Nat /\ seen \in [Backend -> Nat]
    BY <1>1 DEF IInv, GenerationsOK, TypeOK
  <2>2. seen' = seen \/ seen' = [seen EXCEPT ![b] = 0]
    BY DEF SelectAbsent, SelectFound, BatchStart, Prewarm, EndCall, callVars
  <2> QED BY <2>1, <2>2
<1> QED BY <1>2, <1>5, <1>6, <1>7, LocalStep

\* An inserted row belongs to the current subtransaction; put_term_full stages
\* it in the same one.
LEMMA InsertInv ==
    ASSUME IInv, TypeOK', NEW b \in Backend, NEW s \in open[b], NEW t \in Term,
           InsertTerm(b, t, s) \/ BatchInsert(b, t, s)
    PROVE  IInv'
<1> DEFINE n == NewRow(b, t, s)
           e0 == [fp |-> FingerprintOf(b, t), id |-> n.id, sub |-> s, owner |-> s]
<1>1. TypeOK /\ TxnOK(b) BY DEF IInv
<1>2. /\ UNCHANGED <<dict, live, gen, slots, open, lastSub, touch, ddl>>
      /\ Current(b, s) /\ wip' = [wip EXCEPT ![b] = @ \cup {n}]
      /\ pc[b] \in InTxn
  BY DEF InsertTerm, BatchInsert, InsertRow, shmemVars, InTxn
<1>3. n.era = ViewEra(b) /\ n.term = t /\ n.sub = s BY DEF NewRow
<1>4. wip'[b] = wip[b] \cup {n} BY <1>1, <1>2 DEF TypeOK
<1>5. /\ pc'[b] \in {"ready", "batch"}
      /\ \/ pending'[b] = pending[b]
         \/ pending'[b] = pending[b] \cup {e0} /\ touch[b] # 0
  <2>1. CASE BatchInsert(b, t, s) BY <2>1 DEF BatchInsert
  <2>2. CASE InsertTerm(b, t, s)
    <3>1. touch[b] # 0 BY <1>1, <2>2 DEF InsertTerm, TxnOK, HoldingsOK
    <3>2. pending'[b] = pending[b] \cup {e0}
      BY <1>1, <1>3, <2>2 DEF InsertTerm, StageAs, TypeOK
    <3> QED BY <1>1, <2>2, <3>1, <3>2 DEF InsertTerm, Goto, TypeOK
  <2> QED BY <2>1, <2>2
<1>6. /\ e0.fp[1] = Db(b) /\ e0.fp[2] = t /\ e0.id = n.id /\ e0.sub = s /\ e0.owner = s
  BY DEF FingerprintOf
<1>7. s \in Nat /\ s <= lastSub[b] /\ \A u \in open[b] : u <= s
  <2>1. s \in 1 .. lastSub[b] /\ lastSub[b] \in Nat BY <1>1 DEF TxnOK, HoldingsOK, TypeOK
  <2> QED BY <1>2, <2>1 DEF Current
<1> HIDE DEF n, e0
<1>8. HoldingsOK(b)' BY <1>1, <1>2, <1>3, <1>4, <1>5, <1>6 DEF TxnOK, HoldingsOK
<1>9. TagsOK(b)'
  <2>1. e0.owner <= e0.sub /\ e0.sub <= lastSub[b]
        /\ \A u \in open[b] : e0.owner < u => e0.sub < u
    BY <1>6, <1>7
  <2> QED BY <1>1, <1>2, <1>5, <2>1 DEF TxnOK, TagsOK
<1>10. StagedOK(b)'
  <2>1. ViewEra(b)' = ViewEra(b) BY <1>2 DEF ViewEra, Db
  <2>2. ASSUME NEW e \in pending[b]
        PROVE  /\ e.fp[1] = Db(b) /\ touch'[b] # 0 /\ touch'[b] <= e.owner
               /\ ddl'[b] # NoDdl => ddl'[b].sub <= e.owner
               /\ Backed(b, e)'
    BY <1>1, <1>2, <1>4, <2>1 DEF TxnOK, StagedOK, Backed, Db
  <2>3. ASSUME NEW e, e = e0, touch[b] # 0
        PROVE  /\ e.fp[1] = Db(b) /\ touch'[b] # 0 /\ touch'[b] <= e.owner
               /\ ddl'[b] # NoDdl => ddl'[b].sub <= e.owner
               /\ Backed(b, e)'
    <3>1. touch[b] <= s BY <1>1, <1>7, <2>3 DEF TxnOK, HoldingsOK
    <3>2. ddl[b] # NoDdl => ddl[b].sub <= s BY <1>1, <1>7 DEF TxnOK, HoldingsOK
    <3>3. n \in wip'[b] /\ n.era = ViewEra(b)' BY <1>3, <1>4, <2>1
    <3>4. n.term = e.fp[2] /\ n.id = e.id /\ n.sub <= e.owner BY <1>3, <1>6, <1>7, <2>3
    <3>5. Backed(b, e)' BY <3>3, <3>4 DEF Backed
    <3> QED BY <1>2, <1>6, <2>3, <3>1, <3>2, <3>5
  <2> QED BY <1>5, <2>2, <2>3 DEF StagedOK, Db
<1>11. CommittedOK(b)' BY <1>5 DEF CommittedOK
<1>12. \A c \in Backend \ {b} : Same(c)
  BY <1>1, <1>2 DEF Same, TypeOK, InsertTerm, BatchInsert, Goto, StageAs, EndCall
<1>13. seen'[b] <= gen
  <2>1. seen[b] <= gen /\ gen \in Nat /\ seen \in [Backend -> Nat]
    BY <1>1 DEF IInv, GenerationsOK, TypeOK
  <2>2. seen' = seen \/ seen' = [seen EXCEPT ![b] = 0]
    BY DEF InsertTerm, BatchInsert, EndCall
  <2> QED BY <2>1, <2>2
<1> QED BY <1>2, <1>8, <1>9, <1>10, <1>11, <1>12, <1>13, LocalStep DEF TxnOK

\* The commit makes the rows behind the staged entries part of the table; if it
\* replaces the table, no other session holds an id of the old one and the
\* cache knows none.
LEMMA CommitInv == ASSUME IInv, TypeOK', NEW b \in Backend, Commit(b) PROVE IInv'
<1> DEFINE added == {Bare(w) : w \in {v \in wip[b] : v.era = ViewEra(b)}}
<1>1. TypeOK /\ TxnOK(b) BY DEF IInv
<1>2. /\ UNCHANGED <<gen, slots, open, lastSub, pending, touch, ddl, seen>>
      /\ pc[b] = "ready" /\ pc' = [pc EXCEPT ![b] = "commit"]
      /\ dict' = [dict EXCEPT ![Db(b)] = @ \cup added]
      /\ live' = [live EXCEPT ![Db(b)] = ViewEra(b)]
      /\ wip' = [wip EXCEPT ![b] = {}]
  BY DEF Commit, shmemVars, callVars, Goto
<1>3. /\ Db(b) \in Database /\ pc'[b] = "commit" /\ wip'[b] = {}
      /\ dict'[Db(b)] = dict[Db(b)] \cup added /\ live'[Db(b)] = ViewEra(b)
  BY <1>1, <1>2, CacheAssumption DEF TypeOK, Db, CacheAssumption
<1>4. \A c \in Backend \ {b} : Same(c) BY <1>1, <1>2 DEF Same, TypeOK
<1>5. \A w \in wip[b] : w.era = ViewEra(b) =>
          \E r \in dict'[Db(b)] : r.era = w.era /\ r.term = w.term /\ r.id = w.id
  <2> SUFFICES ASSUME NEW w \in wip[b], w.era = ViewEra(b)
               PROVE  \E r \in dict'[Db(b)] : r.era = w.era /\ r.term = w.term /\ r.id = w.id
    OBVIOUS
  <2>1. Bare(w) \in dict'[Db(b)] BY <1>3
  <2>2. Bare(w).era = w.era /\ Bare(w).term = w.term /\ Bare(w).id = w.id BY DEF Bare
  <2> QED BY <2>1, <2>2
<1> HIDE DEF added
<1>6. ViewEra(b)' = ViewEra(b) BY <1>2, <1>3 DEF ViewEra, Db
<1>7. TxnOK(b)'
  <2>1. HoldingsOK(b)' BY <1>1, <1>2, <1>3 DEF TxnOK, HoldingsOK
  <2>2. TagsOK(b)' BY <1>1, <1>2 DEF TxnOK, TagsOK
  <2>3. StagedOK(b)'
    <3>1. ASSUME NEW e \in pending[b] PROVE Backed(b, e)'
      <4>1. Backed(b, e) BY <1>1 DEF TxnOK, StagedOK
      <4>2. \E r \in dict'[Db(b)] : r.era = ViewEra(b) /\ r.term = e.fp[2] /\ r.id = e.id
        BY <1>3, <1>5, <4>1 DEF Backed
      <4> QED BY <1>6, <4>2 DEF Backed, Db
    <3> QED BY <1>1, <1>2, <3>1 DEF TxnOK, StagedOK, Db
  <2>4. CommittedOK(b)' BY <1>2, <1>3 DEF CommittedOK, ViewEra, Db
  <2> QED BY <2>1, <2>2, <2>3, <2>4 DEF TxnOK
<1>8. ASSUME NEW c \in Backend \ {b} PROVE TxnOK(c)'
  <2>1. TxnOK(c) /\ Same(c) BY <1>4 DEF IInv
  <2>2. dict[Db(c)] \subseteq dict'[Db(c)]
    BY <1>1, <1>2, <1>3, CacheAssumption DEF TypeOK, Db, CacheAssumption
  <2>3. live'[Db(c)] = live[Db(c)] \/ (pending[c] = {} /\ ddl[c] = NoDdl)
    <3>1. CASE Db(c) # Db(b) \/ ddl[b] = NoDdl
      BY <1>1, <1>2, <3>1, CacheAssumption DEF TypeOK, Db, CacheAssumption, ViewEra
    <3>2. CASE Db(c) = Db(b) /\ ddl[b] # NoDdl
      <4>1. touch[c] = 0 /\ ddl[c] = NoDdl BY <3>2 DEF IInv, ExclusiveOK
      <4> QED BY <2>1, <4>1 DEF TxnOK, StagedOK
    <3> QED BY <3>1, <3>2
  <2> QED BY <2>1, <2>2, <2>3, Frame
<1>9. ExclusiveOK' BY <1>2 DEF IInv, ExclusiveOK, Db
<1>10. GenerationsOK' BY <1>2 DEF IInv, GenerationsOK
<1>11. ColdWhileRecreating'
  BY <1>2, <1>3, <1>4 DEF IInv, ColdWhileRecreating, Same, InTxn, Usable, Db
<1>12. CacheNamesLiveTerms'
  <2> SUFFICES ASSUME NEW p \in Position, Usable(slots[p], gen)
               PROVE  LiveRow(slots[p].fp, slots[p].id)'
    BY <1>2 DEF CacheNamesLiveTerms, Usable
  <2>1. LiveRow(slots[p].fp, slots[p].id) BY DEF IInv, CacheNamesLiveTerms
  <2>2. slots[p].fp[1] \in Database
    <3>1. slots[p].fp \in Database \X Term
      BY <1>1 DEF TypeOK, Slot, Usable, Fingerprint
    <3> QED BY <3>1
  <2>3. CASE slots[p].fp[1] # Db(b)
    BY <1>1, <1>2, <2>1, <2>2, <2>3 DEF TypeOK, LiveRow
  <2>4. CASE slots[p].fp[1] = Db(b)
    <3>1. ddl[b] = NoDdl
      BY <1>2, <2>4 DEF IInv, ColdWhileRecreating, InTxn
    <3>2. live' = live BY <1>1, <1>2, <1>3, <3>1 DEF ViewEra, TypeOK
    <3> QED BY <1>2, <1>3, <2>1, <2>4, <3>2 DEF LiveRow
  <2> QED BY <2>3, <2>4
<1> QED BY <1>7, <1>8, <1>9, <1>10, <1>11, <1>12 DEF IInv

\* What the commit callback publishes is a committed row of the table in force.
LEMMA PublishInv ==
    ASSUME IInv, TypeOK', NEW b \in Backend, NEW e \in pending[b], Publish(b, e)
    PROVE  IInv'
<1>1. TypeOK /\ TxnOK(b) BY DEF IInv
<1> DEFINE slot == [fp |-> e.fp, gen |-> seen[b], id |-> e.id]
<1>2. /\ UNCHANGED <<dict, live, gen, open, lastSub, wip, touch, ddl>>
      /\ pc[b] = "publish" /\ pc' = [pc EXCEPT ![b] = "commit"]
      /\ pending' = [pending EXCEPT ![b] = @ \ {e}]
      /\ seen' = [seen EXCEPT ![b] = 0]
      /\ \E p \in Position : slots' = [slots EXCEPT ![p] = slot]
  BY DEF Publish, InsertSlot, diskVars, Goto, EndCall
<1>3. pc'[b] = "commit" /\ pending'[b] = pending[b] \ {e} /\ seen'[b] = 0
  BY <1>1, <1>2 DEF TypeOK
<1>4. \A c \in Backend \ {b} : Same(c) BY <1>1, <1>2 DEF Same, TypeOK
<1>5. PICK q \in Position : slots' = [slots EXCEPT ![q] = slot] BY <1>2
<1>6. \A p \in Position : slots'[p] = slots[p] \/ slots'[p] = slot
  BY <1>1, <1>5 DEF TypeOK
<1>7. slot.fp = e.fp /\ slot.gen = seen[b] /\ slot.id = e.id OBVIOUS
<1> HIDE DEF slot
<1>8. TxnOK(b)'
  <2>1. HoldingsOK(b)' BY <1>1, <1>2, <1>3 DEF TxnOK, HoldingsOK
  <2>2. TagsOK(b)' BY <1>1, <1>2, <1>3 DEF TxnOK, TagsOK
  <2>3. StagedOK(b)' BY <1>1, <1>2, <1>3 DEF TxnOK, StagedOK, Backed, ViewEra, Db
  <2>4. CommittedOK(b)' BY <1>1, <1>2 DEF TxnOK, CommittedOK, Db
  <2> QED BY <2>1, <2>2, <2>3, <2>4 DEF TxnOK
<1>9. ASSUME NEW c \in Backend \ {b} PROVE TxnOK(c)' BY <1>2, <1>4, Frame DEF IInv
<1>10. ExclusiveOK' BY <1>2 DEF IInv, ExclusiveOK, Db
<1>11. GenerationsOK'
  <2>1. gen \in Nat BY <1>1 DEF TypeOK
  <2>2. \A p \in Position : slots'[p].gen <= gen
    BY <1>6, <1>7 DEF IInv, GenerationsOK
  <2>3. \A c \in Backend : seen'[c] <= gen
    BY <1>3, <1>4, <2>1 DEF IInv, GenerationsOK, Same
  <2> QED BY <1>2, <2>2, <2>3 DEF GenerationsOK
<1>12. e.fp[1] = Db(b) /\ touch[b] # 0 /\ Backed(b, e) BY <1>1 DEF TxnOK, StagedOK
<1>13. ColdWhileRecreating'
  <2> SUFFICES ASSUME NEW c \in Backend, ddl[c] # NoDdl, pc'[c] \in InTxn,
                      NEW p \in Position, Usable(slots'[p], gen)
               PROVE  slots'[p].fp[1] # Db(c)
    BY <1>2 DEF ColdWhileRecreating, Usable, Db
  <2>1. c # b /\ pc[c] \in InTxn BY <1>3, <1>4 DEF InTxn, Same
  <2>2. CASE slots'[p] = slots[p] BY <2>1, <2>2 DEF IInv, ColdWhileRecreating
  <2>3. CASE slots'[p] = slot
    BY <1>7, <1>12, <2>1, <2>3 DEF IInv, ExclusiveOK
  <2> QED BY <1>6, <2>2, <2>3
<1>14. CacheNamesLiveTerms'
  <2>1. wip[b] = {} /\ ViewEra(b) = live[Db(b)]
    BY <1>1, <1>2 DEF TxnOK, CommittedOK, ViewEra
  <2>2. LiveRow(e.fp, e.id) BY <1>12, <2>1 DEF Backed, LiveRow
  <2>3. ASSUME NEW p \in Position, Usable(slots'[p], gen)
        PROVE  LiveRow(slots'[p].fp, slots'[p].id)
    BY <1>6, <1>7, <2>2, <2>3 DEF IInv, CacheNamesLiveTerms
  <2> QED BY <1>2, <2>3 DEF CacheNamesLiveTerms, LiveRow, Usable
<1> QED BY <1>8, <1>9, <1>10, <1>11, <1>13, <1>14 DEF IInv

\* A new generation makes every slot unreadable.
LEMMA BumpCold ==
    ASSUME TypeOK, GenerationsOK, gen' = gen + 1, UNCHANGED <<slots, seen>>
    PROVE  /\ GenerationsOK'
           /\ \A p \in Position : ~Usable(slots'[p], gen')
<1>1. gen \in Nat BY DEF TypeOK
<1>2. \A p \in Position : slots[p].gen <= gen /\ slots[p].gen \in Nat
  BY DEF GenerationsOK, TypeOK, Slot
<1>3. \A b \in Backend : seen[b] <= gen /\ seen[b] \in Nat BY DEF GenerationsOK, TypeOK
<1> QED BY <1>1, <1>2, <1>3 DEF GenerationsOK, Usable

LEMMA ResetInv == ASSUME IInv, TypeOK', NEW b \in Backend, ShmemReset(b) PROVE IInv'
<1>1. gen' = gen + 1 /\ UNCHANGED <<dict, live, slots, pc, open, lastSub, wip, pending,
                                    touch, ddl, seen>>
  BY DEF ShmemReset, BumpGeneration, diskVars, txnVars, callVars
<1>2. GenerationsOK' /\ \A p \in Position : ~Usable(slots'[p], gen')
  BY <1>1, BumpCold DEF IInv
<1>3. ASSUME NEW c \in Backend PROVE TxnOK(c)' BY <1>1, Frame DEF Same, IInv
<1>4. ExclusiveOK' BY <1>1 DEF IInv, ExclusiveOK, Db
<1>5. ColdWhileRecreating' /\ CacheNamesLiveTerms'
  BY <1>2 DEF ColdWhileRecreating, CacheNamesLiveTerms
<1> QED BY <1>2, <1>3, <1>4, <1>5 DEF IInv

\* The extension is re-created by a transaction that has nothing staged.
LEMMA RecreateInv ==
    ASSUME IInv, TypeOK', ~DdlAfterIntern, NEW b \in Backend, NEW s \in open[b],
           RecreateExtension(b, s)
    PROVE  IInv'
<1>1. TypeOK /\ TxnOK(b) BY DEF IInv
<1>2. /\ gen' = gen + 1
      /\ UNCHANGED <<dict, live, slots, pc, open, lastSub, wip, pending, touch, seen>>
      /\ ddl' = [ddl EXCEPT ![b] = [era |-> lastEra[Db(b)] + 1, sub |-> s]]
      /\ pending[b] = {} /\ pc[b] = "ready"
      /\ \A c \in Backend \ {b} : Db(c) = Db(b) => ddl[c] = NoDdl /\ touch[c] = 0
  BY DEF RecreateExtension, BumpGeneration, callVars
<1>3. GenerationsOK' /\ \A p \in Position : ~Usable(slots'[p], gen')
  BY <1>1, <1>2, BumpCold DEF IInv
<1>4. \A c \in Backend \ {b} : Same(c) BY <1>1, <1>2 DEF Same, TypeOK
<1>5. ddl'[b].sub = s BY <1>1, <1>2 DEF TypeOK
<1>6. TxnOK(b)'
  BY <1>1, <1>2, <1>5 DEF TxnOK, HoldingsOK, TagsOK, StagedOK, CommittedOK
<1>7. ASSUME NEW c \in Backend PROVE TxnOK(c)' BY <1>2, <1>4, <1>6, Frame DEF IInv
<1>8. ExclusiveOK' BY <1>2, <1>4 DEF IInv, ExclusiveOK, Same, Db
<1>9. ColdWhileRecreating' /\ CacheNamesLiveTerms'
  BY <1>3 DEF ColdWhileRecreating, CacheNamesLiveTerms
<1> QED BY <1>3, <1>7, <1>8, <1>9 DEF IInv

LEMMA RestartInv == ASSUME IInv, TypeOK', Restart PROVE IInv'
<1>1. ASSUME NEW b \in Backend PROVE TxnOK(b)'
  BY DEF Restart, TxnOK, HoldingsOK, TagsOK, StagedOK, CommittedOK
<1>2. ExclusiveOK' /\ GenerationsOK' /\ ColdWhileRecreating'
  BY DEF Restart, ExclusiveOK, GenerationsOK, ColdWhileRecreating, ColdSlot
<1>3. CacheNamesLiveTerms' BY DEF Restart, CacheNamesLiveTerms, Usable, ColdSlot
<1> QED BY <1>1, <1>2, <1>3 DEF IInv

LEMMA NextInv == ASSUME ~DdlAfterIntern, IInv, [Next]_vars PROVE IInv'
<1>0. TypeOK' BY NextTyped DEF IInv
<1>1. ASSUME NEW b \in Backend, Transaction(b) PROVE IInv'
  BY <1>0, <1>1, BeginInv, SavepointInv, AbortInv, CommitInv, ReleaseInv, RollbackInv
     DEF Transaction
<1>2. ASSUME NEW b \in Backend, Flush(b) PROVE IInv'
  BY <1>0, <1>2, QuietInv, FinishCommitInv, PublishInv DEF Flush
<1>3. ASSUME NEW b \in Backend, PutTerm(b) PROVE IInv'
  BY <1>0, <1>3, QuietInv, ReadInv, InsertInv DEF PutTerm
<1>4. ASSUME NEW b \in Backend, PutTermsBatch(b) PROVE IInv'
  BY <1>0, <1>4, QuietInv, ReadInv, InsertInv DEF PutTermsBatch
<1>5. ASSUME NEW b \in Backend, Admin(b) PROVE IInv'
  BY <1>0, <1>5, ResetInv, ReadInv, RecreateInv DEF Admin
<1>6. CASE Restart BY <1>0, <1>6, RestartInv
<1>7. CASE UNCHANGED vars
  <2>1. ASSUME NEW c \in Backend PROVE TxnOK(c)' BY <1>7, Frame DEF vars, Same, IInv
  <2>2. ExclusiveOK' /\ GenerationsOK' /\ ColdWhileRecreating'
    BY <1>7 DEF vars, IInv, ExclusiveOK, GenerationsOK, ColdWhileRecreating, Usable, Db
  <2>3. CacheNamesLiveTerms' BY <1>7 DEF vars, IInv, CacheNamesLiveTerms, LiveRow, Usable
  <2> QED BY <1>0, <2>1, <2>2, <2>3 DEF IInv
<1> QED BY <1>1, <1>2, <1>3, <1>4, <1>5, <1>6, <1>7 DEF Next

-----------------------------------------------------------------------------
(***************************************************************************)
(* The results.                                                            *)
(***************************************************************************)

\* If no transaction re-creates the extension after it has staged mappings,
\* then at every moment, through rollbacks, releases, evictions, concurrent
\* resets and restarts, each slot a lookup would trust names a committed row of
\* the present dictionary of its own database (shmem_cache.rs).
THEOREM CacheNeverPoisoned == ~DdlAfterIntern => (Spec => []CacheNamesLiveTerms)
<1> SUFFICES ASSUME ~DdlAfterIntern PROVE Spec => []CacheNamesLiveTerms OBVIOUS
<1>1. Init => IInv BY InitInv
<1>2. IInv /\ [Next]_vars => IInv' BY NextInv
<1>3. IInv => CacheNamesLiveTerms BY DEF IInv
<1> QED BY <1>1, <1>2, <1>3, PTL DEF Spec

\* Under the same proviso the AbortSub callback, which compares integer tags
\* that releases never rewrite, drops exactly the entries staged inside the
\* aborted subtransaction or inside one released into it (#127).
THEOREM AbortSubExact == ~DdlAfterIntern => (Spec => AbortSubIsExact)
<1> SUFFICES ASSUME ~DdlAfterIntern PROVE Spec => AbortSubIsExact OBVIOUS
<1> DEFINE Exact == \A b \in Backend : \A s \in open[b] : RollbackToSavepoint(b, s) =>
                        pending'[b] = {e \in pending[b] : e.owner # s}
<1>1. Init => IInv BY InitInv
<1>2. IInv /\ [Next]_vars => IInv' BY NextInv
<1>3. IInv /\ [Next]_vars => [Exact]_vars
  <2> SUFFICES ASSUME IInv, NEW b \in Backend, NEW s \in open[b], RollbackToSavepoint(b, s)
               PROVE  pending'[b] = {e \in pending[b] : e.owner # s}
    OBVIOUS
  <2>1. TypeOK /\ TxnOK(b) BY DEF IInv
  <2>2. pending'[b] = {e \in pending[b] : e.sub < s} /\ Current(b, s)
    BY <2>1 DEF RollbackToSavepoint, KeptOnAbortSub, TypeOK
  <2>3. ASSUME NEW e \in pending[b] PROVE e.sub < s <=> e.owner # s
    <3>1. e.owner \in Nat /\ e.sub \in Nat /\ s \in Nat BY <2>1 DEF TypeOK, Staged
    <3>2. e.owner \in open[b] /\ e.owner <= e.sub /\ (e.owner < s => e.sub < s)
      BY <2>1 DEF TxnOK, HoldingsOK, TagsOK
    <3>3. e.owner <= s BY <2>2, <3>2 DEF Current
    <3> QED BY <3>1, <3>2, <3>3
  <2> QED BY <2>2, <2>3
<1> QED BY <1>1, <1>2, <1>3, PTL DEF Spec, AbortSubIsExact
=============================================================================
