------------------------- MODULE DictContractProofs -------------------------
(***************************************************************************)
(* Proofs that DictCache keeps the promises of DictContract, for any       *)
(* number of backends, databases, terms, slots and savepoints: the step by *)
(* step implementation, the answers of a lookup that is overtaken by       *)
(* resets and re-creations, and one row per term where one session at a    *)
(* time writes.                                                            *)
(***************************************************************************)
EXTENDS DictCacheProofs

-----------------------------------------------------------------------------
(***************************************************************************)
(* What a step of one backend leaves to the others.                        *)
(***************************************************************************)
ActorStep(b) == Transaction(b) \/ Flush(b) \/ PutTerm(b) \/ PutTermsBatch(b) \/ Admin(b)

\* Nothing a backend holds for itself is written by another one.
Undisturbed(c) == Same(c) /\ arg'[c] = arg[c] /\ since'[c] = since[c]

LEMMA Bystander ==
    ASSUME TypeOK, NEW b \in Backend, ActorStep(b), NEW c \in Backend \ {b}
    PROVE  Undisturbed(c)
<1> USE DEF TypeOK, Undisturbed, Same, Goto, EndCall, diskVars, shmemVars, txnVars, callVars
<1>1. CASE Transaction(b)
  <2>1. CASE Begin(b) \/ Savepoint(b) \/ Abort(b) \/ Commit(b)
    BY <2>1 DEF Begin, Savepoint, Abort, EndTxn, Commit
  <2>2. CASE \E s, p \in open[b] : ReleaseSavepoint(b, s, p)
    BY <2>2 DEF ReleaseSavepoint
  <2>3. CASE \E s \in open[b] : RollbackToSavepoint(b, s)
    BY <2>3 DEF RollbackToSavepoint
  <2> QED
    BY <1>1, <2>1, <2>2, <2>3 DEF Transaction
<1>2. CASE Flush(b)
  BY <1>2 DEF Flush, ReadGeneration, FinishCommit, EndTxn, Publish
<1>3. CASE PutTerm(b)
  <2>1. PICK t \in Term :
          \/ LookupStart(b, t) \/ LookupHit(b, t) \/ LookupMiss(b, t)
          \/ \E s \in open[b] :
                \/ SelectAbsent(b, t, s) \/ InsertTerm(b, t, s)
                \/ \E r \in Visible(b) : SelectFound(b, t, r, s)
    BY <1>3 DEF PutTerm
  <2>2. CASE LookupStart(b, t) \/ LookupHit(b, t) \/ LookupMiss(b, t)
    BY <2>2 DEF LookupStart, LookupHit, LookupMiss
  <2>3. ASSUME NEW s \in open[b], SelectAbsent(b, t, s) \/ InsertTerm(b, t, s)
        PROVE  Undisturbed(c)
    BY <2>3 DEF SelectAbsent, InsertTerm, InsertRow, TakeLock, StageAs
  <2>4. ASSUME NEW s \in open[b], NEW r \in Visible(b), SelectFound(b, t, r, s)
        PROVE  Undisturbed(c)
    BY <2>4 DEF SelectFound, TakeLock, StageAs
  <2> QED
    BY <2>1, <2>2, <2>3, <2>4
<1>4. CASE PutTermsBatch(b)
  BY <1>4 DEF PutTermsBatch, BatchStart, BatchInsert, BatchEnd, InsertRow, TakeLock
<1>5. CASE Admin(b)
  BY <1>5 DEF Admin, ShmemReset, Prewarm, RecreateExtension, TakeLock, StageAs
<1> QED
  BY <1>1, <1>2, <1>3, <1>4, <1>5 DEF ActorStep

\* Only a commit changes the committed tables, and besides a restart only a
\* publication writes a slot.
LEMMA TablesKept ==
    ASSUME NEW b \in Backend, ActorStep(b), ~Commit(b)
    PROVE  /\ UNCHANGED <<dict, live>>
           /\ slots' = slots \/ \E e \in pending[b] : Publish(b, e)
<1> USE DEF diskVars, shmemVars
<1>1. CASE Transaction(b)
  BY <1>1 DEF Transaction, Begin, Savepoint, Abort, ReleaseSavepoint, RollbackToSavepoint
<1>2. CASE Flush(b)
  BY <1>2 DEF Flush, ReadGeneration, FinishCommit, Publish
<1>3. CASE PutTerm(b)
  BY <1>3 DEF PutTerm, LookupStart, LookupHit, LookupMiss, SelectAbsent, SelectFound,
     InsertTerm, InsertRow
<1>4. CASE PutTermsBatch(b)
  BY <1>4 DEF PutTermsBatch, BatchStart, BatchInsert, BatchEnd, InsertRow
<1>5. CASE Admin(b)
  BY <1>5 DEF Admin, ShmemReset, Prewarm, RecreateExtension
<1> QED
  BY <1>1, <1>2, <1>3, <1>4, <1>5 DEF ActorStep

\* The committed tables of another database stand still.
LEMMA OtherTables ==
    ASSUME TypeOK, NEW b \in Backend, ActorStep(b), NEW d \in Database, d # Db(b)
    PROVE  dict'[d] = dict[d] /\ live'[d] = live[d]
<1>1. CASE Commit(b)
  BY <1>1 DEF Commit, TypeOK
<1>2. CASE ~Commit(b)
  BY <1>2, TablesKept
<1> QED
  BY <1>1, <1>2

-----------------------------------------------------------------------------
(***************************************************************************)
(* The refinement.  Every step but a commit leaves the rows in force alone *)
(* and is a Learn; a commit grows the dictionary of its database or        *)
(* replaces it.                                                            *)
(***************************************************************************)

\* A step that leaves the tables alone only publishes, displaces or forgets.
LEMMA LearnStep ==
    ASSUME CacheNamesLiveTerms', TypeOK', UNCHANGED <<dict, live>>
    PROVE  Contract!Learn
<1>1. RowsInForce' = RowsInForce
  BY DEF RowsInForce
<1>2. ASSUME NEW p \in Position, Usable(slots'[p], gen')
      PROVE  <<slots'[p].fp[2], slots'[p].id>> \in RowsInForce'[slots'[p].fp[1]]
  <2>1. LiveRow(slots[p].fp, slots[p].id)'
    BY <1>2 DEF CacheNamesLiveTerms
  <2>2. slots'[p].fp \in Fingerprint
    BY <1>2 DEF TypeOK, Slot, Usable
  <2>3. slots'[p].fp[1] \in Database
    BY <2>2 DEF Fingerprint
  <2> QED
    BY <2>1, <2>3 DEF LiveRow, RowsInForce
<1>3. \A k \in KnownMappings' : <<k[1][2], k[2]>> \in RowsInForce'[k[1][1]]
  BY <1>2 DEF KnownMappings
<1> QED
  BY <1>1, <1>3 DEF Contract!Learn, Contract!Names

LEMMA CommitStep ==
    ASSUME IInv, NEW b \in Backend, Commit(b)
    PROVE  \E d \in Database : Contract!Grow(d) \/ Contract!Replace(d)
<1> DEFINE d == Db(b)
           added == {Bare(w) : w \in {v \in wip[b] : v.era = ViewEra(b)}}
<1>1. TypeOK /\ d \in Database
  BY CacheAssumption DEF IInv, TypeOK, Db, CacheAssumption
<1>2. /\ UNCHANGED <<gen, slots>> /\ pc[b] = "ready"
      /\ dict' = [dict EXCEPT ![d] = @ \cup added]
      /\ live' = [live EXCEPT ![d] = ViewEra(b)]
  BY DEF Commit, shmemVars
<1> HIDE DEF added
<1>3. KnownMappings' = KnownMappings
  BY <1>2 DEF KnownMappings, Usable
<1>4. \A e \in Database \ {d} : RowsInForce'[e] = RowsInForce[e]
  <2>1. \A e \in Database \ {d} : dict'[e] = dict[e] /\ live'[e] = live[e]
    BY <1>1, <1>2 DEF TypeOK
  <2> QED
    BY <2>1 DEF RowsInForce
<1>5. CASE ddl[b] = NoDdl
  <2>1. live'[d] = live[d] /\ dict[d] \subseteq dict'[d]
    BY <1>1, <1>2, <1>5 DEF ViewEra, TypeOK
  <2>2. RowsInForce[d] \subseteq RowsInForce'[d]
    BY <1>1, <2>1 DEF RowsInForce
  <2> QED
    BY <1>1, <1>3, <1>4, <2>2 DEF Contract!Grow, Contract!OnlyChanges
<1>6. CASE ddl[b] # NoDdl
  <2>1. \A p \in Position : Usable(slots[p], gen) => slots[p].fp[1] # d
    BY <1>2, <1>6 DEF IInv, ColdWhileRecreating, InTxn
  <2>2. \A k \in KnownMappings : k[1][1] # d
    BY <2>1 DEF KnownMappings
  <2> QED
    BY <1>1, <1>3, <1>4, <2>2 DEF Contract!Replace, Contract!OnlyChanges
<1> QED
  BY <1>5, <1>6

\* Only a commit changes the tables others see.
LEMMA TablesStand ==
    ASSUME [Next]_vars, \A b \in Backend : ~Commit(b)
    PROVE  UNCHANGED <<dict, live>>
BY TablesKept DEF Next, ActorStep, Restart, diskVars, vars

\* The dictionary and its cache implement DictContract: the slots a lookup could
\* trust are at every moment a partial view of the rows in force, a mapping is
\* learnt only from a committed row, and a dictionary is replaced only while
\* nothing of its database is known.
THEOREM ContractImplemented == ~DdlAfterIntern => (Spec => RefinesContract)
<1> SUFFICES ASSUME ~DdlAfterIntern PROVE Spec => RefinesContract
  OBVIOUS
<1>1. Init => Contract!Init
  <2> SUFFICES ASSUME Init PROVE Contract!Init
    OBVIOUS
  <2>1. RowsInForce = [d \in Database |-> {}]
    BY DEF Init, RowsInForce
  <2>2. KnownMappings = {}
    BY DEF Init, KnownMappings, Usable, ColdSlot
  <2> QED
    BY <2>1, <2>2 DEF Contract!Init
<1>2. Init => IInv
  BY InitInv
<1>3. IInv /\ [Next]_vars => IInv'
  BY NextInv
<1>4. IInv /\ IInv' /\ [Next]_vars => [Contract!Next]_<<RowsInForce, KnownMappings>>
  <2> SUFFICES ASSUME IInv, IInv', [Next]_vars PROVE Contract!Next
    OBVIOUS
  <2>1. CASE \E b \in Backend : Commit(b)
    BY <2>1, CommitStep DEF Contract!Next
  <2>2. CASE \A b \in Backend : ~Commit(b)
    <3>1. CacheNamesLiveTerms' /\ TypeOK'
      BY DEF IInv
    <3> QED
      BY <2>2, <3>1, TablesStand, LearnStep DEF Contract!Next
  <2> QED
    BY <2>1, <2>2
<1> QED
  BY <1>1, <1>2, <1>3, <1>4, PTL DEF Spec, RefinesContract, Contract!Spec

-----------------------------------------------------------------------------
(***************************************************************************)
(* One row per term.  Where no two backends share a database, what a       *)
(* session is about to insert is not there, and it keeps that true of the  *)
(* terms it has not inserted yet.                                          *)
(***************************************************************************)
OneWriter == \A b, c \in Backend : DbOf[b] = DbOf[c] => b = c

NoTwins(S) == \A r, q \in S : (r.era = q.era /\ r.term = q.term) => r = q

\* The rows of b's dictionary, its uncommitted ones included.
Held(b) == dict[Db(b)] \cup {Bare(w) : w \in wip[b]}

\* The terms the anti-join or the SELECT missed are still missing.
AbsentOK(b) == pc[b] \in {"insert", "batch"} =>
    \A t \in arg[b] : \A r \in Visible(b) : r.term # t

RowsInv ==
    /\ TypeOK
    /\ \A d \in Database : NoTwins(dict[d])
    /\ \A b \in Backend : NoTwins(Held(b)) /\ AbsentOK(b)

\* A step that adds no row to what b holds.
LEMMA NoRowAdded ==
    ASSUME NEW b \in Backend, NoTwins(Held(b)),
           dict'[Db(b)] \subseteq Held(b), {Bare(w) : w \in wip'[b]} \subseteq Held(b)
    PROVE  NoTwins(Held(b)') /\ NoTwins(dict'[Db(b)])
BY DEF NoTwins, Held, Db

\* A term that no row of the view has gets its first row.
LEMMA RowAdded ==
    ASSUME RowsInv, NEW b \in Backend, NEW t \in Term, NEW s \in open[b],
           InsertRow(b, t, s), pc[b] \in {"insert", "batch"}
    PROVE  /\ NoTwins(Held(b)') /\ NoTwins(dict'[Db(b)])
           /\ Held(b)' = Held(b) \cup {Bare(NewRow(b, t, s))}
<1>1. dict' = dict /\ wip'[b] = wip[b] \cup {NewRow(b, t, s)} /\ t \in arg[b]
  BY DEF RowsInv, TypeOK, InsertRow
<1>2. Held(b)' = Held(b) \cup {Bare(NewRow(b, t, s))}
  BY <1>1 DEF Held, Db
<1>3. \A r \in Held(b) : ~(r.era = ViewEra(b) /\ r.term = t)
  BY <1>1 DEF RowsInv, AbsentOK, Visible, Held
<1>4. Bare(NewRow(b, t, s)).era = ViewEra(b) /\ Bare(NewRow(b, t, s)).term = t
  BY DEF Bare, NewRow
<1>5. NoTwins(Held(b)) /\ NoTwins(dict[Db(b)])
  BY CacheAssumption DEF RowsInv, Db, CacheAssumption
<1>6. NoTwins(Held(b)')
  BY <1>2, <1>3, <1>4, <1>5 DEF NoTwins
<1> QED
  BY <1>1, <1>2, <1>5, <1>6 DEF Db

\* The acting backend keeps its own rows single.
LEMMA ActorRows ==
    ASSUME RowsInv, NEW b \in Backend, ActorStep(b)
    PROVE  NoTwins(Held(b)') /\ NoTwins(dict'[Db(b)]) /\ AbsentOK(b)'
<1> DEFINE Own == dict'[Db(b)] \subseteq Held(b) /\ {Bare(w) : w \in wip'[b]} \subseteq Held(b)
<1>1. TypeOK /\ NoTwins(Held(b)) /\ AbsentOK(b)
  BY DEF RowsInv
<1>2. dict[Db(b)] \subseteq Held(b) /\ {Bare(w) : w \in wip[b]} \subseteq Held(b)
  BY DEF Held
<1>3. ASSUME Own, pc'[b] \notin {"insert", "batch"} \/ AbsentOK(b)'
      PROVE  NoTwins(Held(b)') /\ NoTwins(dict'[Db(b)]) /\ AbsentOK(b)'
  BY <1>1, <1>3, NoRowAdded DEF AbsentOK
<1> USE DEF Goto, EndCall, diskVars, shmemVars, txnVars, callVars
<1>4. CASE Transaction(b)
  <2>1. CASE Begin(b) \/ Savepoint(b) \/ Abort(b)
    <3>1. Own /\ pc'[b] \notin {"insert", "batch"}
      BY <1>1, <1>2, <2>1 DEF Begin, Savepoint, Abort, EndTxn, TypeOK
    <3> QED
      BY <1>3, <3>1
  <2>2. CASE Commit(b)
    <3>1. {Bare(w) : w \in {v \in wip[b] : v.era = ViewEra(b)}} \subseteq Held(b)
      BY DEF Held
    <3>2. Db(b) \in Database
      BY CacheAssumption DEF Db, CacheAssumption
    <3>3. Own /\ pc'[b] = "commit"
      BY <1>1, <1>2, <2>2, <3>1, <3>2 DEF Commit, TypeOK
    <3> QED
      BY <1>3, <3>3
  <2>3. ASSUME NEW s \in open[b], NEW p \in open[b], ReleaseSavepoint(b, s, p) PROVE Own
    <3>1. dict' = dict /\ wip'[b] = {ToParent(w, s, p) : w \in wip[b]}
      BY <1>1, <2>3 DEF ReleaseSavepoint, TypeOK
    <3>2. \A w \in wip[b] : Bare(ToParent(w, s, p)) = Bare(w)
      <4>1. \A w \in wip[b] : w \in OwnRow
        BY <1>1 DEF TypeOK
      <4> QED
        BY <4>1 DEF ToParent, Bare, OwnRow
    <3> QED
      BY <1>2, <3>1, <3>2
  <2>4. ASSUME NEW s \in open[b], NEW p \in open[b], ReleaseSavepoint(b, s, p)
        PROVE  pc'[b] = "ready"
    BY <2>4 DEF ReleaseSavepoint
  <2>5. ASSUME NEW s \in open[b], RollbackToSavepoint(b, s) PROVE Own /\ pc'[b] = "ready"
    BY <1>1, <1>2, <2>5 DEF RollbackToSavepoint, TypeOK
  <2> QED
    BY <1>3, <1>4, <2>1, <2>2, <2>3, <2>4, <2>5 DEF Transaction
<1>5. CASE Flush(b)
  <2>1. Own /\ pc'[b] \notin {"insert", "batch"}
    BY <1>1, <1>2, <1>5 DEF Flush, ReadGeneration, FinishCommit, EndTxn, Publish, TypeOK
  <2> QED
    BY <1>3, <2>1
<1>6. CASE PutTerm(b)
  <2>1. PICK t \in Term :
          \/ LookupStart(b, t) \/ LookupHit(b, t) \/ LookupMiss(b, t)
          \/ \E s \in open[b] :
                \/ SelectAbsent(b, t, s) \/ InsertTerm(b, t, s)
                \/ \E r \in Visible(b) : SelectFound(b, t, r, s)
    BY <1>6 DEF PutTerm
  <2>2. CASE LookupStart(b, t) \/ LookupHit(b, t) \/ LookupMiss(b, t)
    <3>1. Own /\ pc'[b] \notin {"insert", "batch"}
      BY <1>1, <1>2, <2>2 DEF LookupStart, LookupHit, LookupMiss, TypeOK
    <3> QED
      BY <1>3, <3>1
  <2>3. ASSUME NEW s \in open[b], SelectAbsent(b, t, s) PROVE Own /\ AbsentOK(b)'
    <3>1. /\ UNCHANGED <<dict, live, wip, ddl, arg>> /\ arg[b] = {t}
          /\ \A r \in Visible(b) : r.term # t
      BY <2>3 DEF SelectAbsent
    <3> QED
      BY <1>2, <3>1 DEF AbsentOK, Visible, ViewEra, Db
  <2>4. ASSUME NEW s \in open[b], NEW r \in Visible(b), SelectFound(b, t, r, s)
        PROVE  Own /\ pc'[b] = "ready"
    BY <1>1, <1>2, <2>4 DEF SelectFound, TypeOK
  <2>5. ASSUME NEW s \in open[b], InsertTerm(b, t, s)
        PROVE  NoTwins(Held(b)') /\ NoTwins(dict'[Db(b)]) /\ AbsentOK(b)'
    <3>1. InsertRow(b, t, s) /\ pc[b] = "insert" /\ pc'[b] = "ready"
      BY <1>1, <2>5 DEF InsertTerm, TypeOK
    <3> QED
      BY <3>1, RowAdded DEF AbsentOK
  <2> QED
    BY <1>3, <2>1, <2>2, <2>3, <2>4, <2>5
<1>7. CASE PutTermsBatch(b)
  <2>1. CASE BatchEnd(b)
    <3>1. Own /\ pc'[b] = "ready"
      BY <1>1, <1>2, <2>1 DEF BatchEnd, TypeOK
    <3> QED
      BY <1>3, <3>1
  <2>2. ASSUME NEW s \in open[b], NEW T \in SUBSET Term, BatchStart(b, T, s)
        PROVE  Own /\ AbsentOK(b)'
    <3>1. /\ UNCHANGED <<dict, live, wip, ddl>>
          /\ arg'[b] = {t \in T : \A r \in Visible(b) : r.term # t}
      BY <1>1, <2>2 DEF BatchStart, TypeOK
    <3> QED
      BY <1>2, <3>1 DEF AbsentOK, Visible, ViewEra, Db
  <2>3. ASSUME NEW s \in open[b], NEW t \in Term, BatchInsert(b, t, s)
        PROVE  NoTwins(Held(b)') /\ NoTwins(dict'[Db(b)]) /\ AbsentOK(b)'
    <3>1. /\ InsertRow(b, t, s) /\ pc[b] = "batch" /\ arg'[b] = arg[b] \ {t}
          /\ UNCHANGED <<live, ddl>>
      BY <1>1, <2>3 DEF BatchInsert, InsertRow, TypeOK
    <3>2. /\ NoTwins(Held(b)') /\ NoTwins(dict'[Db(b)])
          /\ Held(b)' = Held(b) \cup {Bare(NewRow(b, t, s))}
      BY <3>1, RowAdded
    <3>3. Bare(NewRow(b, t, s)).term = t
      BY DEF Bare, NewRow
    <3>4. ViewEra(b)' = ViewEra(b)
      BY <3>1 DEF ViewEra, Db
    <3>5. \A u \in arg'[b] : \A r \in Held(b)' : r.era = ViewEra(b) => r.term # u
      BY <1>1, <3>1, <3>2, <3>3 DEF AbsentOK, Visible, Held
    <3> QED
      BY <3>2, <3>4, <3>5 DEF AbsentOK, Visible, Held
  <2> QED
    BY <1>3, <1>7, <2>1, <2>2, <2>3 DEF PutTermsBatch
<1>8. CASE Admin(b)
  <2>1. Own /\ pc'[b] = "ready"
    BY <1>1, <1>2, <1>8 DEF Admin, ShmemReset, Prewarm, RecreateExtension, TypeOK
  <2> QED
    BY <1>3, <2>1
<1> QED
  BY <1>4, <1>5, <1>6, <1>7, <1>8 DEF ActorStep

LEMMA RowsNext == ASSUME OneWriter, RowsInv, [Next]_vars PROVE RowsInv'
<1>1. TypeOK /\ TypeOK'
  BY NextTyped DEF RowsInv
<1>2. ASSUME NEW b \in Backend, ActorStep(b) PROVE RowsInv'
  <2>1. ASSUME NEW d \in Database PROVE NoTwins(dict'[d])
    <3>1. CASE d = Db(b)
      BY <1>2, <3>1, ActorRows
    <3>2. CASE d # Db(b)
      BY <1>1, <1>2, <3>2, OtherTables DEF RowsInv
    <3> QED
      BY <3>1, <3>2
  <2>2. ASSUME NEW c \in Backend \ {b} PROVE NoTwins(Held(c)') /\ AbsentOK(c)'
    <3>1. Db(c) \in Database /\ Db(c) # Db(b)
      BY CacheAssumption DEF OneWriter, Db, CacheAssumption
    <3>2. dict'[Db(c)] = dict[Db(c)] /\ live'[Db(c)] = live[Db(c)]
      BY <1>1, <1>2, <3>1, OtherTables
    <3>3. wip'[c] = wip[c] /\ ddl'[c] = ddl[c] /\ arg'[c] = arg[c] /\ pc'[c] = pc[c]
      BY <1>1, <1>2, Bystander DEF Undisturbed, Same
    <3>4. NoTwins(Held(c)) /\ AbsentOK(c)
      BY DEF RowsInv
    <3>5. Held(c)' = Held(c)
      BY <3>2, <3>3 DEF Held, Db
    <3>6. Visible(c)' = Visible(c)
      BY <3>2, <3>3 DEF Visible, ViewEra, Db
    <3> QED
      BY <3>3, <3>4, <3>5, <3>6 DEF AbsentOK
  <2>3. NoTwins(Held(b)') /\ AbsentOK(b)'
    BY <1>2, ActorRows
  <2>4. ASSUME NEW c \in Backend PROVE NoTwins(Held(c)') /\ AbsentOK(c)'
    BY <2>2, <2>3
  <2> QED
    BY <1>1, <2>1, <2>4 DEF RowsInv, NoTwins
<1>3. CASE Restart
  <2>1. /\ dict' = dict /\ \A c \in Backend : wip'[c] = {} /\ pc'[c] = "idle"
    BY <1>3 DEF Restart, diskVars
  <2>2. ASSUME NEW c \in Backend PROVE NoTwins(Held(c)') /\ AbsentOK(c)'
    <3>1. Db(c) \in Database
      BY CacheAssumption DEF Db, CacheAssumption
    <3>2. Held(c)' = dict[Db(c)]
      BY <2>1 DEF Held, Db
    <3> QED
      BY <2>1, <3>1, <3>2 DEF RowsInv, AbsentOK
  <2> QED
    BY <1>1, <2>1, <2>2 DEF RowsInv, NoTwins
<1>4. CASE UNCHANGED vars
  BY <1>1, <1>4 DEF vars, RowsInv, NoTwins, Held, AbsentOK, Visible, ViewEra, Db
<1> QED
  BY <1>2, <1>3, <1>4 DEF Next, ActorStep

\* Where at most one session is connected to each database, a term has one row
\* in the table in force: the batched anti-join, put_term's SELECT and INSERT,
\* savepoints, rollbacks and restarts never make a second one (dict.rs: "this
\* single-backend batched path dedups correctly").
THEOREM TermsAreSingle == OneWriter => (Spec => []OneRowPerTerm)
<1> SUFFICES ASSUME OneWriter PROVE Spec => []OneRowPerTerm
  OBVIOUS
<1>1. Init => RowsInv
  <2> SUFFICES ASSUME Init PROVE RowsInv
    OBVIOUS
  <2>1. (\A d \in Database : dict[d] = {}) /\ \A b \in Backend : wip[b] = {} /\ pc[b] = "idle"
    BY DEF Init
  <2>2. \A b \in Backend : Held(b) = {}
    BY <2>1, CacheAssumption DEF Held, Db, CacheAssumption
  <2> QED
    BY <2>1, <2>2, InitTyped DEF RowsInv, NoTwins, AbsentOK
<1>2. RowsInv /\ [Next]_vars => RowsInv'
  BY RowsNext
<1>3. RowsInv => OneRowPerTerm
  BY DEF RowsInv, NoTwins, OneRowPerTerm
<1> QED
  BY <1>1, <1>2, <1>3, PTL DEF Spec

-----------------------------------------------------------------------------
(***************************************************************************)
(* The answers of a lookup.  Between the generation read and the probe the *)
(* cache may be reset, the extension re-created and committed, and slots    *)
(* written under the generation the lookup still uses.                     *)
(***************************************************************************)

\* Incarnations are numbered in the order in which they come into force.
ErasOK ==
    /\ \A d \in Database : live[d] <= lastEra[d]
    /\ \A b \in Backend : ddl[b] # NoDdl =>
          live[Db(b)] <= ddl[b].era /\ ddl[b].era <= lastEra[Db(b)]

\* The slot names a row that was in force at some moment since b's call began.
NamedSince(b, slot) == \E r \in dict[Db(b)] :
    r.term = slot.fp[2] /\ r.id = slot.id /\ r.era \in since[b] .. live[Db(b)]

\* What a probe under way may find of its own database.
LookupOK(b) == pc[b] = "lookup" =>
    /\ ddl[b] = NoDdl => since[b] <= live[Db(b)]
    /\ \A p \in Position : (Usable(slots[p], seen[b]) /\ slots[p].fp[1] = Db(b)) =>
           ddl[b] = NoDdl /\ NamedSince(b, slots[p])

LookupInv == IInv /\ ErasOK /\ \A b \in Backend : LookupOK(b)

LEMMA ErasAreNumbers == Era \subseteq Nat
BY CacheAssumption DEF Era, CacheAssumption

\* Only a commit and a re-creation change the incarnations.
LEMMA EraStep ==
    ASSUME TypeOK, NEW b \in Backend, HoldingsOK(b), ActorStep(b)
    PROVE  \/ Commit(b)
           \/ \E s \in open[b] : RecreateExtension(b, s)
           \/ /\ UNCHANGED <<live, lastEra>>
              /\ ddl'[b] = NoDdl \/ (ddl[b] # NoDdl /\ ddl'[b].era = ddl[b].era)
<1> USE DEF diskVars, txnVars
<1> DEFINE Stays == /\ UNCHANGED <<live, lastEra>>
                    /\ ddl'[b] = NoDdl \/ (ddl[b] # NoDdl /\ ddl'[b].era = ddl[b].era)
<1>1. CASE Transaction(b)
  <2>1. CASE Begin(b) \/ Savepoint(b) \/ Abort(b)
    BY <2>1 DEF Begin, Savepoint, Abort, EndTxn, TypeOK
  <2>3. ASSUME NEW s \in open[b], NEW p \in open[b], ReleaseSavepoint(b, s, p) PROVE Stays
    <3>1. UNCHANGED <<live, lastEra>> /\ ddl'[b] = ToParent(ddl[b], s, p)
      BY <2>3 DEF ReleaseSavepoint, TypeOK
    <3>2. s # 0
      BY DEF HoldingsOK, TypeOK
    <3>3. CASE ddl[b] = NoDdl
      BY <3>1, <3>2, <3>3 DEF ToParent, NoDdl
    <3>4. CASE ddl[b] # NoDdl
      <4>1. ddl[b] \in [era : Era, sub : Nat]
        BY <3>4 DEF TypeOK
      <4> QED
        BY <3>1, <3>4, <4>1 DEF ToParent
    <3> QED
      BY <3>1, <3>3, <3>4
  <2>4. ASSUME NEW s \in open[b], RollbackToSavepoint(b, s) PROVE Stays
    BY <2>4 DEF RollbackToSavepoint, TypeOK
  <2> QED
    BY <1>1, <2>1, <2>3, <2>4 DEF Transaction
<1>2. CASE Flush(b)
  BY <1>2 DEF Flush, ReadGeneration, FinishCommit, EndTxn, Publish, TypeOK
<1>3. CASE PutTerm(b)
  BY <1>3, ZenonT(40) DEF PutTerm, LookupStart, LookupHit, LookupMiss, SelectAbsent, SelectFound,
     InsertTerm, InsertRow
<1>4. CASE PutTermsBatch(b)
  BY <1>4 DEF PutTermsBatch, BatchStart, BatchInsert, BatchEnd, InsertRow
<1>5. CASE Admin(b)
  <2>1. CASE ShmemReset(b) \/ \E s \in open[b] : Prewarm(b, s)
    BY <2>1 DEF ShmemReset, Prewarm
  <2> QED
    BY <1>5, <2>1 DEF Admin
<1> QED
  BY <1>1, <1>2, <1>3, <1>4, <1>5 DEF ActorStep

LEMMA ErasNext ==
    ASSUME IInv, TypeOK', ErasOK, NEW b \in Backend, ActorStep(b)
    PROVE  ErasOK'
<1> DEFINE EraOK(c) == ddl[c] # NoDdl =>
              live[Db(c)] <= ddl[c].era /\ ddl[c].era <= lastEra[Db(c)]
<1>1. TypeOK /\ HoldingsOK(b) /\ \A c \in Backend : EraOK(c)
  BY DEF IInv, TxnOK, ErasOK
<1>2. \A d \in Database : live[d] \in Nat /\ lastEra[d] \in Nat /\ live[d] <= lastEra[d]
  BY <1>1, ErasAreNumbers DEF ErasOK, TypeOK
<1>3. \A c \in Backend : Db(c) \in Database
  BY CacheAssumption DEF Db, CacheAssumption
<1>4. \A c \in Backend \ {b} : ddl'[c] = ddl[c]
  BY <1>1, Bystander DEF Undisturbed, Same
<1>5. \A c \in Backend : ddl[c] # NoDdl => ddl[c].era \in Nat
  BY <1>1, ErasAreNumbers DEF TypeOK
<1>6. CASE Commit(b)
  <2>1. /\ UNCHANGED <<lastEra, ddl>> /\ pc[b] = "ready"
        /\ live' = [live EXCEPT ![Db(b)] = ViewEra(b)]
    BY <1>6 DEF Commit
  <2>2. /\ live'[Db(b)] = ViewEra(b)
        /\ \A d \in Database \ {Db(b)} : live'[d] = live[d]
    BY <1>1, <1>3, <2>1 DEF TypeOK
  <2>3. ViewEra(b) <= lastEra[Db(b)]
    BY <1>1, <1>2, <1>3 DEF ViewEra
  <2>4. ASSUME NEW c \in Backend, ddl[c] # NoDdl
        PROVE  live'[Db(c)] <= ddl[c].era /\ ddl[c].era <= lastEra[Db(c)]
    <3>1. CASE c = b
      BY <1>1, <1>5, <2>2, <2>4, <3>1 DEF ViewEra
    <3>2. CASE c # b /\ Db(c) = Db(b)
      <4>1. ddl[b] = NoDdl
        BY <2>4, <3>2 DEF IInv, ExclusiveOK
      <4> QED
        BY <1>1, <2>2, <2>4, <3>2, <4>1 DEF ViewEra
    <3>3. CASE Db(c) # Db(b)
      BY <1>1, <1>3, <2>2, <2>4, <3>3
    <3> QED
      BY <3>1, <3>2, <3>3
  <2> QED
    BY <1>2, <2>1, <2>2, <2>3, <2>4 DEF ErasOK, Db
<1>7. ASSUME NEW s \in open[b], RecreateExtension(b, s) PROVE ErasOK'
  <2>1. /\ live' = live /\ lastEra' = [lastEra EXCEPT ![Db(b)] = @ + 1]
        /\ ddl' = [ddl EXCEPT ![b] = [era |-> lastEra[Db(b)] + 1, sub |-> s]]
    BY <1>7 DEF RecreateExtension
  <2>2. /\ lastEra'[Db(b)] = lastEra[Db(b)] + 1 /\ ddl'[b].era = lastEra[Db(b)] + 1
        /\ \A d \in Database \ {Db(b)} : lastEra'[d] = lastEra[d]
    BY <1>1, <1>3, <2>1 DEF TypeOK
  <2>3. \A d \in Database : live[d] <= lastEra'[d] /\ lastEra[d] <= lastEra'[d]
                            /\ lastEra'[d] \in Nat
    BY <1>2, <2>2
  <2>4. live[Db(b)] <= ddl'[b].era /\ ddl'[b].era <= lastEra'[Db(b)]
    BY <1>2, <1>3, <2>2
  <2>5. ASSUME NEW c \in Backend \ {b}, ddl[c] # NoDdl
        PROVE  live[Db(c)] <= ddl[c].era /\ ddl[c].era <= lastEra'[Db(c)]
    BY <1>1, <1>2, <1>3, <1>5, <2>3, <2>5
  <2> QED
    BY <1>4, <2>1, <2>3, <2>4, <2>5 DEF ErasOK, Db
<1>8. CASE /\ UNCHANGED <<live, lastEra>>
           /\ ddl'[b] = NoDdl \/ (ddl[b] # NoDdl /\ ddl'[b].era = ddl[b].era)
  BY <1>1, <1>2, <1>4, <1>8 DEF ErasOK, Db
<1> QED
  BY <1>1, <1>6, <1>7, <1>8, EraStep

\* Only LookupStart enters the lookup.
LEMMA LookupEntered ==
    ASSUME TypeOK, NEW b \in Backend, ActorStep(b), pc'[b] = "lookup"
    PROVE  \E t \in Term : LookupStart(b, t)
<1> USE DEF TypeOK, Goto, EndCall, diskVars, shmemVars, txnVars, callVars
<1>1. CASE Transaction(b)
  BY <1>1 DEF Transaction, Begin, Savepoint, Abort, EndTxn, Commit, ReleaseSavepoint,
     RollbackToSavepoint
<1>2. CASE Flush(b)
  BY <1>2 DEF Flush, ReadGeneration, FinishCommit, EndTxn, Publish
<1>3. CASE PutTerm(b)
  BY <1>3 DEF PutTerm, LookupHit, LookupMiss, SelectAbsent, InsertTerm, SelectFound
<1>4. CASE PutTermsBatch(b)
  BY <1>4 DEF PutTermsBatch, BatchStart, BatchInsert, BatchEnd
<1>5. CASE Admin(b)
  BY <1>5 DEF Admin, ShmemReset, Prewarm, RecreateExtension
<1> QED
  BY <1>1, <1>2, <1>3, <1>4, <1>5 DEF ActorStep

\* At the generation read the cache is right about the table b's statements
\* resolve to, or knows nothing of its database.
LEMMA LookupStarts ==
    ASSUME IInv, NEW b \in Backend, NEW t \in Term, LookupStart(b, t)
    PROVE  LookupOK(b)'
<1>1. TypeOK
  BY DEF IInv
<1>2. /\ UNCHANGED <<dict, live, slots, ddl>> /\ pc[b] = "ready"
      /\ seen'[b] = gen /\ since'[b] = ViewEra(b)
  BY <1>1 DEF LookupStart, diskVars, shmemVars, txnVars, TypeOK
<1>3. Db(b) \in Database /\ live[Db(b)] \in Nat
  BY <1>1, ErasAreNumbers, CacheAssumption DEF Db, CacheAssumption, TypeOK
<1>4. CASE ddl[b] # NoDdl
  BY <1>2, <1>4 DEF IInv, ColdWhileRecreating, InTxn, LookupOK, Usable, Db
<1>5. CASE ddl[b] = NoDdl
  <2>1. since'[b] = live[Db(b)]
    BY <1>2, <1>5 DEF ViewEra
  <2>2. ASSUME NEW p \in Position, Usable(slots[p], gen), slots[p].fp[1] = Db(b)
        PROVE  NamedSince(b, slots[p])'
    <3>1. LiveRow(slots[p].fp, slots[p].id)
      BY <2>2 DEF IInv, CacheNamesLiveTerms
    <3> QED
      BY <1>2, <1>3, <2>1, <2>2, <3>1 DEF LiveRow, NamedSince, Db
  <2> QED
    BY <1>2, <1>3, <1>5, <2>1, <2>2 DEF LookupOK, Usable, Db
<1> QED
  BY <1>4, <1>5

\* A step of another backend does not spoil the lookup: a flush writes rows of
\* the incarnation in force, a commit only brings younger ones into force, and
\* neither happens in b's database while b itself re-creates the extension.
LEMMA LookupUndisturbed ==
    ASSUME IInv, ErasOK, NEW b \in Backend, LookupOK(b),
           NEW c \in Backend \ {b}, ActorStep(c)
    PROVE  LookupOK(b)'
<1>1. TypeOK /\ \A a \in Backend : TxnOK(a)
  BY DEF IInv
<1>2. pc'[b] = pc[b] /\ ddl'[b] = ddl[b] /\ seen'[b] = seen[b] /\ since'[b] = since[b]
  BY <1>1, Bystander DEF Undisturbed, Same
<1>3. /\ Db(b) \in Database /\ live[Db(b)] \in Nat /\ since[b] \in Nat
      /\ ViewEra(c) \in Nat
  BY <1>1, ErasAreNumbers, CacheAssumption DEF Db, CacheAssumption, TypeOK, ViewEra
<1> SUFFICES ASSUME pc[b] = "lookup"
             PROVE  /\ ddl[b] = NoDdl => since[b] <= live'[Db(b)]
                    /\ \A p \in Position :
                          (Usable(slots'[p], seen[b]) /\ slots'[p].fp[1] = Db(b)) =>
                              ddl[b] = NoDdl /\ NamedSince(b, slots[p])'
  BY <1>2 DEF LookupOK, Usable, Db, NamedSince
<1>4. /\ ddl[b] = NoDdl => since[b] <= live[Db(b)]
      /\ \A p \in Position : (Usable(slots[p], seen[b]) /\ slots[p].fp[1] = Db(b)) =>
             ddl[b] = NoDdl /\ NamedSince(b, slots[p])
  BY DEF LookupOK
<1>5. CASE Commit(c)
  <2>1. /\ slots' = slots /\ dict[Db(b)] \subseteq dict'[Db(b)]
        /\ live' = [live EXCEPT ![Db(c)] = ViewEra(c)]
    BY <1>1, <1>5 DEF Commit, shmemVars, TypeOK
  <2>2. live[Db(b)] <= live'[Db(b)] /\ live'[Db(b)] \in Nat
    <3>1. CASE Db(c) = Db(b)
      <4>1. live[Db(c)] <= ViewEra(c)
        BY <1>3, <3>1 DEF ErasOK, ViewEra
      <4> QED
        BY <1>1, <1>3, <2>1, <3>1, <4>1 DEF TypeOK
    <3>2. CASE Db(c) # Db(b)
      BY <1>1, <1>3, <2>1, <3>2 DEF TypeOK
    <3> QED
      BY <3>1, <3>2
  <2>3. ASSUME NEW p \in Position, NamedSince(b, slots[p]) PROVE NamedSince(b, slots[p])'
    BY <1>2, <1>3, <2>1, <2>2, <2>3 DEF NamedSince, Db
  <2> QED
    BY <1>3, <1>4, <2>1, <2>2, <2>3
<1>6. ASSUME NEW e \in pending[c], Publish(c, e)
      PROVE  /\ ddl[b] = NoDdl => since[b] <= live'[Db(b)]
             /\ \A p \in Position :
                   (Usable(slots'[p], seen[b]) /\ slots'[p].fp[1] = Db(b)) =>
                       ddl[b] = NoDdl /\ NamedSince(b, slots[p])'
  <2>1. UNCHANGED <<dict, live>> /\ pc[c] = "publish"
    BY <1>6 DEF Publish, diskVars
  <2>2. PICK q \in Position :
           slots' = [slots EXCEPT ![q] = [fp |-> e.fp, gen |-> seen[c], id |-> e.id]]
    BY <1>6 DEF Publish, InsertSlot
  <2>3. \A p \in Position : slots'[p] = slots[p] \/ (slots'[p].fp = e.fp /\ slots'[p].id = e.id)
    BY <1>1, <2>2 DEF TypeOK
  <2>4. e.fp[1] = Db(c) /\ touch[c] # 0 /\ Backed(c, e)
    BY <1>1 DEF TxnOK, StagedOK
  <2>5. wip[c] = {} /\ ViewEra(c) = live[Db(c)]
    BY <1>1, <2>1 DEF TxnOK, CommittedOK, ViewEra
  <2>6. LiveRow(e.fp, e.id)
    BY <2>4, <2>5 DEF Backed, LiveRow
  <2>7. e.fp[1] = Db(b) => ddl[b] = NoDdl
    BY <2>4 DEF IInv, ExclusiveOK
  <2>8. ASSUME NEW p \in Position, slots'[p].fp[1] = Db(b),
               slots'[p].fp = e.fp /\ slots'[p].id = e.id
        PROVE  ddl[b] = NoDdl /\ NamedSince(b, slots[p])'
    <3>1. ddl[b] = NoDdl /\ since[b] <= live[Db(b)]
      BY <1>4, <2>7, <2>8
    <3> QED
      BY <1>2, <1>3, <2>1, <2>6, <2>8, <3>1 DEF LiveRow, NamedSince, Db
  <2>9. ASSUME NEW p \in Position, NamedSince(b, slots[p]), slots'[p] = slots[p]
        PROVE  NamedSince(b, slots[p])'
    BY <1>2, <2>1, <2>9 DEF NamedSince, Db
  <2> QED
    BY <1>4, <2>1, <2>3, <2>8, <2>9
<1>7. CASE ~Commit(c) /\ \A e \in pending[c] : ~Publish(c, e)
  <2>1. UNCHANGED <<dict, live, slots>>
    BY <1>7, TablesKept
  <2> QED
    BY <1>2, <1>4, <2>1 DEF NamedSince, Db
<1> QED
  BY <1>5, <1>6, <1>7

LEMMA LookupNext ==
    ASSUME ~DdlAfterIntern, LookupInv, [Next]_vars
    PROVE  LookupInv'
<1>1. IInv /\ ErasOK /\ \A b \in Backend : LookupOK(b)
  BY DEF LookupInv
<1>2. IInv' /\ TypeOK' /\ TypeOK
  BY <1>1, NextInv DEF IInv
<1>3. ASSUME NEW c \in Backend, ActorStep(c) PROVE LookupInv'
  <2>1. ErasOK'
    BY <1>1, <1>2, <1>3, ErasNext
  <2>2. ASSUME NEW b \in Backend \ {c} PROVE LookupOK(b)'
    BY <1>1, <1>3, LookupUndisturbed
  <2>3. LookupOK(c)'
    <3>1. CASE pc'[c] = "lookup"
      BY <1>1, <1>2, <1>3, <3>1, LookupEntered, LookupStarts
    <3>2. CASE pc'[c] # "lookup"
      BY <3>2 DEF LookupOK
    <3> QED
      BY <3>1, <3>2
  <2>4. \A b \in Backend : LookupOK(b)'
    BY <2>2, <2>3
  <2> QED
    BY <1>2, <2>1, <2>4 DEF LookupInv
<1>4. CASE Restart
  <2>1. UNCHANGED <<live, lastEra>> /\ \A b \in Backend : ddl'[b] = NoDdl /\ pc'[b] = "idle"
    BY <1>4 DEF Restart, diskVars
  <2>2. ErasOK' /\ \A b \in Backend : LookupOK(b)'
    BY <1>1, <2>1 DEF ErasOK, LookupOK
  <2> QED
    BY <1>2, <2>2 DEF LookupInv
<1>5. CASE UNCHANGED vars
  <2>1. ErasOK'
    BY <1>1, <1>5 DEF vars, ErasOK, Db
  <2>2. ASSUME NEW b \in Backend PROVE LookupOK(b)'
    BY <1>1, <1>5 DEF vars, LookupOK, NamedSince, Usable, Db
  <2> QED
    BY <1>2, <2>1, <2>2 DEF LookupInv
<1> QED
  BY <1>3, <1>4, <1>5 DEF Next, ActorStep

\* A probe looks inside the array.
LEMMA ProbeInside ==
    ASSUME NEW fp \in Fingerprint, NEW i \in 0 .. PROBE_DEPTH - 1
    PROVE  Probe(fp, i) \in Position
<1>1. SLOTS \in Nat \ {0} /\ Home[fp] \in 0 .. SLOTS - 1 /\ i \in Nat
  BY CacheAssumption DEF CacheAssumption, Position
<1>2. \A x, n \in Nat : n > 0 => x % n \in 0 .. n - 1
  OBVIOUS
<1>3. Home[fp] + i \in Nat
  BY <1>1
<1> QED
  BY <1>1, <1>2, <1>3 DEF Probe, Position

\* Under the proviso of CacheNeverPoisoned, what put_term answers from the cache
\* named the term in a dictionary in force at some moment of the call, however
\* resets, re-creations, commits and evictions fall between the generation read
\* and the probe (shmem_cache.rs lookup).
THEOREM CacheAnswersSound == ~DdlAfterIntern => (Spec => HitsAreSound)
<1> SUFFICES ASSUME ~DdlAfterIntern PROVE Spec => HitsAreSound
  OBVIOUS
<1> DEFINE Sound == \A b \in Backend, t \in Term : LookupHit(b, t) =>
        \A i \in Hits(FingerprintOf(b, t), seen[b]) : \E r \in dict[Db(b)] :
            /\ r.term = t
            /\ r.id = slots[Probe(FingerprintOf(b, t), i)].id
            /\ r.era \in since[b] .. live[Db(b)]
<1>1. Init => LookupInv
  <2> SUFFICES ASSUME Init PROVE LookupInv
    OBVIOUS
  <2>1. /\ \A d \in Database : live[d] = 1 /\ lastEra[d] = 1
        /\ \A b \in Backend : ddl[b] = NoDdl /\ pc[b] = "idle"
    BY DEF Init
  <2> QED
    BY <2>1, InitInv DEF LookupInv, ErasOK, LookupOK
<1>2. LookupInv /\ [Next]_vars => LookupInv'
  BY LookupNext
<1>3. LookupInv /\ [Next]_vars => [Sound]_vars
  <2> SUFFICES ASSUME LookupInv, NEW b \in Backend, NEW t \in Term, LookupHit(b, t),
                      NEW i \in Hits(FingerprintOf(b, t), seen[b])
               PROVE  NamedSince(b, slots[Probe(FingerprintOf(b, t), i)])
                      /\ slots[Probe(FingerprintOf(b, t), i)].fp[2] = t
    BY DEF NamedSince
  <2> DEFINE fp == FingerprintOf(b, t)
  <2>1. fp \in Fingerprint /\ fp[1] = Db(b) /\ fp[2] = t
    BY CacheAssumption DEF FingerprintOf, Fingerprint, Db, CacheAssumption
  <2>2. /\ i \in 0 .. PROBE_DEPTH - 1
        /\ Usable(slots[Probe(fp, i)], seen[b]) /\ slots[Probe(fp, i)].fp = fp
    BY DEF Hits
  <2> HIDE DEF fp
  <2>3. Probe(fp, i) \in Position
    BY <2>1, <2>2, ProbeInside
  <2>4. pc[b] = "lookup" /\ LookupOK(b)
    BY DEF LookupHit, LookupInv
  <2> QED
    BY <2>1, <2>2, <2>3, <2>4 DEF LookupOK, fp
<1> QED
  BY <1>1, <1>2, <1>3, PTL DEF Spec, HitsAreSound
=============================================================================
