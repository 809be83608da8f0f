----------------------------- MODULE DictCache -----------------------------
(***************************************************************************)
(* The term dictionary and its shared-memory cache                         *)
(* (src/storage/shmem_cache.rs, dict.rs, stats.rs, lib.rs).                *)
(*                                                                         *)
(* _pgrdf_dictionary is an ordinary transactional table, one per database. *)
(* The cache in front of it is a fixed array of slots in the postmaster's  *)
(* shared memory: it is NOT transactional and it is shared by every        *)
(* database.  What keeps the two in step is (1) each backend stages the    *)
(* mappings it meets and publishes them from its commit callback, (2) a    *)
(* subtransaction abort drops the mappings staged in it, (3) a generation  *)
(* number, bumped when the extension is created again, makes every older   *)
(* slot unreadable.                                                        *)
(*                                                                         *)
(* PostgreSQL supplies transactions, subtransactions and table locks; they *)
(* are modelled as far as the code relies on them: a SELECT or INSERT on   *)
(* the dictionary keeps its table lock until the (sub)transaction that     *)
(* took it ends, DROP EXTENSION waits for all of them, and the commit      *)
(* callback runs after the rows are visible and before locks are released. *)
(* A statement sees a fresh READ COMMITTED snapshot.                       *)
(***************************************************************************)
EXTENDS Integers, FiniteSets

CONSTANTS Backend,         \* server processes
          Database,        \* databases of the instance
          Term,            \* (term_type, lexical, datatype, language) keys
          DbOf,            \* the database each backend is connected to
          SLOTS,           \* capacity of the cache
          PROBE_DEPTH,     \* linear-probe length
          Home,            \* first probe position of a fingerprint
          DdlAfterIntern,  \* may a transaction that has staged mappings also
                           \* DROP and CREATE the extension?
          Nesting,         \* bound: the backends that set savepoints
          Batching,        \* bound: the backends that call put_terms_batch
          MaxEra, MaxId, MaxSub, MaxGen   \* bounds of the explored instances

Fingerprint == Database \X Term
Position    == 0 .. SLOTS - 1
Era         == 1 .. MaxEra

ASSUME CacheAssumption ==
    /\ SLOTS \in Nat \ {0}
    /\ PROBE_DEPTH \in 1 .. SLOTS
    /\ DbOf \in [Backend -> Database]
    /\ Home \in [Fingerprint -> Position]
    /\ DdlAfterIntern \in BOOLEAN
    /\ MaxEra \in Nat \ {0} /\ MaxId \in Nat /\ MaxSub \in Nat /\ MaxGen \in Nat

VARIABLES
    dict,     \* committed rows [era, id, term] of each database, those of its
              \* dropped tables included
    live,     \* the committed incarnation of each database's table
    lastEra,  \* incarnations each database has created so far
    lastId,   \* identity sequence of each incarnation (not transactional)
    gen,      \* GENERATION
    slots,    \* DICT_CACHE
    pc,       \* where each backend is
    open,     \* ids of its open (sub)transactions, the largest is current
    lastSub,  \* last subtransaction id it assigned
    wip,      \* its uncommitted rows [era, id, term, sub]
    pending,  \* PENDING: staged [fp, id, sub]; owner is history: the open
              \* (sub)transaction the entry belongs to after releases
    touch,    \* (sub)transaction owning its dictionary lock, 0 for no lock
    ddl,      \* its uncommitted DROP + CREATE EXTENSION [era, sub], or NoDdl
    arg,      \* terms the running call still has to resolve
    seen,     \* generation the running call or flush has read
    since     \* history: incarnation in force when the running call began

vars == <<dict, live, lastEra, lastId, gen, slots, pc, open, lastSub, wip,
          pending, touch, ddl, arg, seen, since>>
diskVars  == <<dict, live, lastEra, lastId>>
shmemVars == <<gen, slots>>
txnVars   == <<open, lastSub, wip, pending, touch, ddl>>
callVars  == <<arg, seen, since>>

NoDdl    == [era |-> 0, sub |-> 0]
NoFp     == <<>>
ColdSlot == [fp |-> NoFp, gen |-> 0, id |-> 0]

Row    == [era : Era, id : Nat, term : Term]
OwnRow == [era : Era, id : Nat, term : Term, sub : Nat]
Staged == [fp : Fingerprint, id : Nat, sub : Nat, owner : Nat]
Slot   == [fp : Fingerprint \cup {NoFp}, gen : Nat, id : Nat]

InTxn == {"ready", "lookup", "select", "insert", "batch"}
Phase == InTxn \cup {"idle", "commit", "publish"}

-----------------------------------------------------------------------------
\* What one backend sees and holds.

Db(b) == DbOf[b]

\* The incarnation of the table b's statements resolve to.
ViewEra(b) == IF ddl[b] = NoDdl THEN live[Db(b)] ELSE ddl[b].era

\* Mutant: committing a row leaves its subtransaction on it.
BareKeepsSub(r) == r

\* The committed row behind an uncommitted one.
Bare(r) == [era |-> r.era, id |-> r.id, term |-> r.term]

\* Mutant: a read-only snapshot, which misses the session's own rows.
VisibleCommitted(b) == {r \in dict[Db(b)] : r.era = ViewEra(b)}

\* The rows a SELECT of b returns.
Visible(b) == {r \in dict[Db(b)] \cup {Bare(w) : w \in wip[b]} : r.era = ViewEra(b)}

\* Mutant: the key ignores the database.
FingerprintUnscoped(b, t) == <<CHOOSE d \in Database : TRUE, t>>

\* fingerprint(): the key of a term, scoped by the database.
FingerprintOf(b, t) == <<Db(b), t>>

\* s is b's current (sub)transaction: GetCurrentSubTransactionId().
Current(b, s) == s \in open[b] /\ \A t \in open[b] : t <= s

\* The dictionary is not being dropped by another session of the database.
CanReadTable(b) ==
    \A c \in Backend \ {b} : Db(c) = Db(b) => ddl[c] = NoDdl

\* b takes (or already owns) a lock on the dictionary in subtransaction s.
TakeLock(b, s) == touch' = [touch EXCEPT ![b] = IF @ = 0 THEN s ELSE @]

\* stage_for_commit(): push, tagged with the current subtransaction.
StageAs(b, s, S) == pending' = [pending EXCEPT ![b] = @ \cup
    {[fp |-> FingerprintOf(b, r.term), id |-> r.id, sub |-> s, owner |-> s] : r \in S}]

-----------------------------------------------------------------------------
\* The slot array.

Probe(fp, i) == (Home[fp] + i) % SLOTS

\* Mutant: the generation of a slot is not compared.
UsableAnyGeneration(slot, g) == slot.fp # NoFp

\* A slot is in use only under the generation it was written in.
Usable(slot, g) == slot.fp # NoFp /\ slot.gen = g

\* lookup(): the ids found along the probe streak (the code returns the first).
Hits(fp, g) == {i \in 0 .. PROBE_DEPTH - 1 :
                   Usable(slots[Probe(fp, i)], g) /\ slots[Probe(fp, i)].fp = fp}

\* insert_slot(): the first slot that is cold, stale or already this key's;
\* with the streak full, the canonical slot is evicted.
Stops(fp, g) == {i \in 0 .. PROBE_DEPTH - 1 :
                    ~Usable(slots[Probe(fp, i)], g) \/ slots[Probe(fp, i)].fp = fp}
IsTarget(fp, g, p) ==
    \/ Stops(fp, g) = {} /\ p = Home[fp]
    \/ \E i \in Stops(fp, g) : p = Probe(fp, i) /\ \A j \in Stops(fp, g) : i <= j

\* Mutant: an eviction replaces the key and not the id.
InsertSlotKeepsId(fp, id, g) == \E p \in Position :
    /\ IsTarget(fp, g, p)
    /\ slots' = [slots EXCEPT ![p] =
          [fp |-> fp, gen |-> g, id |-> IF Stops(fp, g) = {} THEN @.id ELSE id]]

InsertSlot(fp, id, g) == \E p \in Position :
    /\ IsTarget(fp, g, p)
    /\ slots' = [slots EXCEPT ![p] = [fp |-> fp, gen |-> g, id |-> id]]

-----------------------------------------------------------------------------
Init ==
    /\ dict = [d \in Database |-> {}]
    /\ live = [d \in Database |-> 1]
    /\ lastEra = [d \in Database |-> 1]
    /\ lastId = [d \in Database |-> [e \in Era |-> 0]]
    /\ gen = 1
    /\ slots = [p \in Position |-> ColdSlot]
    /\ pc = [b \in Backend |-> "idle"]
    /\ open = [b \in Backend |-> {}]
    /\ lastSub = [b \in Backend |-> 0]
    /\ wip = [b \in Backend |-> {}]
    /\ pending = [b \in Backend |-> {}]
    /\ touch = [b \in Backend |-> 0]
    /\ ddl = [b \in Backend |-> NoDdl]
    /\ arg = [b \in Backend |-> {}]
    /\ seen = [b \in Backend |-> 0]
    /\ since = [b \in Backend |-> 1]

Goto(b, p) == pc' = [pc EXCEPT ![b] = p]

\* The call's local variables go out of scope.
EndCall(b) ==
    /\ arg' = [arg EXCEPT ![b] = {}]
    /\ seen' = [seen EXCEPT ![b] = 0]
    /\ since' = [since EXCEPT ![b] = 1]

\* Transaction control --------------------------------------------------------

Begin(b) ==
    /\ pc[b] = "idle"
    /\ Goto(b, "ready")
    /\ open' = [open EXCEPT ![b] = {1}]
    /\ lastSub' = [lastSub EXCEPT ![b] = 1]
    /\ UNCHANGED <<diskVars, shmemVars, wip, pending, touch, ddl, callVars>>

\* SAVEPOINT, or entering a PL/pgSQL block with an EXCEPTION clause.
Savepoint(b) ==
    /\ b \in Nesting
    /\ pc[b] = "ready"
    /\ lastSub[b] < MaxSub
    /\ lastSub' = [lastSub EXCEPT ![b] = @ + 1]
    /\ open' = [open EXCEPT ![b] = @ \cup {lastSub[b] + 1}]
    /\ UNCHANGED <<diskVars, shmemVars, pc, wip, pending, touch, ddl, callVars>>

\* RELEASE: what s wrote, locked and dropped now belongs to its parent p.
\* The staged entries keep the tag they were given.
ToParent(x, s, p) == IF x.sub = s THEN [x EXCEPT !.sub = p] ELSE x
ReleaseSavepoint(b, s, p) ==
    /\ pc[b] = "ready"
    /\ Current(b, s)
    /\ p \in open[b] \ {s}
    /\ \A t \in open[b] \ {s} : t <= p
    /\ open' = [open EXCEPT ![b] = @ \ {s}]
    /\ wip' = [wip EXCEPT ![b] = {ToParent(w, s, p) : w \in @}]
    /\ pending' = [pending EXCEPT ![b] =
                      {IF e.owner = s THEN [e EXCEPT !.owner = p] ELSE e : e \in @}]
    /\ touch' = [touch EXCEPT ![b] = IF @ = s THEN p ELSE @]
    /\ ddl' = [ddl EXCEPT ![b] = ToParent(@, s, p)]
    /\ UNCHANGED <<diskVars, shmemVars, pc, lastSub, callVars>>

\* Mutant: the comparison off by one.
KeptThroughAborted(P, s) == {e \in P : e.sub <= s}

\* The AbortSub callback keeps the entries tagged below the aborted id.
KeptOnAbortSub(P, s) == {e \in P : e.sub < s}

\* ROLLBACK TO, or an error caught by an EXCEPTION clause, at any statement.
RollbackToSavepoint(b, s) ==
    /\ pc[b] \in InTxn
    /\ Current(b, s)
    /\ open[b] # {s}
    /\ Goto(b, "ready")
    /\ open' = [open EXCEPT ![b] = @ \ {s}]
    /\ wip' = [wip EXCEPT ![b] = {w \in @ : w.sub # s}]
    /\ pending' = [pending EXCEPT ![b] = KeptOnAbortSub(@, s)]
    /\ touch' = [touch EXCEPT ![b] = IF @ = s THEN 0 ELSE @]
    /\ ddl' = [ddl EXCEPT ![b] = IF @.sub = s THEN NoDdl ELSE @]
    /\ EndCall(b)
    /\ UNCHANGED <<diskVars, shmemVars, lastSub>>

EndTxn(b) ==
    /\ Goto(b, "idle")
    /\ open' = [open EXCEPT ![b] = {}]
    /\ lastSub' = [lastSub EXCEPT ![b] = 0]
    /\ wip' = [wip EXCEPT ![b] = {}]
    /\ touch' = [touch EXCEPT ![b] = 0]
    /\ ddl' = [ddl EXCEPT ![b] = NoDdl]
    /\ EndCall(b)

\* Mutant: no Abort callback.
AbortKeepsPending(b) ==
    /\ pc[b] \in InTxn
    /\ EndTxn(b)
    /\ UNCHANGED <<diskVars, shmemVars, pending>>

\* ROLLBACK or an uncaught error: the Abort callback clears PENDING.
Abort(b) ==
    /\ pc[b] \in InTxn
    /\ EndTxn(b)
    /\ pending' = [pending EXCEPT ![b] = {}]
    /\ UNCHANGED <<diskVars, shmemVars>>

\* COMMIT makes the rows (and a new incarnation) visible; the callbacks run
\* next, with every lock still held.
Commit(b) ==
    /\ pc[b] = "ready"
    /\ Goto(b, "commit")
    /\ dict' = [dict EXCEPT ![Db(b)] =
                   @ \cup {Bare(w) : w \in {v \in wip[b] : v.era = ViewEra(b)}}]
    /\ live' = [live EXCEPT ![Db(b)] = ViewEra(b)]
    /\ wip' = [wip EXCEPT ![b] = {}]
    /\ UNCHANGED <<lastEra, lastId, shmemVars, open, lastSub, pending, touch,
                   ddl, callVars>>

\* flush_pending() -> insert_slot(): the generation is read first, ...
ReadGeneration(b) ==
    /\ pc[b] = "commit"
    /\ pending[b] # {}
    /\ seen' = [seen EXCEPT ![b] = gen]
    /\ Goto(b, "publish")
    /\ UNCHANGED <<diskVars, shmemVars, txnVars, arg, since>>

\* ... then the slot is written under the exclusive lock.  (The order of the
\* entries is left open.)
Publish(b, e) ==
    /\ pc[b] = "publish"
    /\ e \in pending[b]
    /\ InsertSlot(e.fp, e.id, seen[b])
    /\ pending' = [pending EXCEPT ![b] = @ \ {e}]
    /\ EndCall(b)
    /\ Goto(b, "commit")
    /\ UNCHANGED <<diskVars, gen, open, lastSub, wip, touch, ddl>>

\* The callbacks have returned: the locks go.
FinishCommit(b) ==
    /\ pc[b] = "commit"
    /\ pending[b] = {}
    /\ EndTxn(b)
    /\ UNCHANGED <<diskVars, shmemVars, pending>>

\* put_term_full --------------------------------------------------------------

\* lookup() reads the generation before it takes the share lock.
LookupStart(b, t) ==
    /\ pc[b] = "ready"
    /\ Goto(b, "lookup")
    /\ arg' = [arg EXCEPT ![b] = {t}]
    /\ seen' = [seen EXCEPT ![b] = gen]
    /\ since' = [since EXCEPT ![b] = ViewEra(b)]
    /\ UNCHANGED <<diskVars, shmemVars, txnVars>>

\* A hit is the whole call: nothing is read from the table, nothing staged.
LookupHit(b, t) ==
    /\ pc[b] = "lookup"
    /\ arg[b] = {t}
    /\ Hits(FingerprintOf(b, t), seen[b]) # {}
    /\ EndCall(b)
    /\ Goto(b, "ready")
    /\ UNCHANGED <<diskVars, shmemVars, txnVars>>

LookupMiss(b, t) ==
    /\ pc[b] = "lookup"
    /\ arg[b] = {t}
    /\ Hits(FingerprintOf(b, t), seen[b]) = {}
    /\ Goto(b, "select")
    /\ UNCHANGED <<diskVars, shmemVars, txnVars, callVars>>

\* SELECT ... LIMIT 1 found a row: staged, not published.
SelectFound(b, t, r, s) ==
    /\ pc[b] = "select"
    /\ CanReadTable(b)
    /\ arg[b] = {t}
    /\ r \in Visible(b) /\ r.term = t
    /\ Current(b, s)
    /\ TakeLock(b, s)
    /\ StageAs(b, s, {r})
    /\ EndCall(b)
    /\ Goto(b, "ready")
    /\ UNCHANGED <<diskVars, shmemVars, open, lastSub, wip, ddl>>

SelectAbsent(b, t, s) ==
    /\ pc[b] = "select"
    /\ CanReadTable(b)
    /\ arg[b] = {t}
    /\ \A r \in Visible(b) : r.term # t
    /\ Current(b, s)
    /\ TakeLock(b, s)
    /\ Goto(b, "insert")
    /\ UNCHANGED <<diskVars, shmemVars, open, lastSub, wip, pending, ddl, callVars>>

\* INSERT ... RETURNING id for one of the terms still missing.
NewRow(b, t, s) == [era |-> ViewEra(b), id |-> lastId[Db(b)][ViewEra(b)] + 1,
                    term |-> t, sub |-> s]
InsertRow(b, t, s) ==
    /\ t \in arg[b]
    /\ Current(b, s)
    /\ lastId[Db(b)][ViewEra(b)] < MaxId
    /\ lastId' = [lastId EXCEPT ![Db(b)][ViewEra(b)] = @ + 1]
    /\ wip' = [wip EXCEPT ![b] = @ \cup {NewRow(b, t, s)}]
    /\ UNCHANGED <<dict, live, lastEra, shmemVars, open, lastSub, touch, ddl>>

\* put_term_full stages the row it inserted.
InsertTerm(b, t, s) ==
    /\ pc[b] = "insert"
    /\ InsertRow(b, t, s)
    /\ StageAs(b, s, {NewRow(b, t, s)})
    /\ EndCall(b)
    /\ Goto(b, "ready")

\* put_terms_batch ------------------------------------------------------------

\* INSERT ... WHERE NOT EXISTS: the anti-join reads one snapshot, ...
BatchStart(b, T, s) ==
    /\ b \in Batching
    /\ pc[b] = "ready"
    /\ T # {}
    /\ CanReadTable(b)
    /\ Current(b, s)
    /\ TakeLock(b, s)
    /\ arg' = [arg EXCEPT ![b] = {t \in T : \A r \in Visible(b) : r.term # t}]
    /\ Goto(b, "batch")
    /\ UNCHANGED <<diskVars, shmemVars, open, lastSub, wip, pending, ddl, seen, since>>

\* ... then the missing rows are inserted; nothing is staged.
BatchInsert(b, t, s) ==
    /\ pc[b] = "batch"
    /\ InsertRow(b, t, s)
    /\ arg' = [arg EXCEPT ![b] = @ \ {t}]
    /\ UNCHANGED <<pc, pending, seen, since>>

BatchEnd(b) ==
    /\ pc[b] = "batch"
    /\ arg[b] = {}
    /\ Goto(b, "ready")
    /\ UNCHANGED <<diskVars, shmemVars, txnVars, callVars>>

\* Administration -------------------------------------------------------------

\* shmem_cache_prewarm(): every visible row is staged (its LIMIT is not modelled).
Prewarm(b, s) ==
    /\ pc[b] = "ready"
    /\ CanReadTable(b)
    /\ Current(b, s)
    /\ TakeLock(b, s)
    /\ StageAs(b, s, Visible(b))
    /\ UNCHANGED <<diskVars, shmemVars, pc, open, lastSub, wip, ddl, callVars>>

\* Mutant: the reset does not reach the counter.
BumpNothing == UNCHANGED gen

BumpGeneration == gen < MaxGen /\ gen' = gen + 1

\* shmem_reset()
ShmemReset(b) ==
    /\ pc[b] = "ready"
    /\ BumpGeneration
    /\ UNCHANGED <<diskVars, slots, pc, txnVars, callVars>>

\* DROP EXTENSION; CREATE EXTENSION: an empty table with a new sequence, and
\* the install script's shmem_reset().  DROP waits for every other session's
\* lock on the table.  The bump is not undone if the transaction aborts.
RecreateExtension(b, s) ==
    /\ pc[b] = "ready"
    /\ DdlAfterIntern \/ pending[b] = {}
    /\ ddl[b] = NoDdl
    /\ \A c \in Backend \ {b} : Db(c) = Db(b) => ddl[c] = NoDdl /\ touch[c] = 0
    /\ Current(b, s)
    /\ lastEra[Db(b)] < MaxEra
    /\ lastEra' = [lastEra EXCEPT ![Db(b)] = @ + 1]
    /\ ddl' = [ddl EXCEPT ![b] = [era |-> lastEra[Db(b)] + 1, sub |-> s]]
    /\ BumpGeneration
    /\ UNCHANGED <<dict, live, lastId, slots, pc, open, lastSub, wip, pending,
                   touch, callVars>>

\* The postmaster restarts (a crash included): shared memory and every
\* uncommitted transaction are gone, whatever the backends were doing.
Restart ==
    /\ gen' = 1
    /\ slots' = [p \in Position |-> ColdSlot]
    /\ pc' = [b \in Backend |-> "idle"]
    /\ open' = [b \in Backend |-> {}]
    /\ lastSub' = [b \in Backend |-> 0]
    /\ wip' = [b \in Backend |-> {}]
    /\ pending' = [b \in Backend |-> {}]
    /\ touch' = [b \in Backend |-> 0]
    /\ ddl' = [b \in Backend |-> NoDdl]
    /\ arg' = [b \in Backend |-> {}]
    /\ seen' = [b \in Backend |-> 0]
    /\ since' = [b \in Backend |-> 1]
    /\ UNCHANGED diskVars

Transaction(b) ==
    \/ Begin(b) \/ Savepoint(b) \/ Abort(b) \/ Commit(b)
    \/ \E s, p \in open[b] : ReleaseSavepoint(b, s, p)
    \/ \E s \in open[b] : RollbackToSavepoint(b, s)
Flush(b) ==
    \/ ReadGeneration(b) \/ FinishCommit(b)
    \/ \E e \in pending[b] : Publish(b, e)
PutTerm(b) == \E t \in Term :
    \/ LookupStart(b, t) \/ LookupHit(b, t) \/ LookupMiss(b, t)
    \/ \E s \in open[b] :
          \/ SelectAbsent(b, t, s) \/ InsertTerm(b, t, s)
          \/ \E r \in Visible(b) : SelectFound(b, t, r, s)
PutTermsBatch(b) ==
    \/ BatchEnd(b)
    \/ \E s \in open[b] :
          \/ \E T \in SUBSET Term : BatchStart(b, T, s)
          \/ \E t \in Term : BatchInsert(b, t, s)
Admin(b) ==
    \/ ShmemReset(b)
    \/ \E s \in open[b] : Prewarm(b, s) \/ RecreateExtension(b, s)

Next ==
    \/ \E b \in Backend : Transaction(b) \/ Flush(b) \/ PutTerm(b)
                             \/ PutTermsBatch(b) \/ Admin(b)
    \/ Restart

Spec == Init /\ [][Next]_vars

-----------------------------------------------------------------------------
\* Types.
TypeOK ==
    /\ dict \in [Database -> SUBSET Row]
    /\ live \in [Database -> Era]
    /\ lastEra \in [Database -> Era]
    /\ lastId \in [Database -> [Era -> Nat]]
    /\ gen \in Nat
    /\ slots \in [Position -> Slot]
    /\ pc \in [Backend -> Phase]
    /\ open \in [Backend -> SUBSET Nat]
    /\ lastSub \in [Backend -> Nat]
    /\ wip \in [Backend -> SUBSET OwnRow]
    /\ pending \in [Backend -> SUBSET Staged]
    /\ touch \in [Backend -> Nat]
    /\ ddl \in [Backend -> [era : Era, sub : Nat] \cup {NoDdl}]
    /\ arg \in [Backend -> SUBSET Term]
    /\ seen \in [Backend -> Nat]
    /\ since \in [Backend -> Era]

\* A fingerprint and an id name one committed row of the table now in force.
LiveRow(fp, id) == \E r \in dict[fp[1]] :
    r.era = live[fp[1]] /\ r.term = fp[2] /\ r.id = id

\* Every slot a lookup could trust names a committed row of the present
\* dictionary of its own database, with that very term (shmem_cache.rs: no
\* dangling id after a rollback, no stale id after CREATE EXTENSION, no id of
\* another database).
CacheNamesLiveTerms == \A p \in Position :
    Usable(slots[p], gen) => LiveRow(slots[p].fp, slots[p].id)

\* put_term answered from the cache returns an id that named the term in a
\* dictionary in force at some moment of the call, even when the extension is
\* recreated between the generation read and the probe (shmem_cache.rs lookup).
HitsAreSound == [][\A b \in Backend, t \in Term : LookupHit(b, t) =>
    \A i \in Hits(FingerprintOf(b, t), seen[b]) : \E r \in dict[Db(b)] :
        /\ r.term = t
        /\ r.id = slots[Probe(FingerprintOf(b, t), i)].id
        /\ r.era \in since[b] .. live[Db(b)]]_vars

\* The AbortSub callback compares ids only, with tags that releases leave as
\* they were; it drops exactly the entries staged inside the aborted
\* subtransaction or one released into it (#127).
AbortSubIsExact == [][\A b \in Backend : \A s \in open[b] :
    RollbackToSavepoint(b, s) =>
        pending'[b] = {e \in pending[b] : e.owner # s}]_vars

\* When one session at a time writes to a database, a term has one row there,
\* through savepoints, rollbacks, batches and cache answers alike (dict.rs:
\* "this single-backend batched path dedups correctly").
OneRowPerTerm == \A d \in Database : \A r, q \in dict[d] :
    (r.era = live[d] /\ q.era = live[d] /\ r.term = q.term) => r = q

\* The slots a lookup could trust and the rows in force implement the promise
\* of DictContract.
RowsInForce == [d \in Database |->
    {<<r.term, r.id>> : r \in {q \in dict[d] : q.era = live[d]}}]
KnownMappings ==
    {<<slots[p].fp, slots[p].id>> : p \in {q \in Position : Usable(slots[q], gen)}}

Contract == INSTANCE DictContract WITH rows <- RowsInForce, known <- KnownMappings
RefinesContract == Contract!Spec
=============================================================================
