# pgRDF in TLA+

pgRDF is a PostgreSQL extension: an RDF store, a SPARQL translator and their
satellites, written in Rust and run inside the backends of a PostgreSQL server.
The interesting state is not in Rust objects. It is in PostgreSQL tables, in one
block of shared memory, and in thread-local buffers that live from one
transaction callback to the next, and it is used by many sessions at once. These
modules model that state: what the sessions share, in which order they read and
write it, and what PostgreSQL undoes for them and what it does not.

Paths below are relative to the repository; the Rust code is under `src/src/`.

## 1. Inventory

| Component | State it keeps | Operations | What is hard about it |
|---|---|---|---|
| Term dictionary (`storage/dict.rs`, `sql/schema_v0_2_0.sql`) | table `_pgrdf_dictionary`, its identity sequence (per database) | `put_term`, `put_terms_batch`, `get_term` | SELECT, then INSERT, with no constraint that would stop a duplicate; subtransactions; DROP EXTENSION |
| Shared dictionary cache (`storage/shmem_cache.rs`, `storage/stats.rs`, `lib.rs`) | slot array `DICT_CACHE`, `GENERATION`, per-backend `PENDING` | `lookup`, `stage_for_commit`, the Commit, Abort and AbortSub callbacks, `shmem_cache_prewarm`, `shmem_reset`, the install hook | not transactional, shared by all databases, lost in a crash, must never answer with an id that was rolled back |
| Graph registry and partitions (`storage/hexastore.rs`, `storage/partition.rs`) | `_pgrdf_graphs`, one LIST partition per graph, `_pgrdf_graph_id_seq` | `add_graph` (three overloads), `create_graph`, `put_quad` | three stores for one fact; a sequence that no rollback undoes |
| Graph life cycle (`storage/graphs.rs`) | the same | `drop_graph`, `clear_graph`, `copy_graph`, `move_graph`, `carve_graph` | each checks before it waits; `move_graph` is two calls in one transaction |
| Graph locks (`storage/lock.rs`, `storage/integrity.rs`) | `locked`, `lock_reason` columns; two triggers on the partition | `lock_graph`, `unlock_graph`, `require_unlocked`, `graph_integrity` | a plain read guards every write path; only the triggers stand behind a read that has gone stale |
| Partition-DDL gate (`storage/partition.rs`) | one advisory transaction lock, and the table locks taken after it | every call that creates or drops a graph | a lock order across eleven calls, two tables and their partitions |
| Loaders (`storage/loader.rs`, `source_digest.rs`) | per-call batches, queues and dictionary caches; load records in the registry | `load_turtle`, `load_turtle_streaming`, `parse_turtle`, `parse_trig`, `parse_nquads`, the `dict_batched` forms, the bulk path | five ways to turn a term into an id; batches flushed while new graphs are still being resolved; two ways that look nothing up |
| Staged loader (`storage/staged/`) | shared job table (8 slots), worker slots, staging tables | coordinator, workers, phases PREP, STAGE, DICT, RESOLVE, INDEX | parallel background workers, each with transactions of its own; failure between phases; state that outlives the server |
| Transaction guard (`storage/txn_guard.rs`) | none | refuses the staged load inside a transaction block | the coordinator would wait for workers that wait for it |
| Freshness, inventory (`storage/freshness.rs`, `inventory.rs`) | recorded counts | verdict current, stale, never, unknown | a verdict from counts, taken while others write |
| SPARQL query (`query/parser.rs`, `executor.rs`, `values_graph_guard.rs`) | none | SELECT, ASK, CONSTRUCT, DESCRIBE: text to algebra to one SQL statement | a pattern tree flattened into one SELECT with shared anchors, NULL for unbound |
| Property paths (`query/path.rs`, `walk.rs`) | none | `scoped_triple_from_path`, the walk of `+` and `*` | depth and size limits, zero-length pairs, graph scopes, a shortcut over inferred rows |
| SPARQL UPDATE (`query/executor.rs`) | none of its own | INSERT/DELETE DATA, the modify forms, CREATE, CLEAR, DROP under one gate | several statements in one transaction, set semantics without a unique key, a fence read after the first write |
| CONSTRUCT ingest (`storage/construct_ingest.rs`) | none | `put_construct_rows` | the way back: every cell must become the term it was |
| Plan cache (`query/plan_cache.rs`) | per-backend map of prepared plans | get or prepare | plans outliving what they were planned for |
| Reasoner (`inference/reasonable.rs`) | inferred quads of a graph | `materialize` | no lock between its scan, its rows and its stamp |
| SHACL (`validation/`) | none | `validate` | delegated to external crates |
| Canonicalisation, diff, digests, export (`storage/canon.rs`, `fd1.rs`, `diff.rs`, `export.rs`) | the digest of a locked graph | `graph_digest`, `structural_digest`, `graph_manifest`, `export_graph`, `graph_diff`, `graph_diff_summary` | nodes that hash alike; budgets; labels must not matter |

How they interact: the loaders, SPARQL UPDATE and CONSTRUCT ingest intern terms
through the dictionary (and so through the cache), resolve graphs through
`add_graph` (and so through the gate, the registry and the sequence), and write
quads into partitions, past the fence and the triggers. There are no messages.
Components meet in shared tables, in shared memory, in PostgreSQL's lock
manager, and in the callbacks PostgreSQL runs when a (sub)transaction ends.

What makes each component correct:

- dictionary: a term has one id, and an id handed out names that term for as
  long as its row is in force;
- cache: whatever it answers is what the dictionary would answer; forgetting is
  always allowed, remembering something rolled back, replaced or foreign never;
- registry: an IRI, a row, a partition and an id come and go together, and an id
  never names two graphs;
- locks: a locked graph does not change, and its triggers and its flag agree;
- life cycle: no quad is lost by a move;
- gate: checks made under it stay true, and nobody waits for ever;
- loaders: what is stored is what the documents say, whatever path read them;
- staged loader: an answer of ok means loaded, and no slot or wait is left over;
- queries and paths: the answer is the one SPARQL defines, or a refusal;
- updates: the quads left are those SPARQL defines, each stored once;
- freshness: a graph called current lacks nothing its base entails;
- identity: equal digests if and only if the same graph.

## 2. Modules

| Module | What it is |
|---|---|
| `DictContract` | abstract: rows in force per database, and the partial view of them a cache may answer from |
| `DictCache` | the dictionary and its cache as the code runs them; implements `DictContract` |
| `DictCacheProofs` | theorems about `DictCache` for all constants |
| `DictContractProofs` | `DictCache` implements `DictContract`, and the theorems about its answers |
| `GraphCatalog` | the registry, partitions, locks, sequence, and every call on them |
| `GraphCatalogProofs` | theorems about `GraphCatalog` for all constants |
| `LockOrder` | the lock requests of the graph calls and loaders, in program order |
| `LockOrderProofs` | theorems about `LockOrder` for all constants |
| `StagedLoader` | the staged bulk loader: coordinator, workers, job and slot tables, failures, restarts |
| `StagedLoaderProofs` | theorems about `StagedLoader` for all constants |
| `Ingest` | the loaders that run in the caller's transaction, on every dictionary path |
| `IngestProofs` | theorems about the locks and the source records of `Ingest` for all constants |
| `IngestRowsProofs` | theorems about the dictionary rows and the stored rows of `Ingest` for all constants |
| `QuadStatements` | SPARQL UPDATE, `materialize` and the freshness stamp, statement by statement, next to appending writers and locks |
| `QuadStatementsProofs` | theorems about `QuadStatements` for all constants |
| `SparqlAlgebra` | reference: patterns and their solutions as SPARQL 1.1 (section 18) defines them |
| `SparqlTranslation` | SELECT and ASK as the executor translates them |
| `ConstructDescribe` | extends it with CONSTRUCT, DESCRIBE and `put_construct_rows` |
| `UpdateWhere` | extends that with the updates that have a WHERE |
| `PropertyPaths` | paths, the walk and its limits, the RDFS closure and the shortcut between them |
| `GraphIdentity` | extends it with canonicalisation, digests, export and diffs |
| `MCDictCache`, `MCGraphCatalog`, `MCLockOrder`, `MCStagedLoader`, `MCIngest`, `MCQuadStatements`, `MCSparql`, `MCStoredGraphs` | constants and symmetry sets for TLC |

### DictCache

| In the module | In the code |
|---|---|
| `dict`, `live`, `lastEra`, `lastId` | committed rows; which incarnation of the table is in force; its identity sequence |
| `gen`, `slots` | `GENERATION`, `DICT_CACHE` (`shmem_cache.rs`) |
| `pending` | thread-local `PENDING`: a fingerprint, an id, the subtransaction it was staged in |
| `open`, `lastSub`, `wip`, `touch`, `ddl` | PostgreSQL's side of a transaction: open subtransactions, uncommitted rows, the lock on the table, an uncommitted DROP and CREATE EXTENSION |
| `pc`, `arg`, `seen`, `since` | where a call is and its local variables |
| `LookupStart`, `LookupHit`, `LookupMiss`, `SelectFound`, `SelectAbsent`, `InsertTerm` | `put_term_full`, one action per statement |
| `BatchStart`, `BatchInsert`, `BatchEnd` | `put_terms_batch` |
| `Commit`, `ReadGeneration`, `Publish`, `FinishCommit` | COMMIT, then the Commit callback entry by entry, then lock release |
| `Abort`, `RollbackToSavepoint` | the Abort and AbortSub callbacks |
| `Prewarm`, `ShmemReset`, `RecreateExtension` | `shmem_cache_prewarm`, `shmem_reset`, the install script |
| `Restart` | postmaster restart: shared memory and open transactions vanish |

Two points deserve a reader's attention. `lookup` and `insert_slot` read the
generation *before* they take the lock on the slots, so the read and the probe
are two steps here. And the tag of a staged entry is the id of the subtransaction
it was staged in, while what it belongs to after RELEASE is the parent: `owner` is
a history variable that says so, and `AbortSubIsExact` compares the two.

`DdlAfterIntern` is FALSE where a transaction that has staged mappings does not
also recreate the extension. Where it may, the cache does publish a dead id; see
Known failures. `Batching` bounds the sessions that call `put_terms_batch`.

### GraphCatalog

Every call is a transaction of its own. Its fence and lookup are the `...Start`
action. It may then wait, for the gate or for a table lock, and its effect is one
more step, guarded by the locks it needs. `move_graph` is three: it copies
(`MoveCopy`), keeping the gate and its table locks, and then drops (`MoveDrop`).
Between the steps any other session may run.

| In the module | In the code |
|---|---|
| `iriOf`, `lockedBy` | `_pgrdf_graphs`: `iri`, and `locked` with `lock_reason` (whose reason stands) |
| `part`, `trig`, `rows` | the partitions, the two refuse-triggers, the quads |
| `seq` | `_pgrdf_graph_id_seq`: `last_value`, `is_called` |
| `gate` | the advisory lock, where it is held across steps |
| `used` | history: ids that ever named a graph |
| `CanPartition` | CREATE TABLE ... PARTITION OF fails while the default partition has rows of the id |
| `StagedResolve` | the RESOLVE phase of the staged loader, as far as the catalog sees it |

`FreshInstall` distinguishes CREATE EXTENSION (sequence never called) from an
upgraded database (`sql/pgrdf--0.6.38--0.6.39.sql` seeds the sequence). `Calls`
bounds which calls with more than one step an instance makes.

### LockOrder

Each call is the sequence of locks it requests, cut where the code looks whether
a graph exists: `First` before the check, `Second` after it, `Third` after the
second check `add_graph(iri)` makes under the gate. One body per call
(`DropBody`, `CopyBody`, `LoadBody` and so on) is translated from that function.
Modes are PostgreSQL's, with their conflicts: ACCESS SHARE, ROW EXCLUSIVE, SHARE
ROW EXCLUSIVE, ACCESS EXCLUSIVE. A lock is kept to the end of the transaction. A
request conflicts with locks held by others and never with its own.

`Apart` is an operating rule and not something the code enforces: no lock, unlock,
load or clear of a graph runs while that graph is being dropped, moved or cleared
(or moved into). `LocksOrdered.cfg` sets it. Without it there are cycles:
`lock_graph`, `unlock_graph` and `load_turtle` lock the registry row and then the
partition, and `drop_graph` takes the partition and then the row. Two
`clear_graph` of one graph upgrade against each other. PostgreSQL ends such a
cycle by aborting one call, so nothing is lost but the call.

### StagedLoader

| In the module | In the code |
|---|---|
| `jobs`, `wslots`, `nextJob` | the job table, the worker slots and `NEXT_JOB_ID` in shared memory (`staged/jobctl.rs`) |
| `worker` | the background worker registered for a slot: none, registered, running, exited |
| `coord` | what the backend that runs `load_turtle_staged_run` has got to (`staged/pool.rs`) |
| `dict`, `ix`, `stg`, `quads` | rows per term, indexes, staging tables (unlogged) and rows of the loaded graph, per database |
| `Begin`, `Spawn`, `Startup`, `PhaseEnd`, `Final`, `Combined` | claim a job; claim a slot and register a worker; wait for its start; wait for its end and go on; the final statements; the fallback load |
| `Prep`, `Stage`, `Dict`, `Resolve`, `Index` | the phase bodies of `staged/phases.rs`, each the effect of one worker's committed transaction |
| `WorkerDone`, `WorkerFail` | with or without a report in the slot |
| `Outage` | a crash empties unlogged tables, a clean restart keeps them; both reset shared memory |

A file is a sequence of triples and a term's dictionary rows are counted, so that a
doubled term and a join that doubles triples are visible (`Joined`).

### Ingest

One step is one SQL statement, or the look-ups of one line. The five dictionary
paths (baseline, combined, batched, bulk, stream) share the reading of lines, the
batches (`Flush`), the graph resolution of quads (`Bind`, `Create`) and the source
record (`Record`), and differ in `BaselineLine`, `CombinedLine`, `FlushDefer`,
`PutChunk` and `InsertNew`. A statement of the combined path waits in `pending` with
its keys, fixed when its line was read; on the other paths the terms wait and the
keys are formed when every id is known (`DrainKeyed`). `Wants` and `held` are the locks of the statements;
`Stuck` is a deadlock, and `Victim` is PostgreSQL breaking it. A staged load is one
step here.

### QuadStatements

Each session works through a list of SQL statements (`work`), which sees what is
committed when each starts and what its own transaction wrote. A stored row is a
numbered copy of a quad, since the table has no unique key: `InsertRow` is
`insert_quad` with its NOT EXISTS, `DeleteFound` a DELETE that has found its rows
and may have waited for them, `SolveWhere` and `SolutionRow` the modify forms,
`TouchGraph` the fence that is read after the first write, `Reason`, `InferRows` and
`StampGraph` the steps of `materialize`. `Status` is the column of
`graph_inventory`. `Operation` is what the statements of an UPDATE are made of;
`Updates` bounds the UPDATEs an instance tries.

### SparqlAlgebra, SparqlTranslation, ConstructDescribe, UpdateWhere

`SparqlAlgebra` is the reference: the operators of section 18 and their solutions,
written from the W3C recommendation. It models no code. `SparqlTranslation` follows
`executor.rs`: `Subst` (BIND), `Distribute` (UNION), `Walk` (the pattern tree into
the parts of one SELECT), `ConnectedOrder` (the join order), `Scan`, `ValuesTable`,
`OptionalJoin`, `MinusRows` (what the generated SQL returns, by anchors and NULL),
`Grouped`, `PlainRows` and `Sliced` (the modifiers), `Fails` (the refusals).
`ConstructDescribe` adds the templates, `BNodeMinter`, the closure of DESCRIBE and
the way back; `UpdateWhere` the modify forms: `WhereFails` before any row, then
`Apply` solution by solution in any order.

### PropertyPaths, GraphIdentity

`PropertyPaths` has one variable, the stored rows with their inferred flag; loads,
deletes and materializations change it, and everything else is an operator on it:
`Classify`, `Relation`, the walk with its limits, `Answer`, `RdfsClosure`.
`GraphIdentity` reads the same rows: `HashFirstDegree`, `HashRelated`,
`HashNDegree` and `Distinguish` are RDFC-1.0 step by step, `StructuralDigest`,
`Manifest`, `Components`, `GraphDiff` and `DiffSummary` the rest. A hash is its
text in brackets, which is an injective hash.

## 3. What is checked

| Run | Asks | Result | Distinct states |
|---|---|---|---|
| `dict_sessions` | two sessions of one database, one term, everything that can happen to the cache: `TypeOK`, `CacheNamesLiveTerms`, `HitsAreSound`, `RefinesContract` | holds | 0.36 M |
| `dict_databases` | two databases share colliding slots, one of them with savepoints: `CacheNamesLiveTerms`, `OneRowPerTerm`, `AbortSubIsExact` | holds | 1.5 M |
| `graph_lifecycle` | create, drop, put, move, lock, unlock: `CatalogAgrees`, `LockCustody`, `IdsNeverReused`, `ReasonKept` | holds | 1.5 M |
| `graph_staged` | every call, the staged loader included: `TriggersHoldTheFence` | holds | 0.18 M |
| `locks_ordered` | every call but the quad loaders, kept `Apart`: `NoDeadlock`, `AnswerStands`, `CallsReturn` | holds | 50 k |
| `staged_load` | one load and one ping share the job and slot tables, workers fail or die silently, the server crashes: `LiveWorkersOwnTheirSlots`, `JobsAreOwned`, `OkMeansLoaded`, `CallsReturn` | holds | 0.21 M |
| `staged_restart` | `OkMeansLoaded` where the server may be restarted cleanly | violated | |
| `ingest` | two loads on every dictionary path, side by side or in turn, aborted anywhere: `RowsAreTheDocuments`, `OneRowPerTerm`, `DigestOfLatest`, `OnlyRebuildsDeadlock`, `LoadsReturn` | holds | 43 k |
| `quad_statements` | two sessions interleave UPDATEs, `materialize` and appending writers with locks: `NoTwoFromUpdates`, `CurrentIsComplete`, `LockedRowsStand` | holds | 2.2 M |
| `query_answers` | queries of up to three pattern operators and updates with a WHERE, on every set of six quads in three graphs: `AnswersAreSparql`, `PagesAreOrdered`, `JoinsStayConnected`, `ConstructIsSparql`, `DescribeIsClosure`, `RoundTripIsExact`, `UpdatesAreSparql` | holds | 0.45 M |
| `construct_union` | `BesideUnionIsRefused` for CONSTRUCT | violated | |
| `stored_graphs` | every store that loads, deletes and materializations of two graphs reach: `WalksAreSparql`, `CutsAreExact`, `ShortcutIsClosure`, `ClosureIsEntailment`, `DigestsNest`, `DiffIsExact` | holds | 11 k |

`graph_staged` is a run of its own because `CatalogAgrees` does not hold where a staged
load brings a graph nobody registered: RESOLVE makes a partition and no registry
row. The properties about answers (`AnswersAreSparql` and those after it) are
conditional: they say what the code computes for the queries that `Conforms`,
`ConstructConforms`, `UpdateConforms` and `Ordinary` describe. What it does outside
them is listed under Divergences.

### Bounds, and why they are enough

- *Sessions*: two. Every hazard listed in PROJECT.json is a race of two parties:
  a reader and a resetter, a checker and a changer, a holder and a waiter. The
  theorems of section 4 hold for any number.
- *Cache*: two slots, with all fingerprints colliding, so every probe streak
  overlaps; four keys (two terms in two databases) evict each other.
- *Batches*: in `dict_databases` one session, the one with savepoints, calls
  `put_terms_batch` besides `put_term` (`Batching`), the other only `put_term`; in
  `dict_sessions` both batch. A batch reaches the cache of the other database by the
  same callbacks as a single term, and the theorems do not bound `Batching`.
- *Generations and incarnations*: `MaxGen` 3 and `MaxEra` 2 give a stale generation,
  the present one and one that arrives in the middle of a call.
- *Subtransactions*: `MaxSub = 2` lets one be open in the other, be released into it
  and rolled back with it.
- *Rows*: `MaxId` is a bound on the identity sequence. Two ids per incarnation give
  a duplicate row or a row replaced after a rollback.
- *Graphs*: ids 0 to 2 (0 is the default graph). Id 1 is the boundary of the
  sequence; a move needs two graphs besides. In `graph_staged` ids 0 and 1.
- *Quads and names*: one of each. No property depends on which quad it is.
- *Lock graphs*: two, since a copy or a move names two; a third would only
  repeat one that no running call names.
- *Staged loads*: two job slots, six worker slots, two workers a phase and a file of
  two lines that share a term, which two ranges read at once; two job ids, so that
  a second load meets what the first left.
- *Documents*: two lines and batches, queues, windows and id blocks of one or two,
  so that each of them fills in the middle of a document and at its end.
- *Statements*: two triples, one inferred from the other, two copies of a quad.
- *Queries*: three operators make every pair of neighbours in the tree; the six
  quads give joins that match in one graph, in another and across; `n1` and `n2`
  sort one way as numbers and the other way as text. Blank nodes named as
  `BNodeMinter` would name them are in two further databases.
- *Stores*: a chain and a cycle of three classes, longer than the depth limit of
  two; two cycles of two blank nodes and one of four, which only the n-degree hash
  tells apart; stars and knots that take more than one permutation.

Deadlock checking is on for the cache, the catalog, the locks, the staged loads and
the stores. It is off for `ingest` (loads are bounded, and then nothing is left to
do), for `query_answers` and `construct_union` (a query is answered once), and for
`quad_statements` (`MaxCopy` stops appending writers).

### Fairness

- `CallsReturn` of `LockOrder`: a call that has its answer goes on by itself, so
  `Check` and `Commit` are weakly fair. `Acquire` is strongly fair: PostgreSQL's lock
  queues serve a waiting request before later conflicting ones, so a request that
  keeps becoming grantable is granted. Nothing forces a call to begin, and nothing
  forces one to abort: the deadlock detector must not be what makes calls return.
- `CallsReturn` of `StagedLoader`: coordinators and workers take the steps they can,
  a worker whose statement must fail fails, and a transaction block ends. No worker
  is forced to succeed, none to fail.
- `LoadsReturn`: the server runs the next step of a load (`Work`), which includes
  breaking a deadlock it is in (`Victim`), since the detector runs after
  `deadlock_timeout`. Aborts by the client are not forced.

### Findings

1. `staged_restart`. `NEXT_JOB_ID` is in shared memory and names the staging table
   (`jobctl.rs:70`). A load fails after STAGE, the server is restarted cleanly,
   and the next load is job 1 again: it stages into the table the first one left
   and answers ok with the rows of both files.
2. `construct_union`. "Any group-level construct over a UNION refuses"
   (`CHANGELOG.md:533`). A CONSTRUCT with a variable or a label in its template
   drops the UNION without an error and answers from what stands beside it.

### Known failures

Statements that some part of the repository makes and that fail in these models.
They have no run; the constant or the condition that keeps them out is named.

- *A transaction interns a term and recreates the extension* (`DdlAfterIntern`).
  `lib.rs:241` says a fresh extension cannot inherit a stale cache "by
  construction". BEGIN; put_term; DROP EXTENSION; CREATE EXTENSION; COMMIT publishes
  the old id under the new generation, because the flush reads it after the bump.
- *Ids on a fresh install* (`FreshInstall`). "Ids are never reused"
  (`hexastore.rs:127`). `setval` is skipped for id 1, since it asks for an id greater
  than `last_value`, which is 1 and not yet called. `add_graph(1)`,
  `drop_graph(1)`, `add_graph(iri)` gives 1 again.
- *`LockedGraphsKeepRows`* (`GraphCatalog`). `drop_graph` reads the fence, waits for the
  gate, and drops a graph locked meanwhile ("against every engine write path",
  `lock.rs:177`).
- *`MoveLosesNothing`* (`GraphCatalog`). A quad committed into the source between the
  copy and the drop is lost ("Migrate every quad", `graphs.rs:332`).
- *Two quad loads* (`"dataset" \in Calls`, `LockOrder`). "The advisory gate is always
  the OUTERMOST lock" (`partition.rs:79`). `parse_trig` and `parse_nquads` flush a full
  batch of default-graph quads and take the gate later, at the first unknown
  graph IRI, so two of them can wait for each other. (`Ingest` leaves the parent's
  lock to `LockOrder`; its `OnlyRebuildsDeadlock` is about the other locks of a load.)
- *`OnePhaseOfSlots`* (`StagedLoader`). "The phases are sequential, so STAGE and INDEX
  never hold slots at once": slots are freed at the end of a job, so they do.
- *`Meanwhile`* (`StagedLoader`). Another session interns a term between PREP's look at
  the empty dictionary and DICT: the term gets two rows and the join in RESOLVE
  doubles the triples, with the answer ok.
- *A slot per key* in the cache: a flush that captured an older generation may
  overwrite a newer slot of the same key. It costs a duplicate, never a wrong id.

### Divergences from SPARQL and from the documents

The models contain these behaviours; the properties leave them out.

Queries. A MINUS inside GRAPH ?g looks in a graph of its own (executor.rs:89 says it
inherits the outer one). A GRAPH variable that is also a triple variable is not
joined, and its BIND is NULL. A variable first bound by OPTIONAL or UNDEF equals
nothing afterwards. BIND over a UNION gives NULL. GROUP BY and DISTINCT go by
lexical values. COUNT(DISTINCT *) loses its DISTINCT, SELECT DISTINCT is ignored
with aggregates, SUM of nothing is NULL. ORDER BY puts unbound last in both
directions. The LIMIT and DISTINCT of a nested SELECT are lifted out of it.

CONSTRUCT and DESCRIBE. LIMIT is ignored where the template has variables or
labels. VALUES of a GRAPH variable is not refused. A variable a BIND gives comes as a
literal of a guessed datatype. Triples with a literal subject are emitted (SPARQL
skips them) and then refused by `put_construct_rows`. The labels made are
`b{solution}_{n}` and join stored nodes of that name on the way back. DESCRIBE drops
a UNION beside a group and panics on LIMIT.

Updates. A modify goes solution by solution, where SPARQL deletes for all and then
inserts for all; executor.rs:8841 says its order matches the specification. With
`DELETE {?x p ?y} INSERT {?y p ?x}` on a pair of mutual edges, what one solution
inserts the next may delete. A solution that leaves one template variable
unbound is skipped whole. Blank nodes and GRAPH variables in templates, UNION in the
WHERE and template variables a BIND gives are refused. An inserted quad
that is stored as an inferred row stays inferred, and the next `materialize` may take
it away.

Paths. The closure shortcut (executor.rs:7180 calls it equivalent) reads stored
rows: it is stale after a change of the base, crosses graphs in the scope of all
graphs, and does not see blank classes or `owl:sameAs`. A `*` seeded with a
variable bound in another graph gives that node to itself.

Loading. `load_turtle` on the bulk and `dict_batched` paths never asks the fence
(lock.rs:11 says every ingest does); the triggers do. The bulk and streaming
loaders skip statements they cannot read and ignore the base IRI. The bulk loader
locks nobody out below `DeferMin`, so its empty dictionary may be stale: two rows
per term. The staged loader decides from the first 200 lines and skips Turtle lines
after them (loader.rs:2620 says Turtle always uses the full parser). A load that is
not recorded leaves `source_loads` as it was. Equal blank-node labels of two
documents are one node. PREWARM_DONE survives an abort. Clearing, copying or moving a
graph leaves its source columns.

Identity. A quad stored twice doubles its line, so two digests of one graph may
differ. `graph_digest` reads custody, then rows, then stores the digest (canon.rs:438):
an unlock, a write and a lock in between leave a stale one. `graph_diff` counts triples
with a literal subject as ground, `graph_digest` skips them.

Catalog. Two sessions that meet the same new term may each insert it
(`dict.rs:167` says so); `OneRowPerTerm` of `DictCache` is checked with one writer per
database. RESOLVE creates a partition without moving the sequence
(`staged/phases.rs:1004`), which the theorem `IdsFresh` excludes. `clear_graph(0)` looks
for `_pgrdf_quads_g0`, and default-graph rows live in `_pgrdf_quads_default`. Graph 0
may be locked while it has no partition; a second `lock_graph(0)` then overwrites
the reason, and `add_graph(0)` makes a partition without triggers. `LockCustody`,
`ReasonKept` and `LockedGraphsKeepRows` are therefore stated of the other graphs. A
`put_quad` just after a drop leaves rows of the id in the default partition, and a
later `add_graph` of that id fails.

## 4. What is proved

All proofs are for every value of the constants that satisfies the named
assumption (`CacheAssumption`, `CatalogAssumption`, `LockAssumption`,
`StatementAssumption`, `LoaderAssumption`, `IngestAssumption`). These say what kind of thing a constant
is (a positive bound, a null value apart from the real ones, a finite set of
graphs, a set of documents) and never how many there are. A hypothesis beyond them stands in the theorem
itself.

`DictCacheProofs`

- `TypeCorrect`: `Spec => []TypeOK`.
- `CacheNeverPoisoned`: `~DdlAfterIntern => (Spec => []CacheNamesLiveTerms)`.
- `AbortSubExact`: `~DdlAfterIntern => (Spec => AbortSubIsExact)`.

`CacheNamesLiveTerms` is not inductive: a slot is written from `pending`, and
what makes a staged id good is only visible in the transaction that staged it. The
inductive invariant `IInv` adds, per backend, `TxnOK`: `HoldingsOK` (what an open
transaction may hold), `TagsOK` (tags are ids of subtransactions that were open,
and compare with `owner` as the AbortSub callback needs), `StagedOK` (each staged
entry is backed by a committed row, or by a row of the same transaction that rolls
back no earlier than the entry is dropped), `CommittedOK` (between COMMIT and the
end of the callback the entries are backed by committed rows). To these it adds,
across backends, `ExclusiveOK` (DROP EXTENSION is alone with the table),
`GenerationsOK` (no slot and no reader is ahead of `gen`) and
`ColdWhileRecreating` (no slot of the present generation names a dictionary being
replaced). The argument in a sentence: an entry and the row behind it are dropped
by the same rollback, a slot written late under an old generation is unreadable,
and the lock kept since the SELECT holds off the DROP that would kill the row.

`DictContractProofs`

- `ContractImplemented`: `~DdlAfterIntern => (Spec => RefinesContract)`. The rows in
  force are the committed rows of the live incarnation; what is known is what a probe
  under the present generation could answer. COMMIT is the contract's step that adds
  rows or replaces a dictionary, `Publish` and `Prewarm` are steps that learn, an
  eviction, a reset and a restart are steps that forget, and every other action
  stutters. That a step may learn only from a row in force is `CacheNamesLiveTerms`
  after the step; that a dictionary is replaced only while nothing of it is known is
  `ColdWhileRecreating`.
- `TermsAreSingle`: `OneWriter => (Spec => []OneRowPerTerm)`, with or without
  `DdlAfterIntern`. Two sessions of one database may each insert a new term
  (`dict.rs:167`), so `OneWriter` is needed. `RowsInv` extends uniqueness to the rows a
  session holds uncommitted (`Held`) and says that what a SELECT or an anti-join missed
  is still missing when the INSERT comes (`AbsentOK`).
- `CacheAnswersSound`: `~DdlAfterIntern => (Spec => HitsAreSound)`. The hard part is
  the gap between the read of the generation and the probe. `LookupOK` says that a slot
  the probe may still use names a row of an incarnation that was in force at some
  moment since the call began: a slot that became usable later is of the generation
  read, which no re-creation has ended. `ErasOK` orders the incarnations.

`GraphCatalogProofs`

- `TypeCorrect`: `Spec => []TypeOK`, with the gate held exactly by a mover
  between copy and drop.
- `TriggersHold`: `Spec => TriggersHoldTheFence`. The step of interest is `MoveDrop`,
  which writes its destination without looking at triggers. `MoverOK` says that
  nobody can have put triggers there since the copy.
- `RegistryAgrees`, `LocksAgree`, `ReasonsStand`: the registry, the custody and the
  standing reason, for instances without the staged loader. `CustodyInv` is their
  joint invariant. `LockCustody` alone is not inductive, because an unlock that read
  a lock since dropped must find neither flag nor triggers.
- `IdsFresh`: `IdsNeverReused` without the staged loader and from an upgraded
  sequence. `SequenceOK` says the sequence is past every id ever used, which is what
  the skip in `FirstId` misses on a fresh install.

`LockOrderProofs`

- `TypeCorrect`: `Spec => []TypeOK`.
- `AnswersStand`: `Spec => []AnswerStands`, for every set of calls, the quad loads
  included, and with or without `Apart`. The invariant `IInv` says that what a
  session holds and what it still asks for are the two parts of one plan, fixed by
  its call and the answers it got (`OnPlan`), that no two sessions hold conflicting
  locks (`LocksAgree`), and that a graph found without the gate needs no gate
  (`FoundAtOnce`). Whoever changes the set of graphs then holds the gate and the
  parent in ACCESS EXCLUSIVE, and one of the two stands against every settled answer.
- `DeadlockFree`: `Apart /\ "dataset" \notin Calls => (Spec => []NoDeadlock)`. Both
  hypotheses are needed: section 2 names the cycles without `Apart`, and
  Known failures one of two quad loads. Every waiting session takes one of five stances (`StanceOf`,
  read off the plans): it holds nothing; it holds the gate but not yet the parent
  (`GateEarly`); without the gate, it waits for a registry row (`OnRow`) or for
  something after it (`Beyond`); it holds the gate and the parent, or only reads or
  writes a partition (`GateLate`). In this order, a session waits only for sessions
  further on (`RowsWaitNot`, `BeyondWaitsNot`, `LateWaitsNot`, `OneGate`), so the
  last ones wait for nobody. `Peaceful` and `FoundStays` are what `Apart` gives: a
  row locked by a load exists, so it is not the row a gate holder creates.

`QuadStatementsProofs`

- `TypeCorrect`: `Spec => []TypeOK`. A session's list of statements is built by
  flattening those of its operations, so this rests on the lemma `Flattened`, which
  finds the least prefix on which flattening would go wrong and shows there is none.
- `LockedStands`: `Spec => LockedRowsStand`. UPDATE reads the fence after its first
  write, so a session may hold rows of a graph that is being locked. `LocksOK` says
  that whoever holds an uncommitted row of a graph also holds a lock on its table
  (`Guarded`), and that no session holds rows of a named graph that is locked
  (`KeepsOff`): the lock waits for the writer, and the triggers meet those after it.
- `UpdatesAreSets`: `Spec => []NoTwoFromUpdates`, for any sessions and any operations.
  `TwinsOK` adds to the stored rows what an UPDATE sees (`View`): the committed rows it
  does not delete and its own. Its NOT EXISTS looks there, and as it holds the gate
  to the end, the sessions that commit in between are not UPDATEs.
- `CurrentGraphsAreComplete`: `Spec => []CurrentIsComplete`, for any reasoner
  (`Entails`). Equal counts do not mean equal sets, so the invariant `StampsOK` keeps
  the set behind the number: while no row was lost, a stamp is the cardinality of a set
  of asserted rows that are all still there, and everything derived from them is
  stored (`StampTrue`). If the count is equal again, that set is all the asserted rows.
  `Run` follows one `materialize` through its scan, its rows and its stamp, beside
  writers that commit between them.

`StagedLoaderProofs`

- `TypeCorrect`: `Spec => []TypeOK`.
- `LiveWorkersKeepSlots`: `Spec => []LiveWorkersOwnTheirSlots`.
- `JobSlotsOwned`: `Spec => []JobsAreOwned`.

The three rest on one invariant, `Custody`, since not even the types hold without it:
a worker finds its database and its staging table through the job slot its
worker slot names. A coordinator between `Begin` and its answer holds its job slot
(`HoldsJob`) and the worker slots it has claimed (`HoldsSlots`), and goes on only when
every shard was tried and every worker it started has started (`KeepsPace`). The slot
of a live worker is one its job's coordinator has claimed (`Bound`), and a job slot
in use is held by such a coordinator or was given up in the final statements (`Used`).
`KeepsPace` is what the second theorem needs: slots are freed at the end of a job,
and by then no worker of it is registered or running. The theorems cover crashes
and clean restarts (`Outage`), refused workers, and silent deaths.

`IngestProofs`

- `OnlyRebuildsDeadlockAlways`: `Spec => []OnlyRebuildsDeadlock`. The invariant
  `Locking` says that jobs are well formed (`Jobs`), what a session holds and asks for
  at each station of its path (`Custody`), and that no two sessions hold conflicting
  locks (`LocksAgree`). In a circle without a rebuild every member waits for a record,
  for the gate or for the registry behind the gate. None of them has a record open: a load that
  is recorded names only its own graph and never asks for the gate. So each waits
  for one that holds the gate, and that one waits for another that holds it too.
- `DigestOfLatestAlways`: `Spec => []DigestOfLatest`. `begin_source_record` reads the
  counter and `finish_source_record` writes the digest at the end. `Recording` says that
  the counter a load has read is still the committed one plus one, because it holds the
  row's lock from the one to the other.

`IngestRowsProofs`

- `OneRowPerTermAlways`: `Spec => []OneRowPerTerm`, on all dictionary paths together.
  Besides `Locking` the invariant has two parts. `Numbered` says that every id came out
  of the sequence once. The hard case is the streaming loader, which takes a number
  with `nextval`, moves the sequence a block further in a second step, and hands out
  the block from memory. `Stocked` says that such ids are behind the sequence, in no row
  and in nobody else's stock, and that the dictionary is locked out as long as there
  are any; `Course` says which path takes which steps. `Single` says that as long as
  loads run one by one, keys are unique among all rows and a rebuild past its probe
  runs on an empty dictionary. So a path that looks before it inserts sees every row
  there is, and one that does not look has all rows in its cache (`Sound`). For each
  path a lemma says what rows it adds; `NumberedStep` and `SingleStep` conclude for all
  of them.
- `RowsAreTheDocumentsAlways`: `Spec => []RowsAreTheDocuments`. A statement read may be
  in one of three places before it is committed: among the rows a load has written
  (`out`), in the batch that waits for its insert, or among the statements that wait for
  ids. `Books` says that, for every statement, these three together come to at least
  what the path must store of the lines read so far and at most what it may. What may
  wait where is `Stage`: the combined path settles keys as it reads, the batched path
  keeps statements as they were read, and between two rounds nothing waits. `Names` says
  which graph ids the load has learned: those of the registry, or those it has created
  itself, and then it holds the gate until it commits. The three are `Loading`.
  `Faithful` says of the committed rows what the documents of the log promise, per
  statement; a commit adds the load's books to it, and no other step touches it. That
  the rows can be read back at all needs `Numbered`: an id in a row is the id of one term,
  and a row that was added takes back nothing that a stored row says (`ReadsBack`). How
  often a statement occurs is counted with `Often`, whose lemmas are proved by
  induction on the length of a sequence, each for one set written out in full.

### Only model-checked

- `OkMeansLoaded`: it holds as long as the server does not restart in the load
  (`staged_restart`), and its phases count rows by joins (`Joined`), a sum over a
  file. The counting lemmas of `IngestRowsProofs` are a start.
- All of `SparqlTranslation`, `ConstructDescribe`, `UpdateWhere`,
  `PropertyPaths` and `GraphIdentity`. The query, path and identity modules are
  recursive over patterns, paths and permutations: tlapm has no backend for RECURSIVE
  operators, and the library's induction theorems take an operator as a parameter.
- Liveness under fairness (`CallsReturn`, `LoadsReturn`) and ENABLED.

## 5. What is not modelled, and why

- *Expressions*: string functions, computed BINDs, EXISTS, dates; FILTER compares ids
  and numbers. Nested SELECTs and the CONSTRUCT WHERE shorthand. The SPARQL text
  itself is parsed by an external crate.
- *Text*: escaping, formatting and paging of results and exports; malformed JSON.
- *Privileges* (`can_*_graphs`, the owner switch, ACL inheritance): they only add
  refusals.
- *The cached digest of a locked graph* and the call budget of the canonicalisation.
- *Catalog queries* (`orphan_partitions`, `ownership_drift`): they read and change
  nothing.
- *Statistics counters*, GUC settings, the surface manifest, packaging: no behaviour
  that another component depends on.
- *The plan cache*: a per-backend map from SQL text to a prepared plan, whose
  parameters are ids. PostgreSQL replans; no state is shared.
- *PREPARE TRANSACTION*: off by default and not used in the repository. Whether
  `PENDING` survives it depends on pgrx hooks that are not in the sources.
- *SHACL and OWL 2 RL*: computed by external crates.
- *`loader_ta11.rs`*: benchmark spikes.

## 6. What could follow

1. `LockOrder`: the bulk and staged loads, carving, SPARQL UPDATE, and transactions of
   several calls, with their proofs.
2. `GraphCatalog` with the digest of a locked graph.
3. With the counting lemmas of `IngestRowsProofs`, a theorem for `OkMeansLoaded` of
   `StagedLoader`.
4. Nested SELECT and computed expressions in `SparqlTranslation`.
