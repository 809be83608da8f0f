---------------------------- MODULE StagedLoader ----------------------------
(***************************************************************************)
(* The staged bulk loader (src/storage/staged: jobctl.rs, pool.rs,         *)
(* phases.rs).                                                             *)
(*                                                                         *)
(* A coordinator - the backend that runs load_turtle_staged_run - claims a *)
(* job slot in shared memory and drives the phases PREP, STAGE, DICT,      *)
(* RESOLVE and INDEX.  For each phase it claims a worker slot per shard,   *)
(* registers a background worker bound to it, waits for all of them to     *)
(* start and to exit, and reads their outcome from the slots.  A worker    *)
(* runs one committed transaction, reports into its slot and exits.        *)
(*                                                                         *)
(* A worker's transaction is one step, taken when it commits.  It may fail *)
(* at any time, and it may end without reporting (a FATAL while it         *)
(* connects, a SIGTERM after its commit).  The server may crash, which     *)
(* empties unlogged tables, or be restarted, which keeps them; both reset  *)
(* shared memory, the job counter included.                                *)
(*                                                                         *)
(* A term's dictionary rows, and the occurrences of a triple, are counted  *)
(* to Many.  Session settings, the timing counters, and the split of the   *)
(* file into byte ranges (StagedTerms) are left out.                       *)
(***************************************************************************)
EXTENDS Integers, Sequences, FiniteSets, FiniteSetsExt

CONSTANTS Coordinator, NoCoordinator,
          Loader, Pinger,         \* bounds: who loads, who runs the ping
          Database, DbOf,         \* the database each coordinator is connected to
          Term, File,             \* a file: a sequence of triples <<s, p, o>>
          MAX_JOBS, MAX_SLOTS,    \* sizes of the two shared tables
          Width, PingWidth,       \* STAGE and PING workers asked for (n_workers)
          Ddl,                    \* index_ddls: the indexes of the INDEX phase
          Exclusive,              \* those that lock out every reader of the dictionary
          Meanwhile,              \* TRUE: other sessions intern terms during a load too
          Outages,                \* subset of {"crash", "restart"}
          MaxJobId                \* bound on NEXT_JOB_ID

JobIdx  == 0 .. MAX_JOBS - 1
SlotIdx == 0 .. MAX_SLOTS - 1
JobId   == 1 .. MaxJobId
Many    == 0 .. 2
Triples == UNION {{f[i] : i \in DOMAIN f} : f \in File}

ASSUME LoaderAssumption ==
    /\ MAX_JOBS \in Nat \ {0} /\ MAX_SLOTS \in Nat \ {0}
    /\ Width \in Nat \ {0} /\ PingWidth \in 1 .. Width /\ MaxJobId \in Nat \ {0}
    /\ NoCoordinator \notin Coordinator
    /\ DbOf \in [Coordinator -> Database]
    /\ Ddl # {} /\ Exclusive \subseteq Ddl
    /\ File \subseteq Seq(Term \X Term \X Term)
    /\ Outages \subseteq {"crash", "restart"}

Phases == <<"PREP", "STAGE", "DICT", "RESOLVE", "INDEX">>
Phase  == {Phases[i] : i \in DOMAIN Phases} \cup {"PING"}
Shard  == (0 .. Width) \cup Ddl

VARIABLES
    jobs, wslots, nextJob,  \* shared memory: JOBS, WSLOTS, NEXT_JOB_ID
    worker,                 \* the background worker registered for each slot
    coord,                  \* the coordinators
    open,                   \* sessions inside a transaction that has read the dictionary
    dict, ix, stg, quads    \* dictionary, indexes, staging tables and graphs per database

shmem  == <<jobs, wslots, nextJob>>
tables == <<dict, ix, stg, quads>>
vars   == <<jobs, wslots, nextJob, worker, coord, open, dict, ix, stg, quads>>

FreeJob  == [used |-> FALSE, id |-> 0, state |-> "IDLE", db |-> CHOOSE d \in Database : TRUE,
             by |-> NoCoordinator]
FreeSlot == [used |-> FALSE, job |-> 0, phase |-> "PREP", shard |-> 0, status |-> 0]
\* pc: idle, spawn, startup, shutdown (of a phase), final, combined.
Idle     == [pc |-> "idle", job |-> 0, id |-> 0, phase |-> "PREP", todo |-> {},
             claimed |-> {}, failed |-> FALSE, file |-> <<>>, answer |-> "none"]
NoTable  == [t \in Triples |-> -1]
Empty    == [t \in Triples |-> 0]
Capped(n) == IF n > 2 THEN 2 ELSE n

Init ==
    /\ jobs = [j \in JobIdx |-> FreeJob]
    /\ wslots = [w \in SlotIdx |-> FreeSlot]
    /\ nextJob = 1
    /\ worker = [w \in SlotIdx |-> "none"]
    /\ coord = [c \in Coordinator |-> Idle]
    /\ open = {}
    /\ dict = [d \in Database |-> [t \in Term |-> 0]]
    /\ ix = [d \in Database |-> Ddl]
    /\ stg = [d \in Database |-> [i \in JobId |-> NoTable]]
    /\ quads = [d \in Database |-> [c \in Coordinator |-> Empty]]

-----------------------------------------------------------------------------
\* jobctl: the accessors of the shared tables.

FreeJobs  == {j \in JobIdx : ~jobs[j].used}
FreeSlots == {w \in SlotIdx : ~wslots[w].used}

\* release_job: the job, and every worker slot that points at it.
SlotsFreed(j) ==
    wslots' = [w \in SlotIdx |->
                   IF wslots[w].used /\ wslots[w].job = j THEN FreeSlot ELSE wslots[w]]
\* (Mutant: the job slot stays in use.)
ReleasedSlotsOnly(j) == SlotsFreed(j) /\ UNCHANGED jobs
Released(j) == SlotsFreed(j) /\ jobs' = [jobs EXCEPT ![j] = FreeJob]

\* report_worker: the slot's status; a failure marks the job FAILED.
StatusOf(ok) == IF ok THEN 1 ELSE 2
JobsAfterReport(w, ok) ==
    IF ok THEN jobs ELSE [jobs EXCEPT ![wslots[w].job].state = "FAILED"]

-----------------------------------------------------------------------------
\* phases: what each worker's transaction does to its database.

JobOf(w) == jobs[wslots[w].job]
Db(w)    == JobOf(w).db
Id(w)    == JobOf(w).id
FileOf(w) == coord[JobOf(w).by].file

DictEmpty(d) == \A t \in Term : dict[d][t] = 0
NoReader(d)  == \A c \in open : DbOf[c] # d

Eligible(d) == DictEmpty(d)

\* STAGE_PREP: on an empty dictionary drop the indexes and create the staging
\* table, unless a table of that name exists; otherwise ask for the fallback.
Prep(w) ==
    LET d == Db(w) IN
    /\ IF Eligible(d)
       THEN /\ NoReader(d)
            /\ ix' = [ix EXCEPT ![d] = {}]
            /\ stg' = [stg EXCEPT ![d][Id(w)] = IF @ = NoTable THEN Empty ELSE @]
       ELSE UNCHANGED <<ix, stg>>
    /\ UNCHANGED <<dict, quads>>
\* STAGE: the lines of this worker's range, into the shared staging table.
Ranges(f)    == IF f = <<>> THEN 1 ELSE IF Len(f) < Width THEN Len(f) ELSE Width
\* (Mutant: a range runs on into the line its end falls in.)
LinesOverlap(f, i) ==
    {k \in DOMAIN f : i \in {((k - 1) * Ranges(f)) \div Len(f), (k * Ranges(f)) \div Len(f)}}
LinesOf(f, i) == {k \in DOMAIN f : ((k - 1) * Ranges(f)) \div Len(f) = i}
Stage(w) ==
    LET f == FileOf(w)
        mine == LinesOf(f, wslots[w].shard) IN
    /\ stg' = [stg EXCEPT ![Db(w)][Id(w)] =
                  [t \in Triples |-> Capped(@[t] + Cardinality({k \in mine : f[k] = t}))]]
    /\ UNCHANGED <<dict, ix, quads>>

\* DICT: the terms of the staging table, each once, with ids past MAX(id);
\* the rows already in the dictionary are not looked at.
TermsOf(s) == UNION {{t[1], t[2], t[3]} : t \in {x \in Triples : s[x] > 0}}
Dict(w) ==
    LET d == Db(w)
        new == TermsOf(stg[d][Id(w)]) IN
    /\ dict' = [dict EXCEPT ![d] = [t \in Term |-> Capped(@[t] + (IF t \in new THEN 1 ELSE 0))]]
    /\ UNCHANGED <<ix, stg, quads>>

\* RESOLVE: a staged triple joins every dictionary row of its three terms; the
\* result replaces the graph's partition.
Joined(d, s, t) == Capped(s[t] * dict[d][t[1]] * dict[d][t[2]] * dict[d][t[3]])
Resolve(w) ==
    LET d == Db(w) IN
    /\ quads' = [quads EXCEPT ![d][JobOf(w).by] =
                    [t \in Triples |-> IF stg[d][Id(w)][t] > 0
                                       THEN Joined(d, stg[d][Id(w)], t) ELSE 0]]
    /\ UNCHANGED <<dict, ix, stg>>

\* INDEX: one statement; a UNIQUE constraint whose key always holds a NULL
\* rejects nothing, and an index that exists fails the worker.
Index(w) ==
    LET d == Db(w)
        k == wslots[w].shard IN
    /\ k \notin ix[d]
    /\ k \in Exclusive => NoReader(d)
    /\ ix' = [ix EXCEPT ![d] = @ \cup {k}]
    /\ UNCHANGED <<dict, stg, quads>>

Body(w) ==
    \/ wslots[w].phase = "PREP" /\ Prep(w)
    \/ wslots[w].phase = "STAGE" /\ Stage(w)
    \/ wslots[w].phase = "DICT" /\ Dict(w)
    \/ wslots[w].phase = "RESOLVE" /\ Resolve(w)
    \/ wslots[w].phase = "INDEX" /\ Index(w)
    \/ wslots[w].phase = "PING" /\ UNCHANGED tables

-----------------------------------------------------------------------------
\* pgrdf_staged_worker_main.

WorkerStart(w) ==
    /\ worker[w] = "registered"
    /\ worker' = [worker EXCEPT ![w] = "running"]
    /\ UNCHANGED <<shmem, coord, open, tables>>

\* The transaction commits; the report (request_fallback before it) follows,
\* or the process ends before it.
Fallback(w) == wslots[w].phase = "PREP" /\ ~Eligible(Db(w))
WorkerDone(w, reports) ==
    /\ worker[w] = "running"
    /\ Body(w)
    /\ worker' = [worker EXCEPT ![w] = "exited"]
    /\ wslots' = [wslots EXCEPT ![w].status = IF reports THEN StatusOf(TRUE) ELSE @]
    /\ jobs' = IF Fallback(w) THEN [jobs EXCEPT ![wslots[w].job].state = "FALLBACK"] ELSE jobs
    /\ UNCHANGED <<nextJob, coord, open>>

\* The transaction rolls back (an SQL error or a panic), or never began.
WorkerFail(w, reports) ==
    /\ worker[w] \in {"registered", "running"}
    /\ reports => worker[w] = "running"
    /\ worker' = [worker EXCEPT ![w] = IF @ = "running" THEN "exited" ELSE "unborn"]
    /\ wslots' = [wslots EXCEPT ![w].status = IF reports THEN StatusOf(FALSE) ELSE @]
    /\ jobs' = IF reports THEN JobsAfterReport(w, FALSE) ELSE jobs
    /\ UNCHANGED <<nextJob, coord, open, tables>>

-----------------------------------------------------------------------------
\* load_turtle_staged_run, load_turtle_staged_ping and run_phase.

Specs(p, f) ==
    CASE p = "STAGE" -> 0 .. Ranges(f) - 1
      [] p = "INDEX" -> Ddl
      [] p = "PING"  -> 0 .. PingWidth - 1
      [] OTHER       -> {0}

\* The refusals read only the session (a transaction block, #123) and the
\* graph's lock; the job id is taken even when no job slot is free.
\* (Mutant: without the transaction-block refusal.)
AnySession(c) == TRUE
NoBlock(c) == c \notin open

Begin(c, p, f) ==
    /\ coord[c].pc = "idle"
    /\ p = "PREP" => NoBlock(c)
    /\ nextJob \in JobId
    /\ nextJob' = nextJob + 1
    /\ IF FreeJobs = {}
       THEN /\ coord' = [coord EXCEPT ![c] = [Idle EXCEPT !.answer = "refused"]]
            /\ UNCHANGED jobs
       ELSE LET j == Min(FreeJobs) IN
            /\ jobs' = [jobs EXCEPT ![j] = [used |-> TRUE, id |-> nextJob, state |-> "RUNNING",
                                            db |-> DbOf[c], by |-> c]]
            /\ coord' = [coord EXCEPT ![c] =
                   [Idle EXCEPT !.pc = "spawn", !.job = j, !.id = nextJob, !.phase = p,
                                !.todo = Specs(p, f), !.file = f]]
    /\ UNCHANGED <<wslots, worker, open, tables>>

\* One shard: claim_worker_slot, then spawn_checked.  Without a slot, or when
\* the postmaster has no room, the phase has failed but goes on spawning.
Spawn(c, accepted) ==
    /\ coord[c].pc = "spawn"
    /\ LET k == coord[c]
           x == CHOOSE y \in k.todo : TRUE
           next == [k EXCEPT !.todo = @ \ {x},
                             !.pc = IF k.todo = {x} THEN "startup" ELSE "spawn"] IN
       IF FreeSlots = {}
       THEN /\ coord' = [coord EXCEPT ![c] = [next EXCEPT !.failed = TRUE]]
            /\ UNCHANGED <<jobs, wslots, worker>>
       ELSE LET w == Min(FreeSlots) IN
            /\ wslots' = [wslots EXCEPT ![w] =
                   [used |-> TRUE, job |-> k.job, phase |-> k.phase, shard |-> x,
                    status |-> IF accepted THEN 0 ELSE StatusOf(FALSE)]]
            /\ worker' = [worker EXCEPT ![w] = IF accepted THEN "registered" ELSE "none"]
            /\ jobs' = IF accepted THEN jobs ELSE [jobs EXCEPT ![k.job].state = "FAILED"]
            /\ coord' = [coord EXCEPT ![c] = [next EXCEPT !.claimed = @ \cup {w},
                                                         !.failed = @ \/ ~accepted]]
    /\ UNCHANGED <<nextJob, open, tables>>

\* wait_for_startup on every handle: a worker that never ran is a startup
\* failure, and so is one that was gone before the wait looked at it.
Startup(c, late) ==
    /\ coord[c].pc = "startup"
    /\ LET mine == coord[c].claimed IN
       /\ \A w \in mine : worker[w] # "registered"
       /\ coord' = [coord EXCEPT ![c].pc = "shutdown",
              ![c].failed = \/ @
                            \/ \E w \in mine : worker[w] = "unborn"
                            \/ late /\ \E w \in mine : worker[w] = "exited"]
    /\ UNCHANGED <<shmem, worker, open, tables>>

\* wait_for_shutdown on every started handle, then the slots' statuses.
PhaseOk(c) == ~coord[c].failed /\ \A w \in coord[c].claimed : wslots[w].status = 1
\* (Mutant: the coordinator gives up at the first startup failure.)
GivesUp(c) == coord[c].failed \/ \A w \in coord[c].claimed : worker[w] # "running"
Joined1(c) == \A w \in coord[c].claimed : worker[w] # "running"

Position(p) == CHOOSE i \in DOMAIN Phases : Phases[i] = p
Release(c) ==
    /\ Released(coord[c].job)
    /\ worker' = [w \in SlotIdx |-> IF wslots[w].used /\ wslots[w].job = coord[c].job
                                     /\ worker[w] # "running" THEN "none" ELSE worker[w]]
Answer(c, a) == coord' = [coord EXCEPT ![c] = [Idle EXCEPT !.answer = a]]

Advance(c) ==
    LET k == coord[c]
        p == Phases[Position(k.phase) + 1] IN
    /\ coord' = [coord EXCEPT ![c] = [k EXCEPT !.pc = "spawn", !.phase = p,
                                     !.todo = Specs(p, k.file), !.claimed = {}]]
    /\ UNCHANGED <<shmem, worker>>

PhaseEnd(c) ==
    /\ coord[c].pc = "shutdown"
    /\ Joined1(c)
    /\ LET k == coord[c] IN
       \/ k.phase = "PING" /\ Release(c) /\ Answer(c, "pinged") /\ UNCHANGED nextJob
       \/ k.phase # "PING" /\ ~PhaseOk(c)
             /\ Release(c) /\ Answer(c, "failed") /\ UNCHANGED nextJob
       \/ k.phase = "PREP" /\ PhaseOk(c) /\ jobs[k.job].state = "FALLBACK"
             /\ Release(c) /\ UNCHANGED nextJob
             /\ coord' = [coord EXCEPT ![c] = [Idle EXCEPT !.pc = "combined", !.file = k.file]]
       \/ k.phase \notin {"PING", "INDEX"} /\ PhaseOk(c) /\ jobs[k.job].state # "FALLBACK"
             /\ Advance(c)
       \/ k.phase = "INDEX" /\ PhaseOk(c)
             /\ coord' = [coord EXCEPT ![c].pc = "final"] /\ UNCHANGED <<shmem, worker>>
    /\ UNCHANGED <<open, tables>>

\* The final counts, DROP TABLE and DROP INDEX, then mark_job_done and
\* release_job ...
Final(c) ==
    /\ coord[c].pc = "final"
    /\ NoReader(DbOf[c])
    /\ stg' = [stg EXCEPT ![DbOf[c]][coord[c].id] = NoTable]
    /\ Release(c) /\ Answer(c, "ok")
    /\ UNCHANGED <<nextJob, open, dict, ix, quads>>
\* ... or one of them is cancelled, and the slots are not released.
FinalError(c) ==
    /\ coord[c].pc = "final"
    /\ Answer(c, "error")
    /\ UNCHANGED <<shmem, worker, open, tables>>

\* staged_load_default after a fallback: the combined path, which looks every
\* term up and adds the triples to the graph.
Combined(c) ==
    /\ coord[c].pc = "combined"
    /\ LET f == coord[c].file
           d == DbOf[c]
           new == UNION {{f[i][1], f[i][2], f[i][3]} : i \in DOMAIN f} IN
       /\ dict' = [dict EXCEPT ![d] = [t \in Term |-> IF t \in new /\ @[t] = 0 THEN 1 ELSE @[t]]]
       /\ quads' = [quads EXCEPT ![d][c] =
              [t \in Triples |-> Capped(@[t] + Cardinality({i \in DOMAIN f : f[i] = t}))]]
    /\ Answer(c, "combined")
    /\ UNCHANGED <<shmem, worker, open, ix, stg>>

-----------------------------------------------------------------------------
\* The sessions around the loader, and the server.

\* A reader queues behind whoever waits to lock the dictionary.
Wanted(d) ==
    \/ \E w \in SlotIdx : /\ worker[w] = "running" /\ Db(w) = d
                          /\ wslots[w].phase = "PREP" \/ wslots[w].shard \in Exclusive
    \/ \E c \in Coordinator : coord[c].pc = "final" /\ DbOf[c] = d
OpenBlock(c) ==
    /\ coord[c].pc = "idle" /\ c \notin open
    /\ ~Wanted(DbOf[c])
    /\ open' = open \cup {c}
    /\ UNCHANGED <<shmem, worker, coord, tables>>
EndBlock(c) ==
    /\ coord[c].pc = "idle" /\ c \in open
    /\ open' = open \ {c}
    /\ UNCHANGED <<shmem, worker, coord, tables>>

\* put_term in another session: looked up first, so a term keeps one row.
\* Between loads only, unless Meanwhile.
Intern(d, t) ==
    /\ Meanwhile \/ \A c \in Coordinator : DbOf[c] = d => coord[c].pc = "idle"
    /\ dict[d][t] = 0
    /\ dict' = [dict EXCEPT ![d][t] = 1]
    /\ UNCHANGED <<shmem, worker, coord, open, ix, stg, quads>>

\* The server goes down and comes back: init_in_postmaster.
Outage(kind) ==
    /\ kind \in Outages
    /\ jobs' = [j \in JobIdx |-> FreeJob]
    /\ wslots' = [w \in SlotIdx |-> FreeSlot]
    /\ nextJob' = 1
    /\ worker' = [w \in SlotIdx |-> "none"]
    /\ coord' = [c \in Coordinator |-> Idle]
    /\ open' = {}
    /\ stg' = IF kind = "restart" THEN stg
              ELSE [d \in Database |-> [i \in JobId |->
                       IF stg[d][i] = NoTable THEN NoTable ELSE Empty]]
    /\ UNCHANGED <<dict, ix, quads>>

CoordStep(c) ==
    \/ \E accepted \in BOOLEAN : Spawn(c, accepted)
    \/ \E late \in BOOLEAN : Startup(c, late)
    \/ PhaseEnd(c) \/ Final(c) \/ FinalError(c) \/ Combined(c)
WorkerStep(w) ==
    \/ WorkerStart(w)
    \/ \E reports \in BOOLEAN : WorkerDone(w, reports) \/ WorkerFail(w, reports)

Next ==
    \/ \E c \in Coordinator :
          \/ CoordStep(c) \/ OpenBlock(c) \/ EndBlock(c)
          \/ c \in Loader /\ \E f \in File : Begin(c, "PREP", f)
          \/ c \in Pinger /\ Begin(c, "PING", <<>>)
    \/ \E w \in SlotIdx : WorkerStep(w)
    \/ \E d \in Database, t \in Term : Intern(d, t)
    \/ \E kind \in Outages : Outage(kind)

\* Backends and workers run until they wait for one another; a worker whose
\* statement must fail fails; a transaction block ends.
WillFail(w) == /\ wslots[w].phase = "INDEX" /\ wslots[w].shard \in ix[Db(w)]
               /\ WorkerFail(w, TRUE)
Fairness ==
    /\ \A c \in Coordinator :
          WF_vars(CoordStep(c)) /\ WF_vars(EndBlock(c))
    /\ \A w \in SlotIdx :
          WF_vars(WorkerStart(w)) /\ WF_vars(WorkerDone(w, TRUE)) /\ WF_vars(WillFail(w))

Spec     == Init /\ [][Next]_vars
FairSpec == Spec /\ Fairness

-----------------------------------------------------------------------------
\* What the staged loader promises.

\* A worker that can still report finds its own slot: no slot is reclaimed, by
\* an abort or a new claim, while the worker bound to it lives ("the workers
\* have already exited, so their slots are inert", release_job).
LiveWorkersOwnTheirSlots ==
    \A w \in SlotIdx : worker[w] \in {"registered", "running"} =>
        /\ wslots[w].used /\ wslots[w].status = 0
        /\ LET j == jobs[wslots[w].job] IN
           /\ j.used /\ j.by # NoCoordinator
           /\ w \in coord[j.by].claimed /\ coord[j.by].job = wslots[w].job
           /\ coord[j.by].phase = wslots[w].phase

\* A job slot in use has a coordinator that will release it ("final cleanup,
\* success OR failure", release_job).  The one way to lose a slot until the
\* server restarts is an error in the final statements, after every INDEX
\* worker has reported success.
Finished(j) ==
    /\ jobs[j].state = "RUNNING"
    /\ \A k \in Ddl : \E w \in SlotIdx :
          wslots[w] = [used |-> TRUE, job |-> j, phase |-> "INDEX", shard |-> k, status |-> 1]
JobsAreOwned ==
    \A j \in JobIdx : jobs[j].used =>
        \/ jobs[j].by \in Coordinator /\ coord[jobs[j].by].pc # "idle"
           /\ coord[jobs[j].by].job = j
        \/ Finished(j)

\* A load that answers ok has put its file, and nothing else, in the graph,
\* once each; every term has one dictionary row and every index is back,
\* whatever workers died, phases failed and loads were tried before.
Occurrences(f) == [t \in Triples |-> Capped(Cardinality({i \in DOMAIN f : f[i] = t}))]
Loaded(c, f) ==
    /\ quads'[DbOf[c]][c] = Occurrences(f)
    /\ \A t \in Term : dict'[DbOf[c]][t] < 2
    /\ ix'[DbOf[c]] = Ddl
    /\ stg'[DbOf[c]][coord[c].id] = NoTable
OkMeansLoaded ==
    [][\A c \in Coordinator :
          coord[c].pc = "final" /\ coord'[c].answer = "ok" => Loaded(c, coord[c].file)]_vars

\* A load holds the worker slots of one phase at a time ("the phases are
\* sequential, so STAGE and INDEX never hold slots at once", the bound of
\* n_workers in load_turtle_staged_run).
OnePhaseOfSlots ==
    \A v, w \in SlotIdx :
        wslots[v].used /\ wslots[w].used /\ wslots[v].job = wslots[w].job
            => wslots[v].phase = wslots[w].phase

\* Every call comes back: no coordinator waits for ever for a worker that
\* waits for a lock of the coordinator's own transaction (#123).
CallsReturn == \A c \in Coordinator : coord[c].pc # "idle" ~> coord[c].pc = "idle"
=============================================================================
