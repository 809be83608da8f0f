------------------------- MODULE StagedLoaderProofs -------------------------
(***************************************************************************)
(* Proofs about StagedLoader for any number of sessions, databases, job    *)
(* and worker slots, workers of a phase, indexes and files: the types, that *)
(* a live worker's slots are its own, and that a job slot in use has an     *)
(* owner who will release it.                                              *)
(***************************************************************************)
EXTENDS StagedLoader, FiniteSetTheorems, WellFoundedInduction, TLAPS

-----------------------------------------------------------------------------
(***************************************************************************)
(* Types, and the inductive invariant.                                     *)
(***************************************************************************)

Job   == [used : BOOLEAN, id : Nat, state : {"IDLE", "RUNNING", "FAILED", "FALLBACK"},
          db : Database \cup {FreeJob.db}, by : Coordinator \cup {NoCoordinator}]
Slot  == [used : BOOLEAN, job : JobIdx, phase : Phase, shard : Shard, status : 0 .. 2]
Pc    == {"idle", "spawn", "startup", "shutdown", "final", "combined"}
Coord == [pc : Pc, job : JobIdx, id : Nat, phase : Phase, todo : SUBSET Shard,
          claimed : SUBSET SlotIdx, failed : BOOLEAN, file : File \cup {<<>>},
          answer : {"none", "refused", "pinged", "failed", "ok", "error", "combined"}]
Count == [Triples -> -1 .. 2]

TypeOK ==
    /\ jobs \in [JobIdx -> Job]
    /\ wslots \in [SlotIdx -> Slot]
    /\ nextJob \in Nat \ {0}
    /\ worker \in [SlotIdx -> {"none", "registered", "running", "exited", "unborn"}]
    /\ coord \in [Coordinator -> Coord]
    /\ open \in SUBSET Coordinator
    /\ dict \in [Database -> [Term -> Many]]
    /\ ix \in [Database -> SUBSET Ddl]
    /\ stg \in [Database -> [JobId -> Count]]
    /\ quads \in [Database -> [Coordinator -> [Triples -> Many]]]

IsLive(w) == worker[w] \in {"registered", "running"}
Busy(c)   == coord[c].pc \in {"spawn", "startup", "shutdown", "final"}

\* A coordinator between Begin and its answer holds its job slot, whose state
\* tells what its workers reported ...
HoldsJob(c) ==
    LET k == coord[c]
        j == jobs[k.job] IN
    /\ j.used /\ j.by = c /\ j.db = DbOf[c]
    /\ j.id = k.id /\ k.id \in JobId
    /\ j.state # "IDLE"
    /\ j.state = "FAILED" => k.failed \/ \E w \in k.claimed : wslots[w].status = 2
    /\ j.state = "FALLBACK" => k.phase = "PREP"
\* ... and the worker slots it has claimed for the phase it is in.
HoldsSlots(c) ==
    \A w \in coord[c].claimed : /\ wslots[w].used /\ wslots[w].job = coord[c].job
                                /\ wslots[w].phase = coord[c].phase
\* It goes on when each shard of the phase was tried and each worker started;
\* only a phase whose shards all had a slot can succeed.
KeepsPace(c) ==
    LET k == coord[c] IN
    /\ k.pc = "spawn" <=> k.todo # {}
    /\ k.phase = "INDEX" => k.todo \subseteq Ddl /\ \A w \in k.claimed : wslots[w].shard \in Ddl
    /\ k.phase = "INDEX" /\ ~k.failed =>
           \A x \in Ddl \ k.todo : \E w \in k.claimed : wslots[w].shard = x
    /\ k.pc \in {"shutdown", "final"} => \A w \in k.claimed : worker[w] # "registered"
    /\ k.pc = "final" => /\ k.phase = "INDEX" /\ ~k.failed
                         /\ \A w \in k.claimed : wslots[w].status = 1 /\ worker[w] # "running"
Owns(c) ==
    /\ ~Busy(c) => coord[c].claimed = {}
    /\ Busy(c) => HoldsJob(c) /\ HoldsSlots(c) /\ KeepsPace(c)

\* The slot of a live worker is one its job's coordinator has claimed.
Bound(w) ==
    IsLive(w) =>
        /\ wslots[w].used /\ wslots[w].status = 0
        /\ LET j == wslots[w].job IN
           /\ jobs[j].used /\ jobs[j].by \in Coordinator
           /\ Busy(jobs[j].by) /\ coord[jobs[j].by].job = j
           /\ w \in coord[jobs[j].by].claimed

\* A job slot in use is held by its coordinator, or was given up by Final.
Used(j) ==
    jobs[j].used =>
        \/ jobs[j].by \in Coordinator /\ Busy(jobs[j].by) /\ coord[jobs[j].by].job = j
        \/ Finished(j)

Custody == /\ \A c \in Coordinator : Owns(c)
           /\ \A w \in SlotIdx : Bound(w)
           /\ \A j \in JobIdx : Used(j)
IInv == TypeOK /\ Custody

-----------------------------------------------------------------------------
(***************************************************************************)
(* The operators of the model.                                             *)
(***************************************************************************)

\* A set of naturals has a least element, which Min returns.
LEMMA MinIsMember == ASSUME NEW T, T \subseteq Nat, T # {} PROVE Min(T) \in T
<1>1. IsWellFoundedOn(OpToRel(<, Nat), Nat)
  BY NatLessThanWellFounded
<1>2. \E x \in T : \A y \in T : ~ (<<y, x>> \in OpToRel(<, Nat))
  BY <1>1, WFMin
<1>3. \A x, y \in Nat : <<y, x>> \in OpToRel(<, Nat) <=> y < x
  BY DEF OpToRel
<1>4. PICK x \in T : \A y \in T : ~ (y < x)
  BY <1>2, <1>3
<1>5. \A y \in T : x <= y
  BY <1>4
<1> QED
  BY <1>5 DEF Min

LEMMA Sizes == /\ 0 \in JobIdx /\ JobIdx \subseteq Nat /\ SlotIdx \subseteq Nat
               /\ 0 \in Shard /\ Ddl \subseteq Shard
BY LoaderAssumption DEF LoaderAssumption, JobIdx, SlotIdx, Shard

LEMMA PhaseNames == Phase = {"PREP", "STAGE", "DICT", "RESOLVE", "INDEX", "PING"}
<1>1. DOMAIN Phases = 1 .. 5
  BY DEF Phases
<1>2. 1 .. 5 = {1, 2, 3, 4, 5}
  OBVIOUS
<1>3. /\ Phases[1] = "PREP" /\ Phases[2] = "STAGE" /\ Phases[3] = "DICT"
      /\ Phases[4] = "RESOLVE" /\ Phases[5] = "INDEX"
  BY DEF Phases
<1> QED
  BY <1>1, <1>2, <1>3 DEF Phase

\* The phase after p.
LEMMA NextPhase ==
    ASSUME NEW p \in Phase, p # "PING", p # "INDEX"
    PROVE  Phases[Position(p) + 1] \in Phase
<1>1. DOMAIN Phases = {1, 2, 3, 4, 5}
  <2>1. 1 .. 5 = {1, 2, 3, 4, 5}
    OBVIOUS
  <2> QED
    BY <2>1 DEF Phases
<1>2. /\ Phases[1] = "PREP" /\ Phases[2] = "STAGE" /\ Phases[3] = "DICT"
      /\ Phases[4] = "RESOLVE" /\ Phases[5] = "INDEX"
  BY DEF Phases
<1>3. \E i \in DOMAIN Phases : Phases[i] = p
  BY PhaseNames, <1>1, <1>2
<1>4. Position(p) \in DOMAIN Phases /\ Phases[Position(p)] = p
  BY <1>3 DEF Position
<1>5. Position(p) \in {1, 2, 3, 4}
  BY <1>1, <1>2, <1>4
<1>6. Position(p) + 1 \in {2, 3, 4, 5}
  BY <1>5
<1> QED
  BY <1>2, <1>6, PhaseNames

\* Every phase has a worker to start.
LEMMA SpecsTyped ==
    ASSUME NEW p \in Phase, NEW f \in File \cup {<<>>}
    PROVE  Specs(p, f) \in SUBSET Shard /\ Specs(p, f) # {} /\ (p = "INDEX" => Specs(p, f) = Ddl)
<1>1. Ranges(f) \in 1 .. Width
  <2>1. CASE f = <<>>
    BY <2>1, LoaderAssumption DEF LoaderAssumption, Ranges
  <2>2. CASE f # <<>>
    <3>1. f \in Seq(Term \X Term \X Term)
      BY <2>2, LoaderAssumption DEF LoaderAssumption
    <3>2. Len(f) \in Nat \ {0}
      BY <2>2, <3>1
    <3> QED
      BY <2>2, <3>2, LoaderAssumption DEF LoaderAssumption, Ranges
  <2> QED
    BY <2>1, <2>2
<1>2. CASE p = "STAGE"
  <2>1. 0 .. Ranges(f) - 1 \subseteq 0 .. Width /\ 0 \in 0 .. Ranges(f) - 1
    BY <1>1, LoaderAssumption DEF LoaderAssumption
  <2> QED
    BY <1>2, <2>1 DEF Specs, Shard
<1>3. CASE p = "INDEX"
  BY <1>3, LoaderAssumption DEF LoaderAssumption, Specs, Shard
<1>4. CASE p = "PING"
  <2>1. 0 .. PingWidth - 1 \subseteq 0 .. Width /\ 0 \in 0 .. PingWidth - 1
    BY LoaderAssumption DEF LoaderAssumption
  <2> QED
    BY <1>4, <2>1 DEF Specs, Shard
<1>5. CASE p \notin {"STAGE", "INDEX", "PING"}
  BY <1>5, Sizes DEF Specs
<1> QED
  BY <1>2, <1>3, <1>4, <1>5

LEMMA FreeRecords == FreeJob \in Job /\ FreeSlot \in Slot /\ Idle \in Coord
<1>1. FreeJob \in Job
  BY DEF FreeJob, Job
<1>2. FreeSlot \in Slot
  BY Sizes, PhaseNames DEF FreeSlot, Slot
<1>3. Idle \in Coord
  BY Sizes, PhaseNames DEF Idle, Coord, Pc
<1> QED
  BY <1>1, <1>2, <1>3

LEMMA CountsTyped == \A n \in Int : /\ n >= -1 => Capped(n) \in -1 .. 2
                                    /\ n >= 0 => Capped(n) \in Many
BY DEF Capped, Many

LEMMA SlotTyped ==
    ASSUME TypeOK, NEW w \in SlotIdx
    PROVE  /\ wslots[w] \in Slot
           /\ wslots[w].used \in BOOLEAN /\ wslots[w].job \in JobIdx
           /\ wslots[w].phase \in Phase /\ wslots[w].shard \in Shard
           /\ wslots[w].status \in 0 .. 2
<1>1. wslots[w] \in Slot
  BY DEF TypeOK
<1> QED
  BY <1>1 DEF Slot

LEMMA CoordTyped ==
    ASSUME TypeOK, NEW c \in Coordinator
    PROVE  /\ coord[c] \in Coord
           /\ coord[c].pc \in Pc /\ coord[c].job \in JobIdx /\ coord[c].id \in Nat
           /\ coord[c].phase \in Phase /\ coord[c].todo \in SUBSET Shard
           /\ coord[c].claimed \in SUBSET SlotIdx /\ coord[c].failed \in BOOLEAN
           /\ coord[c].file \in File \cup {<<>>}
<1>1. coord[c] \in Coord
  BY DEF TypeOK
<1> QED
  BY <1>1 DEF Coord

LEMMA JobTyped ==
    ASSUME TypeOK, NEW j \in JobIdx
    PROVE  /\ jobs[j] \in Job
           /\ jobs[j].used \in BOOLEAN /\ jobs[j].id \in Nat
           /\ jobs[j].state \in {"IDLE", "RUNNING", "FAILED", "FALLBACK"}
           /\ jobs[j].by \in Coordinator \cup {NoCoordinator}
<1>1. jobs[j] \in Job
  BY DEF TypeOK
<1> QED
  BY <1>1 DEF Job

-----------------------------------------------------------------------------
(***************************************************************************)
(* What each step does to the custody of slots.                            *)
(***************************************************************************)

\* The other coordinators stay as they are.
OthersStay(c) == \A d \in Coordinator \ {c} : coord'[d] = coord[d]

\* A step of a worker changes its slot's status and its job's state at most.
LEMMA ReportEffect ==
    ASSUME TypeOK, NEW w \in SlotIdx, NEW st \in 0 .. 2,
           wslots' = [wslots EXCEPT ![w].status = st]
    PROVE  /\ wslots' \in [SlotIdx -> Slot]
           /\ wslots'[w].status = st
           /\ \A v \in SlotIdx \ {w} : wslots'[v] = wslots[v]
           /\ \A v \in SlotIdx : /\ wslots'[v].used = wslots[v].used
                                 /\ wslots'[v].job = wslots[v].job
                                 /\ wslots'[v].phase = wslots[v].phase
                                 /\ wslots'[v].shard = wslots[v].shard
<1> DEFINE old == wslots[w]
           new == [old EXCEPT !.status = st]
<1>1. old \in Slot
  BY SlotTyped
<1>2. wslots' = [wslots EXCEPT ![w] = new] /\ wslots \in [SlotIdx -> Slot]
  BY DEF TypeOK
<1>3. new = [old EXCEPT !.status = st]
  OBVIOUS
<1> HIDE DEF new
<1>4. wslots'[w] = new /\ \A v \in SlotIdx \ {w} : wslots'[v] = wslots[v]
  BY <1>2
<1> HIDE DEF old
<1>5. /\ new \in Slot /\ new.status = st /\ new.used = old.used /\ new.job = old.job
      /\ new.phase = old.phase /\ new.shard = old.shard
  BY <1>1, <1>3 DEF Slot
<1>6. wslots' \in [SlotIdx -> Slot]
  BY <1>2, <1>5
<1> QED
  BY <1>4, <1>5, <1>6 DEF old

LEMMA StateEffect ==
    ASSUME TypeOK, NEW i \in JobIdx, NEW st \in {"IDLE", "RUNNING", "FAILED", "FALLBACK"},
           jobs' = [jobs EXCEPT ![i].state = st]
    PROVE  /\ jobs' \in [JobIdx -> Job]
           /\ jobs'[i].state = st
           /\ \A j \in JobIdx \ {i} : jobs'[j] = jobs[j]
           /\ \A j \in JobIdx : /\ jobs'[j].used = jobs[j].used /\ jobs'[j].id = jobs[j].id
                                /\ jobs'[j].db = jobs[j].db /\ jobs'[j].by = jobs[j].by
<1> DEFINE old == jobs[i]
           new == [old EXCEPT !.state = st]
<1>1. old \in Job
  BY JobTyped
<1>2. jobs' = [jobs EXCEPT ![i] = new] /\ jobs \in [JobIdx -> Job]
  BY DEF TypeOK
<1>3. new = [old EXCEPT !.state = st]
  OBVIOUS
<1> HIDE DEF new
<1>4. jobs'[i] = new /\ \A j \in JobIdx \ {i} : jobs'[j] = jobs[j]
  BY <1>2
<1> HIDE DEF old
<1>5. /\ new \in Job /\ new.state = st /\ new.used = old.used /\ new.id = old.id
      /\ new.db = old.db /\ new.by = old.by
  BY <1>1, <1>3 DEF Job
<1>6. jobs' \in [JobIdx -> Job]
  BY <1>2, <1>5
<1> QED
  BY <1>4, <1>5, <1>6 DEF old

\* Spawn tries one shard, on a free slot if there is one.
LEMMA SpawnEffect ==
    ASSUME TypeOK, NEW c \in Coordinator, NEW accepted \in BOOLEAN, Spawn(c, accepted), Owns(c)
    PROVE  LET k == coord[c]  n == coord'[c] IN
           /\ k.pc = "spawn" /\ coord' \in [Coordinator -> Coord] /\ OthersStay(c)
           /\ n.job = k.job /\ n.id = k.id /\ n.phase = k.phase /\ n.file = k.file
           /\ \E x \in k.todo :
              /\ n.todo = k.todo \ {x}
              /\ n.pc = IF k.todo = {x} THEN "startup" ELSE "spawn"
              /\ \/ /\ n.claimed = k.claimed /\ n.failed
                    /\ UNCHANGED <<jobs, wslots, worker>>
                 \/ \E w \in FreeSlots :
                    /\ n.claimed = k.claimed \cup {w} /\ n.failed = (k.failed \/ ~accepted)
                    /\ wslots' = [wslots EXCEPT ![w] =
                           [used |-> TRUE, job |-> k.job, phase |-> k.phase, shard |-> x,
                            status |-> IF accepted THEN 0 ELSE 2]]
                    /\ worker' = [worker EXCEPT ![w] = IF accepted THEN "registered" ELSE "none"]
                    /\ IF accepted THEN jobs' = jobs
                       ELSE jobs' = [jobs EXCEPT ![k.job].state = "FAILED"]
<1> DEFINE k == coord[c]
           x == CHOOSE y \in k.todo : TRUE
           pc == IF k.todo = {x} THEN "startup" ELSE "spawn"
           next == [k EXCEPT !.todo = @ \ {x}, !.pc = pc]
           w == Min(FreeSlots)
           noslot == [next EXCEPT !.failed = TRUE]
           slot == [next EXCEPT !.claimed = @ \cup {w}, !.failed = @ \/ ~accepted]
<1>1. k \in Coord /\ coord \in [Coordinator -> Coord]
  BY CoordTyped DEF TypeOK
<1>2. k.pc = "spawn"
  BY DEF Spawn
<1>3. k.todo # {}
  BY <1>2 DEF Owns, Busy, KeepsPace
<1>4. x \in k.todo
  BY <1>3
<1>5. IF FreeSlots = {}
      THEN coord' = [coord EXCEPT ![c] = noslot] /\ UNCHANGED <<jobs, wslots, worker>>
      ELSE /\ wslots' = [wslots EXCEPT ![w] =
                  [used |-> TRUE, job |-> k.job, phase |-> k.phase, shard |-> x,
                   status |-> IF accepted THEN 0 ELSE StatusOf(FALSE)]]
           /\ worker' = [worker EXCEPT ![w] = IF accepted THEN "registered" ELSE "none"]
           /\ jobs' = IF accepted THEN jobs ELSE [jobs EXCEPT ![k.job].state = "FAILED"]
           /\ coord' = [coord EXCEPT ![c] = slot]
  BY DEF Spawn
<1>6. pc \in Pc
  BY DEF Pc
<1> HIDE DEF x
<1>7. /\ next \in Coord /\ next.pc = pc /\ next.todo = k.todo \ {x}
      /\ next.job = k.job /\ next.id = k.id /\ next.phase = k.phase /\ next.file = k.file
      /\ next.claimed = k.claimed /\ next.failed = k.failed
  <2> HIDE DEF k, pc
  <2>1. next = [k EXCEPT !.todo = k.todo \ {x}, !.pc = pc]
    OBVIOUS
  <2>2. k.todo \ {x} \in SUBSET Shard
    BY <1>1 DEF Coord
  <2> HIDE DEF next
  <2> QED
    BY <1>1, <1>6, <2>1, <2>2 DEF Coord
<1> HIDE DEF k, pc, next
<1>8. CASE FreeSlots = {}
  <2>1. noslot = [next EXCEPT !.claimed = next.claimed, !.failed = TRUE]
    BY <1>7 DEF Coord
  <2>2. next.claimed \in SUBSET SlotIdx
    BY <1>7 DEF Coord
  <2>3. coord' = [coord EXCEPT ![c] = noslot] /\ UNCHANGED <<jobs, wslots, worker>>
    BY <1>5, <1>8
  <2> HIDE DEF noslot
  <2>4. /\ noslot \in Coord /\ noslot.claimed = k.claimed /\ noslot.failed
        /\ noslot.pc = pc /\ noslot.todo = k.todo \ {x} /\ noslot.job = k.job
        /\ noslot.id = k.id /\ noslot.phase = k.phase /\ noslot.file = k.file
    BY <1>7, <2>1, <2>2 DEF Coord
  <2>5. coord' \in [Coordinator -> Coord] /\ coord'[c] = noslot /\ OthersStay(c)
    BY <1>1, <2>3, <2>4 DEF OthersStay
  <2> DEFINE n == coord'[c]
  <2>6. /\ n.job = k.job /\ n.id = k.id /\ n.phase = k.phase /\ n.file = k.file
        /\ n.todo = k.todo \ {x} /\ n.pc = pc /\ n.claimed = k.claimed /\ n.failed
    BY <2>4, <2>5
  <2> HIDE DEF n
  <2>7. \E y \in k.todo :
           /\ n.todo = k.todo \ {y} /\ n.pc = IF k.todo = {y} THEN "startup" ELSE "spawn"
           /\ n.claimed = k.claimed /\ n.failed
    BY <1>4, <2>6 DEF pc
  <2> QED
    BY <1>2, <2>3, <2>5, <2>6, <2>7 DEF k, n
<1>9. CASE FreeSlots # {}
  <2> DEFINE failed == next.failed \/ ~accepted
  <2>1. w \in FreeSlots
    <3>1. FreeSlots \subseteq Nat
      BY Sizes DEF FreeSlots
    <3> QED
      BY <1>9, <3>1, MinIsMember
  <2>2. w \in SlotIdx
    BY <2>1 DEF FreeSlots
  <2> HIDE DEF w
  <2>3. slot = [next EXCEPT !.claimed = next.claimed \cup {w}, !.failed = failed]
    BY <1>7 DEF Coord
  <2>4. next.claimed \cup {w} \in SUBSET SlotIdx /\ failed \in BOOLEAN
    BY <1>7, <2>2 DEF Coord
  <2>5. coord' = [coord EXCEPT ![c] = slot]
    BY <1>5, <1>9
  <2> HIDE DEF slot, failed
  <2>6. /\ slot \in Coord /\ slot.claimed = k.claimed \cup {w} /\ slot.failed = failed
        /\ slot.pc = pc /\ slot.todo = k.todo \ {x} /\ slot.job = k.job
        /\ slot.id = k.id /\ slot.phase = k.phase /\ slot.file = k.file
    BY <1>7, <2>3, <2>4 DEF Coord
  <2>7. coord' \in [Coordinator -> Coord] /\ coord'[c] = slot /\ OthersStay(c)
    BY <1>1, <2>5, <2>6 DEF OthersStay
  <2>8. failed = (k.failed \/ ~accepted)
    BY <1>7 DEF failed
  <2>9. /\ wslots' = [wslots EXCEPT ![w] =
               [used |-> TRUE, job |-> k.job, phase |-> k.phase, shard |-> x,
                status |-> IF accepted THEN 0 ELSE 2]]
        /\ worker' = [worker EXCEPT ![w] = IF accepted THEN "registered" ELSE "none"]
        /\ IF accepted THEN jobs' = jobs ELSE jobs' = [jobs EXCEPT ![k.job].state = "FAILED"]
    BY <1>5, <1>9 DEF StatusOf
  <2> DEFINE n == coord'[c]
  <2>10. /\ n.job = k.job /\ n.id = k.id /\ n.phase = k.phase /\ n.file = k.file
         /\ n.todo = k.todo \ {x} /\ n.pc = pc /\ n.claimed = k.claimed \cup {w}
         /\ n.failed = (k.failed \/ ~accepted)
    BY <2>6, <2>7, <2>8
  <2> HIDE DEF n
  <2>11. n.pc = IF k.todo = {x} THEN "startup" ELSE "spawn"
    BY <2>10 DEF pc
  <2>12. k.pc = "spawn"
    BY <1>2 DEF k
  <2>13. coord' \in [Coordinator -> Coord] /\ OthersStay(c)
    BY <2>7
  <2>14. \E v \in FreeSlots :
            /\ n.claimed = k.claimed \cup {v} /\ n.failed = (k.failed \/ ~accepted)
            /\ wslots' = [wslots EXCEPT ![v] =
                   [used |-> TRUE, job |-> k.job, phase |-> k.phase, shard |-> x,
                    status |-> IF accepted THEN 0 ELSE 2]]
            /\ worker' = [worker EXCEPT ![v] = IF accepted THEN "registered" ELSE "none"]
            /\ IF accepted THEN jobs' = jobs
               ELSE jobs' = [jobs EXCEPT ![k.job].state = "FAILED"]
    BY <2>1, <2>9, <2>10
  <2> QED
    BY <1>4, <2>10, <2>11, <2>12, <2>13, <2>14 DEF k, n
<1> QED
  BY <1>8, <1>9

-----------------------------------------------------------------------------
(***************************************************************************)
(* Custody is kept by each kind of step.                                   *)
(***************************************************************************)

\* What is said of another coordinator, or of a job, is not disturbed where
\* its records stand.
LEMMA OwnsStays ==
    ASSUME TypeOK, NEW d \in Coordinator, Owns(d), coord'[d] = coord[d],
           Busy(d) => jobs'[coord[d].job] = jobs[coord[d].job],
           \A w \in coord[d].claimed : wslots'[w] = wslots[w] /\ worker'[w] = worker[w]
    PROVE  Owns(d)'
<1>1. Busy(d)' = Busy(d)
  BY DEF Busy
<1>2. CASE ~Busy(d)
  BY <1>1, <1>2 DEF Owns
<1>3. CASE Busy(d)
  <2>1. HoldsJob(d)'
    BY <1>3 DEF Owns, HoldsJob
  <2>2. HoldsSlots(d)'
    BY <1>3 DEF Owns, HoldsSlots
  <2>3. KeepsPace(d)'
    BY <1>3 DEF Owns, KeepsPace
  <2> QED
    BY <1>1, <1>3, <2>1, <2>2, <2>3 DEF Owns
<1> QED
  BY <1>2, <1>3

\* Two coordinators at work have different jobs.
LEMMA JobsApart ==
    ASSUME NEW c \in Coordinator, NEW d \in Coordinator, c # d, Owns(c), Owns(d), Busy(c), Busy(d)
    PROVE  coord[c].job # coord[d].job
BY DEF Owns, HoldsJob

\* A slot's live worker is claimed by the coordinator of the slot's job.
LEMMA LiveIsClaimed ==
    ASSUME NEW c \in Coordinator, Owns(c), Busy(c),
           NEW w \in SlotIdx, Bound(w), IsLive(w), wslots[w].job = coord[c].job
    PROVE  w \in coord[c].claimed
BY DEF Owns, HoldsJob, Bound

LEMMA FinishedStays ==
    ASSUME NEW j \in JobIdx, Finished(j), jobs'[j].state = jobs[j].state,
           \A w \in SlotIdx : wslots[w].used /\ wslots[w].job = j /\ wslots[w].status = 1
                                => wslots'[w] = wslots[w]
    PROVE  Finished(j)'
<1>1. jobs'[j].state = "RUNNING"
  BY DEF Finished
<1>2. ASSUME NEW k \in Ddl
      PROVE  \E w \in SlotIdx :
          wslots'[w] = [used |-> TRUE, job |-> j, phase |-> "INDEX", shard |-> k, status |-> 1]
  <2>1. PICK w \in SlotIdx :
          wslots[w] = [used |-> TRUE, job |-> j, phase |-> "INDEX", shard |-> k, status |-> 1]
    BY <1>2 DEF Finished
  <2>2. wslots[w].used /\ wslots[w].job = j /\ wslots[w].status = 1
    BY <2>1
  <2> QED
    BY <2>1, <2>2
<1> QED
  BY <1>1, <1>2 DEF Finished

\* A coordinator that leaves its job leaves no live worker behind, and the
\* job finished.
LEMMA Leaves ==
    ASSUME TypeOK, Custody, NEW c \in Coordinator, OthersStay(c),
           ~Busy(c)', coord'[c].claimed = {}, UNCHANGED <<jobs, wslots, worker>>,
           Busy(c) => (\A w \in coord[c].claimed : ~IsLive(w)) /\ Finished(coord[c].job)
    PROVE  Custody'
<1>1. ASSUME NEW d \in Coordinator PROVE Owns(d)'
  <2>1. CASE d = c
    BY <2>1 DEF Owns
  <2>2. CASE d # c
    BY <2>2, OwnsStays DEF Custody, OthersStay
  <2> QED
    BY <2>1, <2>2
<1>2. ASSUME NEW w \in SlotIdx PROVE Bound(w)'
  <2>1. SUFFICES ASSUME IsLive(w)' PROVE Bound(w)'
    BY DEF Bound
  <2>2. IsLive(w) /\ Bound(w)
    BY <2>1 DEF IsLive, Custody
  <2>3. jobs[wslots[w].job].by # c
    BY <2>2 DEF Bound
  <2> QED
    BY <2>2, <2>3 DEF Bound, OthersStay, Busy
<1>3. ASSUME NEW j \in JobIdx PROVE Used(j)'
  <2>1. Used(j)
    BY DEF Custody
  <2>2. Finished(j) => Finished(j)'
    BY DEF Finished
  <2>3. CASE Finished(j)
    BY <2>2, <2>3 DEF Used
  <2>4. CASE ~Finished(j) /\ jobs[j].used
    <3>1. jobs[j].by \in Coordinator /\ Busy(jobs[j].by) /\ coord[jobs[j].by].job = j
      BY <2>1, <2>4 DEF Used
    <3>2. jobs[j].by # c
      BY <2>4, <3>1
    <3> QED
      BY <3>1, <3>2 DEF Used, OthersStay, Busy
  <2>5. CASE ~jobs[j].used
    BY <2>5 DEF Used
  <2> QED
    BY <2>3, <2>4, <2>5
<1> QED
  BY <1>1, <1>2, <1>3 DEF Custody

\* A coordinator that goes on with its job keeps the slots of live workers.
LEMMA Stays ==
    ASSUME TypeOK, Custody, NEW c \in Coordinator, OthersStay(c),
           Busy(c), Busy(c)', coord'[c].job = coord[c].job,
           UNCHANGED <<jobs, wslots, worker>>,
           \A w \in coord[c].claimed : IsLive(w) => w \in coord'[c].claimed,
           HoldsJob(c)', HoldsSlots(c)', KeepsPace(c)'
    PROVE  Custody'
<1>1. ASSUME NEW d \in Coordinator PROVE Owns(d)'
  <2>1. CASE d = c
    BY <2>1 DEF Owns
  <2>2. CASE d # c
    BY <2>2, OwnsStays DEF Custody, OthersStay
  <2> QED
    BY <2>1, <2>2
<1>2. \A d \in Coordinator : Busy(d) => Busy(d)' /\ coord'[d].job = coord[d].job
  BY DEF OthersStay, Busy
<1>3. ASSUME NEW w \in SlotIdx PROVE Bound(w)'
  <2>1. SUFFICES ASSUME IsLive(w)' PROVE Bound(w)'
    BY DEF Bound
  <2>2. IsLive(w) /\ Bound(w)
    BY <2>1 DEF IsLive, Custody
  <2> DEFINE d == jobs[wslots[w].job].by
  <2>3. d \in Coordinator /\ Busy(d) /\ w \in coord[d].claimed
    BY <2>2 DEF Bound
  <2>4. w \in coord'[d].claimed
    BY <2>2, <2>3 DEF OthersStay
  <2> QED
    BY <1>2, <2>2, <2>4 DEF Bound
<1>4. ASSUME NEW j \in JobIdx PROVE Used(j)'
  <2>1. Used(j)
    BY DEF Custody
  <2>2. Finished(j) => Finished(j)'
    BY DEF Finished
  <2> QED
    BY <1>2, <2>1, <2>2 DEF Used
<1> QED
  BY <1>1, <1>3, <1>4 DEF Custody

\* release_job, when no worker of the phase lives: the slots of the job and
\* nobody else's are freed.
LEMMA Releases ==
    ASSUME TypeOK, Custody, NEW c \in Coordinator, OthersStay(c),
           Busy(c), ~Busy(c)', coord'[c].claimed = {}, Release(c),
           \A w \in coord[c].claimed : ~IsLive(w)
    PROVE  Custody'
<1> DEFINE i == coord[c].job
<1>1. i \in JobIdx /\ jobs[i].used /\ jobs[i].by = c
  BY CoordTyped DEF Custody, Owns, HoldsJob
<1>2. jobs'[i] = FreeJob /\ \A j \in JobIdx \ {i} : jobs'[j] = jobs[j]
  BY <1>1 DEF Release, Released, TypeOK
<1>3. \A w \in SlotIdx : ~(wslots[w].used /\ wslots[w].job = i) =>
          wslots'[w] = wslots[w] /\ worker'[w] = worker[w]
  BY DEF Release, Released, SlotsFreed
<1>4. \A w \in SlotIdx : worker'[w] = worker[w] \/ worker'[w] = "none"
  BY DEF Release
<1> HIDE DEF i
<1>5. ASSUME NEW w \in SlotIdx, IsLive(w)
      PROVE  wslots[w].job # i
  <2>1. Owns(c) /\ Bound(w)
    BY DEF Custody
  <2> QED
    BY <1>5, <2>1, LiveIsClaimed DEF i
<1>6. ASSUME NEW d \in Coordinator PROVE Owns(d)'
  <2>1. CASE d = c
    BY <2>1 DEF Owns
  <2>2. CASE d # c
    <3>1. Owns(c) /\ Owns(d) /\ coord'[d] = coord[d]
      BY <2>2 DEF Custody, OthersStay
    <3>2. Busy(d) => coord[d].job \in JobIdx /\ coord[d].job # i
      BY <2>2, <3>1, JobsApart, CoordTyped DEF i
    <3>3. Busy(d) => jobs'[coord[d].job] = jobs[coord[d].job]
      BY <1>2, <3>2
    <3>4. ASSUME NEW w \in coord[d].claimed
          PROVE  wslots'[w] = wslots[w] /\ worker'[w] = worker[w]
      <4>1. Busy(d) /\ w \in SlotIdx
        BY <3>1, CoordTyped DEF Owns
      <4>2. wslots[w].job = coord[d].job
        BY <3>1, <4>1 DEF Owns, HoldsSlots
      <4> QED
        BY <1>3, <3>2, <4>1, <4>2
    <3> QED
      BY <3>1, <3>3, <3>4, OwnsStays
  <2> QED
    BY <2>1, <2>2
<1>7. ASSUME NEW w \in SlotIdx PROVE Bound(w)'
  <2>1. SUFFICES ASSUME IsLive(w)' PROVE Bound(w)'
    BY DEF Bound
  <2>2. IsLive(w) /\ Bound(w)
    BY <1>4, <2>1 DEF IsLive, Custody
  <2>3. wslots[w].job \in JobIdx /\ wslots[w].job # i
    BY <1>5, <2>2, SlotTyped
  <2>4. wslots'[w] = wslots[w] /\ jobs'[wslots[w].job] = jobs[wslots[w].job]
    BY <1>2, <1>3, <2>3
  <2>5. jobs[wslots[w].job].by # c
    BY <2>2, <2>3 DEF Bound, i
  <2> QED
    BY <2>2, <2>4, <2>5 DEF Bound, OthersStay, Busy
<1>8. ASSUME NEW j \in JobIdx PROVE Used(j)'
  <2>1. CASE j = i
    BY <1>2, <2>1 DEF Used, FreeJob
  <2>2. CASE j # i /\ jobs[j].used
    <3>1. Used(j) /\ jobs'[j] = jobs[j]
      BY <1>2, <2>2 DEF Custody
    <3>2. CASE Finished(j)
      BY <1>3, <2>2, <3>1, <3>2, FinishedStays DEF Used
    <3>3. CASE ~Finished(j)
      <4>1. jobs[j].by \in Coordinator /\ Busy(jobs[j].by) /\ coord[jobs[j].by].job = j
        BY <2>2, <3>1, <3>3 DEF Used
      <4>2. jobs[j].by # c
        BY <2>2, <4>1 DEF i
      <4> QED
        BY <3>1, <4>1, <4>2 DEF Used, OthersStay, Busy
    <3> QED
      BY <3>2, <3>3
  <2>3. CASE j # i /\ ~jobs[j].used
    BY <1>2, <2>3 DEF Used
  <2> QED
    BY <2>1, <2>2, <2>3
<1> QED
  BY <1>6, <1>7, <1>8 DEF Custody

\* create_job: a free job slot, and nobody's worker slot.
LEMMA Enters ==
    ASSUME TypeOK, Custody, NEW c \in Coordinator, OthersStay(c), NEW i \in JobIdx,
           ~Busy(c), Busy(c)', coord'[c].job = i, coord'[c].claimed = {},
           ~jobs[i].used, \A j \in JobIdx \ {i} : jobs'[j] = jobs[j],
           UNCHANGED <<wslots, worker>>,
           HoldsJob(c)', KeepsPace(c)'
    PROVE  Custody'
<1>1. ASSUME NEW d \in Coordinator PROVE Owns(d)'
  <2>1. CASE d = c
    BY <2>1 DEF Owns, HoldsSlots
  <2>2. CASE d # c
    <3>1. Owns(d) /\ coord'[d] = coord[d]
      BY <2>2 DEF Custody, OthersStay
    <3>2. Busy(d) => jobs'[coord[d].job] = jobs[coord[d].job]
      BY <3>1, CoordTyped DEF Owns, HoldsJob
    <3> QED
      BY <3>1, <3>2, OwnsStays
  <2> QED
    BY <2>1, <2>2
<1>2. ASSUME NEW w \in SlotIdx PROVE Bound(w)'
  <2>1. SUFFICES ASSUME IsLive(w)' PROVE Bound(w)'
    BY DEF Bound
  <2>2. IsLive(w) /\ Bound(w)
    BY <2>1 DEF IsLive, Custody
  <2>3. jobs'[wslots[w].job] = jobs[wslots[w].job] /\ jobs[wslots[w].job].by # c
    BY <2>2, SlotTyped DEF Bound
  <2> QED
    BY <2>2, <2>3 DEF Bound, OthersStay, Busy
<1>3. ASSUME NEW j \in JobIdx PROVE Used(j)'
  <2>1. CASE j = i
    BY <2>1 DEF Used, HoldsJob
  <2>2. CASE j # i
    <3>1. Used(j) /\ jobs'[j] = jobs[j]
      BY <2>2 DEF Custody
    <3>2. CASE Finished(j)
      BY <3>1, <3>2, FinishedStays DEF Used
    <3>3. CASE ~Finished(j) /\ jobs[j].used
      <4>1. jobs[j].by \in Coordinator /\ Busy(jobs[j].by) /\ coord[jobs[j].by].job = j
        BY <3>1, <3>3 DEF Used
      <4>2. jobs[j].by # c
        BY <4>1
      <4> QED
        BY <3>1, <4>1, <4>2 DEF Used, OthersStay, Busy
    <3>4. CASE ~jobs[j].used
      BY <3>1, <3>4 DEF Used
    <3> QED
      BY <3>2, <3>3, <3>4
  <2> QED
    BY <2>1, <2>2
<1> QED
  BY <1>1, <1>2, <1>3 DEF Custody

\* One shard more: the slot claimed was free, so nobody meant it.
LEMMA Claims ==
    ASSUME TypeOK, Custody, NEW c \in Coordinator, OthersStay(c),
           NEW accepted \in BOOLEAN, NEW x \in coord[c].todo, NEW w \in FreeSlots,
           coord[c].pc = "spawn",
           coord'[c].job = coord[c].job, coord'[c].id = coord[c].id,
           coord'[c].phase = coord[c].phase,
           coord'[c].todo = coord[c].todo \ {x},
           coord'[c].pc = IF coord[c].todo = {x} THEN "startup" ELSE "spawn",
           coord'[c].claimed = coord[c].claimed \cup {w},
           coord'[c].failed = (coord[c].failed \/ ~accepted),
           wslots' = [wslots EXCEPT ![w] =
               [used |-> TRUE, job |-> coord[c].job, phase |-> coord[c].phase, shard |-> x,
                status |-> IF accepted THEN 0 ELSE 2]],
           worker' = [worker EXCEPT ![w] = IF accepted THEN "registered" ELSE "none"],
           IF accepted THEN jobs' = jobs
           ELSE jobs' = [jobs EXCEPT ![coord[c].job].state = "FAILED"]
    PROVE  Custody'
<1> DEFINE k == coord[c]
           i == k.job
<1>1. i \in JobIdx /\ w \in SlotIdx /\ ~wslots[w].used
  BY CoordTyped DEF FreeSlots
<1>2. Owns(c) /\ Busy(c) /\ HoldsJob(c) /\ HoldsSlots(c) /\ KeepsPace(c)
  BY DEF Custody, Owns, Busy
<1>3. /\ wslots'[w] = [used |-> TRUE, job |-> i, phase |-> k.phase, shard |-> x,
                       status |-> IF accepted THEN 0 ELSE 2]
      /\ \A v \in SlotIdx \ {w} : wslots'[v] = wslots[v] /\ worker'[v] = worker[v]
      /\ worker'[w] = IF accepted THEN "registered" ELSE "none"
  BY <1>1 DEF TypeOK
<1>4. /\ wslots'[w].used /\ wslots'[w].job = i /\ wslots'[w].phase = k.phase
      /\ wslots'[w].shard = x /\ (accepted => wslots'[w].status = 0)
  BY <1>3
<1>5. /\ \A j \in JobIdx \ {i} : jobs'[j] = jobs[j]
      /\ \A j \in JobIdx : /\ jobs'[j].used = jobs[j].used /\ jobs'[j].id = jobs[j].id
                           /\ jobs'[j].db = jobs[j].db /\ jobs'[j].by = jobs[j].by
      /\ jobs'[i].state = IF accepted THEN jobs[i].state ELSE "FAILED"
  <2>1. CASE accepted
    BY <2>1
  <2>2. CASE ~accepted
    BY <1>1, <2>2, StateEffect
  <2> QED
    BY <2>1, <2>2
<1>6. Busy(c)' /\ \A d \in Coordinator : Busy(d) => Busy(d)' /\ coord'[d].job = coord[d].job
  <2>1. Busy(c)'
    BY DEF Busy
  <2> QED
    BY <2>1 DEF OthersStay, Busy
<1>7. w \notin k.claimed /\ k.claimed \in SUBSET SlotIdx /\ x \in k.todo
  BY <1>1, <1>2, CoordTyped DEF HoldsSlots
<1>8. HoldsJob(c)'
  <2>1. jobs'[i].used /\ jobs'[i].by = c /\ jobs'[i].db = DbOf[c] /\ jobs'[i].id = coord'[c].id
    BY <1>1, <1>2, <1>5 DEF HoldsJob
  <2>2. jobs'[i].state # "IDLE" /\ (jobs'[i].state = "FALLBACK" => coord'[c].phase = "PREP")
    BY <1>2, <1>5 DEF HoldsJob
  <2>3. ASSUME jobs'[i].state = "FAILED"
        PROVE  coord'[c].failed \/ \E v \in coord'[c].claimed : wslots'[v].status = 2
    <3>1. CASE ~accepted
      BY <3>1
    <3>2. CASE accepted /\ ~k.failed
      <4>1. PICK v \in k.claimed : wslots[v].status = 2
        BY <1>2, <1>5, <2>3, <3>2 DEF HoldsJob
      <4>2. v \in coord'[c].claimed /\ wslots'[v].status = 2
        BY <1>3, <1>7, <4>1
      <4> QED
        BY <4>2
    <3>3. CASE k.failed
      BY <3>3
    <3> QED
      BY <3>1, <3>2, <3>3
  <2>4. coord'[c].id \in JobId /\ coord'[c].job = i
    BY <1>2 DEF HoldsJob
  <2> QED
    BY <2>1, <2>2, <2>3, <2>4 DEF HoldsJob
<1>9. HoldsSlots(c)'
  <2> SUFFICES ASSUME NEW v \in coord'[c].claimed
               PROVE  wslots'[v].used /\ wslots'[v].job = i /\ wslots'[v].phase = k.phase
    BY DEF HoldsSlots
  <2>1. CASE v = w
    BY <1>4, <2>1
  <2>2. CASE v # w
    BY <1>2, <1>3, <1>7, <2>2 DEF HoldsSlots
  <2> QED
    BY <2>1, <2>2
<1>10. KeepsPace(c)'
  <2>1. coord'[c].pc = "spawn" <=> coord'[c].todo # {}
    BY <1>7
  <2>2. ASSUME k.phase = "INDEX", ~coord'[c].failed, NEW y \in Ddl \ coord'[c].todo
        PROVE  \E v \in coord'[c].claimed : wslots'[v].shard = y
    <3>1. CASE y = x
      BY <1>4, <3>1
    <3>2. CASE y # x
      <4>1. PICK v \in k.claimed : wslots[v].shard = y
        BY <1>2, <2>2, <3>2 DEF KeepsPace
      <4>2. v \in coord'[c].claimed /\ wslots'[v].shard = y
        BY <1>3, <1>7, <4>1
      <4> QED
        BY <4>2
    <3> QED
      BY <3>1, <3>2
  <2>3. coord'[c].pc \notin {"shutdown", "final"}
    OBVIOUS
  <2>4. ASSUME k.phase = "INDEX"
        PROVE  coord'[c].todo \subseteq Ddl /\ \A v \in coord'[c].claimed : wslots'[v].shard \in Ddl
    <3>1. k.todo \subseteq Ddl /\ \A v \in k.claimed : wslots[v].shard \in Ddl
      BY <1>2, <2>4 DEF KeepsPace
    <3>2. ASSUME NEW v \in coord'[c].claimed PROVE wslots'[v].shard \in Ddl
      <4>1. CASE v = w
        BY <1>4, <1>7, <3>1, <4>1
      <4>2. CASE v # w
        BY <1>3, <1>7, <3>1, <4>2
      <4> QED
        BY <4>1, <4>2
    <3> QED
      BY <3>1, <3>2
  <2> QED
    BY <2>1, <2>2, <2>3, <2>4 DEF KeepsPace
<1>11. ASSUME NEW d \in Coordinator PROVE Owns(d)'
  <2>1. CASE d = c
    BY <1>6, <1>8, <1>9, <1>10, <2>1 DEF Owns
  <2>2. CASE d # c
    <3>1. Owns(d) /\ coord'[d] = coord[d]
      BY <2>2 DEF Custody, OthersStay
    <3>2. Busy(d) => coord[d].job \in JobIdx /\ coord[d].job # i
      BY <1>2, <2>2, <3>1, JobsApart, CoordTyped
    <3>3. Busy(d) => jobs'[coord[d].job] = jobs[coord[d].job]
      BY <1>5, <3>2
    <3>4. w \notin coord[d].claimed /\ coord[d].claimed \in SUBSET SlotIdx
      BY <1>1, <3>1, CoordTyped DEF Owns, HoldsSlots
    <3>5. \A v \in coord[d].claimed : wslots'[v] = wslots[v] /\ worker'[v] = worker[v]
      BY <1>3, <3>4
    <3> QED
      BY <3>1, <3>3, <3>5, OwnsStays
  <2> QED
    BY <2>1, <2>2
<1>12. ASSUME NEW v \in SlotIdx PROVE Bound(v)'
  <2>1. SUFFICES ASSUME IsLive(v)' PROVE Bound(v)'
    BY DEF Bound
  <2>2. CASE v = w
    <3>1. accepted
      BY <1>3, <2>1, <2>2 DEF IsLive
    <3>2. jobs'[i].used /\ jobs'[i].by = c
      BY <1>8 DEF HoldsJob
    <3> QED
      BY <1>4, <1>6, <2>2, <3>1, <3>2 DEF Bound
  <2>3. CASE v # w
    <3>1. Bound(v) /\ IsLive(v) /\ wslots'[v] = wslots[v]
      BY <1>3, <2>1, <2>3 DEF Custody, IsLive
    <3> DEFINE j == wslots[v].job
    <3>2. j \in JobIdx /\ jobs'[j].used /\ jobs'[j].by = jobs[j].by
      BY <1>5, <3>1, SlotTyped DEF Bound
    <3> DEFINE d == jobs[j].by
    <3>3. d \in Coordinator /\ Busy(d) /\ coord[d].job = j /\ v \in coord[d].claimed
      BY <3>1 DEF Bound
    <3>4. v \in coord'[d].claimed
      BY <3>3 DEF OthersStay
    <3> QED
      BY <1>6, <3>1, <3>2, <3>3, <3>4, ZenonT(40) DEF Bound
  <2> QED
    BY <2>2, <2>3
<1>13. ASSUME NEW j \in JobIdx PROVE Used(j)'
  <2>1. CASE j = i
    <3>1. jobs'[i].by = c
      BY <1>8 DEF HoldsJob
    <3> QED
      BY <1>6, <2>1, <3>1 DEF Used
  <2>2. CASE j # i
    <3>1. Used(j) /\ jobs'[j] = jobs[j]
      BY <1>5, <2>2 DEF Custody
    <3>2. CASE Finished(j)
      <4>1. \A v \in SlotIdx : wslots[v].used => wslots'[v] = wslots[v]
        BY <1>1, <1>3
      <4> QED
        BY <3>1, <3>2, <4>1, FinishedStays DEF Used
    <3>3. CASE ~Finished(j)
      BY <1>6, <3>1, <3>3 DEF Used
    <3> QED
      BY <3>2, <3>3
  <2> QED
    BY <2>1, <2>2
<1> QED
  BY <1>11, <1>12, <1>13 DEF Custody

LEMMA ResetCustody ==
    ASSUME \A j \in JobIdx : jobs'[j] = FreeJob, \A w \in SlotIdx : worker'[w] = "none",
           \A c \in Coordinator : coord'[c] = Idle
    PROVE  Custody'
<1>1. \A c \in Coordinator : Owns(c)'
  BY DEF Owns, Idle, Busy
<1>2. \A w \in SlotIdx : Bound(w)'
  BY DEF Bound, IsLive
<1>3. ~FreeJob.used
  BY DEF FreeJob
<1>4. \A j \in JobIdx : Used(j)'
  BY <1>3 DEF Used
<1> QED
  BY <1>1, <1>2, <1>4 DEF Custody

\* A worker that starts, and one that ends, with a report or without: only its
\* own slot and the state of its own job change.
LEMMA WorkerStarts ==
    ASSUME TypeOK, Custody, NEW w \in SlotIdx, worker[w] = "registered",
           worker' = [worker EXCEPT ![w] = "running"], UNCHANGED <<jobs, wslots, coord>>
    PROVE  Custody'
<1>1. worker'[w] = "running" /\ \A v \in SlotIdx \ {w} : worker'[v] = worker[v]
  BY DEF TypeOK
<1>2. Bound(w) /\ IsLive(w)
  BY DEF Custody, IsLive
<1>3. ASSUME NEW d \in Coordinator PROVE Owns(d)'
  <2>1. Owns(d)
    BY DEF Custody
  <2>2. CASE ~Busy(d)
    BY <2>1, <2>2 DEF Owns, Busy
  <2>3. CASE Busy(d)
    <3>1. HoldsJob(d) /\ HoldsSlots(d) /\ KeepsPace(d)
      BY <2>1, <2>3 DEF Owns
    <3>2. HoldsJob(d)' /\ HoldsSlots(d)'
      BY <3>1 DEF HoldsJob, HoldsSlots
    <3>3. w \in coord[d].claimed => coord[d].pc \notin {"shutdown", "final"}
      BY <3>1 DEF KeepsPace
    <3>4. coord[d].claimed \in SUBSET SlotIdx
      BY CoordTyped
    <3>5. KeepsPace(d)'
      BY <1>1, <3>1, <3>3, <3>4 DEF KeepsPace
    <3> QED
      BY <2>3, <3>2, <3>5 DEF Owns, Busy
  <2> QED
    BY <2>2, <2>3
<1>4. ASSUME NEW v \in SlotIdx PROVE Bound(v)'
  <2>1. IsLive(v)' => IsLive(v)
    BY <1>1, <1>2 DEF IsLive
  <2>2. Bound(v)
    BY DEF Custody
  <2> QED
    BY <2>1, <2>2 DEF Bound, Busy
<1>5. ASSUME NEW j \in JobIdx PROVE Used(j)'
  <2>1. Used(j)
    BY DEF Custody
  <2> QED
    BY <2>1 DEF Used, Finished, Busy
<1> QED
  BY <1>3, <1>4, <1>5 DEF Custody

LEMMA WorkerEnds ==
    ASSUME TypeOK, Custody, NEW w \in SlotIdx, IsLive(w), NEW st \in 0 .. 2,
           NEW gone \in {"exited", "unborn"},
           worker' = [worker EXCEPT ![w] = gone],
           wslots' = [wslots EXCEPT ![w].status = st], UNCHANGED coord,
           \/ jobs' = jobs
           \/ jobs' = [jobs EXCEPT ![wslots[w].job].state = "FALLBACK"] /\ wslots[w].phase = "PREP"
           \/ jobs' = [jobs EXCEPT ![wslots[w].job].state = "FAILED"] /\ st = 2
    PROVE  Custody'
<1>1. PICK i \in JobIdx, c \in Coordinator : i = wslots[w].job /\ c = jobs[i].by
  BY SlotTyped DEF Custody, Bound
<1>2. /\ c \in Coordinator /\ Busy(c) /\ coord[c].job = i /\ w \in coord[c].claimed
      /\ wslots[w].used /\ wslots[w].status = 0
  BY <1>1 DEF Custody, Bound
<1>3. HoldsJob(c) /\ HoldsSlots(c) /\ KeepsPace(c)
  BY <1>2 DEF Custody, Owns
<1>4. worker'[w] = gone /\ \A v \in SlotIdx \ {w} : worker'[v] = worker[v]
  BY DEF TypeOK
<1>5. /\ wslots'[w].status = st
      /\ \A v \in SlotIdx \ {w} : wslots'[v] = wslots[v]
      /\ \A v \in SlotIdx : /\ wslots'[v].used = wslots[v].used
                            /\ wslots'[v].job = wslots[v].job
                            /\ wslots'[v].phase = wslots[v].phase
                            /\ wslots'[v].shard = wslots[v].shard
  BY ReportEffect
<1>6. /\ \A j \in JobIdx \ {i} : jobs'[j] = jobs[j]
      /\ \A j \in JobIdx : /\ jobs'[j].used = jobs[j].used /\ jobs'[j].id = jobs[j].id
                           /\ jobs'[j].db = jobs[j].db /\ jobs'[j].by = jobs[j].by
      /\ \/ jobs'[i].state = jobs[i].state
         \/ jobs'[i].state = "FALLBACK" /\ wslots[w].phase = "PREP"
         \/ jobs'[i].state = "FAILED" /\ st = 2
  <2>1. CASE jobs' = jobs
    BY <2>1
  <2> USE <1>1
  <2>2. CASE jobs' = [jobs EXCEPT ![i].state = "FALLBACK"] /\ wslots[w].phase = "PREP"
    BY <1>1, <2>2, StateEffect
  <2>3. CASE jobs' = [jobs EXCEPT ![i].state = "FAILED"] /\ st = 2
    BY <1>1, <2>3, StateEffect
  <2> QED
    BY <2>1, <2>2, <2>3
<1>7. HoldsJob(c)'
  <2>1. /\ jobs'[i].used /\ jobs'[i].by = c /\ jobs'[i].db = DbOf[c]
        /\ jobs'[i].id = coord[c].id /\ coord[c].id \in JobId
    <3>1. /\ jobs[i].used /\ jobs[i].by = c /\ jobs[i].db = DbOf[c]
          /\ jobs[i].id = coord[c].id /\ coord[c].id \in JobId
      BY <1>2, <1>3 DEF HoldsJob
    <3>2. /\ jobs'[i].used = jobs[i].used /\ jobs'[i].id = jobs[i].id
          /\ jobs'[i].db = jobs[i].db /\ jobs'[i].by = jobs[i].by
      BY <1>1, <1>6
    <3> QED
      BY <3>1, <3>2
  <2>2. jobs'[i].state # "IDLE"
    BY <1>2, <1>3, <1>6 DEF HoldsJob
  <2>3. coord[c].phase = wslots[w].phase
    BY <1>2, <1>3 DEF HoldsSlots
  <2>4. jobs'[i].state = "FALLBACK" => coord[c].phase = "PREP"
    BY <1>2, <1>3, <1>6, <2>3 DEF HoldsJob
  <2>5. ASSUME jobs'[i].state = "FAILED"
        PROVE  coord[c].failed \/ \E v \in coord[c].claimed : wslots'[v].status = 2
    <3>1. CASE st = 2
      BY <1>2, <1>5, <3>1
    <3>2. CASE st # 2 /\ ~coord[c].failed
      <4>1. PICK v \in coord[c].claimed : wslots[v].status = 2
        BY <1>2, <1>3, <1>6, <2>5, <3>2 DEF HoldsJob
      <4>2. v \in SlotIdx \ {w}
        BY <1>2, <4>1, CoordTyped
      <4> QED
        BY <1>5, <4>1, <4>2
    <3>3. CASE coord[c].failed
      BY <3>3
    <3> QED
      BY <3>1, <3>2, <3>3
  <2> QED
    BY <1>2, <2>1, <2>2, <2>4, <2>5 DEF HoldsJob
<1>8. ASSUME NEW d \in Coordinator PROVE Owns(d)'
  <2>1. Owns(d) /\ coord'[d] = coord[d] /\ coord[d].claimed \in SUBSET SlotIdx
    BY CoordTyped DEF Custody
  <2>2. CASE d = c
    <3>1. HoldsSlots(c)'
      BY <1>3, <1>5, <2>1, <2>2 DEF HoldsSlots
    <3>2. coord[c].pc # "final"
      BY <1>2, <1>3 DEF IsLive, KeepsPace
    <3>3. KeepsPace(c)'
      <4>1. ASSUME coord[c].phase = "INDEX", ~coord[c].failed, NEW x \in Ddl \ coord[c].todo
            PROVE  \E v \in coord[c].claimed : wslots'[v].shard = x
        BY <1>3, <1>5, <2>1, <2>2, <4>1 DEF KeepsPace
      <4>2. coord[c].pc = "shutdown" => \A v \in coord[c].claimed : worker'[v] # "registered"
        BY <1>3, <1>4, <2>1, <2>2 DEF KeepsPace
      <4>3. coord[c].pc = "spawn" <=> coord[c].todo # {}
        BY <1>3 DEF KeepsPace
      <4>4. coord[c].phase = "INDEX" =>
                coord[c].todo \subseteq Ddl /\ \A v \in coord[c].claimed : wslots'[v].shard \in Ddl
        BY <1>3, <1>5, <2>1, <2>2 DEF KeepsPace
      <4> QED
        BY <3>2, <4>1, <4>2, <4>3, <4>4 DEF KeepsPace
    <3> QED
      BY <1>2, <1>7, <2>2, <3>1, <3>3 DEF Owns, Busy
  <2>3. CASE d # c
    <3>1. Busy(d) => coord[d].job \in JobIdx /\ coord[d].job # i
      BY <1>2, <2>1, <2>3, JobsApart, CoordTyped DEF Custody
    <3>2. Busy(d) => jobs'[coord[d].job] = jobs[coord[d].job]
      BY <1>6, <3>1
    <3>3. ASSUME NEW v \in coord[d].claimed PROVE v # w
      <4>1. Busy(d) /\ wslots[v].job = coord[d].job
        BY <2>1 DEF Owns, HoldsSlots
      <4> QED
        BY <1>1, <3>1, <4>1
    <3>4. \A v \in coord[d].claimed : wslots'[v] = wslots[v] /\ worker'[v] = worker[v]
      BY <1>4, <1>5, <2>1, <3>3
    <3> QED
      BY <2>1, <3>2, <3>4, OwnsStays
  <2> QED
    BY <2>2, <2>3
<1>9. ASSUME NEW v \in SlotIdx PROVE Bound(v)'
  <2>1. SUFFICES ASSUME IsLive(v)' PROVE Bound(v)'
    BY DEF Bound
  <2>2. v # w
    BY <1>4, <2>1 DEF IsLive
  <2>3. Bound(v) /\ IsLive(v) /\ wslots'[v] = wslots[v]
    BY <1>4, <1>5, <2>1, <2>2 DEF Custody, IsLive
  <2>4. /\ jobs'[wslots[v].job].used = jobs[wslots[v].job].used
        /\ jobs'[wslots[v].job].by = jobs[wslots[v].job].by
    BY <1>6, SlotTyped
  <2> QED
    BY <2>3, <2>4 DEF Bound, Busy
<1>10. ASSUME NEW j \in JobIdx PROVE Used(j)'
  <2>1. CASE j = i
    BY <1>2, <1>7, <2>1 DEF Used, HoldsJob, Busy
  <2>2. CASE j # i
    <3>1. Used(j) /\ jobs'[j] = jobs[j]
      BY <1>6, <2>2 DEF Custody
    <3>2. CASE Finished(j)
      <4>1. \A v \in SlotIdx : wslots[v].status = 1 => wslots'[v] = wslots[v]
        BY <1>2, <1>5
      <4> QED
        BY <3>1, <3>2, <4>1, FinishedStays DEF Used
    <3>3. CASE ~Finished(j)
      BY <3>1, <3>3 DEF Used, Busy
    <3> QED
      BY <3>2, <3>3
  <2> QED
    BY <2>1, <2>2
<1> QED
  BY <1>8, <1>9, <1>10 DEF Custody

-----------------------------------------------------------------------------
(***************************************************************************)
(* The actions of a coordinator.                                           *)
(***************************************************************************)

LEMMA AnswerEffect ==
    ASSUME TypeOK, NEW c \in Coordinator, NEW n,
           coord' = [coord EXCEPT ![c] = n],
           \/ \E a \in {"none", "refused", "pinged", "failed", "ok", "error", "combined"} :
                  n = [Idle EXCEPT !.answer = a]
           \/ \E f \in File \cup {<<>>} : n = [Idle EXCEPT !.pc = "combined", !.file = f]
    PROVE  /\ coord' \in [Coordinator -> Coord] /\ OthersStay(c)
           /\ ~Busy(c)' /\ coord'[c].claimed = {}
<1>1. Idle \in Coord /\ Idle.pc = "idle" /\ Idle.claimed = {}
  BY FreeRecords DEF Idle
<1>2. n \in Coord /\ n.pc \in {"idle", "combined"} /\ n.claimed = {}
  <2> HIDE DEF Idle
  <2>1. CASE \E f \in File \cup {<<>>} : n = [Idle EXCEPT !.pc = "combined", !.file = f]
    BY <1>1, <2>1 DEF Coord, Pc
  <2>2. CASE \E a \in {"none", "refused", "pinged", "failed", "ok", "error", "combined"} :
                 n = [Idle EXCEPT !.answer = a]
    BY <1>1, <2>2 DEF Coord, Pc
  <2> QED
    BY <2>1, <2>2
<1>3. coord'[c] = n /\ OthersStay(c) /\ coord' \in [Coordinator -> Coord]
  BY <1>2 DEF TypeOK, OthersStay
<1> QED
  BY <1>2, <1>3 DEF Busy

LEMMA ReleaseTyped ==
    ASSUME TypeOK, NEW c \in Coordinator, Release(c)
    PROVE  /\ jobs' \in [JobIdx -> Job] /\ wslots' \in [SlotIdx -> Slot]
           /\ worker' \in [SlotIdx -> {"none", "registered", "running", "exited", "unborn"}]
<1>1. jobs' \in [JobIdx -> Job]
  BY FreeRecords DEF Release, Released, TypeOK
<1>2. wslots' \in [SlotIdx -> Slot]
  BY FreeRecords DEF Release, Released, SlotsFreed, TypeOK
<1>3. worker' \in [SlotIdx -> {"none", "registered", "running", "exited", "unborn"}]
  BY DEF Release, TypeOK
<1> QED
  BY <1>1, <1>2, <1>3

LEMMA BeginEffect ==
    ASSUME TypeOK, NEW c \in Coordinator, NEW p \in {"PREP", "PING"},
           NEW f \in File \cup {<<>>}, Begin(c, p, f)
    PROVE  LET k == coord'[c] IN
           /\ coord' \in [Coordinator -> Coord] /\ OthersStay(c) /\ ~Busy(c)
           /\ nextJob' \in Nat \ {0} /\ jobs' \in [JobIdx -> Job]
           /\ k.claimed = {}
           /\ \/ ~Busy(c)' /\ UNCHANGED jobs
              \/ \E i \in JobIdx :
                    /\ ~jobs[i].used /\ \A j \in JobIdx \ {i} : jobs'[j] = jobs[j]
                    /\ k.pc = "spawn" /\ k.job = i /\ k.todo # {} /\ k.phase = p
                    /\ jobs'[i].used /\ jobs'[i].by = c /\ jobs'[i].db = DbOf[c]
                    /\ jobs'[i].id = k.id /\ k.id \in JobId /\ jobs'[i].state = "RUNNING"
<1>1. coord[c].pc = "idle" /\ nextJob \in JobId /\ nextJob' = nextJob + 1
  BY DEF Begin
<1>2. ~Busy(c) /\ nextJob' \in Nat \ {0}
  BY <1>1 DEF Busy, TypeOK
<1>3. CASE FreeJobs = {}
  <2>1. coord' = [coord EXCEPT ![c] = [Idle EXCEPT !.answer = "refused"]] /\ UNCHANGED jobs
    BY <1>3 DEF Begin
  <2> QED
    BY <1>2, <2>1, AnswerEffect DEF TypeOK
<1>4. CASE FreeJobs # {}
  <2> DEFINE i == Min(FreeJobs)
             job == [used |-> TRUE, id |-> nextJob, state |-> "RUNNING",
                     db |-> DbOf[c], by |-> c]
             k == [Idle EXCEPT !.pc = "spawn", !.job = i, !.id = nextJob, !.phase = p,
                               !.todo = Specs(p, f), !.file = f]
  <2>1. jobs' = [jobs EXCEPT ![i] = job] /\ coord' = [coord EXCEPT ![c] = k]
    BY <1>4 DEF Begin
  <2>2. i \in JobIdx /\ ~jobs[i].used
    <3>1. FreeJobs \subseteq Nat
      BY Sizes DEF FreeJobs
    <3>2. i \in FreeJobs
      BY <1>4, <3>1, MinIsMember
    <3> QED
      BY <3>2 DEF FreeJobs
  <2>3. Specs(p, f) \in SUBSET Shard /\ Specs(p, f) # {} /\ p \in Phase
    BY SpecsTyped, PhaseNames
  <2>4. DbOf[c] \in Database /\ nextJob \in Nat
    BY LoaderAssumption DEF LoaderAssumption, TypeOK
  <2>5. job \in Job
    BY <2>4 DEF Job
  <2> HIDE DEF i
  <2>6. /\ k \in Coord /\ k.pc = "spawn" /\ k.job = i /\ k.id = nextJob /\ k.phase = p
        /\ k.todo # {} /\ k.claimed = {}
    <3>1. Idle \in Coord /\ Idle.claimed = {}
      BY FreeRecords DEF Idle
    <3> HIDE DEF Idle
    <3> QED
      BY <2>2, <2>3, <2>4, <3>1 DEF Coord, Pc
  <2> HIDE DEF k
  <2>7. coord'[c] = k /\ OthersStay(c) /\ coord' \in [Coordinator -> Coord]
    BY <2>1, <2>6 DEF TypeOK, OthersStay
  <2>8. /\ jobs' \in [JobIdx -> Job] /\ jobs'[i] = job
        /\ \A j \in JobIdx \ {i} : jobs'[j] = jobs[j]
    <3> HIDE DEF job
    <3> QED
      BY <2>1, <2>2, <2>5 DEF TypeOK
  <2>9. jobs'[i].used /\ jobs'[i].by = c /\ jobs'[i].db = DbOf[c] /\ jobs'[i].id = nextJob
        /\ jobs'[i].state = "RUNNING"
    BY <2>8
  <2> HIDE DEF job
  <2>10. \E j \in JobIdx :
                /\ ~jobs[j].used /\ \A h \in JobIdx \ {j} : jobs'[h] = jobs[h]
                /\ k.job = j
                /\ jobs'[j].used /\ jobs'[j].by = c /\ jobs'[j].db = DbOf[c]
                /\ jobs'[j].id = k.id /\ jobs'[j].state = "RUNNING"
    BY <2>2, <2>6, <2>8, <2>9
  <2> QED
    BY <1>1, <1>2, <2>6, <2>7, <2>8, <2>10
<1> QED
  BY <1>3, <1>4

LEMMA StartupEffect ==
    ASSUME TypeOK, NEW c \in Coordinator, NEW late \in BOOLEAN, Startup(c, late)
    PROVE  LET k == coord[c]  n == coord'[c] IN
           /\ coord' \in [Coordinator -> Coord] /\ OthersStay(c)
           /\ k.pc = "startup" /\ n.pc = "shutdown"
           /\ n.job = k.job /\ n.id = k.id /\ n.phase = k.phase /\ n.todo = k.todo
           /\ n.claimed = k.claimed /\ (k.failed => n.failed)
           /\ \A w \in k.claimed : worker[w] # "registered"
<1> DEFINE k == coord[c]
           failed == \/ k.failed
                     \/ \E w \in k.claimed : worker[w] = "unborn"
                     \/ late /\ \E w \in k.claimed : worker[w] = "exited"
           n == [k EXCEPT !.pc = "shutdown", !.failed = failed]
<1>1. k.pc = "startup" /\ \A w \in k.claimed : worker[w] # "registered"
  BY DEF Startup
<1>2. k \in Coord /\ k.failed \in BOOLEAN /\ coord \in [Coordinator -> Coord]
  BY CoordTyped DEF TypeOK
<1>3. coord' = [coord EXCEPT ![c] = n]
  BY <1>2 DEF Startup, Coord
<1>4. failed \in BOOLEAN /\ (k.failed => failed)
  BY <1>2
<1>5. n = [k EXCEPT !.pc = "shutdown", !.failed = failed]
  OBVIOUS
<1> HIDE DEF n, failed
<1>6. /\ coord' \in [Coordinator -> Coord] /\ OthersStay(c) /\ coord'[c] = n
      /\ n.pc = "shutdown" /\ n.failed = failed
      /\ n.job = k.job /\ n.id = k.id /\ n.phase = k.phase /\ n.todo = k.todo
      /\ n.claimed = k.claimed
  <2> HIDE DEF k
  <2>1. /\ n \in Coord /\ n.pc = "shutdown" /\ n.failed = failed
        /\ n.job = k.job /\ n.id = k.id /\ n.phase = k.phase /\ n.todo = k.todo
        /\ n.claimed = k.claimed
    BY <1>2, <1>4, <1>5 DEF Coord, Pc
  <2> QED
    BY <1>2, <1>3, <2>1 DEF OthersStay
<1> QED
  BY <1>1, <1>4, <1>6

LEMMA AdvanceEffect ==
    ASSUME TypeOK, NEW c \in Coordinator, Advance(c), coord[c].phase \notin {"PING", "INDEX"}
    PROVE  LET k == coord[c]  n == coord'[c] IN
           /\ coord' \in [Coordinator -> Coord] /\ OthersStay(c)
           /\ n.pc = "spawn" /\ n.todo # {} /\ n.claimed = {}
           /\ n.phase = "INDEX" => n.todo = Ddl
           /\ n.job = k.job /\ n.id = k.id
<1> DEFINE k == coord[c]
           p == Phases[Position(k.phase) + 1]
           todo == Specs(p, k.file)
           n == [k EXCEPT !.pc = "spawn", !.phase = p, !.todo = todo, !.claimed = {}]
<1>1. k \in Coord /\ k.phase \in Phase /\ k.file \in File \cup {<<>>}
  BY CoordTyped
<1>2. p \in Phase
  BY <1>1, NextPhase
<1>3. todo \in SUBSET Shard /\ todo # {} /\ (p = "INDEX" => todo = Ddl)
  BY <1>1, <1>2, SpecsTyped
<1>4. coord' = [coord EXCEPT ![c] = n]
  BY DEF Advance
<1>5. n = [k EXCEPT !.pc = "spawn", !.phase = p, !.todo = todo, !.claimed = {}]
  OBVIOUS
<1> HIDE DEF n, p, todo
<1>6. /\ coord' \in [Coordinator -> Coord] /\ OthersStay(c) /\ coord'[c] = n
      /\ n.pc = "spawn" /\ n.todo = todo /\ n.phase = p /\ n.claimed = {}
      /\ n.job = k.job /\ n.id = k.id
  <2> HIDE DEF k
  <2>1. /\ n \in Coord /\ n.pc = "spawn" /\ n.todo = todo /\ n.phase = p /\ n.claimed = {}
        /\ n.job = k.job /\ n.id = k.id
    BY <1>1, <1>2, <1>3, <1>5 DEF Coord, Pc
  <2> QED
    BY <1>4, <2>1 DEF OthersStay, TypeOK
<1> QED
  BY <1>3, <1>6

LEMMA BeginCustody ==
    ASSUME TypeOK, Custody, NEW c \in Coordinator, NEW p \in {"PREP", "PING"},
           NEW f \in File \cup {<<>>}, Begin(c, p, f)
    PROVE  Custody'
<1>1. UNCHANGED <<wslots, worker>>
  BY DEF Begin
<1>2. CASE ~Busy(c)' /\ UNCHANGED jobs
  BY <1>1, <1>2, BeginEffect, Leaves
<1>3. ASSUME NEW i \in JobIdx,
             ~jobs[i].used, \A j \in JobIdx \ {i} : jobs'[j] = jobs[j],
             coord'[c].pc = "spawn", coord'[c].job = i, coord'[c].todo # {},
             coord'[c].phase = p,
             jobs'[i].used, jobs'[i].by = c, jobs'[i].db = DbOf[c],
             jobs'[i].id = coord'[c].id, coord'[c].id \in JobId, jobs'[i].state = "RUNNING"
      PROVE  Custody'
  <2>1. OthersStay(c) /\ ~Busy(c) /\ coord'[c].claimed = {}
    BY BeginEffect
  <2>2. HoldsJob(c)'
    BY <1>3 DEF HoldsJob
  <2>3. KeepsPace(c)' /\ Busy(c)'
    BY <1>3, <2>1 DEF KeepsPace, Busy
  <2> QED
    BY <1>1, <1>3, <2>1, <2>2, <2>3, Enters
<1> QED
  BY <1>2, <1>3, BeginEffect

LEMMA SpawnCustody ==
    ASSUME TypeOK, Custody, NEW c \in Coordinator, NEW accepted \in BOOLEAN, Spawn(c, accepted)
    PROVE  Custody'
<1> DEFINE k == coord[c]
           n == coord'[c]
<1>1. Owns(c)
  BY DEF Custody
<1>2. /\ k.pc = "spawn" /\ OthersStay(c)
      /\ n.job = k.job /\ n.id = k.id /\ n.phase = k.phase
  BY <1>1, SpawnEffect
<1>3. PICK x \in k.todo :
         /\ n.todo = k.todo \ {x}
         /\ n.pc = IF k.todo = {x} THEN "startup" ELSE "spawn"
         /\ \/ /\ n.claimed = k.claimed /\ n.failed
               /\ UNCHANGED <<jobs, wslots, worker>>
            \/ \E w \in FreeSlots :
               /\ n.claimed = k.claimed \cup {w} /\ n.failed = (k.failed \/ ~accepted)
               /\ wslots' = [wslots EXCEPT ![w] =
                      [used |-> TRUE, job |-> k.job, phase |-> k.phase, shard |-> x,
                       status |-> IF accepted THEN 0 ELSE 2]]
               /\ worker' = [worker EXCEPT ![w] = IF accepted THEN "registered" ELSE "none"]
               /\ IF accepted THEN jobs' = jobs
                  ELSE jobs' = [jobs EXCEPT ![k.job].state = "FAILED"]
  BY <1>1, SpawnEffect
<1>4. CASE n.claimed = k.claimed /\ n.failed /\ UNCHANGED <<jobs, wslots, worker>>
  <2>1. HoldsJob(c) /\ HoldsSlots(c) /\ KeepsPace(c) /\ Busy(c) /\ Busy(c)'
    BY <1>1, <1>2, <1>3 DEF Owns, Busy
  <2>2. HoldsJob(c)'
    BY <1>2, <1>4, <2>1 DEF HoldsJob
  <2>3. HoldsSlots(c)'
    BY <1>2, <1>4, <2>1 DEF HoldsSlots
  <2>4. KeepsPace(c)'
    BY <1>2, <1>3, <1>4, <2>1 DEF KeepsPace
  <2> QED
    BY <1>2, <1>4, <2>1, <2>2, <2>3, <2>4, Stays
<1>5. CASE ~(n.claimed = k.claimed /\ n.failed /\ UNCHANGED <<jobs, wslots, worker>>)
  <2>1. PICK w \in FreeSlots :
               /\ n.claimed = k.claimed \cup {w} /\ n.failed = (k.failed \/ ~accepted)
               /\ wslots' = [wslots EXCEPT ![w] =
                      [used |-> TRUE, job |-> k.job, phase |-> k.phase, shard |-> x,
                       status |-> IF accepted THEN 0 ELSE 2]]
               /\ worker' = [worker EXCEPT ![w] = IF accepted THEN "registered" ELSE "none"]
               /\ IF accepted THEN jobs' = jobs
                  ELSE jobs' = [jobs EXCEPT ![k.job].state = "FAILED"]
    BY <1>3, <1>5
  <2> QED
    BY <1>2, <1>3, <2>1, Claims
<1> QED
  BY <1>4, <1>5

LEMMA StartupCustody ==
    ASSUME TypeOK, Custody, NEW c \in Coordinator, NEW late \in BOOLEAN, Startup(c, late)
    PROVE  Custody'
<1> DEFINE k == coord[c]
           n == coord'[c]
<1>1. UNCHANGED <<jobs, wslots, worker>>
  BY DEF Startup, shmem
<1>2. /\ OthersStay(c) /\ k.pc = "startup" /\ n.pc = "shutdown"
      /\ n.job = k.job /\ n.id = k.id /\ n.phase = k.phase /\ n.todo = k.todo
      /\ n.claimed = k.claimed /\ (k.failed => n.failed)
      /\ \A w \in k.claimed : worker[w] # "registered"
  BY StartupEffect
<1>3. Busy(c) /\ Busy(c)'
  BY <1>2 DEF Busy
<1>4. HoldsJob(c) /\ HoldsSlots(c) /\ KeepsPace(c)
  BY <1>3 DEF Custody, Owns
<1>5. HoldsJob(c)'
  BY <1>1, <1>2, <1>4 DEF HoldsJob
<1>6. HoldsSlots(c)'
  BY <1>1, <1>2, <1>4 DEF HoldsSlots
<1>7. KeepsPace(c)'
  BY <1>1, <1>2, <1>4 DEF KeepsPace
<1> QED
  BY <1>1, <1>2, <1>3, <1>5, <1>6, <1>7, Stays

\* What PhaseEnd does, from what it reads.
LEMMA PhaseEndCustody ==
    ASSUME TypeOK, Custody, NEW c \in Coordinator, PhaseEnd(c)
    PROVE  Custody'
<1> DEFINE k == coord[c]
           n == coord'[c]
<1>1. k.pc = "shutdown" /\ \A w \in k.claimed : worker[w] # "running"
  BY DEF PhaseEnd, Joined1
<1>2. Busy(c)
  BY <1>1 DEF Busy
<1>3. HoldsJob(c) /\ HoldsSlots(c) /\ KeepsPace(c)
  BY <1>2 DEF Custody, Owns
<1>4. \A w \in k.claimed : ~IsLive(w)
  BY <1>1, <1>3 DEF IsLive, KeepsPace
<1>5. ASSUME Release(c), \/ \E a \in {"pinged", "failed"} : Answer(c, a)
                         \/ coord' = [coord EXCEPT ![c] =
                                [Idle EXCEPT !.pc = "combined", !.file = k.file]]
      PROVE  Custody'
  <2>1. k.file \in File \cup {<<>>}
    BY CoordTyped
  <2>2. OthersStay(c) /\ ~Busy(c)' /\ n.claimed = {}
    <3>1. CASE coord' = [coord EXCEPT ![c] = [Idle EXCEPT !.pc = "combined", !.file = k.file]]
      BY <2>1, <3>1, AnswerEffect
    <3>2. CASE \E a \in {"pinged", "failed"} : Answer(c, a)
      <4>1. PICK a \in {"pinged", "failed"} :
               coord' = [coord EXCEPT ![c] = [Idle EXCEPT !.answer = a]]
        BY <3>2 DEF Answer
      <4> QED
        BY <4>1, AnswerEffect
    <3> QED
      BY <1>5, <3>1, <3>2
  <2> QED
    BY <1>2, <1>4, <1>5, <2>2, Releases
<1>6. PhaseOk(c) => jobs[k.job].state # "FAILED"
  BY <1>3 DEF HoldsJob, PhaseOk
<1>7. ASSUME k.phase \notin {"PING", "INDEX"}, PhaseOk(c), jobs[k.job].state # "FALLBACK",
             Advance(c)
      PROVE  Custody'
  <2>1. UNCHANGED <<jobs, wslots, worker>>
    BY <1>7 DEF Advance, shmem
  <2>2. /\ OthersStay(c) /\ n.pc = "spawn" /\ n.todo # {} /\ n.claimed = {}
        /\ n.phase = "INDEX" => n.todo = Ddl
        /\ n.job = k.job /\ n.id = k.id
    BY <1>7, AdvanceEffect
  <2>3. HoldsJob(c)'
    BY <1>3, <1>6, <1>7, <2>1, <2>2 DEF HoldsJob
  <2>4. HoldsSlots(c)' /\ KeepsPace(c)' /\ Busy(c)'
    BY <2>2 DEF HoldsSlots, KeepsPace, Busy
  <2> QED
    BY <1>2, <1>4, <2>1, <2>2, <2>3, <2>4, Stays
<1>8. ASSUME k.phase = "INDEX", PhaseOk(c), coord' = [coord EXCEPT ![c].pc = "final"],
             UNCHANGED <<shmem, worker>>
      PROVE  Custody'
  <2>1. UNCHANGED <<jobs, wslots, worker>>
    BY <1>8 DEF shmem
  <2>2. /\ OthersStay(c) /\ n.pc = "final" /\ n.job = k.job /\ n.id = k.id
        /\ n.phase = k.phase /\ n.todo = k.todo /\ n.claimed = k.claimed /\ n.failed = k.failed
    BY <1>8, CoordTyped DEF OthersStay, TypeOK, Coord
  <2>3. HoldsJob(c)'
    BY <1>3, <2>1, <2>2 DEF HoldsJob
  <2>4. HoldsSlots(c)'
    BY <1>3, <2>1, <2>2 DEF HoldsSlots
  <2>5. KeepsPace(c)'
    BY <1>1, <1>3, <1>8, <2>1, <2>2 DEF KeepsPace, PhaseOk
  <2> QED
    BY <1>2, <2>1, <2>2, <2>3, <2>4, <2>5, Stays DEF Busy
<1> QED
  BY <1>5, <1>7, <1>8 DEF PhaseEnd

LEMMA FinalCustody ==
    ASSUME TypeOK, Custody, NEW c \in Coordinator, Final(c) \/ FinalError(c)
    PROVE  Custody'
<1> DEFINE k == coord[c]
<1>1. k.pc = "final" /\ Busy(c)
  BY DEF Final, FinalError, Busy
<1>2. HoldsJob(c) /\ HoldsSlots(c) /\ KeepsPace(c)
  BY <1>1 DEF Custody, Owns
<1>3. \A w \in k.claimed : ~IsLive(w)
  BY <1>1, <1>2 DEF IsLive, KeepsPace
<1>4. OthersStay(c) /\ ~Busy(c)' /\ coord'[c].claimed = {}
  <2>1. PICK a \in {"ok", "error"} : coord' = [coord EXCEPT ![c] = [Idle EXCEPT !.answer = a]]
    BY DEF Final, FinalError, Answer
  <2> QED
    BY <2>1, AnswerEffect
<1>5. CASE Final(c)
  BY <1>1, <1>3, <1>4, <1>5, Releases DEF Final
<1>6. CASE FinalError(c)
  <2>1. UNCHANGED <<jobs, wslots, worker>>
    BY <1>6 DEF FinalError, shmem
  <2>2. k.phase = "INDEX" /\ ~k.failed /\ k.todo = {}
    BY <1>1, <1>2 DEF KeepsPace
  <2>3. jobs[k.job].state = "RUNNING"
    <3>1. jobs[k.job].state \in {"IDLE", "RUNNING", "FAILED", "FALLBACK"}
      BY CoordTyped, JobTyped
    <3>2. jobs[k.job].state # "FAILED"
      BY <1>1, <1>2 DEF HoldsJob, KeepsPace
    <3> QED
      BY <1>2, <2>2, <3>1, <3>2 DEF HoldsJob
  <2>4. ASSUME NEW x \in Ddl
        PROVE  \E w \in SlotIdx : wslots[w] =
                   [used |-> TRUE, job |-> k.job, phase |-> "INDEX", shard |-> x, status |-> 1]
    <3>1. PICK w \in k.claimed : wslots[w].shard = x
      BY <1>2, <2>2 DEF KeepsPace
    <3>2. w \in SlotIdx /\ wslots[w] \in Slot
      BY CoordTyped, SlotTyped
    <3>3. /\ wslots[w].used = TRUE /\ wslots[w].job = k.job /\ wslots[w].phase = "INDEX"
          /\ wslots[w].status = 1
      BY <1>1, <1>2, <2>2, <3>2, SlotTyped DEF HoldsSlots, KeepsPace
    <3> QED
      BY <3>1, <3>2, <3>3 DEF Slot
  <2>5. Finished(k.job)
    BY <2>3, <2>4 DEF Finished
  <2> QED
    BY <1>3, <1>4, <2>1, <2>5, Leaves
<1> QED
  BY <1>5, <1>6

-----------------------------------------------------------------------------
(***************************************************************************)
(* Every step keeps custody.                                               *)
(***************************************************************************)

LEMMA SameCustody ==
    ASSUME Custody, UNCHANGED <<jobs, wslots, worker, coord>> PROVE Custody'
<1>1. \A c \in Coordinator : Owns(c)'
  BY DEF Custody, Owns, HoldsJob, HoldsSlots, KeepsPace, Busy
<1>2. \A w \in SlotIdx : Bound(w)'
  BY DEF Custody, Bound, IsLive, Busy
<1>3. \A j \in JobIdx : Used(j)'
  BY DEF Custody, Used, Finished, Busy
<1> QED
  BY <1>1, <1>2, <1>3 DEF Custody

\* A worker starts; or it ends, and its slot and its job's state may change.
LEMMA WorkerEffect ==
    ASSUME TypeOK, NEW w \in SlotIdx, WorkerStep(w)
    PROVE  /\ UNCHANGED <<nextJob, coord, open>>
           /\ \/ /\ worker[w] = "registered" /\ worker' = [worker EXCEPT ![w] = "running"]
                 /\ UNCHANGED <<jobs, wslots, tables>>
              \/ /\ IsLive(w)
                 /\ (worker[w] = "running" /\ Body(w)) \/ UNCHANGED tables
                 /\ \E st \in 0 .. 2, gone \in {"exited", "unborn"} :
                    /\ worker' = [worker EXCEPT ![w] = gone]
                    /\ wslots' = [wslots EXCEPT ![w].status = st]
                    /\ \/ jobs' = jobs
                       \/ /\ jobs' = [jobs EXCEPT ![wslots[w].job].state = "FALLBACK"]
                          /\ wslots[w].phase = "PREP"
                       \/ /\ jobs' = [jobs EXCEPT ![wslots[w].job].state = "FAILED"]
                          /\ st = 2
<1>1. CASE WorkerStart(w)
  BY <1>1 DEF WorkerStart, shmem
<1>2. CASE \E reports \in BOOLEAN : WorkerDone(w, reports)
  <2>1. PICK reports \in BOOLEAN : WorkerDone(w, reports)
    BY <1>2
  <2>2. /\ IsLive(w) /\ worker[w] = "running" /\ Body(w)
        /\ UNCHANGED <<nextJob, coord, open>> /\ worker' = [worker EXCEPT ![w] = "exited"]
    BY <2>1 DEF WorkerDone, IsLive
  <2> DEFINE st == IF reports THEN 1 ELSE wslots[w].status
  <2>3. wslots' = [wslots EXCEPT ![w].status = st] /\ st \in 0 .. 2
    BY <2>1, SlotTyped DEF WorkerDone, StatusOf
  <2>4. \/ jobs' = jobs
        \/ jobs' = [jobs EXCEPT ![wslots[w].job].state = "FALLBACK"] /\ wslots[w].phase = "PREP"
    BY <2>1 DEF WorkerDone, Fallback
  <2> HIDE DEF st
  <2> QED
    BY <2>2, <2>3, <2>4
<1>3. CASE \E reports \in BOOLEAN : WorkerFail(w, reports)
  <2>1. PICK reports \in BOOLEAN : WorkerFail(w, reports)
    BY <1>3
  <2>2. IsLive(w) /\ UNCHANGED <<nextJob, coord, open, tables>>
    BY <2>1 DEF WorkerFail, IsLive, tables
  <2> DEFINE st == IF reports THEN 2 ELSE wslots[w].status
             gone == IF worker[w] = "running" THEN "exited" ELSE "unborn"
  <2>3. wslots' = [wslots EXCEPT ![w].status = st] /\ st \in 0 .. 2
    BY <2>1, SlotTyped DEF WorkerFail, StatusOf
  <2>4. worker' = [worker EXCEPT ![w] = gone] /\ gone \in {"exited", "unborn"}
    BY <2>1 DEF WorkerFail
  <2>5. \/ jobs' = jobs
        \/ jobs' = [jobs EXCEPT ![wslots[w].job].state = "FAILED"] /\ st = 2
    BY <2>1 DEF WorkerFail, JobsAfterReport
  <2> HIDE DEF st, gone
  <2> QED
    BY <2>2, <2>3, <2>4, <2>5
<1> QED
  BY <1>1, <1>2, <1>3 DEF WorkerStep

LEMMA WorkerCustody ==
    ASSUME TypeOK, Custody, NEW w \in SlotIdx, WorkerStep(w)
    PROVE  Custody'
<1>1. CASE /\ worker[w] = "registered" /\ worker' = [worker EXCEPT ![w] = "running"]
           /\ UNCHANGED <<jobs, wslots, coord>>
  BY <1>1, WorkerStarts
<1>2. ASSUME IsLive(w), UNCHANGED coord,
             NEW st \in 0 .. 2, NEW gone \in {"exited", "unborn"},
             worker' = [worker EXCEPT ![w] = gone],
             wslots' = [wslots EXCEPT ![w].status = st],
             \/ jobs' = jobs
             \/ jobs' = [jobs EXCEPT ![wslots[w].job].state = "FALLBACK"] /\ wslots[w].phase = "PREP"
             \/ jobs' = [jobs EXCEPT ![wslots[w].job].state = "FAILED"] /\ st = 2
      PROVE  Custody'
  BY <1>2, WorkerEnds
<1> QED
  BY <1>1, <1>2, WorkerEffect

LEMMA NextCustody ==
    ASSUME TypeOK, Custody, [Next]_vars
    PROVE  Custody'
<1>1. ASSUME NEW c \in Coordinator, CoordStep(c) PROVE Custody'
  <2>1. ASSUME NEW accepted \in BOOLEAN, Spawn(c, accepted) PROVE Custody'
    BY <2>1, SpawnCustody
  <2>2. ASSUME NEW late \in BOOLEAN, Startup(c, late) PROVE Custody'
    BY <2>2, StartupCustody
  <2>3. CASE PhaseEnd(c)
    BY <2>3, PhaseEndCustody
  <2>4. CASE Final(c) \/ FinalError(c)
    BY <2>4, FinalCustody
  <2>5. CASE Combined(c)
    <3>1. coord' = [coord EXCEPT ![c] = [Idle EXCEPT !.answer = "combined"]] /\ ~Busy(c)
          /\ UNCHANGED <<jobs, wslots, worker>>
      BY <2>5 DEF Combined, Answer, Busy, shmem
    <3>2. OthersStay(c) /\ ~Busy(c)' /\ coord'[c].claimed = {}
      BY <3>1, AnswerEffect
    <3> QED
      BY <3>1, <3>2, Leaves
  <2> QED
    BY <1>1, <2>1, <2>2, <2>3, <2>4, <2>5 DEF CoordStep
<1>2. ASSUME NEW c \in Coordinator, OpenBlock(c) \/ EndBlock(c) PROVE Custody'
  BY <1>2, SameCustody DEF OpenBlock, EndBlock, shmem
<1>3. ASSUME NEW c \in Coordinator, NEW f \in File, Begin(c, "PREP", f) PROVE Custody'
  BY <1>3, BeginCustody
<1>4. ASSUME NEW c \in Coordinator, Begin(c, "PING", <<>>) PROVE Custody'
  BY <1>4, BeginCustody
<1>5. ASSUME NEW w \in SlotIdx, WorkerStep(w) PROVE Custody'
  BY <1>5, WorkerCustody
<1>6. ASSUME NEW d \in Database, NEW t \in Term, Intern(d, t) PROVE Custody'
  BY <1>6, SameCustody DEF Intern, shmem
<1>7. ASSUME NEW kind \in Outages, Outage(kind) PROVE Custody'
  BY <1>7, ResetCustody DEF Outage
<1>8. CASE UNCHANGED vars
  BY <1>8, SameCustody DEF vars
<1> QED
  BY <1>1, <1>2, <1>3, <1>4, <1>5, <1>6, <1>7, <1>8 DEF Next

-----------------------------------------------------------------------------
(***************************************************************************)
(* Every step keeps the types.                                             *)
(***************************************************************************)

\* The tables of shared memory, the workers and the coordinators.
ControlTyped ==
    /\ jobs \in [JobIdx -> Job]
    /\ wslots \in [SlotIdx -> Slot]
    /\ nextJob \in Nat \ {0}
    /\ worker \in [SlotIdx -> {"none", "registered", "running", "exited", "unborn"}]
    /\ coord \in [Coordinator -> Coord]
    /\ open \in SUBSET Coordinator

LEMMA SpawnTyped ==
    ASSUME TypeOK, Custody, NEW c \in Coordinator, NEW accepted \in BOOLEAN, Spawn(c, accepted)
    PROVE  ControlTyped'
<1> DEFINE k == coord[c]
<1>1. Owns(c) /\ coord' \in [Coordinator -> Coord]
  BY SpawnEffect DEF Custody
<1>2. nextJob' = nextJob /\ open' = open
  BY DEF Spawn
<1>3. \/ UNCHANGED <<jobs, wslots, worker>>
      \/ \E x \in k.todo, w \in FreeSlots :
            /\ wslots' = [wslots EXCEPT ![w] =
                   [used |-> TRUE, job |-> k.job, phase |-> k.phase, shard |-> x,
                    status |-> IF accepted THEN 0 ELSE 2]]
            /\ worker' = [worker EXCEPT ![w] = IF accepted THEN "registered" ELSE "none"]
            /\ IF accepted THEN jobs' = jobs
               ELSE jobs' = [jobs EXCEPT ![k.job].state = "FAILED"]
  BY <1>1, SpawnEffect
<1>4. CASE UNCHANGED <<jobs, wslots, worker>>
  BY <1>1, <1>2, <1>4 DEF TypeOK, ControlTyped
<1>5. ASSUME NEW x \in k.todo, NEW w \in FreeSlots,
             wslots' = [wslots EXCEPT ![w] =
                 [used |-> TRUE, job |-> k.job, phase |-> k.phase, shard |-> x,
                  status |-> IF accepted THEN 0 ELSE 2]],
             worker' = [worker EXCEPT ![w] = IF accepted THEN "registered" ELSE "none"],
             IF accepted THEN jobs' = jobs
             ELSE jobs' = [jobs EXCEPT ![k.job].state = "FAILED"]
      PROVE  ControlTyped'
  <2> DEFINE slot == [used |-> TRUE, job |-> k.job, phase |-> k.phase, shard |-> x,
                      status |-> IF accepted THEN 0 ELSE 2]
  <2>1. k.job \in JobIdx /\ k.phase \in Phase /\ x \in Shard
    BY CoordTyped
  <2>2. slot \in Slot
    BY <2>1 DEF Slot
  <2>3. jobs' \in [JobIdx -> Job]
    <3>1. CASE accepted
      BY <1>5, <3>1 DEF TypeOK
    <3>2. CASE ~accepted
      BY <1>5, <2>1, <3>2, StateEffect
    <3> QED
      BY <3>1, <3>2
  <2> HIDE DEF slot
  <2>4. wslots' \in [SlotIdx -> Slot]
    BY <1>5, <2>2 DEF TypeOK, slot
  <2>5. worker' \in [SlotIdx -> {"none", "registered", "running", "exited", "unborn"}]
    BY <1>5 DEF TypeOK
  <2> QED
    BY <1>1, <1>2, <2>3, <2>4, <2>5 DEF ControlTyped, TypeOK
<1> QED
  BY <1>3, <1>4, <1>5

LEMMA PhaseEndTyped ==
    ASSUME TypeOK, NEW c \in Coordinator, PhaseEnd(c)
    PROVE  ControlTyped'
<1> DEFINE k == coord[c]
<1>1. open' = open
  BY DEF PhaseEnd
<1>2. ASSUME Release(c), UNCHANGED nextJob,
             \/ \E a \in {"pinged", "failed"} : Answer(c, a)
             \/ coord' = [coord EXCEPT ![c] = [Idle EXCEPT !.pc = "combined", !.file = k.file]]
      PROVE  ControlTyped'
  <2>1. k.file \in File \cup {<<>>}
    BY CoordTyped
  <2>2. coord' \in [Coordinator -> Coord]
    <3>1. CASE coord' = [coord EXCEPT ![c] = [Idle EXCEPT !.pc = "combined", !.file = k.file]]
      BY <2>1, <3>1, AnswerEffect
    <3>2. CASE \E a \in {"pinged", "failed"} : Answer(c, a)
      <4>1. PICK a \in {"pinged", "failed"} :
               coord' = [coord EXCEPT ![c] = [Idle EXCEPT !.answer = a]]
        BY <3>2 DEF Answer
      <4> QED
        BY <4>1, AnswerEffect
    <3> QED
      BY <1>2, <3>1, <3>2
  <2> QED
    BY <1>1, <1>2, <2>2, ReleaseTyped DEF ControlTyped, TypeOK
<1>3. ASSUME k.phase \notin {"PING", "INDEX"}, Advance(c)
      PROVE  ControlTyped'
  <2>1. coord' \in [Coordinator -> Coord]
    BY <1>3, AdvanceEffect
  <2> QED
    BY <1>1, <1>3, <2>1 DEF Advance, shmem, ControlTyped, TypeOK
<1>4. ASSUME coord' = [coord EXCEPT ![c].pc = "final"], UNCHANGED <<shmem, worker>>
      PROVE  ControlTyped'
  <2> DEFINE n == [k EXCEPT !.pc = "final"]
  <2>1. coord' \in [Coordinator -> Coord]
    <3>1. k \in Coord
      BY CoordTyped
    <3>2. n \in Coord
      <4> HIDE DEF k
      <4> QED
        BY <3>1 DEF Coord, Pc
    <3>3. coord' = [coord EXCEPT ![c] = n]
      BY <1>4
    <3> HIDE DEF n
    <3> QED
      BY <3>2, <3>3 DEF TypeOK
  <2> QED
    BY <1>1, <1>4, <2>1 DEF shmem, ControlTyped, TypeOK
<1> QED
  BY <1>2, <1>3, <1>4 DEF PhaseEnd

LEMMA WorkerStepTyped ==
    ASSUME TypeOK, NEW w \in SlotIdx, WorkerStep(w)
    PROVE  ControlTyped'
<1>1. UNCHANGED <<nextJob, coord, open>>
  BY WorkerEffect
<1>2. CASE /\ worker' = [worker EXCEPT ![w] = "running"] /\ UNCHANGED <<jobs, wslots>>
  BY <1>1, <1>2 DEF ControlTyped, TypeOK
<1>3. ASSUME NEW st \in 0 .. 2, NEW gone \in {"exited", "unborn"},
             worker' = [worker EXCEPT ![w] = gone],
             wslots' = [wslots EXCEPT ![w].status = st],
             \/ jobs' = jobs
             \/ jobs' = [jobs EXCEPT ![wslots[w].job].state = "FALLBACK"]
             \/ jobs' = [jobs EXCEPT ![wslots[w].job].state = "FAILED"]
      PROVE  ControlTyped'
  <2>1. wslots' \in [SlotIdx -> Slot]
    BY <1>3, ReportEffect
  <2>2. worker' \in [SlotIdx -> {"none", "registered", "running", "exited", "unborn"}]
    BY <1>3 DEF TypeOK
  <2>3. jobs' \in [JobIdx -> Job]
    <3>1. PICK i \in JobIdx : i = wslots[w].job
      BY SlotTyped
    <3>2. CASE jobs' = [jobs EXCEPT ![i].state = "FALLBACK"]
      BY <3>2, StateEffect
    <3>3. CASE jobs' = [jobs EXCEPT ![i].state = "FAILED"]
      BY <3>3, StateEffect
    <3>4. CASE jobs' = jobs
      BY <3>4 DEF TypeOK
    <3> QED
      BY <1>3, <3>1, <3>2, <3>3, <3>4
  <2> QED
    BY <1>1, <2>1, <2>2, <2>3 DEF ControlTyped, TypeOK
<1> QED
  BY <1>2, <1>3, WorkerEffect

LEMMA OutageTyped == ASSUME NEW kind \in Outages, Outage(kind) PROVE ControlTyped'
<1>1. jobs' \in [JobIdx -> Job] /\ wslots' \in [SlotIdx -> Slot]
  BY FreeRecords DEF Outage
<1>2. coord' \in [Coordinator -> Coord]
  BY FreeRecords DEF Outage
<1>3. /\ nextJob' \in Nat \ {0} /\ open' \in SUBSET Coordinator
      /\ worker' \in [SlotIdx -> {"none", "registered", "running", "exited", "unborn"}]
  BY DEF Outage
<1> QED
  BY <1>1, <1>2, <1>3 DEF ControlTyped

LEMMA NextControlTyped ==
    ASSUME TypeOK, Custody, [Next]_vars
    PROVE  ControlTyped'
<1>1. ControlTyped
  BY DEF TypeOK, ControlTyped
<1>2. ASSUME UNCHANGED <<shmem, worker, coord, open>> PROVE ControlTyped'
  BY <1>1, <1>2 DEF shmem, ControlTyped
<1>3. ASSUME NEW c \in Coordinator, CoordStep(c) PROVE ControlTyped'
  <2>1. ASSUME NEW accepted \in BOOLEAN, Spawn(c, accepted) PROVE ControlTyped'
    BY <2>1, SpawnTyped
  <2>2. ASSUME NEW late \in BOOLEAN, Startup(c, late) PROVE ControlTyped'
    <3>1. UNCHANGED <<shmem, worker, open>> /\ coord' \in [Coordinator -> Coord]
      BY <2>2, StartupEffect DEF Startup
    <3> QED
      BY <1>1, <3>1 DEF ControlTyped, shmem
  <2>3. CASE PhaseEnd(c)
    BY <2>3, PhaseEndTyped
  <2>4. CASE Final(c)
    <3>1. Release(c) /\ UNCHANGED <<nextJob, open>>
      BY <2>4 DEF Final
    <3>2. coord' = [coord EXCEPT ![c] = [Idle EXCEPT !.answer = "ok"]]
      BY <2>4 DEF Final, Answer
    <3>3. coord' \in [Coordinator -> Coord]
      BY <3>2, AnswerEffect
    <3> QED
      BY <1>1, <3>1, <3>3, ReleaseTyped DEF ControlTyped
  <2>5. CASE FinalError(c) \/ Combined(c)
    <3>1. UNCHANGED <<shmem, worker, open>>
      BY <2>5 DEF FinalError, Combined
    <3>2. PICK a \in {"error", "combined"} :
             coord' = [coord EXCEPT ![c] = [Idle EXCEPT !.answer = a]]
      BY <2>5 DEF FinalError, Combined, Answer
    <3>3. coord' \in [Coordinator -> Coord]
      BY <3>2, AnswerEffect
    <3> QED
      BY <1>1, <3>1, <3>3 DEF ControlTyped, shmem
  <2> QED
    BY <1>3, <2>1, <2>2, <2>3, <2>4, <2>5 DEF CoordStep
<1>4. ASSUME NEW c \in Coordinator, OpenBlock(c) \/ EndBlock(c) PROVE ControlTyped'
  <2>1. UNCHANGED <<shmem, worker, coord>> /\ open' \in SUBSET Coordinator
    BY <1>1, <1>4 DEF OpenBlock, EndBlock, ControlTyped
  <2> QED
    BY <1>1, <2>1 DEF ControlTyped, shmem
<1>5. ASSUME NEW c \in Coordinator, NEW p \in {"PREP", "PING"}, NEW f \in File \cup {<<>>},
             Begin(c, p, f)
      PROVE  ControlTyped'
  <2>1. UNCHANGED <<wslots, worker, open>>
    BY <1>5 DEF Begin
  <2>2. /\ coord' \in [Coordinator -> Coord] /\ nextJob' \in Nat \ {0}
        /\ jobs' \in [JobIdx -> Job]
    BY <1>5, BeginEffect
  <2> QED
    BY <1>1, <2>1, <2>2 DEF ControlTyped
<1>6. ASSUME NEW w \in SlotIdx, WorkerStep(w) PROVE ControlTyped'
  BY <1>6, WorkerStepTyped
<1>7. ASSUME NEW d \in Database, NEW t \in Term, Intern(d, t) PROVE ControlTyped'
  BY <1>2, <1>7 DEF Intern
<1>8. ASSUME NEW kind \in Outages, Outage(kind) PROVE ControlTyped'
  BY <1>8, OutageTyped
<1>9. CASE UNCHANGED vars
  BY <1>2, <1>9 DEF vars, shmem
<1> QED
  BY <1>3, <1>4, <1>5, <1>6, <1>7, <1>8, <1>9 DEF Next

\* A worker at work has a database, a staging table's name and a file.
LEMMA WorkerTyped ==
    ASSUME TypeOK, Custody, NEW w \in SlotIdx, worker[w] = "running"
    PROVE  /\ Db(w) \in Database /\ Id(w) \in JobId
           /\ JobOf(w).by \in Coordinator /\ FileOf(w) \in File \cup {<<>>}
           /\ wslots[w].phase = "INDEX" => wslots[w].shard \in Ddl
<1>1. PICK c \in Coordinator : /\ c = JobOf(w).by /\ Busy(c) /\ coord[c].job = wslots[w].job
                               /\ w \in coord[c].claimed
  BY DEF Custody, Bound, IsLive, JobOf
<1>2. HoldsJob(c) /\ HoldsSlots(c) /\ KeepsPace(c)
  BY <1>1 DEF Custody, Owns
<1>3. Db(w) = DbOf[c] /\ Id(w) \in JobId
  BY <1>1, <1>2 DEF Db, Id, JobOf, HoldsJob
<1>4. DbOf[c] \in Database
  BY LoaderAssumption DEF LoaderAssumption
<1>5. FileOf(w) \in File \cup {<<>>}
  BY <1>1, CoordTyped DEF FileOf
<1>6. wslots[w].phase = "INDEX" => wslots[w].shard \in Ddl
  BY <1>1, <1>2 DEF HoldsSlots, KeepsPace
<1> QED
  BY <1>1, <1>3, <1>4, <1>5, <1>6

LEMMA EmptyTyped == /\ NoTable \in Count /\ Empty \in Count /\ Empty \in [Triples -> Many]
                    /\ [Triples -> Many] \subseteq Count
BY DEF NoTable, Empty, Count, Many

\* The lines of a file that are a given triple can be counted.
LEMMA LinesCounted ==
    ASSUME NEW f \in File \cup {<<>>}, NEW S, S \subseteq DOMAIN f
    PROVE  Cardinality(S) \in Nat
<1>1. f \in Seq(Term \X Term \X Term)
  <2>1. <<>> \in Seq(Term \X Term \X Term)
    OBVIOUS
  <2> QED
    BY <2>1, LoaderAssumption DEF LoaderAssumption
<1>2. Len(f) \in Nat /\ DOMAIN f = 1 .. Len(f)
  BY <1>1
<1>3. IsFiniteSet(DOMAIN f)
  BY <1>2, FS_Interval
<1> QED
  BY <1>3, FS_Subset, FS_CardinalityType

LEMMA TermsOfTriples == \A t \in Triples : t[1] \in Term /\ t[2] \in Term /\ t[3] \in Term
<1> SUFFICES ASSUME NEW f \in File, NEW i \in DOMAIN f
             PROVE  f[i][1] \in Term /\ f[i][2] \in Term /\ f[i][3] \in Term
  BY DEF Triples
<1>1. f \in Seq(Term \X Term \X Term)
  BY LoaderAssumption DEF LoaderAssumption
<1>2. f[i] \in Term \X Term \X Term
  BY <1>1
<1> QED
  BY <1>2

TablesTyped ==
    /\ dict \in [Database -> [Term -> Many]]
    /\ ix \in [Database -> SUBSET Ddl]
    /\ stg \in [Database -> [JobId -> Count]]
    /\ quads \in [Database -> [Coordinator -> [Triples -> Many]]]

\* One staging table replaced, and one graph.
LEMMA StagingTyped ==
    ASSUME TablesTyped, NEW d \in Database, NEW i \in JobId, NEW s \in Count,
           stg' = [stg EXCEPT ![d][i] = s]
    PROVE  stg' \in [Database -> [JobId -> Count]]
<1>1. stg[d] \in [JobId -> Count]
  BY DEF TablesTyped
<1>2. [stg[d] EXCEPT ![i] = s] \in [JobId -> Count]
  BY <1>1
<1>3. stg' = [stg EXCEPT ![d] = [stg[d] EXCEPT ![i] = s]]
  OBVIOUS
<1> QED
  BY <1>2, <1>3 DEF TablesTyped

LEMMA GraphTyped ==
    ASSUME TablesTyped, NEW d \in Database, NEW c \in Coordinator, NEW q \in [Triples -> Many],
           quads' = [quads EXCEPT ![d][c] = q]
    PROVE  quads' \in [Database -> [Coordinator -> [Triples -> Many]]]
<1>1. quads[d] \in [Coordinator -> [Triples -> Many]]
  BY DEF TablesTyped
<1>2. [quads[d] EXCEPT ![c] = q] \in [Coordinator -> [Triples -> Many]]
  BY <1>1
<1>3. quads' = [quads EXCEPT ![d] = [quads[d] EXCEPT ![c] = q]]
  OBVIOUS
<1> QED
  BY <1>2, <1>3 DEF TablesTyped

LEMMA BodyTyped ==
    ASSUME TypeOK, Custody, NEW w \in SlotIdx, worker[w] = "running", Body(w)
    PROVE  TablesTyped'
<1> DEFINE d == Db(w)
           i == Id(w)
           f == FileOf(w)
<1>1. TablesTyped
  BY DEF TypeOK, TablesTyped
<1>2. d \in Database /\ i \in JobId /\ JobOf(w).by \in Coordinator /\ f \in File \cup {<<>>}
  BY WorkerTyped
<1>3. stg[d][i] \in Count
  BY <1>1, <1>2 DEF TablesTyped
<1>4. \A n \in Many : n \in Int /\ n >= 0
  BY DEF Many
<1>5. CASE wslots[w].phase = "PREP" /\ Prep(w)
  <2> DEFINE s == IF stg[d][i] = NoTable THEN Empty ELSE stg[d][i]
  <2>1. s \in Count
    BY <1>3, EmptyTyped
  <2>2. CASE Eligible(d)
    <3>1. ix' = [ix EXCEPT ![d] = {}] /\ UNCHANGED <<dict, quads>>
      BY <1>5, <2>2 DEF Prep
    <3>2. stg' = [stg EXCEPT ![d][i] = s]
      BY <1>5, <2>2 DEF Prep
    <3> HIDE DEF s, d, i
    <3>3. stg' \in [Database -> [JobId -> Count]]
      BY <1>1, <1>2, <2>1, <3>2, StagingTyped
    <3> QED
      BY <1>1, <3>1, <3>3 DEF TablesTyped
  <2>3. CASE ~Eligible(d)
    BY <1>1, <1>5, <2>3 DEF Prep, TablesTyped
  <2> QED
    BY <2>2, <2>3
<1>6. CASE Stage(w)
  <2> DEFINE mine == LinesOf(f, wslots[w].shard)
             s == [t \in Triples |->
                      Capped(stg[d][i][t] + Cardinality({k \in mine : f[k] = t}))]
  <2>1. s \in Count
    <3> SUFFICES ASSUME NEW t \in Triples
                 PROVE  Capped(stg[d][i][t] + Cardinality({k \in mine : f[k] = t})) \in -1 .. 2
      BY DEF Count
    <3>1. Cardinality({k \in mine : f[k] = t}) \in Nat
      <4>1. {k \in mine : f[k] = t} \subseteq DOMAIN f
        BY DEF LinesOf
      <4> HIDE DEF f, mine
      <4> QED
        BY <1>2, <4>1, LinesCounted
    <3>2. stg[d][i][t] \in -1 .. 2
      BY <1>3 DEF Count
    <3> HIDE DEF d, i, f, mine
    <3>3. \A m \in -1 .. 2, n \in Nat : m + n \in Int /\ m + n >= -1
      OBVIOUS
    <3> QED
      BY <3>1, <3>2, <3>3, CountsTyped
  <2>2. stg' = [stg EXCEPT ![d][i] = s] /\ UNCHANGED <<dict, ix, quads>>
    BY <1>6 DEF Stage
  <2> HIDE DEF s, d, i
  <2>3. stg' \in [Database -> [JobId -> Count]]
    BY <1>1, <1>2, <2>1, <2>2, StagingTyped
  <2> QED
    BY <1>1, <2>2, <2>3 DEF TablesTyped
<1>7. CASE Dict(w)
  <2> DEFINE new == TermsOf(stg[d][i])
             s == [t \in Term |-> Capped(dict[d][t] + (IF t \in new THEN 1 ELSE 0))]
  <2>1. s \in [Term -> Many]
    <3> SUFFICES ASSUME NEW t \in Term
                 PROVE  Capped(dict[d][t] + (IF t \in new THEN 1 ELSE 0)) \in Many
      OBVIOUS
    <3>1. dict[d][t] \in Many
      BY <1>1, <1>2 DEF TablesTyped
    <3> HIDE DEF d, new
    <3>2. dict[d][t] + (IF t \in new THEN 1 ELSE 0) \in Int
          /\ dict[d][t] + (IF t \in new THEN 1 ELSE 0) >= 0
      BY <1>4, <3>1
    <3> QED
      BY <3>2, CountsTyped
  <2>2. dict' = [dict EXCEPT ![d] = s] /\ UNCHANGED <<ix, stg, quads>>
    BY <1>7 DEF Dict
  <2> HIDE DEF s, d
  <2> QED
    BY <1>1, <1>2, <2>1, <2>2 DEF TablesTyped
<1>8. CASE Resolve(w)
  <2> DEFINE s == stg[d][i]
             q == [t \in Triples |-> IF s[t] > 0 THEN Joined(d, s, t) ELSE 0]
  <2>1. q \in [Triples -> Many]
    <3> SUFFICES ASSUME NEW t \in Triples, s[t] > 0
                 PROVE  Joined(d, s, t) \in Many
      BY DEF Many
    <3>1. s[t] \in Nat
      BY <1>3 DEF Count
    <3>2. dict[d][t[1]] \in Nat /\ dict[d][t[2]] \in Nat /\ dict[d][t[3]] \in Nat
      BY <1>1, <1>2, <1>4, TermsOfTriples DEF TablesTyped
    <3> HIDE DEF d, s
    <3>3. \A m, n \in Nat : m * n \in Nat
      OBVIOUS
    <3>4. s[t] * dict[d][t[1]] * dict[d][t[2]] * dict[d][t[3]] \in Nat
      BY <3>1, <3>2, <3>3
    <3>5. \A n \in Nat : Capped(n) \in Many
      BY CountsTyped
    <3> QED
      BY <3>4, <3>5 DEF Joined
  <2>2. quads' = [quads EXCEPT ![d][JobOf(w).by] = q] /\ UNCHANGED <<dict, ix, stg>>
    BY <1>8 DEF Resolve
  <2> HIDE DEF q, d
  <2>3. quads' \in [Database -> [Coordinator -> [Triples -> Many]]]
    BY <1>1, <1>2, <2>1, <2>2, GraphTyped
  <2> QED
    BY <1>1, <2>2, <2>3 DEF TablesTyped
<1>9. CASE wslots[w].phase = "INDEX" /\ Index(w)
  <2>1. ix' = [ix EXCEPT ![d] = @ \cup {wslots[w].shard}] /\ UNCHANGED <<dict, stg, quads>>
    BY <1>9 DEF Index
  <2>2. wslots[w].shard \in Ddl
    BY <1>9, WorkerTyped
  <2> QED
    BY <1>1, <1>2, <2>1, <2>2 DEF TablesTyped
<1>10. CASE UNCHANGED tables
  BY <1>1, <1>10 DEF tables, TablesTyped
<1> QED
  BY <1>5, <1>6, <1>7, <1>8, <1>9, <1>10 DEF Body

LEMMA CombinedTyped ==
    ASSUME TypeOK, NEW c \in Coordinator, Combined(c)
    PROVE  TablesTyped'
<1> DEFINE f == coord[c].file
           d == DbOf[c]
           new == UNION {{f[i][1], f[i][2], f[i][3]} : i \in DOMAIN f}
           s == [t \in Term |-> IF t \in new /\ dict[d][t] = 0 THEN 1 ELSE dict[d][t]]
           q == [t \in Triples |-> Capped(quads[d][c][t] + Cardinality({i \in DOMAIN f : f[i] = t}))]
<1>1. TablesTyped
  BY DEF TypeOK, TablesTyped
<1>2. f \in File \cup {<<>>} /\ d \in Database
  BY CoordTyped, LoaderAssumption DEF LoaderAssumption
<1>3. dict' = [dict EXCEPT ![d] = s] /\ quads' = [quads EXCEPT ![d][c] = q]
      /\ UNCHANGED <<ix, stg>>
  BY DEF Combined
<1> HIDE DEF new
<1>4. s \in [Term -> Many]
  BY <1>1, <1>2 DEF TablesTyped, Many
<1>5. q \in [Triples -> Many]
  <2> SUFFICES ASSUME NEW t \in Triples
               PROVE  Capped(quads[d][c][t] + Cardinality({i \in DOMAIN f : f[i] = t})) \in Many
    OBVIOUS
  <2>1. quads[d][c][t] \in Many
    BY <1>1, <1>2 DEF TablesTyped
  <2> HIDE DEF f
  <2>2. Cardinality({i \in DOMAIN f : f[i] = t}) \in Nat
    BY <1>2, LinesCounted
  <2> HIDE DEF d
  <2>3. \A m \in Many, n \in Nat : m + n \in Int /\ m + n >= 0
    BY DEF Many
  <2> QED
    BY <2>1, <2>2, <2>3, CountsTyped
<1> HIDE DEF s, q, d
<1>6. quads' \in [Database -> [Coordinator -> [Triples -> Many]]]
  BY <1>1, <1>2, <1>3, <1>5, GraphTyped
<1>7. dict' \in [Database -> [Term -> Many]]
  BY <1>1, <1>3, <1>4 DEF TablesTyped
<1> QED
  BY <1>1, <1>3, <1>6, <1>7 DEF TablesTyped

LEMMA NextTablesTyped ==
    ASSUME TypeOK, Custody, [Next]_vars
    PROVE  TablesTyped'
<1>1. TablesTyped
  BY DEF TypeOK, TablesTyped
<1>2. UNCHANGED tables => TablesTyped'
  BY <1>1 DEF tables, TablesTyped
<1>3. ASSUME NEW c \in Coordinator, CoordStep(c) PROVE TablesTyped'
  <2>1. CASE Combined(c)
    BY <2>1, CombinedTyped
  <2>2. CASE Final(c)
    <3>1. Busy(c)
      BY <2>2 DEF Final, Busy
    <3>2. DbOf[c] \in Database /\ coord[c].id \in JobId
      BY <3>1, LoaderAssumption DEF LoaderAssumption, Custody, Owns, HoldsJob
    <3>3. stg' = [stg EXCEPT ![DbOf[c]][coord[c].id] = NoTable] /\ UNCHANGED <<dict, ix, quads>>
      BY <2>2 DEF Final
    <3>4. stg' \in [Database -> [JobId -> Count]]
      BY <1>1, <3>2, <3>3, EmptyTyped, StagingTyped
    <3> QED
      BY <1>1, <3>3, <3>4 DEF TablesTyped
  <2>3. CASE FinalError(c) \/ PhaseEnd(c)
    BY <1>2, <2>3 DEF FinalError, PhaseEnd
  <2>4. CASE \E accepted \in BOOLEAN : Spawn(c, accepted)
    BY <1>2, <2>4 DEF Spawn
  <2>5. CASE \E late \in BOOLEAN : Startup(c, late)
    BY <1>2, <2>5 DEF Startup
  <2> QED
    BY <1>3, <2>1, <2>2, <2>3, <2>4, <2>5 DEF CoordStep
<1>4. ASSUME NEW c \in Coordinator, OpenBlock(c) \/ EndBlock(c) PROVE TablesTyped'
  BY <1>2, <1>4 DEF OpenBlock, EndBlock
<1>5. ASSUME NEW c \in Coordinator, NEW p, NEW f, Begin(c, p, f) PROVE TablesTyped'
  BY <1>2, <1>5 DEF Begin
<1>6. ASSUME NEW w \in SlotIdx, WorkerStep(w) PROVE TablesTyped'
  <2>1. UNCHANGED tables \/ (worker[w] = "running" /\ Body(w))
    BY <1>6, WorkerEffect
  <2> QED
    BY <1>2, <2>1, BodyTyped
<1>7. ASSUME NEW d \in Database, NEW t \in Term, Intern(d, t) PROVE TablesTyped'
  <2>1. dict' = [dict EXCEPT ![d] = [dict[d] EXCEPT ![t] = 1]] /\ UNCHANGED <<ix, stg, quads>>
    BY <1>7 DEF Intern
  <2>2. [dict[d] EXCEPT ![t] = 1] \in [Term -> Many]
    BY <1>1 DEF TablesTyped, Many
  <2> QED
    BY <1>1, <2>1, <2>2 DEF TablesTyped
<1>8. ASSUME NEW kind \in Outages, Outage(kind) PROVE TablesTyped'
  <2>1. UNCHANGED <<dict, ix, quads>>
    BY <1>8 DEF Outage
  <2>2. \/ stg' = stg
        \/ stg' = [d \in Database |-> [i \in JobId |->
                       IF stg[d][i] = NoTable THEN NoTable ELSE Empty]]
    BY <1>8 DEF Outage
  <2>3. stg' \in [Database -> [JobId -> Count]]
    BY <1>1, <2>2, EmptyTyped DEF TablesTyped
  <2> QED
    BY <1>1, <2>1, <2>3 DEF TablesTyped
<1>9. CASE UNCHANGED vars
  BY <1>2, <1>9 DEF vars, tables
<1> QED
  BY <1>3, <1>4, <1>5, <1>6, <1>7, <1>8, <1>9 DEF Next

-----------------------------------------------------------------------------
(***************************************************************************)
(* The theorems.                                                           *)
(***************************************************************************)

LEMMA InitInv == Init => IInv
<1> SUFFICES ASSUME Init PROVE IInv
  OBVIOUS
<1>1. /\ jobs \in [JobIdx -> Job] /\ wslots \in [SlotIdx -> Slot] /\ nextJob \in Nat \ {0}
      /\ worker \in [SlotIdx -> {"none", "registered", "running", "exited", "unborn"}]
      /\ coord \in [Coordinator -> Coord] /\ open \in SUBSET Coordinator
  BY FreeRecords DEF Init
<1>2. /\ dict \in [Database -> [Term -> Many]] /\ ix \in [Database -> SUBSET Ddl]
      /\ stg \in [Database -> [JobId -> Count]]
      /\ quads \in [Database -> [Coordinator -> [Triples -> Many]]]
  BY EmptyTyped DEF Init, Many
<1>3. \A c \in Coordinator : Owns(c)
  BY DEF Init, Owns, Idle, Busy
<1>4. \A w \in SlotIdx : Bound(w)
  BY DEF Init, Bound, IsLive
<1>5. ~FreeJob.used
  BY DEF FreeJob
<1>6. \A j \in JobIdx : Used(j)
  BY <1>5 DEF Init, Used
<1> QED
  BY <1>1, <1>2, <1>3, <1>4, <1>6 DEF IInv, TypeOK, Custody

LEMMA NextInv == IInv /\ [Next]_vars => IInv'
<1> SUFFICES ASSUME TypeOK, Custody, [Next]_vars PROVE IInv'
  BY DEF IInv
<1>1. Custody'
  BY NextCustody
<1>2. ControlTyped'
  BY NextControlTyped
<1>3. TablesTyped'
  BY NextTablesTyped
<1> QED
  BY <1>1, <1>2, <1>3 DEF IInv, TypeOK, ControlTyped, TablesTyped

LEMMA InvHolds == Spec => []IInv
BY InitInv, NextInv, PTL DEF Spec

\* Every reachable state is well typed: the shared tables, the coordinators,
\* and the counts in the databases.  That takes custody: a worker reads its
\* database and its staging table from the job slot of its worker slot.
THEOREM TypeCorrect == Spec => []TypeOK
<1>1. IInv => TypeOK
  BY DEF IInv
<1> QED
  BY <1>1, InvHolds, PTL

\* Whatever workers die and phases fail, a worker that can still report finds its
\* own slot, claimed by the coordinator that started it and in the phase it
\* was started for (jobctl.rs, release_job: "the workers have already exited").
THEOREM LiveWorkersKeepSlots == Spec => []LiveWorkersOwnTheirSlots
<1>1. IInv => LiveWorkersOwnTheirSlots
  <2> SUFFICES ASSUME IInv, NEW w \in SlotIdx, IsLive(w)
               PROVE  /\ wslots[w].used /\ wslots[w].status = 0
                      /\ LET j == jobs[wslots[w].job] IN
                         /\ j.used /\ j.by # NoCoordinator
                         /\ w \in coord[j.by].claimed /\ coord[j.by].job = wslots[w].job
                         /\ coord[j.by].phase = wslots[w].phase
    BY DEF LiveWorkersOwnTheirSlots, IsLive
  <2>1. Bound(w)
    BY DEF IInv, Custody
  <2>2. PICK c \in Coordinator : /\ c = jobs[wslots[w].job].by /\ Busy(c)
                                 /\ w \in coord[c].claimed /\ coord[c].job = wslots[w].job
    BY <2>1 DEF Bound
  <2>3. HoldsSlots(c)
    BY <2>2 DEF IInv, Custody, Owns
  <2>4. c # NoCoordinator
    BY LoaderAssumption DEF LoaderAssumption
  <2> QED
    BY <2>1, <2>2, <2>3, <2>4 DEF Bound, HoldsSlots
<1> QED
  BY <1>1, InvHolds, PTL

\* A job slot in use is in the hands of a coordinator that will release it, or
\* was left by an error in the final statements after every index was rebuilt
\* (jobctl.rs, release_job: "final cleanup, success OR failure").
THEOREM JobSlotsOwned == Spec => []JobsAreOwned
<1>1. IInv => JobsAreOwned
  <2> SUFFICES ASSUME IInv, NEW j \in JobIdx, jobs[j].used
               PROVE  \/ jobs[j].by \in Coordinator /\ coord[jobs[j].by].pc # "idle"
                         /\ coord[jobs[j].by].job = j
                      \/ Finished(j)
    BY DEF JobsAreOwned
  <2>1. Used(j)
    BY DEF IInv, Custody
  <2> QED
    BY <2>1 DEF Used, Busy
<1> QED
  BY <1>1, InvHolds, PTL
=============================================================================
