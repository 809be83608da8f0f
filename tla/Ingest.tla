------------------------------- MODULE Ingest -------------------------------
(***************************************************************************)
(* The loaders that run in the caller's own transaction                    *)
(* (src/storage/loader.rs, src/storage/source_digest.rs): load_turtle,     *)
(* load_turtle_streaming, parse_turtle, parse_trig, parse_nquads and the   *)
(* dict_batched functions, on every dictionary path.                       *)
(*                                                                         *)
(* A load reads its document line by line, turns terms into dictionary ids *)
(* and collects rows of ids into batches that go to _pgrdf_quads.  Its     *)
(* paths differ in when and how they ask the dictionary:                   *)
(*    baseline   each term by put_term_full, as it comes;                  *)
(*    combined   terms wait in a queue for one put_terms_batch;            *)
(*    batched    the whole document first, then put_terms_batch;           *)
(*    bulk       an empty dictionary: no look-up, ids from the sequence;   *)
(*    stream     the same window by window, ids from reserved blocks.      *)
(* A staged load is one step here; StagedLoader has its phases.            *)
(*                                                                         *)
(* One step is one SQL statement, or one line's look-ups (they ask for     *)
(* different terms).  A statement sees what is committed and what its own  *)
(* transaction wrote; its locks stay to the end of the transaction.        *)
(* A hit in a cache answers as the look-up behind it would (DictCache shows *)
(* that), so the shared cache is left out, with the statistics a load      *)
(* returns and its privileges.  The engine fence, the refuse-triggers and  *)
(* the other locks of the catalog are GraphCatalog's and LockOrder's.      *)
(***************************************************************************)
EXTENDS Integers, Sequences, FiniteSets, SequencesExt

CONSTANTS Session,
          Document,      \* each a sequence of lines
          Name,          \* IRIs of named graphs
          Known,         \* those add_graph made before, in order
          BATCH,         \* BATCH_SIZE: triples per INSERT
          DictBatch,     \* pgrdf.dict_batch_size
          BULK,          \* BULK_QUAD_BATCH
          DeferMin,      \* pgrdf.bulk_defer_index_min
          Window,        \* lines per window of the streaming loader
          Block,         \* ids it reserves at a time
          SniffLines,    \* SNIFF_MAX_LINES
          Calls,         \* the calls an instance makes: [path, mode, doc, g, strict]
          MaxLoads       \* bound: loads that begin

\* A line is a triple of terms, its graph, and how it can be read: alone (as
\* N-Triples), only after the prefixes above it, or not at all.  A blank-node
\* graph label stops a load the way a broken line does.
Form == {"bare", "short", "broken"}
Default == "default"
Term == STRING \X STRING \X STRING               \* kind, text, datatype
Resource == {t \in Term : t[3] = ""}
Line == [t : Resource \X Resource \X Term, g : Name \cup {Default}, form : Form]
Mode == {"baseline", "combined", "batched"}       \* pgrdf.ingest_dict_path
Rebuilds == {"bulk", "stream"}
Path == {"turtle", "quads", "dict_batched", "staged"} \cup Rebuilds

ASSUME IngestAssumption ==
    /\ Default \notin Name /\ Known \in Seq(Name) /\ Cardinality(ToSet(Known)) = Len(Known)
    /\ {BATCH, DictBatch, BULK, Window, Block, SniffLines} \subseteq Nat \ {0}
    /\ DeferMin \in Nat /\ MaxLoads \in Nat
    /\ IsFiniteSet(Name) /\ Document \subseteq Seq(Line)
    /\ Calls \subseteq [path : Path, mode : Mode, doc : Document, g : Nat, strict : BOOLEAN]
    /\ \A c \in Calls : c.path = "quads" \/ \A i \in DOMAIN c.doc : c.doc[i].g = Default

VARIABLES
    dict,     \* committed rows of _pgrdf_dictionary: [id, key]
    quads,    \* committed rows of _pgrdf_quads: <<graph id, s, p, o>>
    reg,      \* _pgrdf_graphs: the id of each named graph that has one
    src,      \* source_loads and source_sha256 of the graph ids that have them
    lastId,   \* the dictionary's id sequence
    lastGraph,\* _pgrdf_graph_id_seq
    job,      \* the load each session runs
    held,     \* the locks its transaction holds
    log,      \* history: the committed loads, in order
    left,     \* bound: loads that may still begin
    raced     \* history: have two loads run side by side?

vars == <<dict, quads, reg, src, lastId, lastGraph, job, held, log, left, raced>>
tables == <<dict, quads, reg, src, log>>
sequences == <<lastId, lastGraph>>

Empty == [x \in {} |-> 0]
Idle == [at |-> "idle", path |-> "turtle", mode |-> "baseline", doc |-> <<>>, g |-> 0, strict |-> FALSE,
         lines |-> <<>>, loads |-> 0, cache |-> Empty, gids |-> Empty, named |-> Empty,
         queue |-> <<>>, pending |-> <<>>, batch |-> <<>>, pool |-> <<>>, lo |-> 0,
         own |-> {}, out |-> <<>>]
At(s, at) == job[s].at = at
Busy(s) == ~At(s, "idle")
Step(s, j) == job' = [job EXCEPT ![s] = j]
Go(s, at) == Step(s, [job[s] EXCEPT !.at = at])

Init == /\ dict = {} /\ quads = <<>>
        /\ reg = [n \in ToSet(Known) |-> CHOOSE i \in DOMAIN Known : Known[i] = n]
        /\ src = Empty
        /\ lastId = 0 /\ lastGraph = Len(Known)
        /\ job = [s \in Session |-> Idle] /\ held = [s \in Session |-> {}]
        /\ log = <<>> /\ left = MaxLoads /\ raced = FALSE

Source(g) == IF g \in DOMAIN src THEN src[g] ELSE [loads |-> 0, doc |-> <<>>]

\* The members of a sequence that are in X, in their order; a set in some order.
Keep(seq, X) ==
    LET kept[i \in 0 .. Len(seq)] ==
            IF i = 0 THEN <<>>
            ELSE IF seq[i] \in X THEN Append(kept[i - 1], seq[i]) ELSE kept[i - 1]
    IN kept[Len(seq)]
Listed(S) ==
    LET list[n \in 0 .. Cardinality(S)] ==
            IF n = 0 THEN <<>>
            ELSE LET l == list[n - 1] IN Append(l, CHOOSE x \in S \ ToSet(l) : TRUE)
    IN list[Cardinality(S)]

-----------------------------------------------------------------------------
\* Locks, held to the end of the transaction, and who waits for them.

Gate     == <<"gate", "AX">>
Row(g)   == <<"row", g>>          \* a row of _pgrdf_graphs
Graphs(m) == <<"graphs", m>>      \* its table: UPDATE takes RX, a partition's key SRX
Dict(m)  == <<"dict", m>>
Quads(m) == <<"quads", m>>
Conflict(x, y) ==
    /\ x[1] = y[1]
    /\ CASE x[1] = "gate" -> TRUE
         [] x[1] = "row" -> x[2] = y[2]
         [] OTHER -> "AX" \in {x[2], y[2]} \/ {x[2], y[2]} = {"SRX", "RX"} \/ {x[2], y[2]} = {"SRX"}

\* (Mutant: the indexes go without locking the dictionary out.)
RebuildShares == Dict("RX")
RebuildLock == Dict("AX")
\* (Mutant: the record is a read and a later write.)
RecordShares(g) == {Graphs("RX")}
RecordLocks(g) == {Graphs("RX"), Row(g)}
\* A quad whose graph this load has not looked up yet.
Unplaced(j) == j.lines # <<>> /\ Head(j.lines).g \notin DOMAIN j.gids \cup {Default}
\* What the next statement of a load asks for.
Wants(s) ==
    LET j == job[s] IN
    CASE j.at = "probe"  -> {Dict("AS")}
      [] j.at = "gate"   -> {Gate}
      [] j.at = "drop"   -> {Quads("AX")}
      [] j.at = "lock"   -> {RebuildLock}
      [] j.at = "record" -> RecordLocks(j.g)
      [] j.at = "bind"   -> {Gate}
      [] j.at = "create" -> {Graphs("SRX")}
      [] j.at = "lines"  -> IF Unplaced(j) THEN {} ELSE {Dict("RX")}
      [] j.at \in {"terms", "chunk", "uris", "literals"} -> {Dict("RX")}
      [] j.at = "flush"  -> {Quads("RX")}
      [] OTHER -> {}
Waits(s, t) == \E x \in Wants(s), y \in held[t] : Conflict(x, y)
Granted(s) ==
    /\ \A t \in Session \ {s} : ~Waits(s, t)
    /\ held' = [held EXCEPT ![s] = @ \cup Wants(s)]

-----------------------------------------------------------------------------
\* The dictionary, as the running load sees it.  A term is <<kind, text,
\* datatype>>; its key has the datatype's id in the datatype's place.

Dtype(t) == <<"iri", t[3], "">>
PlainKey(t) == <<t[1], t[2], 0>>
Typed(t) == t[3] # ""
\* (Mutant: the key of a literal has no datatype.)
KeyPlain(cache, t) == PlainKey(t)
KeyIn(cache, t) == IF Typed(t) THEN <<t[1], t[2], cache[PlainKey(Dtype(t))]>> ELSE PlainKey(t)
Learn(f, k, id) == [x \in DOMAIN f \cup {k} |-> IF x = k THEN id ELSE f[x]]
IdRow(id, k) == [id |-> id, key |-> k]
\* Of several rows of a key a look-up may give any; late says which.
Ids(own, k) == {r.id : r \in {r \in dict \cup own : r.key = k}}
Some(ids, late) == CHOOSE i \in ids : \A n \in ids : IF late THEN n <= i ELSE i <= n

\* A load's dictionary state: its rows, its cache, and the id sequence.
State(j) == [own |-> j.own, cache |-> j.cache, n |-> lastId]
With(j, st) == [j EXCEPT !.own = st.own, !.cache = st.cache]

\* intern_term and put_term_full: the load's cache, the table, a new row.
PutTerm(st, k, late) ==
    LET ids == Ids(st.own, k) IN
    CASE k \in DOMAIN st.cache -> st
      [] k \notin DOMAIN st.cache /\ ids # {} -> [st EXCEPT !.cache = Learn(@, k, Some(ids, late))]
      [] OTHER -> [own |-> st.own \cup {IdRow(st.n + 1, k)}, n |-> st.n + 1,
                   cache |-> Learn(st.cache, k, st.n + 1)]
\* subject_to_id, object_to_id: a literal's datatype first.
PutDtype(st, t, late) == IF Typed(t) THEN PutTerm(st, PlainKey(Dtype(t)), late) ELSE st
PutFull(st, t, late) ==
    LET typed == PutDtype(st, t, late) IN PutTerm(typed, KeyIn(typed.cache, t), late)
\* put_terms_batch: one INSERT of the keys no row has when it begins (a key
\* twice in the batch goes in twice), one look-up of them all.
PutBatch(st, keys, late) ==
    LET missing == Keep(keys, {k \in ToSet(keys) : Ids(st.own, k) = {}})
        own == st.own \cup {IdRow(st.n + i, missing[i]) : i \in DOMAIN missing} IN
    [own |-> own, n |-> st.n + Len(missing),
     cache |-> [k \in DOMAIN st.cache \cup ToSet(keys) |->
                   IF k \in ToSet(keys) THEN Some(Ids(own, k), late) ELSE st.cache[k]]]
\* The loaders of an empty dictionary: rows for the keys, under the given ids.
Fresh(j, keys, ids) ==
    [j EXCEPT !.own = @ \cup {IdRow(ids[i], keys[i]) : i \in DOMAIN keys},
              !.cache = [k \in DOMAIN @ \cup ToSet(keys) |->
                            IF k \in ToSet(keys) THEN ids[CHOOSE i \in DOMAIN keys : keys[i] = k] ELSE @[k]]]

\* The keys of statements [g, t]; the ids of a statement's keys [g, k].
TermsOf(sts) == UNION {{sts[i].t[m] : m \in 1 .. 3} : i \in DOMAIN sts}
DtypeKeys(sts) == {PlainKey(Dtype(t)) : t \in {t \in TermsOf(sts) : Typed(t)}}
PlainKeys(sts) == {PlainKey(t) : t \in {t \in TermsOf(sts) : ~Typed(t)}}
LiteralKeys(sts, cache) == {KeyIn(cache, t) : t \in {t \in TermsOf(sts) : Typed(t)}}
Place(j, line) == [g |-> IF line.g = Default THEN j.g ELSE j.gids[line.g], t |-> line.t]
KeysOf(cache, st) ==
    [g |-> st.g, k |-> <<KeyIn(cache, st.t[1]), KeyIn(cache, st.t[2]), KeyIn(cache, st.t[3])>>]
IdsOf(cache, e) == <<e.g, cache[e.k[1]], cache[e.k[2]], cache[e.k[3]]>>

-----------------------------------------------------------------------------
\* Rows wait in a batch for flush_batch: those of a graph that has enough of
\* them (GraphBatches::push), at the end all (flush_all).

Limit(j) == IF j.path \in Rebuilds THEN BULK ELSE BATCH
Finished(j) == j.lines = <<>> /\ j.queue = <<>> /\ j.pending = <<>>
RowsIn(j, g) == {i \in DOMAIN j.batch : j.batch[i][1] = g}
Due(j) == {r \in ToSet(j.batch) : Finished(j) \/ Cardinality(RowsIn(j, r[1])) >= Limit(j)}
Onward(j) ==
    [j EXCEPT !.at = CASE Due(j) # {} -> "flush"
                       [] Due(j) = {} /\ Finished(j) -> "finish"
                       [] OTHER -> IF j.path \in Rebuilds THEN "window" ELSE "lines"]

\* drain_pending_into_batch: the waiting statements, every key by now known.  The
\* combined path fixed their keys as it read them, the others do it now.
Drain(j) == [j EXCEPT !.batch = @ \o [i \in DOMAIN j.pending |-> IdsOf(j.cache, j.pending[i])],
                      !.pending = <<>>]
DrainKeyed(j) == Drain([j EXCEPT !.pending = [i \in DOMAIN j.pending |-> KeysOf(j.cache, j.pending[i])]])
\* (Mutant: nothing flushes the last, short queue.)
CombineFull(j) ==
    CASE Len(j.queue) >= DictBatch -> [j EXCEPT !.at = "terms"]
      [] Len(j.queue) < DictBatch /\ j.queue = <<>> /\ Len(j.pending) >= BATCH -> Onward(Drain(j))
      [] OTHER -> [j EXCEPT !.at = "lines"]
\* After a line of the combined path: flush the queue when it or the rows have
\* filled up, then the rows.
Combine(j) ==
    LET rows == Len(j.pending) >= BATCH \/ j.lines = <<>> IN
    CASE j.queue # <<>> /\ (rows \/ Len(j.queue) >= DictBatch) -> [j EXCEPT !.at = "terms"]
      [] j.queue = <<>> /\ rows -> Onward(Drain(j))
      [] OTHER -> [j EXCEPT !.at = "lines"]
\* ingest_turtle_dict_batched: the datatypes first, then every other key.
Batched(j) ==
    LET plain == (DtypeKeys(j.pending) \cup PlainKeys(j.pending)) \ DOMAIN j.cache IN
    LET more == IF DtypeKeys(j.pending) \subseteq DOMAIN j.cache
                THEN plain \cup (LiteralKeys(j.pending, j.cache) \ DOMAIN j.cache)
                ELSE DtypeKeys(j.pending) IN
    CASE j.queue # <<>> -> [j EXCEPT !.at = "chunk"]
      [] j.queue = <<>> /\ more # {} -> [j EXCEPT !.queue = Listed(more), !.at = "chunk"]
      [] OTHER -> Onward(DrainKeyed(j))

\* only_default_graph.  (Mutant: a multi-graph document is recorded too.)
AnyGraph(d) == TRUE
OnlyDefault(d) == \A i \in DOMAIN d : d[i].form # "broken" /\ d[i].g = Default
\* sniff_is_ntriples: the first lines decide.
Sniffs(d) == d # <<>> /\ \A i \in DOMAIN d : i <= SniffLines => d[i].form = "bare"
Bare(lines) == {l \in ToSet(lines) : l.form = "bare"}

-----------------------------------------------------------------------------
\* The calls, one load to a transaction.  A graph id is one that is registered.

Enter(c) == CASE c.path \in Rebuilds -> "probe"
              [] c.path = "dict_batched" -> "parse"
              [] c.path = "quads" -> IF OnlyDefault(c.doc) THEN "record" ELSE "lines"
              [] OTHER -> "record"
Start(s, c) ==
    /\ At(s, "idle") /\ left > 0
    /\ c.g \in {0} \cup {reg[n] : n \in DOMAIN reg}
    /\ left' = left - 1
    /\ raced' = (raced \/ \E t \in Session \ {s} : Busy(t))

\* load_turtle, load_turtle_streaming, parse_turtle, parse_trig, parse_nquads,
\* the dict_batched pair.  A load_turtle that may not go to the staged loader
\* (in a transaction block, with a base, not the owner, not N-Triples) is one.
Begin(s) == \E c \in Calls :
    /\ Start(s, c)
    /\ Step(s, [Idle EXCEPT !.at = Enter(c), !.path = IF c.path = "staged" THEN "turtle" ELSE c.path,
                            !.mode = c.mode, !.doc = c.doc, !.g = c.g, !.strict = c.strict,
                            !.lines = c.doc])
    /\ UNCHANGED <<tables, sequences, held>>

\* load_turtle outside a transaction block, on N-Triples, into an empty
\* database: the staged loader, whose transactions commit on their own.
LoadStaged(s) == \E c \in Calls :
    /\ c.path = "staged" /\ Start(s, c)
    /\ Sniffs(c.doc) /\ dict = {} /\ \A t \in Session : held[t] = {}
    /\ LET kept == Keep(c.doc, Bare(c.doc))
           sts == [i \in DOMAIN kept |-> Place([g |-> c.g], kept[i])]
           plain == Listed(PlainKeys(sts) \cup DtypeKeys(sts))
           p == Fresh(Idle, plain, [i \in DOMAIN plain |-> lastId + i])
           literals == Listed(LiteralKeys(sts, p.cache))
           q == Fresh(p, literals, [i \in DOMAIN literals |-> lastId + Len(plain) + i]) IN
       /\ dict' = q.own
       /\ quads' = quads \o [i \in DOMAIN sts |-> IdsOf(q.cache, KeysOf(q.cache, sts[i]))]
       /\ lastId' = lastId + Cardinality(q.own)
    /\ log' = Append(log, [doc |-> c.doc, g |-> c.g, by |-> "staged", recorded |-> FALSE])
    /\ UNCHANGED <<reg, src, lastGraph, job, held>>

\* bulk_load_guarded, streaming_load_guarded: is the dictionary empty, and does
\* the caller own the tables?  The bulk loader then reads the whole file in
\* chunks; the prefixes are those of the first.
Probe(s) ==
    /\ At(s, "probe") /\ Granted(s)
    /\ \/ Step(s, [job[s] EXCEPT !.at = "record", !.path = "turtle"])
       \/ /\ dict = {} /\ job[s].path = "stream" /\ Go(s, "gate")
       \/ /\ dict = {} /\ job[s].path = "bulk"
          /\ \E first \in 0 .. Len(job[s].doc) :
                 LET d == job[s].doc
                     prefixed == {l \in ToSet(d) : l.form # "broken"}
                     kept == Keep(SubSeq(d, 1, first), prefixed)
                             \o Keep(SubSeq(d, first + 1, Len(d)), Bare(d))
                     sts == [i \in DOMAIN kept |-> Place(job[s], kept[i])] IN
                 Step(s, [job[s] EXCEPT !.pending = sts, !.lines = <<>>,
                                        !.at = IF Len(sts) >= DeferMin THEN "gate" ELSE "uris"])
    /\ UNCHANGED <<tables, sequences, left, raced>>

\* bulk_drop_indexes: the gate, DROP INDEX, ALTER TABLE.  (The rebuild at the
\* end needs no lock it does not have.)
DropIndexes(s) ==
    /\ Granted(s)
    /\ \/ At(s, "gate") /\ Go(s, "drop")
       \/ At(s, "drop") /\ Go(s, "lock")
       \/ At(s, "lock") /\ Go(s, IF job[s].path = "bulk" THEN "uris" ELSE "window")
    /\ UNCHANGED <<tables, sequences, left, raced>>

\* begin_source_record.
Record(s) ==
    /\ At(s, "record") /\ Granted(s)
    /\ Step(s, [job[s] EXCEPT !.loads = Source(job[s].g).loads + 1,
                              !.at = IF job[s].path = "turtle" /\ job[s].mode = "batched"
                                     THEN "parse" ELSE "lines"])
    /\ UNCHANGED <<tables, sequences, left, raced>>

\* resolve_graph_id: the load's cache, the registry, then add_graph, which
\* looks again behind the gate.
NamedOf(j, n) == IF n \in DOMAIN j.named THEN j.named[n] ELSE reg[n]
LookUp(s) ==
    /\ At(s, "lines") /\ Unplaced(job[s]) /\ Head(job[s].lines).form # "broken"
    /\ LET n == Head(job[s].lines).g IN
       IF n \in DOMAIN reg THEN Step(s, [job[s] EXCEPT !.gids = Learn(@, n, reg[n])])
       ELSE ~job[s].strict /\ Go(s, "bind")
    /\ UNCHANGED <<tables, sequences, held, left, raced>>
Bind(s) ==
    /\ At(s, "bind") /\ Granted(s)
    /\ LET n == Head(job[s].lines).g IN
       IF n \in DOMAIN reg THEN Step(s, [job[s] EXCEPT !.gids = Learn(@, n, reg[n]), !.at = "lines"])
       ELSE Go(s, "create")
    /\ UNCHANGED <<tables, sequences, left, raced>>
Create(s) ==
    /\ At(s, "create") /\ Granted(s)
    /\ lastGraph' = lastGraph + 1
    /\ LET n == Head(job[s].lines).g IN
       Step(s, [job[s] EXCEPT !.gids = Learn(@, n, lastGraph'), !.named = Learn(@, n, lastGraph'),
                              !.at = "lines"])
    /\ UNCHANGED <<tables, lastId, left, raced>>

\* (\E x \in {e} names a value; TLC computes it once.)
\* One line of ingest_turtle_with_stats or ingest_quads_with_stats ...
Readable(s) == At(s, "lines") /\ job[s].lines # <<>> /\ ~Unplaced(job[s]) /\ Head(job[s].lines).form # "broken"
BaselineLine(s) == \E late \in BOOLEAN :
    /\ Readable(s) /\ job[s].mode = "baseline" /\ Granted(s)
    /\ LET j == job[s]
           st == Place(j, Head(j.lines)) IN
       \E d1 \in {PutFull(State(j), st.t[1], late)} :
       \E d2 \in {PutFull(d1, st.t[2], late)} :
       \E d \in {PutFull(d2, st.t[3], late)} :
       \E k \in {[With(j, d) EXCEPT !.batch = Append(@, IdsOf(d.cache, KeysOf(d.cache, st))), !.lines = Tail(@)]} :
           Step(s, Onward(k)) /\ lastId' = d.n
    /\ UNCHANGED <<tables, lastGraph, left, raced>>
\* ... and of ingest_turtle_combined or ingest_quads_combined: the datatype at
\* once (resolve_datatype_iri_sync), new keys into the queue
\* (try_resolve_or_defer).  (Mutant: keys already queued are queued again.)
DeferAlways(queue, k, cache) == IF k \in DOMAIN cache THEN queue ELSE Append(queue, k)
Defer(queue, k, cache) == IF k \in DOMAIN cache \cup ToSet(queue) THEN queue ELSE Append(queue, k)
CombinedLine(s) == \E late \in BOOLEAN :
    /\ Readable(s) /\ job[s].mode # "baseline" /\ Granted(s)
    /\ LET j == job[s]
           st == Place(j, Head(j.lines)) IN
       \E d \in {PutDtype(State(j), st.t[3], late)} :
       \E e \in {KeysOf(d.cache, st)} :
       \E q \in {Defer(Defer(Defer(j.queue, e.k[1], d.cache), e.k[2], d.cache), e.k[3], d.cache)} :
       \E k \in {[With(j, d) EXCEPT !.queue = q, !.pending = Append(@, e), !.lines = Tail(@)]} :
           Step(s, Combine(k)) /\ lastId' = d.n
    /\ UNCHANGED <<tables, lastGraph, left, raced>>
\* A document without statements left to read.
EndOfFile(s) ==
    /\ At(s, "lines") /\ job[s].doc = <<>>
    /\ Step(s, Onward(job[s]))
    /\ UNCHANGED <<tables, sequences, held, left, raced>>

\* flush_defer.
FlushDefer(s) == \E late \in BOOLEAN :
    /\ At(s, "terms") /\ Granted(s)
    /\ \E d \in {PutBatch(State(job[s]), job[s].queue, late)} :
       \E k \in {[With(job[s], d) EXCEPT !.queue = <<>>]} :
           Step(s, Combine(k)) /\ lastId' = d.n
    /\ UNCHANGED <<tables, lastGraph, left, raced>>

\* ingest_turtle_dict_batched: parse it all, ...
Parse(s) ==
    /\ At(s, "parse") /\ \A i \in DOMAIN job[s].lines : job[s].lines[i].form # "broken"
    /\ LET j == job[s] IN
       Step(s, Batched([j EXCEPT !.pending = [i \in DOMAIN j.lines |-> Place(j, j.lines[i])], !.lines = <<>>]))
    /\ UNCHANGED <<tables, sequences, held, left, raced>>
\* ... then a chunk of keys at a time.
PutChunk(s) == \E late \in BOOLEAN :
    /\ At(s, "chunk") /\ Granted(s)
    /\ LET size == IF DictBatch < Len(job[s].queue) THEN DictBatch ELSE Len(job[s].queue) IN
       \E d \in {PutBatch(State(job[s]), SubSeq(job[s].queue, 1, size), late)} :
       \E k \in {[With(job[s], d) EXCEPT !.queue = SubSeq(@, size + 1, Len(@))]} :
           Step(s, Batched(k)) /\ lastId' = d.n
    /\ UNCHANGED <<tables, lastGraph, left, raced>>

\* ingest_turtle_streaming: a window of lines, each read alone.
ReadWindow(s) ==
    /\ At(s, "window")
    /\ LET j == job[s]
           size == IF Window < Len(j.lines) THEN Window ELSE Len(j.lines)
           kept == Keep(SubSeq(j.lines, 1, size), Bare(j.lines)) IN
       Step(s, [j EXCEPT !.pending = [i \in DOMAIN kept |-> Place(j, kept[i])],
                         !.lines = SubSeq(@, size + 1, Len(@)), !.at = "uris"])
    /\ UNCHANGED <<tables, sequences, held, left, raced>>
\* The keys the present step inserts: IRIs and blank nodes, then literals.
NewKeys(j) == IF j.at = "uris" THEN (PlainKeys(j.pending) \cup DtypeKeys(j.pending)) \ DOMAIN j.cache
              ELSE LiteralKeys(j.pending, j.cache) \ DOMAIN j.cache
\* It takes a block of ids from the first nextval on; another session's
\* nextval may fall inside.
Reserve(s) ==
    /\ job[s].path = "stream" /\ job[s].at \in {"uris", "literals"}
    /\ Cardinality(NewKeys(job[s])) > Len(job[s].pool)
    /\ \/ job[s].lo = 0 /\ Step(s, [job[s] EXCEPT !.lo = lastId + 1]) /\ lastId' = lastId + 1
       \/ /\ job[s].lo > 0
          /\ Step(s, [job[s] EXCEPT !.pool = @ \o [i \in 1 .. Block |-> job[s].lo + i - 1], !.lo = 0])
          /\ lastId' = lastId + Block - 1
    /\ UNCHANGED <<tables, lastGraph, held, left, raced>>
\* The inserts of the bulk and the streaming loader, without a look-up.
InsertNew(s) ==
    /\ job[s].at \in {"uris", "literals"} /\ Granted(s)
    /\ \E keys \in {Listed(NewKeys(job[s]))} :
       \E ids \in {IF job[s].path = "bulk" THEN [i \in DOMAIN keys |-> lastId + i] ELSE job[s].pool} :
       /\ Len(keys) <= Len(ids)
       /\ \E k \in {[Fresh(job[s], keys, ids) EXCEPT !.pool = SubSeq(ids, Len(keys) + 1, Len(ids))]} :
              Step(s, IF k.at = "uris" THEN [k EXCEPT !.at = "literals"] ELSE Onward(DrainKeyed(k)))
       /\ lastId' = IF job[s].path = "bulk" THEN lastId + Len(keys) ELSE lastId
    /\ UNCHANGED <<tables, lastGraph, left, raced>>

\* flush_batch.
Flush(s) ==
    /\ At(s, "flush") /\ Granted(s)
    /\ LET j == job[s] IN
       Step(s, Onward([j EXCEPT !.out = @ \o Keep(j.batch, Due(j)), !.batch = Keep(@, ToSet(@) \ Due(j))]))
    /\ UNCHANGED <<tables, sequences, left, raced>>

Release(s) == job' = [job EXCEPT ![s] = Idle] /\ held' = [held EXCEPT ![s] = {}]
\* finish_source_record, and the commit.
Commit(s) ==
    /\ At(s, "finish")
    /\ LET j == job[s] IN
       /\ dict' = dict \cup j.own
       /\ quads' = quads \o j.out
       /\ reg' = [n \in DOMAIN reg \cup DOMAIN j.named |-> NamedOf(j, n)]
       /\ src' = IF j.loads = 0 THEN src ELSE Learn(src, j.g, [loads |-> j.loads, doc |-> j.doc])
       /\ log' = Append(log, [doc |-> j.doc, g |-> j.g, by |-> j.path, recorded |-> j.loads > 0])
    /\ Release(s)
    /\ UNCHANGED <<sequences, left, raced>>

\* A load that cannot go on: a line no parser reads, a graph a strict load does
\* not find.
Refuse(s) ==
    /\ \/ At(s, "lines") /\ job[s].lines # <<>> /\ Head(job[s].lines).form = "broken"
       \/ At(s, "parse") /\ \E i \in DOMAIN job[s].lines : job[s].lines[i].form = "broken"
       \/ At(s, "lines") /\ Unplaced(job[s]) /\ job[s].strict /\ Head(job[s].lines).g \notin DOMAIN reg
    /\ Release(s) /\ UNCHANGED <<tables, sequences, left, raced>>
\* A cancelled statement, a lost connection.
Abort(s) == Busy(s) /\ Release(s) /\ UNCHANGED <<tables, sequences, left, raced>>
\* PostgreSQL ends one of the sessions that wait for each other.
Stuck == {T \in SUBSET Session : T # {} /\ \A s \in T : \E t \in T \ {s} : Waits(s, t)}
Victim(s) == (\E T \in Stuck : s \in T) /\ Release(s) /\ UNCHANGED <<tables, sequences, left, raced>>

Work(s) ==
    \/ Probe(s) \/ DropIndexes(s) \/ Record(s) \/ LookUp(s) \/ Bind(s) \/ Create(s)
    \/ BaselineLine(s) \/ CombinedLine(s) \/ EndOfFile(s) \/ FlushDefer(s) \/ Parse(s) \/ PutChunk(s)
    \/ ReadWindow(s) \/ Reserve(s) \/ InsertNew(s) \/ Flush(s) \/ Commit(s) \/ Refuse(s) \/ Victim(s)
Next == \E s \in Session : Begin(s) \/ LoadStaged(s) \/ Work(s) \/ Abort(s)
\* The server runs a call to its end, an error or a broken deadlock.
Spec == Init /\ [][Next]_vars /\ \A s \in Session : WF_vars(Work(s))

-----------------------------------------------------------------------------
\* Properties.

KeyOf(id) == (CHOOSE r \in dict : r.id = id).key
TermOf(id) == <<KeyOf(id)[1], KeyOf(id)[2], IF KeyOf(id)[3] = 0 THEN "" ELSE KeyOf(KeyOf(id)[3])[2]>>
\* What a committed load must have stored, and what it may have: the parsers of
\* whole documents every line, the line readers those that stand alone; a chunk
\* of the bulk loader may know the prefixes.
MustStore(e) == IF e.by \in Rebuilds \cup {"staged"} THEN {"bare"} ELSE Form
MayStore(e) == IF e.by = "bulk" THEN {"bare", "short"} ELSE MustStore(e)
GraphOf(e, line) == IF line.g = Default THEN e.g ELSE reg[line.g]
Forms(e, may) == IF may THEN MayStore(e) ELSE MustStore(e)
Says(e, line, x) == GraphOf(e, line) = x.g /\ line.t = x.t
Promised(x, may) == Cardinality(UNION {{i} \X {k \in DOMAIN log[i].doc :
    log[i].doc[k].form \in Forms(log[i], may) /\ Says(log[i], log[i].doc[k], x)} : i \in DOMAIN log})
\* The stored rows, read back through the dictionary, are the statements of the
\* documents that were loaded, each as often as it was read: no path drops,
\* doubles or misplaces one, or gives a literal another's datatype.
Read(r) == [g |-> r[1], t |-> <<TermOf(r[2]), TermOf(r[3]), TermOf(r[4])>>]
RowsAreTheDocuments ==
    LET read == [i \in DOMAIN quads |-> Read(quads[i])]
        asked == UNION {{[g |-> GraphOf(log[i], l), t |-> l.t] : l \in ToSet(log[i].doc)} : i \in DOMAIN log} IN
    \A x \in ToSet(read) \cup asked :
        LET n == Cardinality({i \in DOMAIN read : read[i] = x}) IN
        Promised(x, FALSE) <= n /\ n <= Promised(x, TRUE)

\* No id is given to two terms, whichever way it was taken from the sequence
\* (the primary key never fails a load); and as long as loads do not run side by
\* side, no term has two rows, which no constraint would refuse.
OneRowPerTerm ==
    \A r1, r2 \in dict \cup UNION {job[s].own : s \in Session} :
        /\ r1.id = r2.id => r1 = r2
        /\ r1.key = r2.key /\ ~raced => r1 = r2

\* source_loads counts the recorded loads and the digest is that of the last,
\* also when several record the same graph at once.
DigestOfLatest ==
    \A g \in DOMAIN src \cup {e.g : e \in ToSet(log)} :
        LET mine == Keep(log, {e \in ToSet(log) : e.recorded /\ e.g = g}) IN
        /\ Source(g).loads = Len(mine)
        /\ mine # <<>> => Source(g).doc = Last(mine).doc

\* Sessions wait for each other only where an index rebuild takes part: the
\* gate, the registry and the record are asked for in one order.
OnlyRebuildsDeadlock == \A T \in Stuck : \E s \in T : job[s].path \in Rebuilds

\* Every load ends.
LoadsReturn == \A s \in Session : Busy(s) ~> ~Busy(s)
=============================================================================
