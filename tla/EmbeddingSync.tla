----------------------------- MODULE EmbeddingSync -----------------------------
(***************************************************************************)
(* How the vector index of src/memory/retrieval follows the memory store:  *)
(*                                                                         *)
(*   client  the thread that changes the store.  EmbeddingIndex is told of *)
(*           every change; with SyncFallback it embeds at once.            *)
(*   worker  EmbeddingWorker: queues the ids of CREATED and UPDATED        *)
(*           events, and embeds them in batches.                           *)
(*                                                                         *)
(* Both write NumPyVectorIndex without a lock.  Adding a vector is two     *)
(* steps - enter the id, extend the matrix - since the threads may switch  *)
(* in between; a loop over the index is one step.  An index or type error  *)
(* inside the index is swallowed by the caller and leaves what was done.   *)
(***************************************************************************)

EXTENDS Naturals, Sequences, SequencesExt, FiniteSetsExt

CONSTANTS
    Ids,            \* identifiers of memories
    Preloaded,      \* the active memories when the engine is initialized
    Ops,            \* operations the client calls
    SyncFallback,   \* RetrievalConfig.sync_fallback
    WorkerEnabled,  \* RetrievalConfig.worker_enabled
    BatchSize,      \* RetrievalConfig.worker_batch_size
    MaxRetries,     \* RetrievalConfig.worker_max_retries
    EmbedderFails,  \* the embedding model may raise
    MaxVer,         \* content versions of one memory (bound)
    MaxQueue,       \* queued events (bound)
    None

AllOps == {"create", "update", "touch", "archive", "delete", "recover", "purge", "stop"}

ASSUME EmbeddingConstants ==
    /\ Preloaded \subseteq Ids
    /\ Ops \subseteq AllOps
    /\ {SyncFallback, WorkerEnabled, EmbedderFails} \subseteq BOOLEAN
    /\ {BatchSize, MaxRetries, MaxVer, MaxQueue} \subseteq Nat \ {0}
    /\ None \notin Ids

VARIABLES
    pool,       \* pool[i]: where the store has entry i
    ver,        \* ver[i]: version of the content of i
    ids,        \* NumPyVectorIndex._ids
    pos,        \* NumPyVectorIndex._id_to_idx (counted from 1)
    rows,       \* NumPyVectorIndex._vectors: whose content each row embeds
    dim,        \* NumPyVectorIndex._dim is known
    cpc, carg,  \* what the client is doing, for which entry
    cvec,       \* the row the client is adding
    emits,      \* the client's operation ends with an event
    queue,      \* EmbeddingWorker._queue
    running,    \* EmbeddingWorker._running
    wpc,        \* where the worker's thread is
    batch,      \* ids the worker has collected
    wvecs,      \* the rows it is adding
    attempts,   \* times it has tried the present batch
    gaveUp      \* history: attempts made for each batch it dropped

storeVars  == <<pool, ver>>
indexVars  == <<ids, pos, rows, dim>>
clientVars == <<cpc, carg, cvec, emits>>
workerVars == <<running, wpc, batch, wvecs, attempts, gaveUp>>
vars == <<storeVars, indexVars, clientVars, queue, workerVars>>

Vec(i, v) == [of |-> i, ver |-> v]
Current(i) == Vec(i, ver[i])

TypeOK ==
    /\ pool \in [Ids -> {"none", "active", "archived", "deleted", "purged"}]
    /\ ver \in [Ids -> 0..MaxVer]
    /\ ids \in Seq(Ids)
    /\ DOMAIN pos \subseteq Ids /\ \A i \in DOMAIN pos : pos[i] \in Nat \ {0}
    /\ \A n \in DOMAIN rows : rows[n].of \in Ids /\ rows[n].ver \in 0..MaxVer
    /\ dim \in BOOLEAN
    /\ cpc \in {"idle", "embed", "append", "remove", "emit"}
    /\ carg \in Ids \cup {None}
    /\ cpc = "idle" <=> carg = None
    /\ emits \in BOOLEAN
    /\ queue \in Seq(Ids) /\ Len(queue) <= MaxQueue
    /\ running \in BOOLEAN
    /\ wpc \in {"off", "loop", "waiting", "embed", "add", "build"}
    /\ batch \subseteq Ids
    /\ Len(wvecs) <= Cardinality(batch)
    /\ attempts \in 0..MaxRetries
    /\ gaveUp \subseteq 1..MaxRetries

\* RetrievalEngine.initialize: rebuild over the active entries, start the worker.
Init ==
    /\ pool = [i \in Ids |-> IF i \in Preloaded THEN "active" ELSE "none"]
    /\ ver = [i \in Ids |-> IF i \in Preloaded THEN 1 ELSE 0]
    /\ ids = SetToSeq(Preloaded)
    /\ pos = [i \in Preloaded |-> CHOOSE n \in DOMAIN ids : ids[n] = i]
    /\ rows = [n \in DOMAIN ids |-> Vec(ids[n], 1)]
    /\ dim = (Preloaded # {})
    /\ cpc = "idle" /\ carg = None /\ cvec = None /\ emits = FALSE
    /\ queue = <<>>
    /\ running = WorkerEnabled
    /\ wpc = IF WorkerEnabled THEN "loop" ELSE "off"
    /\ batch = {} /\ wvecs = <<>> /\ attempts = 0 /\ gaveUp = {}

------------------------------------------------------------------------------
(* NumPyVectorIndex *)

\* add, the loop over the new vectors: s.ok turns FALSE at an index error.
Entered(vecs) ==
    LET start == IF dim THEN [ids |-> ids, pos |-> pos, rows |-> rows, ok |-> TRUE]
                        ELSE [ids |-> <<>>, pos |-> <<>>, rows |-> <<>>, ok |-> TRUE]
        enter(s, v) ==
            IF ~s.ok THEN s
            ELSE IF v.of \notin DOMAIN s.pos
            THEN [s EXCEPT !.ids = Append(@, v.of),
                           !.pos = [i \in DOMAIN @ \cup {v.of} |->
                                      IF i = v.of THEN Len(s.ids) + 1 ELSE @[i]]]
            ELSE IF s.pos[v.of] \in DOMAIN s.rows
            THEN [s EXCEPT !.rows[s.pos[v.of]] = v]
            ELSE [s EXCEPT !.ok = FALSE]
    IN FoldLeft(enter, start, vecs)

\* add, the new matrix.
RowOf(n) == IF ids[n] \in DOMAIN pos THEN pos[ids[n]] ELSE n
Built(vecs) ==
    IF Len(rows) = Len(ids) - Len(vecs) THEN rows \o vecs
    ELSE IF \A n \in DOMAIN ids : RowOf(n) \in DOMAIN rows
    THEN [n \in DOMAIN ids |-> rows[RowOf(n)]]
    ELSE rows

\* Bug: the positions behind the removed id are not moved up.
RemoveUnshifted(i) ==
    LET left  == SelectSeq(ids, LAMBDA j : j # i)
        kept  == DOMAIN pos \ {i}
    IN /\ ids' = IF i \in DOMAIN pos THEN left ELSE ids
       /\ pos' = [j \in kept |-> pos[j]]
       /\ rows' = IF i \in DOMAIN pos THEN [n \in DOMAIN left |-> rows[pos[left[n]]]] ELSE rows
       /\ UNCHANGED dim

\* remove: drop the id, then move the rows up one by one; an error ends it half
\* way, with some positions moved and the old matrix.
Removed(i) ==
    LET left == IF i \in DOMAIN pos THEN RemoveFirst(ids, i) ELSE ids
        kept == DOMAIN pos \ {i}
        good(n) == left[n] \in kept /\ pos[left[n]] \in DOMAIN rows
        bad == {n \in DOMAIN left : ~good(n)}
        moved == IF ~dim THEN {}
                 ELSE {n \in DOMAIN left : \A m \in bad : n < m}
    IN /\ ids' = left
       /\ pos' = [j \in kept |-> IF \E n \in moved : left[n] = j
                                 THEN Max({n \in moved : left[n] = j}) ELSE pos[j]]
       /\ rows' = IF left = <<>> THEN <<>>
                  ELSE IF moved = DOMAIN left THEN [n \in DOMAIN left |-> rows[pos[left[n]]]]
                  ELSE rows
       /\ UNCHANGED dim

------------------------------------------------------------------------------
(* The client: MemoryStore, its IndexManager and its events *)

Calls(op) == cpc = "idle" /\ op \in Ops

\* The entry has changed; the index is told, then the subscribers of the event.
Notify(i, embeds, event) ==
    /\ cpc' = IF embeds /\ SyncFallback THEN "embed" ELSE "emit"
    /\ carg' = i
    /\ emits' = event
    /\ UNCHANGED <<cvec, indexVars, queue, workerVars>>

Create(i) ==
    /\ Calls("create") /\ pool[i] = "none"
    /\ pool' = [pool EXCEPT ![i] = "active"]
    /\ ver' = [ver EXCEPT ![i] = 1]
    /\ Notify(i, TRUE, TRUE)

UpdateContent(i) ==
    /\ Calls("update") /\ pool[i] = "active" /\ ver[i] < MaxVer
    /\ ver' = [ver EXCEPT ![i] = @ + 1]
    /\ Notify(i, TRUE, TRUE)
    /\ UNCHANGED pool

\* An update of other fields: no embedding, but the same event.
Touch(i) ==
    /\ Calls("touch") /\ pool[i] = "active"
    /\ Notify(i, FALSE, TRUE)
    /\ UNCHANGED storeVars

\* LifecycleManager emits RECOVERED, to which the worker does not listen.
Recover(i) ==
    /\ Calls("recover") /\ pool[i] \in {"archived", "deleted"}
    /\ pool' = [pool EXCEPT ![i] = "active"]
    /\ Notify(i, TRUE, FALSE)
    /\ UNCHANGED ver

Retire(i, op, from, to) ==
    /\ Calls(op) /\ pool[i] = from
    /\ pool' = [pool EXCEPT ![i] = to]
    /\ cpc' = "remove" /\ carg' = i
    /\ UNCHANGED <<ver, cvec, emits, indexVars, queue, workerVars>>

\* Bug: an entry that has a row keeps its vector.
EmbedOnce ==
    LET i == carg IN
    /\ cpc = "embed"
    /\ \/ EmbedderFails /\ cpc' = "emit" /\ UNCHANGED <<cvec, indexVars>>
       \/ /\ i \in DOMAIN pos
          /\ cpc' = "emit"
          /\ UNCHANGED <<cvec, indexVars>>
       \/ /\ i \notin DOMAIN pos
          /\ ids' = Append(ids, i)
          /\ pos' = [j \in DOMAIN pos \cup {i} |-> IF j = i THEN Len(ids) + 1 ELSE pos[j]]
          /\ cvec' = Current(i)
          /\ cpc' = "append"
          /\ UNCHANGED <<rows, dim>>
    /\ UNCHANGED <<storeVars, carg, emits, queue, workerVars>>

\* EmbeddingIndex.embed_and_index, NumPyVectorIndex.update.
EmbedNow ==
    LET i == carg IN
    /\ cpc = "embed"
    /\ \/ EmbedderFails /\ cpc' = "emit" /\ UNCHANGED <<cvec, indexVars>>
       \/ /\ i \in DOMAIN pos
          /\ rows' = IF pos[i] \in DOMAIN rows THEN [rows EXCEPT ![pos[i]] = Current(i)] ELSE rows
          /\ cpc' = "emit"
          /\ UNCHANGED <<cvec, ids, pos, dim>>
       \/ /\ i \notin DOMAIN pos
          /\ ids' = Append(ids, i)
          /\ pos' = [j \in DOMAIN pos \cup {i} |-> IF j = i THEN Len(ids) + 1 ELSE pos[j]]
          /\ cvec' = Current(i)
          /\ cpc' = "append"
          /\ UNCHANGED <<rows, dim>>
    /\ UNCHANGED <<storeVars, carg, emits, queue, workerVars>>

AppendRow ==
    /\ cpc = "append"
    /\ rows' = Append(rows, cvec)
    /\ cpc' = "emit" /\ cvec' = None
    /\ UNCHANGED <<storeVars, ids, pos, dim, carg, emits, queue, workerVars>>

\* Bug: no event for an entry of the worker's present batch.
EmitUnlessInBatch ==
    /\ cpc = "emit"
    /\ Len(queue) < MaxQueue
    /\ queue' = IF emits /\ running /\ carg \notin batch THEN Append(queue, carg) ELSE queue
    /\ cpc' = "idle" /\ carg' = None /\ emits' = FALSE
    /\ UNCHANGED <<storeVars, indexVars, cvec, workerVars>>

\* The worker queues the event, unless it has unsubscribed.
Emit ==
    /\ cpc = "emit"
    /\ Len(queue) < MaxQueue
    /\ queue' = IF emits /\ running THEN Append(queue, carg) ELSE queue
    /\ cpc' = "idle" /\ carg' = None /\ emits' = FALSE
    /\ UNCHANGED <<storeVars, indexVars, cvec, workerVars>>

\* EmbeddingIndex.on_delete.
RemoveRow ==
    /\ cpc = "remove"
    /\ Removed(carg)
    /\ cpc' = "idle" /\ carg' = None
    /\ UNCHANGED <<storeVars, cvec, emits, queue, workerVars>>

------------------------------------------------------------------------------
(* EmbeddingWorker *)

\* stop may find the thread waiting for an event, past its look at _running.
Stop ==
    /\ Calls("stop") /\ running
    /\ running' = FALSE
    /\ wpc' \in IF wpc = "loop" /\ Cardinality(batch) < BatchSize
                THEN {"loop", "waiting"} ELSE {wpc}
    /\ UNCHANGED <<storeVars, indexVars, clientVars, queue, batch, wvecs, attempts, gaveUp>>

\* start, once the old thread has ended.
Start ==
    /\ Calls("stop") /\ ~running /\ wpc = "off" /\ WorkerEnabled
    /\ running' = TRUE /\ wpc' = "loop"
    /\ UNCHANGED <<storeVars, indexVars, clientVars, queue, batch, wvecs, attempts, gaveUp>>

Get ==
    /\ \/ wpc = "loop" /\ running
       \/ wpc = "waiting"
    /\ queue # <<>> /\ Cardinality(batch) < BatchSize
    /\ batch' = batch \cup {Head(queue)}
    /\ queue' = Tail(queue)
    /\ wpc' = "loop"
    /\ UNCHANGED <<storeVars, indexVars, clientVars, running, wvecs, attempts, gaveUp>>

\* The last wait ends without an event.
GetNothing ==
    /\ wpc = "waiting" /\ queue = <<>>
    /\ wpc' = "loop"
    /\ UNCHANGED <<storeVars, indexVars, clientVars, queue, running, batch, wvecs, attempts, gaveUp>>

\* The batch is full, or its interval is over, or the worker is stopping.
Flush ==
    /\ wpc = "loop" /\ batch # {}
    /\ wpc' = "embed" /\ attempts' = 0
    /\ UNCHANGED <<storeVars, indexVars, clientVars, queue, running, batch, wvecs, gaveUp>>

EndBatch == wpc' = "loop" /\ batch' = {} /\ wvecs' = <<>>

\* _process_batch: the entries that any pool still has, in any order; embed_batch
\* answers 0 when the embedder raises, and 0 is not retried.
EmbedBatch ==
    LET found == {i \in batch : pool[i] \in {"active", "archived", "deleted"}} IN
    /\ wpc = "embed"
    /\ \/ /\ found = {} \/ EmbedderFails
          /\ EndBatch
          /\ IF found = {} THEN UNCHANGED <<attempts, gaveUp>>
             ELSE attempts' = attempts + 1 /\ gaveUp' = gaveUp \cup {attempts'}
       \/ /\ found # {}
          /\ \E order \in SetToSeqs(found) :
                wvecs' = [n \in DOMAIN order |-> Current(order[n])]
          /\ wpc' = "add"
          /\ attempts' = attempts + 1
          /\ UNCHANGED <<batch, gaveUp>>
    /\ UNCHANGED <<storeVars, indexVars, clientVars, queue, running>>

\* NumPyVectorIndex.add, which sets the dimension when it is the first to write.
EnterBatch ==
    LET s == Entered(wvecs) IN
    /\ wpc = "add"
    /\ ids' = s.ids /\ pos' = s.pos /\ rows' = s.rows /\ dim' = TRUE
    /\ IF s.ok THEN wpc' = "build" /\ UNCHANGED <<batch, wvecs>> ELSE EndBatch
    /\ UNCHANGED <<storeVars, clientVars, queue, running, attempts, gaveUp>>

BuildRows ==
    /\ wpc = "build"
    /\ rows' = Built(wvecs)
    /\ EndBatch
    /\ UNCHANGED <<storeVars, ids, pos, dim, clientVars, queue, running, attempts, gaveUp>>

\* Bug: the thread ends without its drain step.
ExitAtOnce ==
    /\ wpc = "loop" /\ ~running
    /\ wpc' = "off" /\ batch' = {}
    /\ UNCHANGED <<storeVars, indexVars, clientVars, queue, running, wvecs, attempts, gaveUp>>

Exit ==
    /\ wpc = "loop" /\ ~running /\ batch = {}
    /\ wpc' = "off"
    /\ UNCHANGED <<storeVars, indexVars, clientVars, queue, running, batch, wvecs, attempts, gaveUp>>

------------------------------------------------------------------------------
ClientCall ==
    \/ \E i \in Ids :
          \/ Create(i) \/ UpdateContent(i) \/ Touch(i) \/ Recover(i)
          \/ Retire(i, "archive", "active", "archived")
          \/ Retire(i, "delete", "active", "deleted")
          \/ Retire(i, "purge", "deleted", "purged")
    \/ Stop \/ Start

ClientProgress == EmbedNow \/ AppendRow \/ Emit \/ RemoveRow

WorkerStep == Get \/ GetNothing \/ Flush \/ EmbedBatch \/ EnterBatch \/ BuildRows \/ Exit

Next == ClientCall \/ ClientProgress \/ WorkerStep

\* A call runs to its end and the worker's thread is scheduled.  It looks at the
\* clock after every event, so a batch is flushed although events keep coming.
Fairness == WF_vars(ClientProgress) /\ WF_vars(WorkerStep) /\ WF_vars(Flush)

Spec == Init /\ [][Next]_vars
FairSpec == Spec /\ Fairness

------------------------------------------------------------------------------
(* Properties *)

Settled == cpc \notin {"append", "remove"} /\ wpc # "build"

\* The three structures of the vector index agree whenever no thread is inside
\* it: row n is the vector of ids[n], and _id_to_idx says n.
Aligned == Settled =>
    /\ Len(rows) = Len(ids)
    /\ DOMAIN pos = ToSet(ids)
    /\ \A n \in DOMAIN ids : pos[ids[n]] = n /\ rows[n].of = ids[n]

Active == {i \in Ids : pool[i] = "active"}

\* Without the worker the index is at every idle moment exactly the active
\* memories, each with the vector of its latest content.
MirrorsActive == cpc = "idle" =>
    /\ ToSet(ids) = Active
    /\ \A n \in DOMAIN ids : rows[n] = Current(ids[n])

Fresh(i) == i \in DOMAIN pos /\ pos[i] \in DOMAIN rows /\ rows[pos[i]] = Current(i)

\* Whatever the order of the threads, every active memory ends with the vector
\* of its latest content.
EventuallyFresh == \A i \in Ids : <>[](pool[i] = "active" => Fresh(i))

\* Every id the worker has taken from its queue is processed, also when it is
\* stopped meanwhile (_run: Drain remaining).
CollectedIsProcessed == \A i \in Ids :
    (i \in batch /\ wpc \in {"loop", "waiting"}) ~> (i \in batch /\ wpc = "embed")

\* A stopped worker has left no event unprocessed (EmbeddingWorker: process
\* remaining queue items).
StoppedDrained == wpc = "off" => queue = <<>>

\* A batch is given up after max_retries attempts only (EmbeddingWorker: retry on
\* failure).
RetriedEnough == gaveUp \subseteq {MaxRetries}

\* Once the worker has nothing to do, archived and deleted memories are not in
\* the index (types.py: archived, not retrieved).
RetiredNotFound ==
    (cpc = "idle" /\ wpc = "loop" /\ batch = {} /\ queue = <<>>) => ToSet(ids) \subseteq Active

==============================================================================
