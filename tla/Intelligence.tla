------------------------------ MODULE Intelligence ------------------------------
(***************************************************************************)
(* The memory intelligence layer of src/memory/intelligence.               *)
(*                                                                         *)
(* The client tracks messages, ends tasks and adds memories.  Counters of  *)
(* TriggerPolicy turn that into events, which AsyncWorker collects and     *)
(* hands to the extractor (conversation -> new memories) or the reflector  *)
(* (merge memories that are alike).  Both add memories themselves, so the  *)
(* worker's own work triggers more of it.                                  *)
(*                                                                         *)
(* A thread is a stack of pending calls, work[t], whose head it executes   *)
(* next; between two of them the other thread may run.  An LLM call is     *)
(* one of them.  A merged memory is a new one, the pair is archived.       *)
(***************************************************************************)

EXTENDS Naturals, Sequences, SequencesExt, FiniteSetsExt

CONSTANTS
    MaxId,            \* memories are 1..MaxId (bound)
    Preloaded,        \* memories 1..Preloaded are active at the start
    Topics,           \* two memories are alike when their topic is the same
    MaxAlike,         \* memories of one topic the environment adds (bound)
    MaxMessages,      \* messages the client tracks (bound)
    MaxQueue,         \* task ends wait for a queue this short (bound)
    MessageThreshold, \* IntelligenceConfig.trigger_message_threshold
    MemoryThreshold,  \* IntelligenceConfig.trigger_memory_threshold
    MaxPairs,         \* IntelligenceConfig.reflection_max_pairs_per_batch
    BatchSize,        \* IntelligenceConfig.worker_batch_size
    MaxRetries,       \* IntelligenceConfig.worker_max_retries
    WorkerEnabled,    \* IntelligenceConfig.worker_enabled
    Persistent,       \* a selection may raise at every try, not just at some
    Ops               \* what the client does

Ids == 1..MaxId
Messages == 1..MaxMessages
Threads == {"client", "worker"}
AllOps == {"track", "task_end", "add", "delete", "extract_now", "stop", "start"}

ASSUME IntelligenceConstants ==
    /\ {MaxId, Preloaded, MaxAlike, MaxMessages, MaxQueue} \subseteq Nat
    /\ Preloaded <= MaxId
    /\ {MessageThreshold, MemoryThreshold, MaxPairs, BatchSize, MaxRetries}
         \subseteq Nat \ {0}
    /\ {WorkerEnabled, Persistent} \subseteq BOOLEAN
    /\ Ops \subseteq AllOps

VARIABLES
    place,      \* place[i]: the pool that has memory i
    topic,      \* topic[i]: what i is about
    spikes,     \* memories whose importance reaches the spike threshold
    parents,    \* parents[i]: the pair i was merged from
    buffer,     \* KnowledgeExtractor._conversation_buffer
    tracked,    \* messages tracked so far
    msgs, mems, \* TriggerPolicy._message_count, _memory_created_count
    subscribed, \* the engine's subscriptions exist
    queue,      \* AsyncWorker._queue
    running,    \* AsyncWorker._running
    wpc,        \* where the worker's loop is
    work,       \* work[t]: calls the thread has pending, the next one first
    batch,      \* batch[t]: events the thread is processing or collects
    attempts,   \* attempts[t]: failed tries of that batch
    covers,     \* history: covers[i]: the memories i was made of, i included
    dropped,    \* history: memories the user has removed, themselves or merged
    asked       \* history: asked[m]: times message m was given to the LLM

memories == <<place, topic, spikes, parents, covers>>
triggers == <<msgs, mems, subscribed>>
worker   == <<running, wpc, batch, attempts>>
talk     == <<buffer, tracked, asked>>
vars == <<memories, dropped, triggers, queue, worker, work, talk>>

Active == {i \in Ids : place[i] = "active"}

Call(d, S) == [do |-> d, of |-> S]
Calls(events) == [n \in DOMAIN events |-> Call(events[n], {})]

TypeOK ==
    /\ place \in [Ids -> {"unborn", "active", "archived", "deleted"}]
    /\ topic \in [Ids -> Topics]
    /\ {spikes, dropped} \subseteq SUBSET Ids
    /\ parents \in [Ids -> SUBSET Ids] /\ covers \in [Ids -> SUBSET Ids]
    /\ buffer \subseteq 1..tracked /\ tracked \in 0..MaxMessages
    /\ msgs < MessageThreshold /\ mems < MemoryThreshold
    /\ {subscribed, running} \subseteq BOOLEAN
    /\ wpc \in {"waiting", "working", "final", "gone"}
    /\ \A n \in DOMAIN queue : queue[n] \in {"extract", "reflect", "end"}
    /\ \A t \in Threads :
         /\ attempts[t] < MaxRetries
         /\ Range(batch[t]) \subseteq {"extract", "reflect"}
    /\ work["worker"] # <<>> => wpc \in {"working", "final"}
    /\ asked \in [Messages -> 0..2]

\* IntelligenceEngine.start over the memories that were loaded.
Init ==
    /\ place = [i \in Ids |-> IF i <= Preloaded THEN "active" ELSE "unborn"]
    /\ topic \in [Ids -> Topics]
    /\ \A i \in Ids : i > Preloaded => topic[i] = CHOOSE p \in Topics : TRUE
    /\ \A p \in Topics : Cardinality({i \in 1..Preloaded : topic[i] = p}) <= MaxAlike
    /\ spikes \in SUBSET (1..Preloaded)
    /\ parents = [i \in Ids |-> {}]
    /\ covers = [i \in Ids |-> {i}]
    /\ dropped = {}
    /\ buffer = {} /\ tracked = 0
    /\ msgs = 0 /\ mems = 0 /\ subscribed = TRUE
    /\ queue = <<>>
    /\ running = WorkerEnabled
    /\ wpc = IF WorkerEnabled THEN "waiting" ELSE "gone"
    /\ work = [t \in Threads |-> <<>>]
    /\ batch = [t \in Threads |-> <<>>]
    /\ attempts = [t \in Threads |-> 0]
    /\ asked = [m \in Messages |-> 0]

------------------------------------------------------------------------------
(* Calls and events *)

Does(t, d) == work[t] # <<>> /\ Head(work[t]).do = d
Argument(t) == Head(work[t]).of
Single(S) == CHOOSE i \in S : TRUE

\* The head is done and left further calls to make.
Then(t, calls) == work' = [work EXCEPT ![t] = calls \o Tail(@)]

\* AsyncWorker.enqueue of some events, by the call at the head of thread t: they
\* are queued, or handled at once while the worker is enabled but not running.
Inline == WorkerEnabled /\ ~running
Enqueue(t, events) ==
    LET heard == IF subscribed THEN events ELSE <<>>
        inline(e) == IF e = "reflect" THEN "reflectInline" ELSE e
    IN IF Inline
       THEN /\ Then(t, [n \in DOMAIN heard |-> Call(inline(heard[n]), {})])
            /\ UNCHANGED queue
       ELSE Then(t, <<>>) /\ queue' = queue \o heard

\* TriggerPolicy.on_message.
Count(t) ==
    LET full == msgs + 1 >= MessageThreshold
    IN /\ Does(t, "count")
       /\ Enqueue(t, IF full THEN <<"extract">> ELSE <<>>)
       /\ msgs' = IF full THEN 0 ELSE msgs + 1
       /\ UNCHANGED <<memories, dropped, mems, subscribed, worker, talk>>

\* Bug: a task that ends early resets the counter only.
EndTaskQuietly(t) ==
    /\ Does(t, "end_task")
    /\ Enqueue(t, IF msgs = 0 THEN <<"extract">> ELSE <<>>)
    /\ msgs' = 0
    /\ UNCHANGED <<memories, dropped, mems, subscribed, worker, talk>>

\* TriggerPolicy.on_task_end.
EndTask(t) ==
    /\ Does(t, "end_task")
    /\ Enqueue(t, <<"extract">>)
    /\ msgs' = 0
    /\ UNCHANGED <<memories, dropped, mems, subscribed, worker, talk>>

\* TriggerPolicy.on_memory_created, when the engine listens to CREATED.
Created(t) ==
    LET i == Single(Argument(t))
        full == mems + 1 >= MemoryThreshold
    IN /\ Does(t, "created")
       /\ Enqueue(t, (IF full THEN <<"reflect">> ELSE <<>>) \o
                     (IF i \in spikes THEN <<"reflect">> ELSE <<>>))
       /\ mems' = IF ~subscribed THEN mems ELSE IF full THEN 0 ELSE mems + 1
       /\ UNCHANGED <<memories, dropped, msgs, subscribed, worker, talk>>

------------------------------------------------------------------------------
(* The store, as far as this layer uses it *)

Fresh == {i \in Ids : place[i] = "unborn" /\ \A j \in Ids : j < i => place[j] # "unborn"}
Room(p) == Cardinality({i \in Active : topic[i] = p}) < MaxAlike

\* A new memory i about p, important or not.
Add(i, p, important) ==
    /\ place' = [place EXCEPT ![i] = "active"]
    /\ topic' = [topic EXCEPT ![i] = p]
    /\ spikes' = IF important THEN spikes \cup {i} ELSE spikes

\* Bug: of a memory that matters the original is kept as well.
RetireUnimportant(t) ==
    LET i == Single(Argument(t))
    IN /\ Does(t, "retire")
       /\ place' = IF i \in Active \ spikes THEN [place EXCEPT ![i] = "archived"] ELSE place
       /\ Then(t, <<>>)
       /\ UNCHANGED <<topic, spikes, parents, covers, dropped,
                      triggers, queue, worker, talk>>

\* MemoryStore.archive: nothing happens unless the memory is active.
Retire(t) ==
    LET i == Single(Argument(t))
    IN /\ Does(t, "retire")
       /\ place' = IF i \in Active THEN [place EXCEPT ![i] = "archived"] ELSE place
       /\ Then(t, <<>>)
       /\ UNCHANGED <<topic, spikes, parents, covers, dropped,
                      triggers, queue, worker, talk>>

------------------------------------------------------------------------------
(* KnowledgeExtractor *)

\* Bug: the extractor keeps the buffer.
ClearNothing(t) ==
    /\ Does(t, "clear")
    /\ Then(t, <<>>)
    /\ UNCHANGED <<memories, dropped, triggers, queue, worker, talk>>

\* on_trigger joins the buffer ...
Extract(t) ==
    /\ Does(t, "extract")
    /\ Then(t, IF buffer = {} THEN <<>> ELSE <<Call("clear", buffer), Call("ask", buffer)>>)
    /\ UNCHANGED <<memories, dropped, triggers, queue, worker, talk>>

\* ... and clears it.
Clear(t) ==
    /\ Does(t, "clear")
    /\ buffer' = {}
    /\ Then(t, <<>>)
    /\ UNCHANGED <<memories, dropped, triggers, queue, worker, tracked, asked>>

\* extract: the LLM proposes no memory (or fails, or proposes what the validator
\* or the pipeline rejects), or one.
Ask(t) ==
    /\ Does(t, "ask")
    /\ asked' = [m \in Messages |-> IF m \in Argument(t) /\ asked[m] < 2
                                    THEN asked[m] + 1 ELSE asked[m]]
    /\ \/ Then(t, <<>>) /\ UNCHANGED memories
       \/ \E i \in Fresh, p \in Topics, important \in BOOLEAN :
            /\ Room(p)
            /\ Add(i, p, important)
            /\ Then(t, <<Call("created", {i})>>)
            /\ UNCHANGED <<parents, covers>>
    /\ UNCHANGED <<dropped, triggers, queue, worker, buffer, tracked>>

------------------------------------------------------------------------------
(* ReflectionEngine.  Its other strategies write relations and events only. *)

\* MergeStrategy.select_candidates: pairs of active memories that are alike.
Pairs == {S \in kSubset(2, Active) : \A i, j \in S : topic[i] = topic[j]}
Selections ==
    {SubSeq(s, 1, Min({MaxPairs, Len(s)})) : s \in SetToSeqs(Pairs)}

\* What stays on a thread's stack when a batch is given up or tried again: the
\* rest of stop, which is at the bottom.
Beneath(t) ==
    LET stop == {n \in DOMAIN work[t] : work[t][n].do \in {"halt", "unsubscribe"}}
    IN SubSeq(work[t], Len(work[t]) - Cardinality(stop) + 1, Len(work[t]))

\* AsyncWorker._process_batch when the handler raises.
Retry(t) ==
    IF attempts[t] + 1 < MaxRetries
    THEN /\ work' = [work EXCEPT ![t] = Calls(batch[t]) \o Beneath(t)]
         /\ attempts' = [attempts EXCEPT ![t] = @ + 1]
    ELSE /\ work' = [work EXCEPT ![t] = Beneath(t)]
         /\ attempts' = [attempts EXCEPT ![t] = 0]

\* reflect, the selection.  It iterates over the store's own dictionary and
\* raises when another thread changes that meanwhile.
Reflect(t) ==
    /\ \/ /\ Does(t, "reflect") \/ Does(t, "reflectInline")
          /\ \E s \in Selections : Then(t, [n \in DOMAIN s |-> Call("judge", s[n])])
          /\ UNCHANGED attempts
       \/ /\ Does(t, "reflect")
          /\ Persistent \/ attempts[t] + 1 < MaxRetries
          /\ Retry(t)
       \/ Does(t, "reflectInline") /\ Then(t, <<>>) /\ UNCHANGED attempts
    /\ UNCHANGED <<memories, dropped, triggers, queue, running, wpc, batch, talk>>

\* Bug: the first of the pair takes the merged content, and is archived like it.
JudgeInPlace(t) ==
    LET pair == Argument(t)
    IN /\ Does(t, "judge")
       /\ covers' = [covers EXCEPT ![Min(pair)] = @ \cup covers[Max(pair)]]
       /\ Then(t, <<Call("retire", {Min(pair)}), Call("retire", {Max(pair)})>>)
       /\ UNCHANGED <<place, topic, spikes, parents, dropped, triggers, queue, worker, talk>>

\* reflect, one pair: the LLM finds it distinct (or fails), or _apply_merge
\* creates the merged memory and archives the pair, wherever that is by now.
Judge(t) ==
    LET pair == Argument(t)
    IN /\ Does(t, "judge")
       /\ \/ Then(t, <<>>) /\ UNCHANGED memories
          \/ \E i \in Fresh :
               /\ Add(i, topic[Min(pair)], pair \cap spikes # {})
               /\ parents' = [parents EXCEPT ![i] = pair]
               /\ covers' = [covers EXCEPT ![i] = @ \cup UNION {covers[j] : j \in pair}]
               /\ Then(t, <<Call("created", {i}),
                            Call("retire", {Min(pair)}), Call("retire", {Max(pair)})>>)
       /\ UNCHANGED <<dropped, triggers, queue, worker, talk>>

------------------------------------------------------------------------------
(* AsyncWorker *)

BeginBatch(t, events) == work' = [work EXCEPT ![t] = Calls(events)]

\* The loop is left: what was collected is processed last.
Leave(events) ==
    IF events = <<>> THEN wpc' = "gone" /\ UNCHANGED work
                     ELSE wpc' = "final" /\ BeginBatch("worker", events)

Get ==
    /\ wpc = "waiting" /\ queue # <<>>
    /\ queue' = Tail(queue)
    /\ LET collected == Append(batch["worker"], Head(queue))
       IN IF Head(queue) = "end"
          THEN Leave(batch["worker"]) /\ UNCHANGED batch
          ELSE /\ batch' = [batch EXCEPT !["worker"] = collected]
               /\ \/ wpc' = "working" /\ BeginBatch("worker", collected)
                  \/ /\ Len(collected) < BatchSize
                     /\ IF running THEN UNCHANGED <<wpc, work>> ELSE Leave(collected)
    /\ UNCHANGED <<memories, dropped, triggers, running, attempts, talk>>

\* Bug: only a full batch is processed.
GetNothingOften ==
    /\ wpc = "waiting" /\ queue = <<>>
    /\ ~running /\ Leave(batch["worker"])
    /\ UNCHANGED <<memories, dropped, triggers, queue, running, batch, attempts, talk>>

\* get times out, which is when the flush interval is over.
GetNothing ==
    /\ wpc = "waiting" /\ queue = <<>>
    /\ IF batch["worker"] # <<>>
       THEN wpc' = "working" /\ BeginBatch("worker", batch["worker"])
       ELSE ~running /\ Leave(<<>>)
    /\ UNCHANGED <<memories, dropped, triggers, queue, running, batch, attempts, talk>>

\* The batch is processed.
Done ==
    /\ wpc \in {"working", "final"} /\ work["worker"] = <<>>
    /\ batch' = [batch EXCEPT !["worker"] = <<>>]
    /\ attempts' = [attempts EXCEPT !["worker"] = 0]
    /\ wpc' = IF wpc = "working" /\ running THEN "waiting" ELSE "gone"
    /\ UNCHANGED <<memories, dropped, triggers, queue, running, work, talk>>

\* stop, in three steps: _drain takes what is queued, one by one, ...
Collect ==
    /\ Does("client", "drain") /\ queue # <<>>
    /\ queue' = Tail(queue)
    /\ batch' = IF Head(queue) = "end" THEN batch
                ELSE [batch EXCEPT !["client"] = Append(@, Head(queue))]
    /\ UNCHANGED <<memories, dropped, triggers, running, wpc, work, attempts, talk>>

\* ... and processes it in the client's thread ...
Drain ==
    /\ Does("client", "drain") /\ queue = <<>>
    /\ attempts' = [attempts EXCEPT !["client"] = 0]
    /\ Then("client", Calls(batch["client"]))
    /\ UNCHANGED <<memories, dropped, triggers, queue, running, wpc, batch, talk>>

\* ... then the thread is told to end ...
Halt ==
    /\ Does("client", "halt")
    /\ running' = FALSE
    /\ queue' = Append(queue, "end")
    /\ Then("client", <<>>)
    /\ UNCHANGED <<memories, dropped, triggers, wpc, batch, attempts, talk>>

\* ... and after it has ended, or five seconds, the subscriptions are dropped.
Unsubscribe ==
    /\ Does("client", "unsubscribe")
    /\ subscribed' = FALSE
    /\ Then("client", <<>>)
    /\ UNCHANGED <<memories, dropped, msgs, mems, queue, worker, talk>>

------------------------------------------------------------------------------
(* What the client calls, one at a time *)

Client(op, calls) ==
    /\ op \in Ops
    /\ work["client"] = <<>>
    /\ work' = [work EXCEPT !["client"] = calls]

\* track_message: first the extractor's buffer, then the counter.
Track ==
    /\ Client("track", <<Call("count", {})>>)
    /\ tracked < MaxMessages
    /\ tracked' = tracked + 1
    /\ buffer' = buffer \cup {tracked'}
    /\ UNCHANGED <<memories, dropped, triggers, queue, worker, asked>>

TaskEnd ==
    /\ Client("task_end", <<Call("end_task", {})>>)
    /\ Len(queue) < MaxQueue
    /\ UNCHANGED <<memories, dropped, triggers, queue, worker, talk>>

\* A memory tool adds a memory: MemoryStore.create, and its event.
AddMemory ==
    \E i \in Fresh, p \in Topics, important \in BOOLEAN :
       /\ Client("add", <<Call("created", {i})>>)
       /\ Room(p)
       /\ Add(i, p, important)
       /\ UNCHANGED <<parents, covers, dropped, triggers, queue, worker, talk>>

\* The user removes a memory.
Delete ==
    \E i \in Active :
       /\ Client("delete", <<>>)
       /\ place' = [place EXCEPT ![i] = "deleted"]
       /\ dropped' = dropped \cup covers[i]
       /\ UNCHANGED <<topic, spikes, parents, covers,
                      triggers, queue, worker, talk>>

\* extract_now without a text.
ExtractNow ==
    /\ Client("extract_now", <<Call("clear", buffer), Call("ask", buffer)>>)
    /\ buffer # {}
    /\ UNCHANGED <<memories, dropped, triggers, queue, worker, talk>>

Stop ==
    /\ Client("stop", IF running
                      THEN <<Call("drain", {}), Call("halt", {}), Call("unsubscribe", {})>>
                      ELSE <<Call("unsubscribe", {})>>)
    /\ subscribed
    /\ batch' = [batch EXCEPT !["client"] = <<>>]
    /\ UNCHANGED <<memories, dropped, triggers, queue, running, wpc, attempts, talk>>

Start ==
    /\ Client("start", <<>>)
    /\ ~subscribed /\ wpc = "gone"
    /\ subscribed' = TRUE
    /\ running' = WorkerEnabled
    /\ wpc' = IF WorkerEnabled THEN "waiting" ELSE "gone"
    /\ UNCHANGED <<memories, dropped, msgs, mems, queue, batch, attempts, talk>>

------------------------------------------------------------------------------

Execute(t) ==
    \/ Count(t) \/ EndTask(t) \/ Created(t) \/ Retire(t)
    \/ Extract(t) \/ Clear(t) \/ Ask(t) \/ Reflect(t) \/ Judge(t)

WorkerStep == Get \/ GetNothing \/ Done \/ Execute("worker")
ClientStep == Collect \/ Drain \/ Halt \/ Unsubscribe \/ Execute("client")
ClientCall == Track \/ TaskEnd \/ AddMemory \/ Delete \/ ExtractNow \/ Stop \/ Start

Next == WorkerStep \/ ClientStep \/ ClientCall

Spec == Init /\ [][Next]_vars
FairSpec == Spec /\ WF_vars(WorkerStep) /\ WF_vars(ClientStep)

------------------------------------------------------------------------------
(* Properties *)

Pending(d) == \E t \in Threads : \E n \in DOMAIN work[t] : work[t][n].do = d
ExtractDue ==
    \/ \E n \in DOMAIN queue : queue[n] = "extract"
    \/ wpc = "waiting" /\ \E n \in DOMAIN batch["worker"] : batch["worker"][n] = "extract"
    \/ Pending("extract") \/ Pending("clear")

\* Every message in the buffer is counted towards the next extraction, unless an
\* extraction is on its way: TriggerPolicy's counter and KnowledgeExtractor's
\* buffer, kept by different threads, do not drift apart.
BufferCounted ==
    ~ExtractDue => Cardinality(buffer) <= msgs + (IF Pending("count") THEN 1 ELSE 0)

\* No message is given to the LLM twice, however events, retries of a batch and
\* new messages interleave.
ExtractedOnce == \A m \in Messages : asked[m] <= 1

\* A message that was in the buffer when an extraction was triggered is taken
\* from it, though the batch may not fill up and handlers may fail.
TriggeredIsTaken ==
    \A m \in Messages : (m \in buffer /\ ExtractDue) ~> (m \notin buffer)

\* What reflection archives lives on: whatever the user has not removed is, or
\* is part of, an active memory - also between the two halves of a merge, while
\* two threads reflect, and when a batch is tried again.
AlwaysCovered ==
    \A i \in Ids : place[i] # "unborn" =>
       i \in dropped \cup UNION {covers[j] : j \in Active}

\* A memory is merged into one other memory at most.
MergedOnce ==
    \A i \in Ids : Cardinality({j \in Ids : i \in parents[j]}) <= 1

\* A tracked message is in the buffer until the LLM gets it.
TrackedNotLost ==
    \A m \in 1..tracked :
       \/ m \in buffer \/ asked[m] > 0
       \/ \E t \in Threads : \E n \in DOMAIN work[t] :
            work[t][n].do = "ask" /\ m \in work[t][n].of

\* prompts/merge_system.md: "the merged_text should preserve ALL information from
\* both entries".  The text of a merged memory is the verdict's reason instead.
Worded == {i \in Ids : parents[i] # {}}
TextSurvives ==
    \A i \in Ids : place[i] # "unborn" =>
       i \in dropped \cup UNION {covers[j] : j \in Active \ Worded}

\* A worker that was started runs.
RunningIsAlive == running /\ wpc = "gone" => work["client"] # <<>>

==============================================================================
