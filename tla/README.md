# Verification of rag-code-assistant

TLA+ models of the agent in `src/`, checked with TLC and, where a property
deserves it, proved with TLAPS. `PROJECT.json` lists every run, every mutation
the runs are tried against, the source lines behind every definition, the
findings, the hazards and the theorems. Paths below are relative to the
repository's root (`src/` here is the package directory, `main.py` is next to it).

    tlc -config store_pools.cfg MCMemoryStore.tla
    tlapm MemoryStoreProofs.tla

## 1. The system

The program is a command-line agent. `main.py` wires it together: a REPL passes
each prompt to `agent_loop`, which calls an LLM, runs the tools it asks for, and
appends everything to one conversation. Around the loop are

* a **context orchestrator** (`src/context`), which owns the layers that make up
  the prompt, measures them against budgets and compresses the conversation;
* a **memory core** (`src/memory`), a store of long-lived memories with a
  pipeline for additions, indexes, retrieval by vectors, importance scores,
  extraction and reflection by LLM, and a lifecycle that cools and archives;
* hooks, tools, a task board, a message bus, MCP servers, sessions and skills.

Threads: the main thread (REPL, loop, tools), the embedding worker, the
intelligence worker, the lifecycle worker, background commands, asynchronous
hooks. **Nothing in `src/memory` takes a lock**, so every pair of those threads
interleaves between any two operations on the shared dictionaries and arrays.
That is the source of most of what is hard here.

### Inventory

| component | state it keeps | operations | interacts with | hard behaviour | what makes it correct |
|---|---|---|---|---|---|
| memory store, lifecycle manager, pipeline (`memory/store.py`, `lifecycle/manager.py`, `pipeline.py`, `index.py`) | three pools (dictionaries) of entry objects, six indexes | add (dedup, policy, persist), update, delete, archive, recover, purge | tools and workers call it; it notifies indexes and emits events | pop and insert are two steps; merge works on an entry found earlier; notification follows the move | nothing lost, one place per memory, the documented transition table, indexes agree with the active pool |
| lifecycle state machine (`lifecycle/state.py`) | last accesses | scan all active entries, cool, archive | moves entries through the manager, past the store | the scan's copy is old when it acts | never acts outside the active pool |
| lifecycle engine (`lifecycle/engine.py`, archiver, compressor, gc) | metrics | manual archive and restore, the periodic cycle | the manager, the LLM | an exception in one phase ends the cycle | all phases run; no dangling reference |
| vector index (`retrieval/vector_index.py`, `embedding_index.py`) | ids, positions, matrix, dimension | add, update, remove, rebuild | notified by the store, written by the worker | two writers, three structures, swallowed errors | the structures agree; every active memory has the vector of its content |
| embedding worker (`retrieval/embedding_worker.py`) | queue, batch, flag | start, stop, collect, flush, embed | events of the store; the vector index | stop against collect, retry, stale reads | whatever is queued is processed in the end |
| retrieval pipeline (`memory/retrieval`) | none | retrieve, rank | vector index, store | the store changes between channels, ranking and filtering; normalized scores | results are of the kind asked for, the best, in order |
| importance engine | scores, access times | recalculate, decay, vacuum | events, store | stop and start, vacuum in the middle of a batch of events | accesses counted once, ratings kept, results of a retrieval not vacuumed by it |
| intelligence engine | queue, conversation buffer, counters | track, trigger, extract, reflect | LLM, pipeline, store | snapshot and clear race, full queue, LLM failure | a tracked message is extracted once |
| memory persistence (`memory/__init__.py`, `store.py` save and load) | `memory.json` | save, load | all of the above change what is saved | crash in the middle, changes without a save | load after a crash gives a state that existed |
| budget and policy (`context/budget`, `context/compression/policy.py`) | counter of consecutive reports | check, evaluate | the layers, the pipeline | one counter for many layers | compresses when over budget long enough |
| compression pipeline (`context/compression`) | breaker state, counters | three tiers | conversation, summary, LLM, clock | LLM down, malformed answers, repeated summaries, half-open trial | no orphaned tool result, no forgotten goal, breaker trips |
| legacy compression (`src/compression`) | a breaker per loop | microcompact, collapse, auto_compact | agent loop | same | same |
| agent loop (`agent/loop.py`) | the conversation | prompt, drain, call LLM, run tools | all | errors, refused stops, background results | well-formed conversation |
| hooks (`agent/hooks.py`) | ordered hooks per event | register, execute | loop, shell, LLM | priorities, first block wins, asynchronous hooks | a block blocks and its reason arrives |
| message bus, scratchpad (`bus`) | one file per inbox | send, read and drain | threads of agents | read then truncate | delivered once |
| MCP client (`bus/mcp_client.py`) | request counter, process, lock | start, request, stop | subprocess | no timeout | answers match requests |
| task board (`tasks`) | one file per task | create, update, claim | agents | ids used again, dependencies, double claim | no task is blocked by nothing |
| file cache and other layers (`context/layers`) | LRU of files | put, get, invalidate | tools | stale contents | bound, recency |
| selection, serialization, recovery, replay, observability (`context/*`) | snapshots, traces | select, save, restore | orchestrator | versions, partial files | restore what was saved |
| sessions, errors, state store, skills, config, tools, evaluation | files | – | – | mostly I/O | – |

Section 6 says which of them are not modelled and why; `PROJECT.json` repeats it
per component.

## 2. Plan

Most important first; the modules of every group exist.

1. `MemoryPools`, `MemoryStore`, `MemoryStoreProofs`: the store every other part
   of the memory core shares, as an abstract table and as interleaved steps that
   refine it. `Admission`: what an addition goes through on its way there.
2. `ContextCompression`, `ContextCompressionProofs`: what happens to the
   conversation.
3. `EmbeddingSync`, `EmbeddingSyncProofs` and `Retrieval`: vector index, worker, and
   the search.
4. `Intelligence`, `IntelligenceProofs`: triggers, the worker's queue, the extractor's buffer, merges.
5. `Upkeep`, `UpkeepProofs`, `Importance`, `MemoryFiles`: what happens to memories in
   the background, and what is left of them after a crash.
6. `Hooks`, `AgentLoop`, `AgentLoopProofs`: the loop with hooks, background tasks, inbox, sub-agents.
7. `TaskBoard`, `McpClient`, `TeamProofs`: what agents share, and servers that
   answer late.
8. `PromptBuild`, `Recovery`, `Subsequences`: what the LLM is shown, and what is saved
   of it. `ContextProofs`: the proofs about these, `Retrieval` and `MemoryFiles`.

Every safety property and action property of a passing run is stated by a theorem;
liveness is left to the runs (section 5).

## 3. The modules

### MemoryPools

The table in the header of `lifecycle/manager.py`, one atomic action per line of
it: `place[i]` goes `unborn -> active`, `active -> archived` or `deleted`, back to
`active`, `deleted -> purged`. It is what the store promises.

### MemoryStore

| state | code |
|---|---|
| `active`, `archived`, `deleted` | keys of the three dictionaries of `MemoryStore` |
| `state`, `text` | `identity.state` and `content.text` of the entry object (shared by all who hold it) |
| `indexed` | ids present in the type, project, owner and state indexes |
| `pc`, `arg` | where a thread is inside a call, and the entry in its hands |
| `todo` | the rest of a keeper's scan |
| `fate` | history: created, purged |

A *client* is any thread that calls the store's API. A *keeper* is a thread of the
lifecycle worker, running `evaluate_all`. `Keepers = {}` is the program with the
scheduler disabled (`lifecycle/worker.py`, `LifecycleConfig`). An operation is cut
where another thread can see the difference: after each pipeline stage, between
`pop` and insert, and before the notification of the indexes. A `list(...)` over a
pool and a loop inside one stage are single steps. `AddDedup` continues with the
*existing* entry as the code does. The policy's verdict and the score of an entry
are choices. A new entry gets a fresh id (`uuid4`), so `text[i] = None` is "never
used". Actions are named after the functions; `FinishX` is the second half of
function X.

Actions and functions: `AddBegin`, `AddDedup`, `AddPolicy`, `Create` -
`MemoryPipeline` and `MemoryStore.create`; `Update`; `TakeActive` with `Delete`,
`Archive`, `EngineArchive` - the pop of `soft_delete` and `archive`;
`TakeInactive` with `Recover`, `EngineRestore` - the pops of `recover`; `Purge`;
`NotifyIndex`, `NotifyUnindex`, `Reindex` - `IndexManager`; `Scan`, `Evaluate`,
`Cool`, `Drop`, `EndScan` - `LifecycleStateMachine`.

### ContextCompression

| state | code |
|---|---|
| `conv` | `ConversationLayer`'s messages: kind, size `w`, and `about`, the user's goals they tell of |
| `summary` | `SummaryLayer`'s entry, as the set of goals it tells of |
| `breaker`, `failures`, `age` | `CircuitBreaker`; `age` is the time since the last failure |
| `counter` | `OverBudgetRule._consecutive` |
| `facts` | number of persistent facts stored for important events |
| `pc`, `back` | where the loop is, and where the compression returns to |
| `asked`, `waited`, `outage` | history: goals asked for, ticks over budget without compression, LLM failures in a row |
| `cut` | history: Tier 3 cut the conversation by messages |
| `unread` | history: messages were cut away that the LLM did not read, being down or too small a window |
| `untold` | history: Tier 2, which has no callback, marked an event as important |

Each tier is an action, because its LLM call takes time and the breaker's clock
(`Elapse`) may run in between. The LLM answers, is down, or answers something that
is not the JSON asked for (`Outcomes`); when it answers, what it is told is in its
answer: an optimistic choice, so a violation of `GoalsRemembered` is never the
LLM's fault. The budget reports of the other layers only matter because they
precede the conversation's in the orchestrator's order; `LayersBefore` counts
them, and they are under budget. `Rounds` are found by where they start (`Starts`), as
`group_by_rounds` does. `Engine = "legacy"` is the loop without
orchestrator (its own microcompact, collapse and auto_compact, and a breaker that
lives as long as one call of `agent_loop`).

### EmbeddingSync

| state | code |
|---|---|
| `pool`, `ver` | where the store has the entry, and the version of its content |
| `ids`, `pos`, `rows`, `dim` | `_ids`, `_id_to_idx`, `_vectors`, `_dim` of `NumPyVectorIndex`; a row is *whose* content it embeds, and which version |
| `cpc`, `carg`, `cvec`, `emits` | the client's thread inside a call |
| `queue`, `running`, `wpc`, `batch`, `wvecs`, `attempts` | `EmbeddingWorker` |
| `gaveUp` | history: attempts made for the batches it dropped |

`Entered`, `Built` and `Removed` are the three loops of the index, with the way
each of them ends in an error that its caller swallows. Client and worker are cut
between entering an id and extending the matrix. `stop` may find the thread
waiting for an event, which it then still takes (`Get` in `waiting`). `Start` waits
for the old thread; the case of two worker threads after the join's timeout is not
modelled. One client thread changes the store.

### Intelligence

| state | code |
|---|---|
| `place`, `topic`, `spikes`, `parents` | the store's entries: pool, what makes two of them alike, importance over the spike threshold, PARENT relations of a merged entry |
| `buffer`, `msgs`, `mems` | `KnowledgeExtractor._conversation_buffer`, the two counters of `TriggerPolicy` |
| `subscribed` | the engine's subscriptions |
| `queue`, `running`, `wpc`, `batch`, `attempts` | `AsyncWorker` |
| `work` | for each thread, the calls it has pending |
| `covers`, `dropped`, `asked` | history: what a memory was merged from, what the user removed, how often a message was extracted |

A handler runs other handlers: a merge creates a memory, whose event counts towards
the next reflection, which is queued, or handled on the spot when the worker has
been stopped. So a thread is a stack of calls (`work[t]`), and an action executes
the call on top; the other thread may run between any two. `Extract` and `Clear`
are the snapshot and the clearing of the buffer, `Reflect` the selection of pairs,
`Judge` the LLM's verdict on one of them with the merge, `Retire` the archival of
one of a pair. The LLM, the validator and the dedup of the pipeline are one choice:
a new memory or none. `Reflect` may raise, because `select_candidates` iterates
over the store's own dictionary; that is what `_process_batch`'s retries are for.
`Stop` drains the queue item by item (`Collect`), in the caller's thread, and then
processes what it collected (`Drain`).
Vectors are abstracted to topics, and the vector index is assumed to mirror the
active memories (`EmbeddingSync` says when it does).

`main.py` starts this engine but does not call `track_message` or `on_task_end`
yet, and hands the engine to no tool; the model's client uses the documented
interface (`engine.py`). Note also that `main.py:372` reads
`intelligence_engine.trigger._subscribers`, an attribute that `TriggerPolicy` does
not have (it is `_listeners`), so `main()` ends there with an `AttributeError`;
the models describe the program as it is wired, that line aside.

### Admission

What `MemoryStore` leaves out: the *order* of the pipeline's stages (`stages`, with
`Registered` for `register_stage`: before, after, or sorted by priority again), the
policy rules as predicates of an entry and of the counts at that moment
(`TypeAllow`, `ContentLength`, `ContentPattern`, `ScopeBelowLimit`, `TypeBelowLimit`,
`SourceAllow`), and the tables of the indexes with their *keys* (`tables[t]`: pairs
of key and id). `step[c]` is the stage a client is at. What the worker does
(`Cool`, `Drop`) tells no table. Moves between two pools are one step here.
`Pipeline` is what the registrations make of the stages, once for all; `Orderly` says
of it that no two stages share a name and that duplicates are looked for before the
rules are asked, and these before the entry is stored. The assumption `StagesInOrder`
of `MCMemoryTools`, which has the module's constants as its own, is that; TLC evaluates
it for the stages of the code and the additional one of the run.

### Upkeep

The lifecycle engine's cycle, memory by memory: `Evaluate` (states), `ArchiveOld`,
`Group` / `Compress` / `Replace` (a summary is created, then each original linked
and archived), `Clean` and `Validate` (garbage collection), `EndCycle`. The main
thread archives, restores, deletes, purges and relates memories between any two
steps. `touched` says that a pool changed since the present loop began: a loop
over the store's own dictionary then raises (`Fail`), which the worker swallows.
`Tracker` is what the archiver asks for a last access: `"state_machine"` is what
`engine.py:77` passes, and then no cycle gets past its second phase (the finding of
`v_cycles_fail`); the run `upkeep` uses `"access_tracker"`, so that the phases
behind it are looked at at all.

### Importance

`importance`, `stale`, `frequency` per memory, the subscriptions on the event bus
(`listeners`: how often the bus calls a component, and `handles`: which components
would unsubscribe), the events of one retrieval that are still to be sent (`batch`).
Start, stop, catch-up scores, boosts, feedback, decay, and the vacuum that checks after
each access.

### MemoryFiles

The three pools, `memory.json` (`disk`: none, torn or whole; `file`), and a save that
walks one pool after the other and then truncates and writes the file (`Walked`,
`SaveFails`, `Truncate`, `Write`), while a worker pops and inserts. The program may
go down at any step; `Start` loads, and migrates entries of an older version.
`since[i]` is the history a reader of the file may rely on: the places of memory `i`
from the last confirmed one on.

### Hooks and AgentLoop

`Hooks` are the pure parts of `agent/hooks.py`: sorting, matching, parsing of
answers, combination of results, and the tools of a sub-agent (`UpTo` gives a hook's
place in the stable sort). `AgentLoop` runs them
inside `main.py`'s REPL and `agent_loop`: `pc` follows the turn (hooks, drain of
background results, inbox, intent, LLM, calls, sub-agent, Stop), `messages` is the
conversation with the ids of the calls and results, `verdict` the history of the
call decided last, made from what the hooks asked (`Chain`) said (`Heard`). Background threads (`Finish`) and teammates (`Send`) act between
any two steps; `ReadInbox` and `Truncate` are the two halves of `read_inbox`.

### TaskBoard

One file per task; an operation loads one file and saves it in a later step
(`Load`, `Save`), and a completion visits the other files one by one (`Unblock`). Ids
are one more than the highest file (`NextId`). The todo list is each agent's own.

### McpClient

Connections (`proc`, `nextId`, `lock`, `tools`) and the pipes in between (`stdin`,
`owed`, `stdout`, `stderr`). `Send` and `Receive` are the two halves of a request under
the lock; `Read`, `Answer`, `Say`, `Complain`, `Die` are what a server may do: answer in
any order, write other lines (`Noise`), fill a stderr that nobody reads (`Noisy`), die.

### PromptBuild

The layers of the orchestrator as far as a prompt depends on them, and
`BuildPrompt`: collect from each layer (`FileCandidates` moves what it looks at, like
`get_info`), rank (a stable sort: what compares equal keeps its order), select
under the constraints and the total budget (`Consider`), pack. `Record` and `Replay`
are the audit log: an entry refers to the live messages, so replaying looks at
`texts` as they are now. The loop is one thread; other writers of files act between
its calls. A list comprehension is `AtPlaces` of `Subsequences`: the elements at the
places where the condition holds, in their order. `last.files` is what the cache held
of the selected files at the time of the build.

### Recovery

The four namespaces of the Store, the migrations, saves and loads of summary, workspace
and session over restarts and releases, and what damage a generic `save` may do.
`FindPath` is the breadth-first search: a `Turn` takes the head of the queue, `Expand`
follows the migrations out of it in the order of their registration, and `Search` takes
as many turns as there are versions, which is all the loop of the code can take, for no
version is queued twice (proved, section 5). `OfSummary`, `OfWorkspace`, `OfSession`,
`OfMigrations`, `OfDamage` and `OfProgram` group the operations, for the settings of
the runs to choose from.

### Retrieval

One retrieval: channel after channel reads the store, scores are normalized,
weighted and merged, the reranker looks entries up one by one, the filter drops
what does not match (and keeps what it could not look up), and the best are
returned. Between the steps other threads move, purge and change memories; `moved` and
`changed` remember which, also those that were only put back, for a memory that joins
the active ones while the channels are read is found by some of them. A stage that raises is skipped, as `RetrievalPipeline.process` does.

## 4. The runs

`MC*.tla` give values to constants. Where a property needs bounds of its own, the
`MC` module has *settings*: instances of one specification (or of several that
share nothing) with constants of their own, of which the initial state chooses
one. The settings of `MCContext` share one instance of each specification (`Prompt`,
`Saved`, `Search`) and its constants; a setting starts from some of its initial states
and takes some of its steps (`PromptStep`, `SavedStep`), so what is proved of the
instance covers all of them. Each run ends within three minutes.

| run | setting | shows | constants that matter, and why they are enough |
|---|---|---|---|
| `store_pools` | – | `OnePlace`, `ImplementsPools` | 2 clients, 1 keeper, 2 memories with distinct texts (the theorem's assumption), all operations: a race needs two threads at one memory; no symmetry, because of the refinement |
| `store_tools` | all | `NothingLost` | a client and a keeper |
| | dedup | `NoDuplicateTexts` | 3 memories and 2 texts, so that two of one text meet a third; the client adds, deletes, archives and purges, the keeper archives what the client merges with |
| | indexes | `ActiveAreIndexed` | memories with a text of their own and a fourth text, so that updates fire |
| | limits | `AdditionsWithinLimits`, `FoundUnderOwnKeys` | `Admission` with 2 memories, one type limited to 1, inputs that each rule refuses, updates of tags and types, a stage registered before another |
| `compress` | rounds | `RoundsWhole`, `GoalsSummarized`, `ActsWhenOver`, `FusedLeavesRounds` | up to 10 messages with 1 head, 1 tail round kept, so middle rounds exist; Tiers 1 and 2, no report before the conversation's |
| | goals | `GoalsSummarized`, `RoundsWhole`, `FusedLeavesRounds` | all tiers, an LLM that answers, well or malformed, and a window larger than the conversation; the breaker trips at the first malformed answer and half-opens after 2 units |
| | legacy | `ImportantPersistedByLoop`, `RoundsWhole`, `GoalsSummarized` | no orchestrator, an LLM that may be down |
| `embed` | sync | `Aligned`, `MirrorsActiveAlone` | no worker, 3 memories of which one existed at the start (`Present`), up to 3 versions (`SyncVer`), all operations |
| | async | `Aligned`, `CollectedIsProcessed` | batches of 1, no removal, a failing embedder, stop and start |
| | fresh | `Aligned`, `EventuallyFreshByBoth` | client embeds at once and worker embeds too; batches of 2; updates of 3 existing memories |
| `intel` | tools | `BufferCountedByTools`, `ExtractedOnceByTools`, `MergedOnceByTools`, `TriggeredIsTakenByTools` | messages, task ends, new memories; thresholds, batches and retries of 2 (the second of each is the first that matters); at most two memories alike at a time, and a selection that succeeds at the last try |
| | engine | `AlwaysCovered` | stop, drain and restart, deletion while the LLM decides, `extract_now`, batches dropped after their retries |
| `agent` | – | `CallsAnswered`, `VerdictsHonoured`, `DeliveredOnce`, `SubagentReturns` | answers of 2 calls, hooks of 2 priorities that match one or all tools, one of them asynchronous and added later, 1 background task, 2 mails, sub-agents of 2 turns |
| `team` | board | `NoTaskReplaced`, `CompletionUnblocks` | one agent, 3 tasks, so that one is blocked by a deleted one and one completed |
| | mcp | `AnswersMatch`, `CallReturns` | one server, 2 threads and 3 calls: an answer may belong to a request that was given up |
| `upkeep` | upkeep | `SummariesCover`, `FamiliesAgree` | 2 old memories and a summary of them, 2 cycles, 2 moves of the main thread, a relation |
| | scores | `AccessesCounted` | 2 memories, 2 starts, retrievals of up to 2 results, accesses up to 1 each |
| `context` | store | `ConfirmedStays` | 2 memories, 1 crash, a worker that moves one while save walks; no calls after a save that overlapped with a move |
| | files | `PromptShowsWrites`, `PromptUsesRoom` | 3 files of two sizes, a cache of 2, one file written, total budget below the sum |
| | talk | `PromptReplayed`, `PromptUsesRoom` | 4 messages, 2 audited builds, clearing and compaction between them |
| | sources | `PromptUsesRoom` | one candidate or more of each source, reserved ones among them |
| | layers | `LoadedIsSaved` | 2 summaries, 2 releases, a migration that fails, damaged entries |
| | session | `LoadedIsSaved` | 3 points of time, 2 releases, migrations that fail or not |
| | paths | `ShortestPaths` | 4 versions, 4 steps registered in any order |
| | search | `FoundOfKind` | 2 memories, 2 kinds, one moved or changed during the retrieval |
| | ranks | `FoundInOrder` | 3 memories, undisturbed, room for 2 results |

Bounds that only the model has are named as such where the constants are declared
(`MaxId`, `MaxQueue`, `MaxMoves`, ...). The conversation's sizes are abstract units (a
message is 1, a long tool result 3), with `Trigger` and `Target` scaled accordingly.
Deadlock is not checked: bounded inputs run out, and the REPL may wait for ever.

Several passing runs are deliberately *narrower* than `main.py`'s configuration,
because there the property fails. Three runs show such a counterexample, a
disagreement of the code with its own documentation (`findings` in `PROJECT.json`
quotes it):

| run | violated | what happens |
|---|---|---|
| `v_merge_revives` | `ArchivedNeedsRecover` | a merge makes an archived memory active too |
| `v_cycles_fail` | `CyclesComplete` | a lifecycle cycle that meets an active memory raises in its second phase, every time |
| `v_oldest_shown` | `NewestIsShown` | collecting files for the prompt renews the oldest one, which is then shown instead of the one just read |

### What fails beyond them

The passing runs stay away from the following, each of which TLC finds violated
within seconds: take the run's constants with the change named, and the property as
INVARIANT or PROPERTY of a configuration of the module (with the setting fixed in
`MCInit` for the last group).

| module, change | violated | what happens |
|---|---|---|
| `MCMemoryStore`, 1 client, `AnyText`, `ToolOps` | `WarmColdAreActive` | a scan cools an entry that was archived or deleted since |
| the same | `IndexExact` | an archival by the keeper tells no index |
| the same with `EngineOps`, no keeper | `ActiveAreIndexed` | neither does a restore through the lifecycle engine |
| `Admission`, 2 clients | `AdditionsWithinLimits`, `FoundUnderOwnKeys` | two clients pass the policy with one count |
| `Admission` | `KindsLimited` | recoveries and changes of type are not held to the limit |
| | `FoundUnderOwnTags`, `NoOldTypes` | the indexes look for other paths than `update` passes |
| | `FoundUnderOwnState` | the worker cools without telling |
| `Admission`, a second registration without a place | `PlacedStays` | it sorts all stages by priority again |
| `ContextCompression`, `LayersBefore = 5` | `ActsWhenOver` | one counter for all layers: reports before the conversation's reset it every time (`policy.py:118`; theorem `NeverCompresses` proves it for every conversation) |
| `ContextCompression`, `MaxTier = 3` | `RoundsWhole` with `FALSE` instead of `cut` | Tier 3 cuts by messages, not rounds, and leaves results without their calls |
| | `OutageFuses` | errors are turned into text before the breaker sees them |
| | `ImportantPersisted` | Tier 2 has no callback to persist what it marks as persisted |
| and `Window = 3`, `Outcomes = {"ok"}` | `GoalsRemembered` | what does not fit the summarizer's window is cut unread |
| and `Engine = "legacy"`, `Outcomes = {"ok", "down"}` | `GoalsRemembered` | auto_compact drops the conversation when the LLM is down |
| `EmbeddingSync`, all operations, `Preloaded = {1}`, `BatchSize = 10` | `Aligned` | two writers of the index; a batch of new and known ids (`vector_index.py:157`) |
| the same, `Preloaded = {}`, no worker | `Aligned` | an index that began empty has no dimension; remove fails half way |
| the same | `RetiredNotFound` | the worker embeds archived and deleted entries |
| `Ops = {"archive", "recover"}`, `SyncFallback = FALSE` (`FairSpec`) | `EventuallyFresh` | recovered memories wait for an event nobody sends |
| `Ops = {"update", "stop"}`, `SyncFallback = FALSE` | `StoppedDrained` | queued events are left at the stop |
| `Ops = {"create", "update"}`, `EmbedderFails = TRUE`, `SyncFallback = FALSE` | `RetriedEnough` | a swallowed exception defeats the retry |
| `Intelligence`, tools | `TrackedNotLost` | a message tracked between snapshot and clear of the buffer |
| | `TextSurvives` | a merged memory's text is the reason of the LLM's verdict; `prompts/merge_system.md` asks for a text with all information |
| and `Persistent = TRUE` | `BufferCounted` | a reflection that raises every time drops the extraction of its batch |
| and `Ops <- AllOps` | `RunningIsAlive` | the sentinel of an earlier stop ends the thread of the next start |
| and `MaxAlike = 3`, `MaxId = 6`, `Preloaded = 2` | `MergedOnce` | three memories alike give three pairs, each of which is merged |
| `MCAgentLoop` | `AllCallsAnswered` | an answer cut off by max_tokens keeps calls that nobody answers |
| | `NoMailLost` | mail between the read of the inbox and its truncation |
| | `UnsafeUnseen` | a query that the gate blocks stays in the conversation (`intent.py:10`) |
| and `Added <- LocalAdded` | `VerdictsHonoured` | a registered hook is not sorted in |
| `MCTeam`, `Noisy = TRUE` | `CallReturns` | a full stderr stops the server, and `readline` has no timeout |
| `MCTeam`, `Noise = {"request"}` | `AnswersMatch` | a request of the server with the same id is taken for the answer |
| `MCTeam` | `NotItsOwnBlocker` | completing writes back the blockers that were read before |
| `MCTeam`, 2 agents | `NoTaskReplaced`, `CompletionUnblocks` | two agents read one file, and the later save wins |
| `Upkeep` | `LinksKept` | the collector lists all memories once: relations to a memory created after that are dropped |
| `Upkeep`, `New = {3, 4}`, `Room = 1`, `MaxMoves = 1` | `TextsKept` | a summary of a summary has no room for all texts |
| `Importance`, `MaxTime = 2` | `BatchNotVacuumed` | the vacuum archives results of the retrieval it runs in (`vacuum.py:66`) |
| | `RatingsKept` | the catch-up of a start overwrites a rating that equals the default |
| | `FreshnessFollows` | freshness is decayed from what is already decayed (`decay.py:7`) |
| `MemoryFiles` | `OneCopy` | a save beside a move writes a memory twice |
| | `AlwaysReadable` | a crash within the write (`main.py:330` then fails to load) |
| `GoesOn = TRUE` | `NeverLost` | or not at all, and later calls build on it |
| `PromptBuild`, files | `CachedIsContent`, `LeastRecentEvicted` | errors are cached as contents; looking at files renews them |
| `PromptBuild`, talk | `AlwaysReplayedAsBuilt` | the log refers to messages that microcompact clears (`replay.py:61`) |
| `PromptBuild`, sources | `InstructionKept`, `MemoryKept` | a reserved source over its limit is dropped whole (`policy.py:58`); the memory candidate is charged for all memories though five are shown |
| `Recovery`, layers | `EnvelopesKept`, `VersionNamesContent` | what `save_*` writes carries no schema, so no migration ever runs on it; restored versions are given again |
| `Retrieval` | `RecentNeverLost` | one channel that raises empties all (`retriever.py:166`) |
| | `OnlyHitIsBefore` | the score of a single hit is normalized to 0 (`hybrid.py:50`) |
| | `ResultsAreActive` | the vector channel reads archived and deleted memories |

### Fairness

`EmbeddingSync`: `WF(ClientProgress)`, a call that has begun returns, for there is no
lock it could wait for; `WF(WorkerStep)`, the worker's thread is scheduled; `WF(Flush)`,
after every event, and at least every half second, the loop compares the clock with
the flush interval, so a non-empty batch is not collected for ever. In
`Intelligence` the timeout of `get` is the flush interval, so `GetNothing` always
flushes and `WF(WorkerStep)` with `WF(ClientStep)` is enough; an LLM call returns or
raises. `AgentLoop` has `WF(SubAction)`: the sub-agent's loop runs in the thread that
called it. `McpClient` is fair to each thread that sends or receives, to the start,
and to a server's reading and answering - not to its dying, logging or other
lines; a server that neither answers nor dies makes a call wait for ever, since no
timeout is ever used. `Upkeep` has `WF(WorkerStep)`, the lifecycle thread. Client
*calls* are never fair: the user may stop at any time.

## 5. The proofs

`MemoryStoreProofs` (any sets of ids, texts, clients and keepers, any subset of the
operations):

* `TypeCorrect`: `Spec => []TypeOK`.
* `NothingLostAlways`: `NothingLost` is inductive together with `TypeOK`. Each step
  that takes an entry out of a pool puts it in a thread's hands.
* `OnePlaceAlways` and `StoreImplementsPools` assume `DistinctTexts`: callers never
  give two memories one text, so deduplication never meets another entry. (Without
  it `v_merge_revives` shows both to be false.) `OnePlace` is not inductive by
  itself: an entry still in the pipeline has to be unborn, and no two threads may
  hold it; the invariant `Ownership` says so, and `NoMatch` derives from the texts
  that `AddDedup` finds nothing. The refinement goes action by action: a pop is the
  abstract move (`PlaceMoves`), everything else leaves `placeOf` alone
  (`PlaceStays`).
* `ActiveAreIndexedAlone` assumes `DistinctTexts`, one client, any keepers, and no
  restore through the lifecycle engine. `IndexFollows` adds what the property needs
  to be inductive: who is about to take an id out of the indexes knows that it is
  not active. That in turn follows from `Ownership`: the entry was in the client's
  hands, where no keeper finds it.
* `NoDuplicatesAlone` assumes one client, which neither updates texts nor recovers, and
  any keepers. `NoOtherHasText`: between the deduplication and the insertion no other
  active entry has the text, since keepers only take entries away.

`ContextCompressionProofs` (any engine, sizes and thresholds):

* `ActsWhenAlone`: with `LayersBefore = 0` a conversation is compressed once it was
  over budget `MinConsecutive` times in a row. The invariant `CounterKeepsUp` ties
  the history `waited` to the rule's counter.
* `NeverCompresses`: with `LayersBefore > 0` and `MinConsecutive > 1`, which is what
  `main.py` configures, no tier is ever reached, whatever the length of the
  conversation (`ActsWhenOver` in section 4 fails for this reason).
* `BreakerCountsAlways`, `FusedLeavesRoundsAlways`: the breaker.
* `RoundsWholeAlways`: whatever tier or legacy step runs, a tool result stands behind
  its call; only the first message may have lost it, and only after a cut by messages
  (`cut`). `RoundsInv` adds only that the conversation is a sequence. Cutting at the
  start of a round leaves rounds whole (`StartOfRound`, with `HasRank` for the g-th
  start); a cut at any message leaves them whole but for the first message.
* `GoalsSummarizedAlways`: until the LLM is down, or messages that do not fit its window
  are cut away (`unread`), every goal is told by the conversation or the summary. No
  message falls between the rounds that Tier 2 collapses (`MiddleRound`: a message is
  in the round that as many rounds have begun up to it, `RoundsBegun`), so head,
  digests and tail tell what the conversation told (`AboutCollapse`).
* `ImportantPersistedAlways`: until Tier 2 marks an event, which it tells nobody of
  (`untold`), the conversation shows no more important events than there are persistent
  facts, up to their cap. `Count` counts them: a piece has those between its ends
  (`CountPiece`), and a collapse adds one per round that the LLM marked, at most
  (`CountCollapse`: head and tail share no message), which is what the callback of the
  legacy loop persists.

`EmbeddingSyncProofs`, of the instance `Sync` in `MCEmbeddingSync` (any memories and
calls; no worker). `Embedding` assumes that the client embeds at once, that the embedder
answers, and that some memory was active when the index was built: section 4 has the
counterexamples for an index that began empty, and for a second writer:

* `MirrorsActiveWithoutWorker` and `AlignedWithoutWorker`, from `SyncInv`: `Rows` says
  that row n is of the n-th id and that the positions are the inverse of the ids, also
  between the two steps of an addition, where one row is missing; `Held` how the index
  differs from the active memories while a call is under way, which is by the one
  memory the call is about. `RemovedOnce` and `WithoutOne` say what is left of a
  sequence after a removal, so that every id behind the removed one keeps its row;
  `InRow` that a finite set has a sequence of its elements, for the rebuild at the start.

`TeamProofs`, of `TaskBoard` (any number of tasks; one agent, for two lose each other's
writes, section 4):

* `NoTaskReplacedAlone`: `InHand` says that a task which is being created has no file
  yet - `NextId` exceeds every id, for a bounded set of ids has a greatest element
  (`HasGreatest`) - and that a task which was loaded has one. The count then follows
  from the cardinality of a set with one element more, or less.
* `CompletionUnblocksAlone`: `Freeing` adds the files a completion has not visited yet
  (they may still name the blocker) and the copy in the agent's hands (which may not,
  or its save would bring the blocker back).

and of `McpClient`, as `Mcp` in `MCTeam` (any servers, tools, threads and calls; `Sane`
assumes that no server sends requests of its own, without which section 4 has a
counterexample):

* `AnswersMatchAlways`: `LockHeld` says that a thread which waits for a line has the
  server's lock and asked last, so the id it compares is `nextId`, and nobody changes
  `nextId` meanwhile. `RegisteredServers` shows that every registered tool leads to
  a configured server.

`UpkeepProofs` (any memories, groups, cycles; `None` is no memory):

* `SummariesCoverAlways`, `FamiliesAgreeAlways`: `GraphInv` adds that what was never
  created has no relations (`UnbornAlone`), and, during a cleaning, that a memory the
  collector did not list is nobody's parent, child or original (`KnowsAll`): it was
  created after the listing, and the compressor runs in the collector's own thread.
  The main thread's moves and purges touch no relation (`MovesKeep`).
* `AccessesCountedAlways` (of `Importance`, any memories, levels and bounds): who has a
  handle is on the bus's list once and nobody else is, and all have one while the engine
  runs (`ScoresInv`).

`AgentLoopProofs` (any tools, hooks and bounds; `HooksKnown` says that the hooks come
from the configuration or are added later, `AddedLast` that no hook sorts behind one
that is added later, without which section 4 has a counterexample):

* `EveryCallAnswered`: while calls are being run, the results are those of the first of
  them in order, and every earlier message with calls is followed by the results of
  all of them (`AskInv`).
* `EveryResultDeliveredOnce`: a result that is announced is waiting in the queue or in
  the loop's hands and not yet told, what was taken from the inbox is still in its
  file until it is truncated, and nothing is told twice (`DeliverInv`).
* `VerdictsAreHonoured`: `VerdictInv` follows the chain of hooks of a call as it is
  executed; `SortSorts` proves of the sort, whose result is given by the place of each
  hook (`UpTo`), that it permutes and orders. The first refusal ends the chain, so the
  decision is that of the first hook in order that refused.

`IntelligenceProofs` (any numbers and thresholds, and any operations):

* `AlwaysCoveredAlways`: reflection loses no memory that the user did not remove.
  `MergeInv` counts a memory as kept if it is active and no thread is about to retire
  it (`Kept`), and says that every memory there ever was is covered by a kept one;
  both threads may reflect at a time.
* `ExtractedOnceAlways` assumes `ByTools`: the client tracks messages, ends tasks and
  adds memories, which is all the documented interface offers to the loop and the
  tools. Then a message is in the buffer, in the one question that is
  pending, or asked (`ExtractInv`). Nobody calls `extract_now`, stops or starts the engine.
* `BufferCountedAlways` also assumes that memories are transient (`~Persistent`): a
  reflection that raises would drop the extraction of its batch. `CountInv` relates
  counter, queue, batch and the worker's pending calls to the buffer.
* `MergedOnceAlways` assumes `ByTools` and that no three memories are alike at a time
  (`MaxAlike <= 2`; with three, section 4 has a counterexample). `OnceInv` says what the
  worker's stack may hold: events are below what the present one has left to do
  (`EventsBelow`), so a batch that is tried again drops no archival; the pairs that wait
  for a verdict have no memory in common and all of them stay (`Judges`), for different
  pairs would make three alike (`NoThree`, `PairsApart`). What was merged is archived,
  or about to be, so it is in no later pair (`Parted`).
* `ExtractedOnceBySetting`, `BufferCountedBySetting`, `MergedOnceBySetting`: the same as
  the run states it.

`ContextProofs`, of `MemoryFiles` (any memories, revisions and crashes; `Readable`
assumes that an older file can be migrated, or that there is none):

* `ConfirmedStaysAlways`: `FilesInv` describes by `since` what each copy of the data may
  tell of a memory - the pools, the copy a save has walked so far, and the file - and
  that it tells of it once. It holds as long as no save overlapped with a move, which
  is the run's bound too; `AlwaysReadable` is false (section 4) and not assumed.
* `OneCopyBeforeOverlap`: until then no memory is in two pools of the file.

of `PromptBuild`, as `Prompt` in `MCContext` (any files, sizes, budgets and conversations;
`PromptConstants` assumes that these are numbers, that a reserved source has a limit and
that cache and log have room for one entry). The steps are loops, written as folds:

* `FoldPasses` makes of a fold the sequence of values that it passes through (`Passing`),
  by way of the greatest of the places folded (`Following`). What a loop does once per
  turn is then proved of two neighbours of that sequence, and what it does in the end
  follows because there is no first turn that breaks it. `Adds` and `AddsOf` are such
  sequences for the tokens of a selection, `Expanding` and `Searching` for the search
  below.
* `PromptsShowWrites`: `Fresh` are cache entries at least as new as the loop's own last
  write, and every operation of the cache, looking at all its entries included, leaves
  a sequence of them (`FilesTyped`); the files of a prompt are taken from it.
* `PromptsUseRoom`: `Selections` are pairs of what was selected and what was left out of
  which the first keeps to the budgets and beside which no element of the second
  fits. A turn of the packer keeps that, since what does not fit beside some
  candidates does not fit beside more (the tokens only grow).
* `PromptsReplayed`: `Right` are entries of the log that say what their groups of
  messages say now, or are not clean any more. A new message changes no earlier one, and
  what clears one marks the entries that show it (`RightStays`). `PromptInv` is the
  conjunction of these with the types of the layers (`TalkTyped`, `FilesTyped`,
  `LogTyped`, `LastTyped`).

of `Recovery`, as `Saved` (any contents, versions of the schema and migrations;
`SavedConstants` assumes that the versions are finitely many numbers):

* `FindsShortestPaths`: the invariant of the search, `Breadth`, holds after any number of
  turns. What is queued is a chain of registered migrations and is not nearer to the
  start than its chain is long (`Queued`); the queue is ordered by that length and spans
  two of them (`InOrder`); all that is as near as its head was seen (`Reached`); the
  migrations out of what was seen and left the queue were followed (`Followed`); nothing
  is queued twice (`Once`); the target, once seen, is queued (`Hit`). Each turn finishes
  one version (`Done`, `TurnDone`), so after as many turns as there are versions the
  search has ended, and if nothing is left in the queue, what was seen is closed under
  migrations, and the target is out of reach.
* `LoadsWhatWasSaved`: `SavedInv` ties each namespace of the Store to what was written
  there last (`StoreInv`): an entry of the saved summary differs from the one written
  at most by its damage, the task is the one written, the session began with its first
  save. A load applies a chain of migrations, which by the theorem before exists unless
  the load gives up, and fails only at a step that raises.

of `Retrieval`, as `Search` (any finite set of memories, any numbers as scores and weights;
`SearchConstants`):

* `FindsKinds`: whatever is in the channels, in the ranking or in the results is of a kind
  asked for, or was changed since the query (`KindInv`).
* `FindsInOrder`: `Better(i, j)` says that `i` is newer, stays active, matches at least as
  well in every channel and is worth as much. `OrderInv` follows the pair through the
  pipeline: a channel that finds `j` finds `i` with no smaller score, or `j` is its
  last (`Before`), which normalization scores 0; so the weighted sum of `i` is no smaller
  (`FusedOrder`), nor what the reranker makes of it (`Final`), nor the result. The proof
  showed that a memory which another thread puts back into the active pool during the
  retrieval has to count as moved: one channel may have found it and another not. TLC
  had not seen that, because the setting `ranks` is undisturbed.

* `PromptsBySpec`, `LoadsBySpec`, `FindsBySpec`: the same of every behaviour of the three
  specifications, while the theorems above are of the runs' specification `MCSpec`, which
  takes only some of their steps. So scores *and* moves, or a damaged summary *and* a
  session, are covered together.

The proofs use no induction but that a set of naturals has a least element (`HasLeast`):
a bounded one has a greatest (`HasGreatest`), finite sets of places have a g-th one
(`HasRank`), and a fold has no first turn at which it goes wrong (`FoldPasses`,
`FoldingSteps`).

Only model-checked: liveness (`CollectedIsProcessed`, `EventuallyFreshByBoth`,
`TriggeredIsTakenByTools`, `SubagentReturns`, `CallReturns`), since TLAPS has no ENABLED
here, and `Aligned` with the embedding worker, in the settings `async` and `fresh`, where
it holds only for the operations chosen there (section 4).

## 6. Not modelled

* `recovery/session.py` and `recovery/error_handler.py`: `main.py` constructs a
  `SessionState` and calls nothing of it; `retry_with_backoff` is used by nobody.
* `memory/lifecycle.py` is shadowed by the package `memory/lifecycle/` and never
  imported; `context/detector.py` is used by nothing.
* Formulas: importance is a level, freshness a number of half-lives, scores of a
  retrieval small numbers that are normalized, weighted and compared as in the code.
* Text: prompts, parsing of LLM answers, rendering, logs. What a property needs of
  them is a choice, a version or a set of goals. The field by field conversions of
  `context/serialization` and `memory/schema.py` are left to tests.
* Thread switches inside one dictionary operation (atomic in CPython). "Dictionary
  changed size during iteration" is modelled where it decides something: a
  reflection, a save and the loops of the lifecycle cycle may raise.
* The conflict strategy of the reflector (`resolve_conflict`, the relations between
  memories), reciprocal rank fusion, the scratchpad, `replay/diff.py`, dashboards.
* Two worker threads of one engine after the join's timeout: `Start` waits for the old
  thread (`EmbeddingSync`, `Upkeep`).
* Evaluation harness, scripts, skills, configuration, builtin tools: no behaviour of
  the agent beyond files and processes.

## 7. Remarks for readers of the code

Met while modelling, beside what section 4 lists:

* `main.py:372` reads `intelligence_engine.trigger._subscribers`, which `TriggerPolicy`
  does not have: `main()` ends there. The models describe the program as wired.
* `main.py` passes no lifecycle, intelligence or importance engine to
  `build_memory_tools`, and never calls `set_llm` of the hooks, so prompt hooks never
  run; `RecoveryEngine`, `AuditLog` and `SessionState` are constructed and not called.
* `settings.json`'s `"_comment"` under `mcp_servers` makes `load_mcp_from_config` raise;
  two servers' tools may get one name; `start_all` catches only `MCPServerError`.
* The loop uses only `system` of the built prompt, so the summary layer and the
  selection of rounds never reach the model.
* The Stop hook's stderr is never in the merged result (`loop.py:261`); sub-agents
  bypass `PreToolUse` hooks; Explore agents may use bash; the intent routes never offer
  `task`, `background_run` or most memory tools.
* `memory_add` that merges returns before it saves; `update(state=...)` leaves the entry
  in the active pool; an update of `ownership.project` with a plain string makes
  `ProjectIndex.on_update` raise, which is swallowed; the duplicate rule never blocks,
  since its context has no hash.
* `_repair_duplicates` purges archived entries through a call that only takes deleted
  ones, and counts them as resolved; `update_config` of the lifecycle policy reaches
  no engine; WARM never becomes ACTIVE again; the vacuum's auto-archive ends its loop
  after the first.
* An exception in one retrieval channel is swallowed by the pipeline, so
  `memory_search` says "nothing found" instead of falling back to keywords.
* `add_persistent_fact` changes the stored list in place, so subscribers of the Store
  see no change.
