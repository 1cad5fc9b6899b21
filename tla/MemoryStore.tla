----------------------------- MODULE MemoryStore -----------------------------
(***************************************************************************)
(* The in-memory store of src/memory: three pools of entries and the       *)
(* indexes over the active one, changed without any lock by several        *)
(* threads.                                                                *)
(*                                                                         *)
(*   Clients  threads that call the store's API: the agent loop running    *)
(*            memory tools, the intelligence worker applying reflections.  *)
(*   Keepers  threads of the lifecycle worker, which run the first phase   *)
(*            of the cycle (LifecycleStateMachine.evaluate_all) and move   *)
(*            entries through LifecycleManager without the store.          *)
(*                                                                         *)
(* A move is pop-from-one-pool, then insert-in-another, then tell the      *)
(* indexes: three steps, because the interpreter may switch threads        *)
(* between any two of them.  Loops over a pool are single steps.           *)
(***************************************************************************)

CONSTANTS
    Ids,        \* identifiers the run may allocate (uuid4: never reused)
    Texts,      \* contents of entries
    Writable,   \* Writable[i]: the contents that callers may give to i
    Clients,
    Keepers,    \* {} when the lifecycle scheduler is disabled
    Ops,        \* the operations the clients call
    None        \* no identifier, no text

AllOps == {"add", "update", "delete", "archive", "recover", "purge",
           "engine_archive", "engine_restore"}

Threads == Clients \cup Keepers

ASSUME ConstantsOK ==
    /\ Writable \in [Ids -> SUBSET Texts]
    /\ Clients \cap Keepers = {}
    /\ Ops \subseteq AllOps
    /\ None \notin Ids \cup Texts

VARIABLES
    active,     \* ids in MemoryStore._active
    archived,   \* ids in MemoryStore._archived
    deleted,    \* ids in MemoryStore._deleted
    state,      \* state[i]: identity.state of the entry object of i
    text,       \* text[i]: content.text of the entry object of i
    indexed,    \* ids present in the type, project, owner and state indexes
    fate,       \* history: "unborn", "live" once created, "purged"
    pc,         \* pc[t]: where thread t is
    arg,        \* arg[t]: the entry thread t is working on
    todo        \* todo[k]: entries a keeper's scan has still to evaluate

entryVars == <<state, text>>
vars == <<active, archived, deleted, state, text, indexed, fate, pc, arg, todo>>

States == {"active", "warm", "cold", "archived", "deleted"}

Adding    == {"dedup", "policy", "create"}
ToArchive == {"toArchived", "toArchivedDirect"}
ToActive  == {"toActive", "toActiveDirect"}
Holding   == ToArchive \cup ToActive \cup {"toDeleted"}
Labels    == Adding \cup Holding \cup
             {"idle", "index", "reindex", "unindex", "scan", "warm", "cold", "drop"}

TypeOK ==
    /\ active \subseteq Ids
    /\ archived \subseteq Ids
    /\ deleted \subseteq Ids
    /\ state \in [Ids -> States]
    /\ text \in [Ids -> Texts \cup {None}]
    /\ indexed \subseteq Ids
    /\ fate \in [Ids -> {"unborn", "live", "purged"}]
    /\ pc \in [Threads -> Labels]
    /\ arg \in [Threads -> Ids \cup {None}]
    /\ \A t \in Threads : pc[t] \notin {"idle", "scan"} => arg[t] \in Ids
    /\ todo \in [Keepers -> SUBSET Ids]

Init ==
    /\ active = {} /\ archived = {} /\ deleted = {}
    /\ state = [i \in Ids |-> "active"]
    /\ text = [i \in Ids |-> None]
    /\ indexed = {}
    /\ fate = [i \in Ids |-> "unborn"]
    /\ pc = [t \in Threads |-> "idle"]
    /\ arg = [t \in Threads |-> None]
    /\ todo = [k \in Keepers |-> {}]

GoTo(t, label, i) ==
    /\ pc' = [pc EXCEPT ![t] = label]
    /\ arg' = [arg EXCEPT ![t] = i]

\* The next call of a client, the next entry of a keeper's scan.
Finish(t) == GoTo(t, IF t \in Keepers THEN "scan" ELSE "idle", None)

Call(c, op) == pc[c] = "idle" /\ op \in Ops

------------------------------------------------------------------------------
(* MemoryPipeline.process: deduplicate, policy check, persist. *)

\* A new entry object; the schema and normalize stages touch nothing shared.
AddBegin(c, i, x) ==
    /\ Call(c, "add")
    /\ text[i] = None
    /\ x \in Writable[i]
    /\ text' = [text EXCEPT ![i] = x]
    /\ GoTo(c, "dedup", i)
    /\ UNCHANGED <<active, archived, deleted, state, indexed, fate, todo>>

\* Bug: no comparison with the active entries.
AddDedupSkipped(c) ==
    /\ pc[c] = "dedup"
    /\ GoTo(c, "policy", arg[c])
    /\ UNCHANGED <<active, archived, deleted, entryVars, indexed, fate, todo>>

\* DeduplicateStage goes on with an EXISTING active entry of the same text.
AddDedup(c) ==
    LET same == {e \in active : text[e] = text[arg[c]]} IN
    /\ pc[c] = "dedup"
    /\ \/ same = {} /\ GoTo(c, "policy", arg[c])
       \/ \E e \in same : GoTo(c, "policy", e)
    /\ UNCHANGED <<active, archived, deleted, entryVars, indexed, fate, todo>>

\* PolicyCheckStage: a rule may block the entry.
AddPolicy(c) ==
    /\ pc[c] = "policy"
    /\ GoTo(c, "create", arg[c]) \/ Finish(c)
    /\ UNCHANGED <<active, archived, deleted, entryVars, indexed, fate, todo>>

\* MemoryStore.create, new entry or merged one alike.
Create(c) ==
    /\ pc[c] = "create"
    /\ state' = [state EXCEPT ![arg[c]] = "active"]
    /\ active' = active \cup {arg[c]}
    /\ fate' = [fate EXCEPT ![arg[c]] = "live"]
    /\ GoTo(c, "index", arg[c])
    /\ UNCHANGED <<archived, deleted, text, indexed, todo>>

\* IndexManager.notify_create and notify_update add the id to the indexes.
NotifyIndex(c) ==
    /\ pc[c] = "index"
    /\ indexed' = indexed \cup {arg[c]}
    /\ Finish(c)
    /\ UNCHANGED <<active, archived, deleted, entryVars, fate, todo>>

\* IndexManager.notify_delete.
NotifyUnindex(c) ==
    /\ pc[c] = "unindex"
    /\ indexed' = indexed \ {arg[c]}
    /\ Finish(c)
    /\ UNCHANGED <<active, archived, deleted, entryVars, fate, todo>>

\* MemoryStore.update of the text of an active entry.
Update(c, i, x) ==
    /\ Call(c, "update")
    /\ i \in active
    /\ x \in Writable[i] \ {text[i]}
    /\ text' = [text EXCEPT ![i] = x]
    /\ GoTo(c, "index", i)
    /\ UNCHANGED <<active, archived, deleted, state, indexed, fate, todo>>

------------------------------------------------------------------------------
(* LifecycleManager: a move takes the entry out of its pool first. *)

TakeActive(t, i, label) ==
    /\ i \in active
    /\ active' = active \ {i}
    /\ GoTo(t, label, i)
    /\ UNCHANGED <<archived, deleted, entryVars, indexed, fate, todo>>

Delete(c, i)        == Call(c, "delete") /\ TakeActive(c, i, "toDeleted")
Archive(c, i)       == Call(c, "archive") /\ TakeActive(c, i, "toArchived")
EngineArchive(c, i) == Call(c, "engine_archive") /\ TakeActive(c, i, "toArchivedDirect")

\* Bug: the entry is looked up in its pool, not popped.
TakeInactiveKept(c, i, label) ==
    /\ i \in archived \cup deleted
    /\ GoTo(c, label, i)
    /\ UNCHANGED <<active, archived, deleted, entryVars, indexed, fate, todo>>

\* LifecycleManager.recover: the archived pool first, then the deleted one.
TakeInactive(c, i, label) ==
    /\ \/ /\ i \in archived
          /\ archived' = archived \ {i}
          /\ UNCHANGED deleted
       \/ /\ i \in deleted \ archived
          /\ deleted' = deleted \ {i}
          /\ UNCHANGED archived
    /\ GoTo(c, label, i)
    /\ UNCHANGED <<active, entryVars, indexed, fate, todo>>

Recover(c, i)       == Call(c, "recover") /\ TakeInactive(c, i, "toActive")
EngineRestore(c, i) == Call(c, "engine_restore") /\ TakeInactive(c, i, "toActiveDirect")

FinishDelete(c) ==
    /\ pc[c] = "toDeleted"
    /\ state' = [state EXCEPT ![arg[c]] = "deleted"]
    /\ deleted' = deleted \cup {arg[c]}
    /\ GoTo(c, "unindex", arg[c])
    /\ UNCHANGED <<active, archived, text, indexed, fate, todo>>

\* Bug: the popped entry is stamped but not put in the archived pool.
FinishArchiveForgotten(t) ==
    /\ pc[t] \in ToArchive
    /\ state' = [state EXCEPT ![arg[t]] = "archived"]
    /\ IF pc[t] = "toArchived" THEN GoTo(t, "unindex", arg[t]) ELSE Finish(t)
    /\ UNCHANGED <<active, archived, deleted, text, indexed, fate, todo>>

\* MemoryStore.archive tells the indexes; a direct caller of the manager
\* (lifecycle engine, state machine) does not.
FinishArchive(t) ==
    /\ pc[t] \in ToArchive
    /\ state' = [state EXCEPT ![arg[t]] = "archived"]
    /\ archived' = archived \cup {arg[t]}
    /\ IF pc[t] = "toArchived" THEN GoTo(t, "unindex", arg[t]) ELSE Finish(t)
    /\ UNCHANGED <<active, deleted, text, indexed, fate, todo>>

FinishRecover(c) ==
    /\ pc[c] \in ToActive
    /\ state' = [state EXCEPT ![arg[c]] = "active"]
    /\ active' = active \cup {arg[c]}
    /\ IF pc[c] = "toActive" THEN GoTo(c, "reindex", arg[c]) ELSE Finish(c)
    /\ UNCHANGED <<archived, deleted, text, indexed, fate, todo>>

\* Bug: a recovered entry is not indexed again.
ReindexSkipped(c) ==
    /\ pc[c] = "reindex"
    /\ Finish(c)
    /\ UNCHANGED <<active, archived, deleted, entryVars, indexed, fate, todo>>

\* MemoryStore.recover indexes the entry if it is still active.
Reindex(c) ==
    /\ pc[c] = "reindex"
    /\ IF arg[c] \in active THEN GoTo(c, "index", arg[c]) ELSE Finish(c)
    /\ UNCHANGED <<active, archived, deleted, entryVars, indexed, fate, todo>>

\* Bug: purge takes archived entries too.
PurgeInactive(c, i) ==
    /\ Call(c, "purge")
    /\ i \in deleted \cup archived
    /\ deleted' = deleted \ {i} /\ archived' = archived \ {i}
    /\ fate' = [fate EXCEPT ![i] = "purged"]
    /\ GoTo(c, "unindex", i)
    /\ UNCHANGED <<active, entryVars, indexed, todo>>

Purge(c, i) ==
    /\ Call(c, "purge")
    /\ i \in deleted
    /\ deleted' = deleted \ {i}
    /\ fate' = [fate EXCEPT ![i] = "purged"]
    /\ GoTo(c, "unindex", i)
    /\ UNCHANGED <<active, archived, entryVars, indexed, todo>>

------------------------------------------------------------------------------
(* LifecycleStateMachine.evaluate_all, on the keeper's thread. *)

Scan(k) ==
    /\ pc[k] = "idle"
    /\ todo' = [todo EXCEPT ![k] = active]
    /\ GoTo(k, "scan", None)
    /\ UNCHANGED <<active, archived, deleted, entryVars, indexed, fate>>

\* The score of the entry may map to any state; only downward transitions act.
Evaluate(k, i) ==
    /\ pc[k] = "scan"
    /\ i \in todo[k]
    /\ todo' = [todo EXCEPT ![k] = @ \ {i}]
    /\ \/ GoTo(k, "scan", None)
       \/ state[i] = "active" /\ GoTo(k, "warm", i)
       \/ state[i] \in {"active", "warm"} /\ GoTo(k, "cold", i)
       \/ state[i] \in {"active", "warm", "cold"} /\ GoTo(k, "drop", i)
    /\ UNCHANGED <<active, archived, deleted, entryVars, indexed, fate>>

\* _transition: in place, wherever the entry is by now.
Cool(k) ==
    /\ pc[k] \in {"warm", "cold"}
    /\ state' = [state EXCEPT ![arg[k]] = pc[k]]
    /\ Finish(k)
    /\ UNCHANGED <<active, archived, deleted, text, indexed, fate, todo>>

Drop(k) ==
    /\ pc[k] = "drop"
    /\ \/ TakeActive(k, arg[k], "toArchivedDirect")
       \/ /\ arg[k] \notin active
          /\ Finish(k)
          /\ UNCHANGED <<active, archived, deleted, entryVars, indexed, fate, todo>>

EndScan(k) ==
    /\ pc[k] = "scan"
    /\ todo[k] = {}
    /\ GoTo(k, "idle", None)
    /\ UNCHANGED <<active, archived, deleted, entryVars, indexed, fate, todo>>

------------------------------------------------------------------------------
ClientStep(c) ==
    \/ \E i \in Ids, x \in Texts : AddBegin(c, i, x) \/ Update(c, i, x)
    \/ AddDedup(c) \/ AddPolicy(c) \/ Create(c)
    \/ NotifyIndex(c) \/ NotifyUnindex(c)
    \/ \E i \in Ids :
          \/ Delete(c, i) \/ Archive(c, i) \/ EngineArchive(c, i)
          \/ Recover(c, i) \/ EngineRestore(c, i) \/ Purge(c, i)
    \/ FinishDelete(c) \/ FinishArchive(c) \/ FinishRecover(c) \/ Reindex(c)

KeeperStep(k) ==
    \/ Scan(k) \/ Cool(k) \/ Drop(k) \/ FinishArchive(k) \/ EndScan(k)
    \/ \E i \in Ids : Evaluate(k, i)

Next ==
    \/ \E c \in Clients : ClientStep(c)
    \/ \E k \in Keepers : KeeperStep(k)

Spec == Init /\ [][Next]_vars

------------------------------------------------------------------------------
(* Properties *)

Held(labels) == {arg[t] : t \in {u \in Threads : pc[u] \in labels}}

\* A memory that was created and never purged is in a pool or in the hands of
\* the thread moving it, however the pop and insert steps of deletions,
\* archivals, recoveries, purges and merges by several threads interleave
\* (store.py, lifecycle/manager.py).
NothingLost ==
    \A i \in Ids : fate[i] = "live" =>
        i \in active \cup archived \cup deleted \cup Held(Holding)

\* Callers never give two memories the same text.
DistinctTexts == \A i, j \in Ids : i # j => Writable[i] \cap Writable[j] = {}

\* Without equal texts a memory is in one place only: no two pools share an
\* id, an entry in a thread's hands is in no pool and in no other thread's
\* hands, and an entry still in the pipeline is nowhere else.  (With equal
\* texts DeduplicateStage hands an existing entry to PersistStage.)
OnePlace ==
    /\ active \cap archived = {}
    /\ active \cap deleted = {}
    /\ archived \cap deleted = {}
    /\ Held(Holding \cup Adding) \cap (active \cup archived \cup deleted) = {}
    /\ \A t, u \in Threads :
          (t # u /\ {pc[t], pc[u]} \subseteq Holding \cup Adding) => arg[t] # arg[u]

\* Where the table of lifecycle/manager.py has each memory: a move has
\* happened once the entry is taken out of its pool.
InActive   == active \cup Held(ToActive)
InArchived == archived \cup Held(ToArchive)
InDeleted  == deleted \cup Held({"toDeleted"})

placeOf == [i \in Ids |->
    IF i \in InActive THEN "active"
    ELSE IF i \in InArchived THEN "archived"
    ELSE IF i \in InDeleted THEN "deleted"
    ELSE fate[i]]

Pools == INSTANCE MemoryPools WITH place <- placeOf

\* The store implements the transition table of lifecycle/manager.py: every
\* memory goes none -> active, active -> archived or deleted, back to active,
\* deleted -> purged, and never otherwise (DistinctTexts).
ImplementsPools == Pools!Spec

\* Every active memory is in the type, project, owner and state indexes, or
\* the client that made it active is about to put it there, although a keeper
\* moves entries at any time.  (One client, distinct texts, and no restore
\* through the lifecycle engine.)
ActiveAreIndexed == active \subseteq indexed \cup Held({"index", "reindex"})

\* Between calls the indexes hold exactly the active memories: index.py
\* promises on_create when an entry is added to the active pool and on_delete
\* when it is removed from it.
IndexExact == (\A t \in Threads : pc[t] = "idle") => indexed = active

\* No two active memories have the same text as long as one client adds and
\* none updates or recovers: DeduplicateStage against a keeper that takes the
\* matching entry away between the stages.
NoDuplicateTexts ==
    \A i, j \in active : i # j => text[i] # text[j]

\* lifecycle/manager.py lists recover as the only transition from archived to
\* active: no other step makes an archived memory active as well.
ArchivedNeedsRecover ==
    [][active' \cap archived' \subseteq active \cap archived]_vars

\* lifecycle/state.py: WARM and COLD are state-only changes of entries that
\* stay in the active pool.
WarmColdAreActive ==
    \A i \in archived \cup deleted : state[i] \notin {"warm", "cold"}

==============================================================================
