--------------------------- MODULE MCEmbeddingSync ---------------------------
(* EmbeddingSync in three settings; the initial state chooses one.           *)
(*   "fresh"  the constants of the .cfg: client and worker embed, the         *)
(*            memories exist from the start and are updated                  *)
(*   "sync"   no worker, all operations of the store                         *)
(*   "async"  only the worker embeds, one id a batch, and may fail           *)

EXTENDS EmbeddingSync

CONSTANTS
    Present,   \* the memories that "sync" begins with
    SyncVer    \* versions of one memory in "sync" (bound)

VARIABLE setting

Sync == INSTANCE EmbeddingSync WITH
    Preloaded <- Present, WorkerEnabled <- FALSE, MaxVer <- SyncVer,
    Ops <- {"create", "update", "touch", "archive", "delete", "recover", "purge"}

ASSUME SyncConstants == Present \in SUBSET Ids /\ IsFiniteSet(Present)

Async == INSTANCE EmbeddingSync WITH
    Ids <- {1, 2}, Preloaded <- {1}, SyncFallback <- FALSE, BatchSize <- 1,
    EmbedderFails <- TRUE, Ops <- {"create", "update", "touch", "stop"}

MCInit ==
    \/ setting = "fresh" /\ Init
    \/ setting = "sync"  /\ Sync!Init
    \/ setting = "async" /\ Async!Init

MCNext ==
    /\ \/ setting = "fresh" /\ Next
       \/ setting = "sync"  /\ Sync!Next
       \/ setting = "async" /\ Async!Next
    /\ UNCHANGED setting

MCVars == <<vars, setting>>

\* The fairness of FairSpec, setting by setting.
MCSpec ==
    /\ MCInit /\ [][MCNext]_MCVars
    /\ WF_MCVars(setting = "fresh" /\ ClientProgress /\ UNCHANGED setting)
    /\ WF_MCVars(setting = "fresh" /\ WorkerStep /\ UNCHANGED setting)
    /\ WF_MCVars(setting = "fresh" /\ Flush /\ UNCHANGED setting)
    /\ WF_MCVars(setting = "async" /\ Async!ClientProgress /\ UNCHANGED setting)
    /\ WF_MCVars(setting = "async" /\ Async!WorkerStep /\ UNCHANGED setting)
    /\ WF_MCVars(setting = "async" /\ Async!Flush /\ UNCHANGED setting)

\* MirrorsActive where no worker writes the index.
MirrorsActiveAlone == setting = "sync" => MirrorsActive

\* EventuallyFresh where two threads write the index.
EventuallyFreshByBoth ==
    \A i \in Ids : <>[](setting = "fresh" /\ pool[i] = "active" => Fresh(i))

==============================================================================
