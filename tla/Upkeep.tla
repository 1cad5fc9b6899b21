-------------------------------- MODULE Upkeep --------------------------------
(***************************************************************************)
(* The lifecycle engine (src/memory/lifecycle): a thread that wakes up,    *)
(* looks at the states of all active memories, archives, compresses groups *)
(* into summaries and cleans up relations, one memory after the other,     *)
(* while the program's main thread moves memories between the pools.       *)
(*                                                                         *)
(* A memory's scores are one number, its worth: 3 keeps it active, 2 warm, *)
(* 1 cold, and 0 is worth archiving.                                       *)
(***************************************************************************)

EXTENDS Integers, Sequences, FiniteSets, FiniteSetsExt, SequencesExt

CONSTANTS
    Old,          \* memories that are there at the start
    New,          \* ids for memories that are created later
    Kinds,        \* MemoryType
    Tracker,      \* what ArchiveEngine asks: "state_machine" (engine.py) or "access_tracker"
    MinGroup, MaxGroup,   \* sizes of a group to compress
    Strategy,     \* "rule", "llm", or "hybrid"
    Room,         \* texts that fit in the 500 characters a memory has in a summary
    MaxLinks, MaxMoves, MaxCycles, MaxAging,  \* bounds
    None

VARIABLES
    place,     \* id -> pool, or "none" before it is created, "purged" after
    state,     \* id -> identity.state
    worth,     \* id -> 0..3
    kind,      \* id -> its type
    texts,     \* id -> the old memories whose texts its text has, in order
    related,   \* id -> keys of relation.related
    parent, children,  \* id -> relation.parent, relation.children
    at,        \* where the worker is
    todo,      \* memories the present loop has yet to see
    groups,    \* groups that are still to be compressed
    summary,   \* the summary of the present group
    known,     \* all_entries of the garbage collector
    touched,   \* whether a pool changed since the present loop began
    running,   \* LifecycleWorker._running
    metrics,   \* [archives, restores, compressions, completed, failed]
    count,     \* what the bounds count: [links, moves, aging]
    derived    \* history: <<e, s>> where e was archived for summary s

graph  == <<related, parent, children>>
worker == <<at, todo, groups, summary, known>>
vars   == <<place, state, worth, kind, texts, graph, worker, touched, running, metrics, count, derived>>

Ids    == Old \cup New
Active == {i \in Ids : place[i] = "active"}
Live   == {"active", "warm", "cold"}

Init ==
    /\ place = [i \in Ids |-> IF i \in Old THEN "active" ELSE "none"]
    /\ state = [i \in Ids |-> "active"]
    /\ worth = [i \in Ids |-> IF i \in Old THEN 3 ELSE 0]
    /\ kind \in [Ids -> Kinds]
    /\ texts = [i \in Ids |-> IF i \in Old THEN <<i>> ELSE <<>>]
    /\ related = [i \in Ids |-> {}]
    /\ \E f \in [Old -> Old \cup {None}] :
          /\ \A i \in Old : f[i] # None => f[i] # i /\ f[f[i]] = None
          /\ parent = [i \in Ids |-> IF i \in Old THEN f[i] ELSE None]
          /\ children = [i \in Ids |-> {c \in Old : f[c] = i}]
    /\ at = "off" /\ todo = {} /\ groups = <<>> /\ summary = None /\ known = {}
    /\ touched = FALSE /\ running = FALSE
    /\ metrics = [archives |-> 0, compressions |-> 0, completed |-> 0, failed |-> 0]
    /\ count = [links |-> 0, moves |-> 0, aging |-> 0]
    /\ derived = {}

Move(i, pool) ==
    /\ place' = [place EXCEPT ![i] = pool]
    /\ state' = [state EXCEPT ![i] = pool]

Stay == UNCHANGED <<place, state>>

------------------------------------------------------------------------------
\* The main thread: the tools, and what M9 does with relations.
Counted(what, max) == count[what] < max /\ count' = [count EXCEPT ![what] = @ + 1]

ByClient ==
    /\ touched' = TRUE
    /\ UNCHANGED <<worth, kind, texts, graph, worker, running, metrics, derived>>

Archive(i) == Counted("moves", MaxMoves) /\ place[i] = "active" /\ Move(i, "archived") /\ ByClient
Delete(i)  == Counted("moves", MaxMoves) /\ place[i] = "active" /\ Move(i, "deleted") /\ ByClient

Restore(i) ==
    /\ Counted("moves", MaxMoves) /\ place[i] \in {"archived", "deleted"}
    /\ Move(i, "active") /\ ByClient

Purge(i) ==
    /\ Counted("moves", MaxMoves) /\ place[i] = "deleted"
    /\ place' = [place EXCEPT ![i] = "purged"] /\ UNCHANGED state /\ ByClient

\* A relation of the reflection, such as "conflict".
Link(i, j) ==
    /\ Counted("links", MaxLinks)
    /\ i # j /\ {place[i], place[j]} \subseteq {"active", "archived", "deleted"}
    /\ related' = [related EXCEPT ![i] = @ \cup {j}, ![j] = @ \cup {i}]
    /\ Stay /\ UNCHANGED <<worth, kind, texts, parent, children, worker, touched, running, metrics, derived>>

\* A memory that the reflection makes out of i, which it replaces.
Learn(i, j) ==
    /\ Counted("links", MaxLinks)
    /\ place[i] = "active" /\ place[j] = "none"
    /\ place' = [place EXCEPT ![j] = "active"]
    /\ worth' = [worth EXCEPT ![j] = 3]
    /\ texts' = [texts EXCEPT ![j] = texts[i]]
    /\ related' = [related EXCEPT ![i] = @ \cup {j}, ![j] = @ \cup {i}]
    /\ touched' = TRUE
    /\ UNCHANGED <<state, kind, parent, children, worker, running, metrics, derived>>

\* Time passes: freshness and age.
Aging(i) ==
    /\ Counted("aging", MaxAging) /\ worth[i] > 0 /\ place[i] # "none"
    /\ worth' = [worth EXCEPT ![i] = @ - 1]
    /\ Stay /\ UNCHANGED <<kind, texts, graph, worker, touched, running, metrics, derived>>

------------------------------------------------------------------------------
\* The worker.  Each loop goes through a copy of the active pool (evaluate_all,
\* schedule) or through the pool itself (the garbage collector).
Loop(label, ids) ==
    /\ at' = label /\ todo' = ids /\ touched' = FALSE

Rest == UNCHANGED <<worth, kind, texts, running, count>>

Start ==
    /\ ~running /\ at = "off"
    /\ running' = TRUE /\ at' = "sleep"
    /\ Stay /\ UNCHANGED <<worth, kind, texts, graph, todo, groups, summary, known, touched,
                           metrics, count, derived>>

Stop ==
    /\ running /\ running' = FALSE
    /\ Stay /\ UNCHANGED <<worth, kind, texts, graph, worker, touched, metrics, count, derived>>

Wake ==
    /\ at = "sleep" /\ metrics.completed + metrics.failed < MaxCycles
    /\ IF running THEN Loop("evaluate", Active)
       ELSE at' = "off" /\ UNCHANGED <<todo, touched>>
    /\ Stay /\ Rest /\ UNCHANGED <<graph, groups, summary, known, metrics, derived>>

Fail ==
    /\ at' = "sleep" /\ todo' = {} /\ groups' = <<>> /\ summary' = None /\ known' = {}
    /\ metrics' = [metrics EXCEPT !.failed = @ + 1]
    /\ UNCHANGED touched

\* StateTransitionPolicy.evaluate.
StateFor(i) == CASE worth[i] = 3 -> "active" [] worth[i] = 2 -> "warm"
                 [] worth[i] = 1 -> "cold" [] OTHER -> "archived"

\* evaluate_all: towards the cold only; the state of a memory is read again,
\* and a move is tried though the memory may be gone from the pool.
Evaluate(i) ==
    /\ at = "evaluate" /\ i \in todo
    /\ LET to == StateFor(i)
       IN  IF state[i] \in Live /\ to = "archived"
           THEN IF place[i] = "active" THEN Move(i, "archived") ELSE Stay
           ELSE /\ UNCHANGED place
                /\ state' = IF <<state[i], to>> \in {<<"active", "warm">>, <<"active", "cold">>,
                                                     <<"warm", "cold">>}
                            THEN [state EXCEPT ![i] = to] ELSE state
    /\ todo' = todo \ {i}
    /\ Rest /\ UNCHANGED <<graph, at, groups, summary, known, touched, metrics, derived>>

ArchiveBegin ==
    /\ at = "evaluate" /\ todo = {}
    /\ Loop("archive", Active)
    /\ Stay /\ Rest /\ UNCHANGED <<graph, groups, summary, known, metrics, derived>>

\* ArchiveEngine.schedule asks its tracker for the last access: the state
\* machine that engine.py gives it has no such method.
ArchiveOld(i) ==
    /\ at = "archive" /\ i \in todo
    /\ IF state[i] \in Live /\ Tracker = "state_machine"
       THEN Fail /\ Stay
       ELSE /\ IF state[i] \in Live /\ worth[i] <= 1 /\ place[i] = "active"
               THEN Move(i, "archived") /\ metrics' = [metrics EXCEPT !.archives = @ + 1]
               ELSE Stay /\ UNCHANGED metrics
            /\ todo' = todo \ {i}
            /\ UNCHANGED <<at, groups, summary, known, touched>>
    /\ Rest /\ UNCHANGED <<graph, derived>>

\* One group of each type that has enough members, and of the first of them.
\* (The order of the pool is left open.)
GroupsOf(ids) ==
    {g \in SUBSET ids :
        \E k \in Kinds :
            LET all == {i \in ids : kind[i] = k}
            IN  /\ g \subseteq all /\ Cardinality(all) >= MinGroup
                /\ Cardinality(g) = Min({Cardinality(all), MaxGroup})}

Group ==
    /\ at = "archive" /\ todo = {}
    /\ \E gs \in SUBSET GroupsOf(Active) :
          /\ \A k \in Kinds :
                Cardinality({g \in gs : \A i \in g : kind[i] = k}) =
                    IF \E g \in GroupsOf(Active) : \A i \in g : kind[i] = k THEN 1 ELSE 0
          /\ groups' = SetToSeq(gs)
    /\ Loop("compress", {})
    /\ Stay /\ Rest /\ UNCHANGED <<graph, summary, known, metrics, derived>>

\* The text of a summary: the texts of the group, each cut to its room, or
\* whatever a model makes of them, or the cut context when the model fails.
Cut(i) == SubSeq(texts[i], 1, Min({Room, Len(texts[i])}))

SummaryTexts(g) ==
    LET joined == FlattenSeq([n \in 1..Cardinality(g) |-> Cut(SetToSeq(g)[n])])
        byRule == Strategy = "rule" \/ (Strategy = "hybrid" /\ Cardinality(g) <= 3)
    IN  IF byRule THEN {joined} ELSE {joined, SubSeq(joined, 1, 5)}

\* _compress_group: the summary first.
Compress ==
    /\ at = "compress" /\ todo = {} /\ summary = None /\ groups # <<>>
    /\ LET g == Head(groups)
       IN  \E s \in {i \in New : place[i] = "none"}, t \in SummaryTexts(g) :
              /\ place' = [place EXCEPT ![s] = "active"]
              /\ worth' = [worth EXCEPT ![s] = 3]
              /\ kind' = [kind EXCEPT ![s] = kind[CHOOSE i \in g : TRUE]]
              /\ texts' = [texts EXCEPT ![s] = t]
              /\ summary' = s /\ todo' = g
    /\ groups' = Tail(groups)
    /\ metrics' = [metrics EXCEPT !.compressions = @ + 1]
    /\ UNCHANGED <<state, graph, at, known, touched, running, count, derived>>

\* Bug: the relation is recorded with the original, which is archived.
ReplaceReversed(i) ==
    /\ at = "compress" /\ i \in todo
    /\ related' = [related EXCEPT ![i] = @ \cup {summary}]
    /\ IF place[i] = "active" THEN Move(i, "archived") /\ derived' = derived \cup {<<i, summary>>}
       ELSE Stay /\ UNCHANGED derived
    /\ todo' = todo \ {i}
    /\ summary' = IF todo = {i} THEN None ELSE summary
    /\ Rest /\ UNCHANGED <<parent, children, at, groups, known, touched, metrics>>

\* Then each original: the relation, and the archive.
Replace(i) ==
    /\ at = "compress" /\ i \in todo
    /\ related' = [related EXCEPT ![summary] = @ \cup {i}]
    /\ IF place[i] = "active" THEN Move(i, "archived") /\ derived' = derived \cup {<<i, summary>>}
       ELSE Stay /\ UNCHANGED derived
    /\ todo' = todo \ {i}
    /\ summary' = IF todo = {i} THEN None ELSE summary
    /\ Rest /\ UNCHANGED <<parent, children, at, groups, known, touched, metrics>>

------------------------------------------------------------------------------
Existing == {i \in Ids : place[i] \in {"active", "archived", "deleted"}}

CleanBegin ==
    /\ at = "compress" /\ todo = {} /\ summary = None /\ groups = <<>>
    /\ Loop("clean", Active)
    /\ known' = Existing
    /\ Stay /\ Rest /\ UNCHANGED <<graph, groups, summary, metrics, derived>>

\* The pool changed while the collector goes through it: the loop may notice.
Noticed ==
    /\ at \in {"clean", "validate"} /\ touched
    /\ Fail /\ Stay /\ Rest /\ UNCHANGED <<graph, derived>>

\* _clean_orphan_relations.
Clean(i) ==
    /\ at = "clean" /\ i \in todo
    /\ related' = [related EXCEPT ![i] = @ \cap known]
    /\ children' = [children EXCEPT ![i] = @ \cap known]
    /\ parent' = [parent EXCEPT ![i] = IF @ \in known THEN @ ELSE None]
    /\ todo' = todo \ {i}
    /\ Stay /\ Rest /\ UNCHANGED <<at, groups, summary, known, touched, metrics, derived>>

ValidateBegin ==
    /\ at = "clean" /\ todo = {}
    /\ Loop("validate", Active)
    /\ known' = {}
    /\ Stay /\ Rest /\ UNCHANGED <<graph, groups, summary, metrics, derived>>

\* Bug: the archived parent keeps its child.
ValidateHalf(i) ==
    /\ at = "validate" /\ i \in todo
    /\ parent' = [parent EXCEPT ![i] = IF @ # None /\ place[@] = "archived" THEN None ELSE @]
    /\ todo' = todo \ {i}
    /\ Stay /\ Rest
    /\ UNCHANGED <<children, related, at, groups, summary, known, touched, metrics, derived>>

\* _validate_broken_refs: a parent that is gone or archived is no parent.
Validate(i) ==
    /\ at = "validate" /\ i \in todo
    /\ LET p == parent[i]
       IN  /\ parent' = [parent EXCEPT ![i] =
                  IF p # None /\ (p \notin Existing \/ state[p] = "archived") THEN None ELSE p]
           /\ children' = IF p \in Existing /\ state[p] = "archived"
                          THEN [children EXCEPT ![p] = @ \ {i}] ELSE children
    /\ todo' = todo \ {i}
    /\ Stay /\ Rest
    /\ UNCHANGED <<related, at, groups, summary, known, touched, metrics, derived>>

\* _repair_duplicates finds archived memories with one summary and type, and
\* purges the newer: purge is for deleted memories and does nothing here.
EndCycle ==
    /\ at = "validate" /\ todo = {}
    /\ at' = "sleep"
    /\ metrics' = [metrics EXCEPT !.completed = @ + 1]
    /\ Stay /\ Rest /\ UNCHANGED <<graph, todo, groups, summary, known, touched, derived>>

WorkerStep ==
    \/ Wake \/ ArchiveBegin \/ Group \/ Compress \/ CleanBegin \/ Noticed \/ ValidateBegin \/ EndCycle
    \/ \E i \in Ids : Evaluate(i) \/ ArchiveOld(i) \/ Replace(i) \/ Clean(i) \/ Validate(i)

ClientStep ==
    \/ Start \/ Stop
    \/ \E i \in Ids : Archive(i) \/ Delete(i) \/ Restore(i) \/ Purge(i) \/ Aging(i)
    \/ \E i, j \in Ids : Link(i, j) \/ Learn(i, j)

Next == WorkerStep \/ ClientStep

Spec == Init /\ [][Next]_vars

FairSpec == Spec /\ WF_vars(WorkerStep)

------------------------------------------------------------------------------
\* Every variable has values of its kind.
TypeOK ==
    /\ \A i \in Ids :
          /\ place[i] \in {"none", "active", "archived", "deleted", "purged"}
          /\ related[i] \subseteq Ids /\ children[i] \subseteq Ids
    /\ at \in {"off", "sleep", "evaluate", "archive", "compress", "clean", "validate"}

\* A memory that was archived because a summary took its place is named by the
\* summary, through every later cleaning, until one of the two is purged: the
\* summary says where its text comes from, and what to restore
\* (MemoryCompressor._compress_group, GarbageCollector._clean_orphan_relations).
SummariesCover ==
    \A p \in derived :
        place[p[1]] # "purged" /\ place[p[2]] # "purged" => p[1] \in related[p[2]]

\* Parents and children agree, whatever is archived, restored, purged and
\* cleaned up in between (GarbageCollector._validate_broken_refs).
FamiliesAgree ==
    \A p, c \in Existing : parent[c] = p <=> c \in children[p]

\* A cleaning only drops relations to what does not exist.
LinksKept ==
    [][\A i \in Ids : \A j \in related[i] \ related'[i] : j \notin Existing]_vars

\* The worker that runs completes cycles: states, archive, compression and
\* garbage collection (engine.py:182 "One complete lifecycle check cycle").
CyclesComplete == running ~> (metrics.completed > 0 \/ ~running)

\* A summary of a summary has the texts that the first one took the place of.
TextsKept ==
    \A p, q \in derived : p[2] = q[1] => ToSet(texts[p[1]]) \subseteq ToSet(texts[q[2]])
==============================================================================
