------------------------------ MODULE MemoryFiles ------------------------------
(***************************************************************************)
(* What is left of the memories when the program ends: the three pools of  *)
(* the store, the file that save writes and load reads, the tools that     *)
(* change a memory and then save, and a worker that moves memories while   *)
(* save goes through the pools.                                            *)
(*                                                                         *)
(* All that a memory has is its revision, a number.                        *)
(***************************************************************************)

EXTENDS Naturals, FiniteSets

CONSTANTS
    Ids,
    Migratable,    \* whether SchemaLayer knows a way from the older version
    MaxRevision, MaxCrashes,  \* bounds
    GoesOn,        \* bound: whether there are calls after a save that overlapped with a move
    None

Pools == {"active", "archived", "deleted"}

VARIABLES
    pool,      \* pool -> id -> revision, 0 for a memory that is not there
    popped,    \* what the worker took out of the active pool: [id, revision] or None
    moved,     \* whether the pools changed since save began to walk through one
    disk,      \* memory.json: "none", "torn", or "whole"
    file,      \* its contents, like pool
    older,     \* memories that the file has in the form of an older version
    at,        \* main: "down", "idle", "active", "archived", "deleted", "open", "write"
    walk,      \* the pool as it was when save began to walk through it
    data,      \* what save has collected
    op,        \* the memory that the tool call is about
    crashes,
    overlapped,\* history: whether a memory was on its way while save collected
    since,     \* history: id -> places [pool, revision] from the last confirmed one on
    fresh      \* history: id -> the same, from the present call on

vars == <<pool, popped, moved, disk, file, older, at, walk, data, op, crashes, overlapped, since, fresh>>

At(p, v) == [pool |-> p, revision |-> v]
Nowhere  == At("none", 0)
Nothing  == [i \in Ids |-> 0]
NoPlaces == [i \in Ids |-> {}]
NoData   == [p \in Pools |-> Nothing]

Init ==
    /\ pool = NoData /\ popped = None /\ moved = FALSE
    /\ \/ disk = "none" /\ file = NoData /\ older = {}
       \/ /\ disk = "whole" /\ older \in SUBSET Ids
          /\ \E i \in Ids : file = [NoData EXCEPT !["active"][i] = 1]
    /\ at = "down" /\ walk = Nothing /\ data = NoData /\ op = None /\ crashes = 0
    /\ overlapped = FALSE
    /\ fresh = NoPlaces
    /\ since = [i \in Ids |-> {IF file["active"][i] = 1 THEN At("active", 1) ELSE Nowhere}]

\* i comes to a place, by a call or by the worker.  Nothing is promised any more
\* once a save overlaps with a move, and the history ends.
Comes(i, place, overlap) ==
    /\ overlapped' = (overlapped \/ overlap)
    /\ since' = IF overlapped' THEN NoPlaces ELSE [since EXCEPT ![i] = @ \cup {place}]
    /\ fresh' = IF overlapped' THEN NoPlaces ELSE [fresh EXCEPT ![i] = @ \cup {place}]

------------------------------------------------------------------------------
\* main: load.  An entry of another version goes through migrate, and one that
\* cannot be migrated is left out; a file that is no JSON ends the program.
Deserialized(i) == i \notin older \/ Migratable

Start ==
    /\ at = "down" /\ disk # "torn"
    /\ pool' = [p \in Pools |-> [i \in Ids |-> IF Deserialized(i) THEN file[p][i] ELSE 0]]
    /\ at' = "idle"
    /\ UNCHANGED <<popped, moved, disk, file, older, walk, data, op, crashes, overlapped, since, fresh>>

\* The end of the program, at any time: main neither saves nor waits for the
\* worker.  A crash while the file is open leaves half of it.
Down ==
    /\ at # "down" /\ crashes < MaxCrashes
    /\ crashes' = crashes + 1
    /\ disk' = IF at = "write" THEN "torn" ELSE disk
    /\ file' = IF at = "write" THEN NoData ELSE file
    /\ at' = "down" /\ pool' = NoData /\ popped' = None /\ moved' = FALSE
    /\ walk' = Nothing /\ data' = NoData /\ op' = None /\ fresh' = NoPlaces
    /\ UNCHANGED <<older, overlapped, since>>

------------------------------------------------------------------------------
\* The tools: a change of the store, then save.
Call(i, place) ==
    /\ GoesOn \/ ~overlapped
    /\ op' = i /\ at' = "active" /\ moved' = FALSE
    /\ walk' = pool'["active"] /\ data' = NoData
    /\ overlapped' = (overlapped \/ popped # None)
    /\ since' = IF overlapped' THEN NoPlaces ELSE [since EXCEPT ![i] = @ \cup {place}]
    /\ fresh' = IF overlapped' THEN NoPlaces ELSE [fresh EXCEPT ![i] = {place}]
    /\ UNCHANGED <<popped, disk, file, older, crashes>>

Known(i) == (popped # None /\ popped.id = i) \/ \E p \in Pools : pool[p][i] > 0 \/ file[p][i] > 0

Add(i) ==
    /\ at = "idle" /\ ~Known(i)
    /\ pool' = [pool EXCEPT !["active"][i] = 1]
    /\ Call(i, At("active", 1))

Update(i) ==
    /\ at = "idle" /\ pool["active"][i] \in 1..(MaxRevision - 1)
    /\ pool' = [pool EXCEPT !["active"][i] = @ + 1]
    /\ Call(i, At("active", pool["active"][i] + 1))

\* memory_feedback.
Rate(i) == Update(i)

Move(i, from, to) ==
    /\ at = "idle" /\ pool[from][i] > 0
    /\ pool' = [pool EXCEPT ![from][i] = 0, ![to][i] = pool[from][i]]
    /\ Call(i, At(to, pool[from][i]))

\* memory_delete, memory_archive, and memory_restore, which looks in the archive
\* first.
Delete(i)  == Move(i, "active", "deleted")
Archive(i) == Move(i, "active", "archived")
Restore(i) == Move(i, IF pool["archived"][i] > 0 THEN "archived" ELSE "deleted", "active")

\* memory_reflect, memory_resolve and memory_compress save after what an engine
\* did.
SaveAll ==
    /\ GoesOn \/ ~overlapped
    /\ at = "idle" /\ at' = "active" /\ moved' = FALSE
    /\ walk' = pool["active"] /\ data' = NoData
    /\ overlapped' = (overlapped \/ popped # None)
    /\ since' = IF overlapped' THEN NoPlaces ELSE since
    /\ UNCHANGED <<pool, popped, disk, file, older, op, crashes, fresh>>

\* memory_add of a text that is already there counts in the old entry, and
\* returns before save.
Merge(i) ==
    /\ at = "idle" /\ pool["active"][i] \in 1..(MaxRevision - 1)
    /\ pool' = [pool EXCEPT !["active"][i] = @ + 1]
    /\ Comes(i, At("active", pool["active"][i] + 1), FALSE)
    /\ UNCHANGED <<popped, moved, disk, file, older, at, walk, data, op, crashes>>

------------------------------------------------------------------------------
\* save.
After(p) == CASE p = "active" -> "archived" [] p = "archived" -> "deleted" [] OTHER -> "open"

\* The walk through one pool ends.
Walked ==
    /\ at \in Pools
    /\ data' = [data EXCEPT ![at] = walk]
    /\ walk' = IF After(at) \in Pools THEN pool[After(at)] ELSE Nothing
    /\ moved' = FALSE /\ at' = After(at)
    /\ UNCHANGED <<pool, popped, disk, file, older, op, crashes, overlapped, since, fresh>>

Idle == at' = "idle" /\ walk' = Nothing /\ data' = NoData /\ op' = None /\ fresh' = NoPlaces

\* The pool changed its size meanwhile: save raises, the file stays as it is.
SaveFails ==
    /\ at \in Pools /\ moved
    /\ Idle /\ moved' = FALSE
    /\ UNCHANGED <<pool, popped, disk, file, older, crashes, overlapped, since>>

\* write_text empties the file and then writes it.
Truncate ==
    /\ at = "open" /\ at' = "write"
    /\ UNCHANGED <<pool, popped, moved, disk, file, older, walk, data, op, crashes, overlapped, since, fresh>>

\* Bug: the last pool is written under the key of the first.
WriteOneKey ==
    /\ at = "write"
    /\ file' = [data EXCEPT !["deleted"] = Nothing, !["active"] = data["deleted"]]
    /\ disk' = "whole" /\ older' = {}
    /\ since' = IF op = None THEN since ELSE [since EXCEPT ![op] = fresh[op]]
    /\ Idle
    /\ UNCHANGED <<pool, popped, moved, crashes, overlapped>>

\* The file is there, and the tool confirms the call.
Write ==
    /\ at = "write"
    /\ file' = data /\ disk' = "whole" /\ older' = {}
    /\ since' = IF op = None THEN since ELSE [since EXCEPT ![op] = fresh[op]]
    /\ Idle
    /\ UNCHANGED <<pool, popped, moved, crashes, overlapped>>

------------------------------------------------------------------------------
\* The worker (compression, archive): out of one pool, then into another.
Pop(i) ==
    /\ GoesOn \/ ~overlapped
    /\ at # "down" /\ popped = None /\ pool["active"][i] > 0
    /\ pool' = [pool EXCEPT !["active"][i] = 0]
    /\ popped' = [id |-> i, revision |-> pool["active"][i]]
    /\ moved' = (moved \/ at = "active")
    /\ Comes(i, Nowhere, at \in Pools)
    /\ UNCHANGED <<disk, file, older, at, walk, data, op, crashes>>

Insert ==
    /\ popped # None
    /\ pool' = [pool EXCEPT !["archived"][popped.id] = popped.revision]
    /\ popped' = None
    /\ moved' = (moved \/ at = "archived")
    /\ Comes(popped.id, At("archived", popped.revision), at \in Pools)
    /\ UNCHANGED <<disk, file, older, at, walk, data, op, crashes>>

Next ==
    \/ Start \/ Down \/ Walked \/ SaveFails \/ Truncate \/ Write \/ Insert \/ SaveAll
    \/ \E i \in Ids : Add(i) \/ Update(i) \/ Rate(i) \/ Delete(i) \/ Archive(i) \/ Restore(i) \/ Merge(i) \/ Pop(i)

Spec == Init /\ [][Next]_vars

------------------------------------------------------------------------------
\* Every variable has values of its kind.
TypeOK ==
    /\ {pool, file} \subseteq [Pools -> [Ids -> 0..MaxRevision]] /\ older \subseteq Ids
    /\ at \in Pools \cup {"down", "idle", "open", "write"} /\ op \in Ids \cup {None}

InFile(i) == {At(p, file[p][i]) : p \in {q \in Pools : file[q][i] > 0}}

\* What a tool confirmed is not undone by a later save, a crash or a restart:
\* a readable file has each memory where the last confirmed call put it, or
\* where it was at some time after, unless the worker moved a memory while a
\* save collected (MemoryStore.save, load, the tools).
ConfirmedStays ==
    disk # "torn" /\ ~overlapped =>
        \A i \in Ids : IF InFile(i) = {} THEN Nowhere \in since[i] ELSE InFile(i) \subseteq since[i]

\* A memory that the file has is in one pool of it.
OneCopy == \A i \in Ids : Cardinality(InFile(i)) <= 1

\* A memory that the file has is in every later file that can be read: only a
\* purge takes one away, which no tool offers.
NeverLost == [][\A i \in Ids : InFile(i) # {} /\ disk' # "torn" => InFile(i)' # {}]_vars

\* There is always a file that can be read.
AlwaysReadable == disk # "torn"
==============================================================================
