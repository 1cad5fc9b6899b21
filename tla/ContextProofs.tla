----------------------------- MODULE ContextProofs -----------------------------
(* What TLAPS proves of what the agent knows, for any number of memories,      *)
(* files, messages, saves and queries: MemoryFiles keeps what a tool confirmed *)
(* through saves, crashes and restarts; PromptBuild shows what the loop wrote  *)
(* last, uses the budgets and replays what it built; Recovery loads what was   *)
(* saved, along a shortest chain of migrations; Retrieval returns the kinds    *)
(* asked for, a better memory not after a worse one.                           *)

EXTENDS MCContext, Subsequences, Integers, FiniteSetTheorems, SequenceTheorems,
        WellFoundedInduction, TLAPS

------------------------------------------------------------------------------
(* The file of the memories *)

\* A memory that f has, has it at one of the places; one that f has not may be
\* nowhere.
Told(f, i, places) ==
    /\ \A p \in Pools : f[p][i] > 0 => At(p, f[p][i]) \in places
    /\ (\A p \in Pools : f[p][i] = 0) => Nowhere \in places

Single(f) == \A i \in Ids, p, q \in Pools : f[p][i] > 0 /\ f[q][i] > 0 => p = q

FileContents == [Pools -> [Ids -> Nat]]

FileTypes ==
    /\ {pool, file, data} \subseteq FileContents
    /\ walk \in [Ids -> Nat]
    /\ popped # None => popped \in [id : Ids, revision : Nat \ {0}]
    /\ at \in Pools \cup {"down", "idle", "open", "write"}
    /\ op # None => op \in Ids
    /\ DOMAIN since = Ids /\ DOMAIN fresh = Ids

\* The places that the present call has to leave a memory at.
Due(i) == IF op = i THEN fresh[i] ELSE since[i]

Saving == at \in Pools \cup {"open", "write"}

\* The file tells of every memory what was confirmed.
FileTold == disk # "torn" => Single(file) /\ \A i \in Ids : Told(file, i, since[i])

\* So do the pools, also of the call that is to be confirmed.
PoolsTold ==
    /\ Single(pool)
    /\ popped # None => \A p \in Pools : pool[p][popped.id] = 0
    /\ at = "down" => popped = None
    /\ at # "down" => \A i \in Ids : Told(pool, i, since[i])
    /\ Saving => \A i \in Ids : Told(pool, i, Due(i))
    /\ ~Saving => op = None

\* And so does what save has collected: as far as it got, it is what the pools
\* are, since no memory is on its way.
DataTold ==
    /\ at \in Pools => popped = None /\ walk = pool[at]
    /\ at \in {"archived", "deleted"} => data["active"] = pool["active"]
    /\ at = "deleted" => data["archived"] = pool["archived"]
    /\ at \in {"open", "write"} => Single(data) /\ \A i \in Ids : Told(data, i, Due(i))

\* Every memory of the file can be read.
Readable == Migratable \/ older = {}

\* The inductive invariant.
FilesInv == FileTypes /\ (~overlapped => FileTold /\ PoolsTold /\ DataTold)

------------------------------------------------------------------------------
\* The numbers of a memory, pool by pool.
LEMMA RevisionType ==
    ASSUME NEW f \in FileContents, NEW p \in Pools, NEW i \in Ids
    PROVE  f[p][i] \in Nat
BY DEF FileContents

\* Nothing is in no pool.
LEMMA NothingTyped == NoData \in FileContents /\ Nothing \in [Ids -> Nat] /\ Single(NoData)
BY DEF NoData, Nothing, FileContents, Single

\* More places are allowed, so the same is told.
LEMMA MoreTold ==
    ASSUME NEW f, NEW i, NEW places, NEW more, Told(f, i, places), places \subseteq more
    PROVE  Told(f, i, more)
BY DEF Told

\* At the start only the file tells of memories.
LEMMA InitTold == Init => FilesInv
<1> SUFFICES ASSUME Init
             PROVE  FilesInv
  OBVIOUS
<1>1. file = NoData \/ \E i \in Ids : file = [NoData EXCEPT !["active"][i] = 1]
  BY Zenon DEF Init
<1>2. file \in FileContents
  <2>1. CASE file = NoData
    BY <2>1, NothingTyped
  <2>2. ASSUME NEW i \in Ids, file = [NoData EXCEPT !["active"][i] = 1]
        PROVE  file \in FileContents
    BY <2>2 DEF FileContents, NoData, Nothing, Pools
  <2> QED
    BY <1>1, <2>1, <2>2
<1>3. FileTypes
  <2>1. pool \in FileContents /\ data \in FileContents /\ walk \in [Ids -> Nat]
    BY NothingTyped DEF Init
  <2> QED
    BY <1>2, <2>1 DEF Init, FileTypes, NoPlaces
<1>5. FileTold
  BY <1>1 DEF Init, FileTold, Single, Told, NoData, Nothing, At, Nowhere, Pools
<1>4. PoolsTold /\ DataTold
  BY DEF Init, PoolsTold, DataTold, Saving, Single, NoData, Nothing, Pools
<1> QED
  BY <1>3, <1>4, <1>5 DEF FilesInv

\* load: what the file tells, the pools tell, when no memory is left out.
LEMMA StartKeeps ==
    ASSUME Readable, FilesInv, Start
    PROVE  FilesInv'
<1>1. pool' = [p \in Pools |-> [i \in Ids |-> file[p][i]]]
  BY DEF Start, Deserialized, Readable
<1>2. pool' = file
  BY <1>1 DEF FilesInv, FileTypes, FileContents
<1>3. FileTypes'
  BY <1>2 DEF Start, FilesInv, FileTypes
<1>4. ASSUME ~overlapped
      PROVE  FileTold' /\ PoolsTold' /\ DataTold'
  <2>1. FileTold /\ popped = None /\ op = None
    BY <1>4 DEF FilesInv, PoolsTold, Start, Saving, Pools
  <2>2. FileTold'
    BY <2>1 DEF FileTold, Start
  <2>3. PoolsTold'
    BY <1>2, <2>1, <2>2 DEF FileTold, Start, PoolsTold, Saving, Pools
  <2> QED
    BY <2>2, <2>3 DEF DataTold, Start, Pools
<1> QED
  BY <1>3, <1>4 DEF FilesInv, Start

\* A crash, or the end of the program.
LEMMA DownKeeps ==
    ASSUME FilesInv, Down
    PROVE  FilesInv'
<1>1. FileTypes'
  <2>1. {pool', file', data'} \subseteq FileContents
    BY NothingTyped DEF Down, FilesInv, FileTypes
  <2>2. walk' \in [Ids -> Nat]
    BY NothingTyped DEF Down
  <2> QED
    BY <2>1, <2>2 DEF Down, FilesInv, FileTypes, NoPlaces
<1>2. ASSUME ~overlapped
      PROVE  FileTold' /\ PoolsTold' /\ DataTold'
  <2>1. FileTold'
    BY <1>2, NothingTyped DEF FilesInv, FileTold, Down
  <2>2. PoolsTold' /\ DataTold'
    BY NothingTyped DEF Down, PoolsTold, DataTold, Saving, Pools
  <2> QED
    BY <2>1, <2>2
<1> QED
  BY <1>1, <1>2 DEF FilesInv, Down

------------------------------------------------------------------------------
\* Where the pools agree, they tell the same.
LEMMA SameTold ==
    ASSUME NEW f, NEW g, NEW i, NEW places, Told(f, i, places), \A p \in Pools : g[p][i] = f[p][i]
    PROVE  Told(g, i, places)
BY DEF Told

\* A tool changes one memory, and the new place is all that is due of it.
LEMMA CallKeeps ==
    ASSUME FilesInv, at = "idle", NEW i \in Ids, NEW spot, Call(i, spot),
           pool' \in FileContents,
           ~overlapped =>
              /\ \A p \in Pools, j \in Ids \ {i} : pool'[p][j] = pool[p][j]
              /\ Single(pool')
              /\ Told(pool', i, {spot})
    PROVE  FilesInv'
<1>1. FileTypes'
  <2>1. walk' \in [Ids -> Nat] /\ data' \in FileContents
    BY NothingTyped DEF Call, FileContents, Pools
  <2>2. DOMAIN since' = Ids /\ DOMAIN fresh' = Ids
    BY DEF Call, FilesInv, FileTypes, NoPlaces
  <2> QED
    BY <2>1, <2>2 DEF Call, FilesInv, FileTypes, Pools
<1>2. ASSUME ~overlapped'
      PROVE  FileTold' /\ PoolsTold' /\ DataTold'
  <2>1. ~overlapped /\ popped = None /\ popped' = None /\ FileTold /\ PoolsTold
    BY <1>2 DEF Call, FilesInv
  <2>2. /\ since' = [since EXCEPT ![i] = @ \cup {spot}]
        /\ fresh' = [fresh EXCEPT ![i] = {spot}]
        /\ op' = i /\ at' = "active" /\ walk' = pool'["active"]
        /\ UNCHANGED <<disk, file>>
    BY <1>2 DEF Call
  <2>3. \A j \in Ids : since[j] \subseteq since'[j]
    BY <2>2 DEF FilesInv, FileTypes
  <2>4. spot \in since'[i] /\ fresh'[i] = {spot}
    BY <2>2 DEF FilesInv, FileTypes
  <2>5. FileTold'
    <3>1. ASSUME disk # "torn", NEW j \in Ids
          PROVE  Told(file, j, since'[j])
      BY <3>1, <2>1, <2>3, MoreTold DEF FileTold
    <3> QED
      BY <3>1, <2>1, <2>2 DEF FileTold
  <2>6. ASSUME NEW j \in Ids
        PROVE  Told(pool', j, since'[j]) /\ Told(pool', j, Due(j)')
    <3>1. CASE j = i
      <4>1. Told(pool', j, since'[j])
        BY <2>1, <2>4, <3>1, MoreTold
      <4>2. Due(j)' = {spot}
        BY <2>2, <2>4, <3>1 DEF Due
      <4> QED
        BY <2>1, <3>1, <4>1, <4>2
    <3>2. CASE j # i
      <4>1. Told(pool, j, since[j]) /\ \A p \in Pools : pool'[p][j] = pool[p][j]
        BY <2>1, <3>2 DEF PoolsTold
      <4>2. since'[j] = since[j] /\ Due(j)' = since'[j]
        BY <2>2, <3>2 DEF Due, FilesInv, FileTypes
      <4> QED
        BY <4>1, <4>2, SameTold
    <3> QED
      BY <3>1, <3>2
  <2>7. PoolsTold'
    BY <2>1, <2>2, <2>6 DEF PoolsTold, Saving, Pools
  <2>8. DataTold'
    BY <2>1, <2>2 DEF DataTold, Pools
  <2> QED
    BY <2>5, <2>7, <2>8
<1> QED
  BY <1>1, <1>2 DEF FilesInv

\* A new memory: no pool has it, nor a worker.
LEMMA AddKeeps ==
    ASSUME FilesInv, NEW i \in Ids, Add(i)
    PROVE  FilesInv'
<1>1. /\ at = "idle" /\ \A p \in Pools : ~(pool[p][i] > 0)
      /\ pool' = [pool EXCEPT !["active"][i] = 1]
      /\ Call(i, At("active", 1))
  BY DEF Add, Known
<1>2. pool \in FileContents
  BY DEF FilesInv, FileTypes
<1>3. pool' \in FileContents
  BY <1>1, <1>2 DEF FileContents, Pools
<1>4. \A p \in Pools, j \in Ids : pool'[p][j] = IF p = "active" /\ j = i THEN 1 ELSE pool[p][j]
  BY <1>1, <1>2 DEF FileContents, Pools
<1>5. \A p \in Pools : pool[p][i] = 0
  BY <1>1, <1>2, RevisionType
<1>6. Told(pool', i, {At("active", 1)})
  BY <1>4, <1>5 DEF Told, Pools
<1>7. ASSUME ~overlapped
      PROVE  Single(pool')
  BY <1>4, <1>5, <1>7 DEF FilesInv, PoolsTold, Single
<1>8. \A p \in Pools, j \in Ids \ {i} : pool'[p][j] = pool[p][j]
  BY <1>4
<1> QED
  BY <1>1, <1>3, <1>6, <1>7, <1>8, CallKeeps, Zenon

\* What is in one pool is in no other.
LEMMA InOnePool ==
    ASSUME NEW f \in FileContents, Single(f), NEW p \in Pools, NEW i \in Ids, f[p][i] > 0
    PROVE  \A q \in Pools \ {p} : f[q][i] = 0
BY RevisionType DEF Single

\* A new revision, of what is in the active pool.
LEMMA RevisedTold ==
    ASSUME FilesInv, NEW i \in Ids, pool["active"][i] \in 1..(MaxRevision - 1),
           pool' = [pool EXCEPT !["active"][i] = @ + 1]
    PROVE  /\ pool' \in FileContents
           /\ \A p \in Pools, j \in Ids \ {i} : pool'[p][j] = pool[p][j]
           /\ ~overlapped => Single(pool') /\ Told(pool', i, {At("active", pool["active"][i] + 1)})
           /\ ~overlapped => \A p \in Pools, j \in Ids : pool'[p][j] > 0 <=> pool[p][j] > 0
<1>1. pool \in FileContents /\ pool["active"][i] \in Nat /\ pool["active"][i] > 0
  BY DEF FilesInv, FileTypes, FileContents, Pools
<1>2. pool' \in FileContents
  BY <1>1 DEF FileContents, Pools
<1>3. \A p \in Pools, j \in Ids :
        pool'[p][j] = IF p = "active" /\ j = i THEN pool["active"][i] + 1 ELSE pool[p][j]
  BY <1>1 DEF FileContents, Pools
<1>4. ASSUME ~overlapped
      PROVE  Single(pool') /\ Told(pool', i, {At("active", pool["active"][i] + 1)})
  <2>1. Single(pool)
    BY <1>4 DEF FilesInv, PoolsTold
  <2>2. \A q \in Pools \ {"active"} : pool[q][i] = 0
    BY <1>1, <2>1, InOnePool DEF Pools
  <2>3. Single(pool')
    BY <1>1, <1>3, <2>1, <2>2 DEF Single
  <2>4. Told(pool', i, {At("active", pool["active"][i] + 1)})
    BY <1>1, <1>3, <2>2 DEF Told, Pools
  <2> QED
    BY <2>3, <2>4
<1> QED
  BY <1>1, <1>2, <1>3, <1>4

\* memory_update and memory_feedback.
LEMMA UpdateKeeps ==
    ASSUME FilesInv, NEW i \in Ids, Update(i)
    PROVE  FilesInv'
BY RevisedTold, CallKeeps DEF Update

\* From one pool to another one.
LEMMA MoveKeeps ==
    ASSUME FilesInv, NEW i \in Ids, NEW from \in Pools, NEW to \in Pools, from # to, Move(i, from, to)
    PROVE  FilesInv'
<1>1. /\ at = "idle" /\ pool[from][i] > 0
      /\ pool' = [pool EXCEPT ![from][i] = 0, ![to][i] = pool[from][i]]
      /\ Call(i, At(to, pool[from][i]))
  BY DEF Move
<1>2. pool \in FileContents /\ pool[from][i] \in Nat
  BY DEF FilesInv, FileTypes, FileContents
<1>3. pool' \in FileContents
  BY <1>1, <1>2 DEF FileContents
<1>4. \A p \in Pools, j \in Ids :
        pool'[p][j] = IF j = i /\ p = to THEN pool[from][i]
                      ELSE IF j = i /\ p = from THEN 0 ELSE pool[p][j]
  BY <1>1, <1>2 DEF FileContents
<1>5. ASSUME ~overlapped
      PROVE  Single(pool') /\ Told(pool', i, {At(to, pool[from][i])})
  <2>1. Single(pool)
    BY <1>5 DEF FilesInv, PoolsTold
  <2>2. \A q \in Pools \ {from} : pool[q][i] = 0
    BY <1>1, <1>2, <2>1, InOnePool
  <2>3. Single(pool')
    <3>1. \A p \in Pools : pool'[p][i] > 0 => p = to
      BY <1>4, <2>2
    <3>2. \A p \in Pools, j \in Ids \ {i} : pool'[p][j] = pool[p][j]
      BY <1>4
    <3> QED
      BY <2>1, <3>1, <3>2 DEF Single
  <2>4. Told(pool', i, {At(to, pool[from][i])})
    <3>1. pool'[to][i] = pool[from][i] /\ \A p \in Pools \ {to} : pool'[p][i] = 0
      BY <1>4, <2>2
    <3>2. ASSUME NEW p \in Pools, pool'[p][i] > 0
          PROVE  At(p, pool'[p][i]) \in {At(to, pool[from][i])}
      BY <3>1, <3>2
    <3>3. ~(\A p \in Pools : pool'[p][i] = 0)
      BY <1>1, <1>2, <3>1
    <3> QED
      BY <3>2, <3>3 DEF Told
  <2> QED
    BY <2>3, <2>4
<1>6. \A p \in Pools, j \in Ids \ {i} : pool'[p][j] = pool[p][j]
  BY <1>4
<1> QED
  BY <1>1, <1>3, <1>5, <1>6, CallKeeps, Zenon

------------------------------------------------------------------------------
\* A memory comes to a place while no save collects: that is one more place
\* that it may be at.
LEMMA ComesKeeps ==
    ASSUME FilesInv, NEW i \in Ids, NEW spot, NEW overlap, Comes(i, spot, overlap),
           UNCHANGED <<disk, file, at, walk, data, op>>,
           pool' \in FileContents,
           popped' # None => popped' \in [id : Ids, revision : Nat \ {0}],
           ~overlapped /\ ~overlap =>
              /\ at \notin Pools /\ at # "down"
              /\ \A p \in Pools, j \in Ids \ {i} : pool'[p][j] = pool[p][j]
              /\ Single(pool') /\ Told(pool', i, {spot})
              /\ popped' # None => \A p \in Pools : pool'[p][popped'.id] = 0
    PROVE  FilesInv'
<1>1. FileTypes'
  <2>1. DOMAIN since' = Ids /\ DOMAIN fresh' = Ids
    BY DEF Comes, FilesInv, FileTypes, NoPlaces
  <2> QED
    BY <2>1 DEF FilesInv, FileTypes
<1>2. ASSUME ~overlapped'
      PROVE  FileTold' /\ PoolsTold' /\ DataTold'
  <2>1. ~overlapped /\ ~overlap /\ FileTold /\ PoolsTold /\ DataTold
    BY <1>2 DEF Comes, FilesInv
  <2>2. /\ since' = [since EXCEPT ![i] = @ \cup {spot}]
        /\ fresh' = [fresh EXCEPT ![i] = @ \cup {spot}]
    BY <1>2 DEF Comes
  <2>3. \A j \in Ids : since[j] \subseteq since'[j] /\ fresh[j] \subseteq fresh'[j]
    BY <2>2 DEF FilesInv, FileTypes
  <2>4. spot \in since'[i] /\ spot \in fresh'[i]
    BY <2>2 DEF FilesInv, FileTypes
  <2>5. FileTold'
    <3>1. ASSUME disk # "torn", NEW j \in Ids
          PROVE  Told(file, j, since'[j])
      BY <3>1, <2>1, <2>3, MoreTold DEF FileTold
    <3> QED
      BY <3>1, <2>1 DEF FileTold
  <2>6. \A j \in Ids : Due(j) \subseteq Due(j)' /\ spot \in Due(i)'
    BY <2>3, <2>4 DEF Due
  <2>7. ASSUME NEW j \in Ids
        PROVE  Told(pool', j, since'[j]) /\ (Saving => Told(pool', j, Due(j)'))
    <3>1. CASE j = i
      BY <2>1, <2>4, <2>6, <3>1, MoreTold
    <3>2. CASE j # i
      <4>1. \A p \in Pools : pool'[p][j] = pool[p][j]
        BY <2>1, <3>2
      <4>2. Told(pool, j, since[j]) /\ (Saving => Told(pool, j, Due(j)))
        BY <2>1 DEF PoolsTold
      <4>3. Told(pool', j, since[j]) /\ (Saving => Told(pool', j, Due(j)))
        BY <4>1, <4>2, SameTold
      <4> QED
        BY <2>3, <2>6, <4>3, MoreTold
    <3> QED
      BY <3>1, <3>2
  <2>8. PoolsTold'
    BY <2>1, <2>7 DEF PoolsTold, Saving
  <2>9. DataTold'
    <3>1. ASSUME at \in {"open", "write"}, NEW j \in Ids
          PROVE  Told(data, j, Due(j)')
      BY <3>1, <2>1, <2>6, MoreTold DEF DataTold
    <3> QED
      BY <3>1, <2>1 DEF DataTold, Pools
  <2> QED
    BY <2>5, <2>8, <2>9
<1> QED
  BY <1>1, <1>2 DEF FilesInv, Comes

\* A text that is already there.
LEMMA MergeKeeps ==
    ASSUME FilesInv, NEW i \in Ids, Merge(i)
    PROVE  FilesInv'
<1>1. /\ at = "idle" /\ pool["active"][i] \in 1..(MaxRevision - 1)
      /\ pool' = [pool EXCEPT !["active"][i] = @ + 1]
      /\ Comes(i, At("active", pool["active"][i] + 1), FALSE)
      /\ UNCHANGED <<popped, disk, file, at, walk, data, op>>
  BY DEF Merge
<1>2. popped' # None => popped' \in [id : Ids, revision : Nat \ {0}]
  BY <1>1 DEF FilesInv, FileTypes
<1>3. /\ pool' \in FileContents
      /\ \A p \in Pools, j \in Ids \ {i} : pool'[p][j] = pool[p][j]
      /\ ~overlapped => Single(pool') /\ Told(pool', i, {At("active", pool["active"][i] + 1)})
      /\ ~overlapped => \A p \in Pools, j \in Ids : pool'[p][j] > 0 <=> pool[p][j] > 0
  BY <1>1, RevisedTold
<1>4. ASSUME ~overlapped, popped' # None
      PROVE  \A p \in Pools : pool'[p][popped'.id] = 0
  <2>1. popped'.id \in Ids /\ \A p \in Pools : pool[p][popped'.id] = 0
    BY <1>1, <1>2, <1>4 DEF FilesInv, PoolsTold
  <2>2. \A p \in Pools : pool'[p][popped'.id] \in Nat
    BY <1>3, <2>1, RevisionType
  <2> QED
    BY <1>3, <1>4, <2>1, <2>2
<1>5. at \notin Pools /\ at # "down"
  BY <1>1 DEF Pools
<1> QED
  BY <1>1, <1>2, <1>3, <1>4, <1>5, ComesKeeps, Zenon

\* The worker takes a memory out of the active pool.
LEMMA PopKeeps ==
    ASSUME FilesInv, NEW i \in Ids, Pop(i)
    PROVE  FilesInv'
<1>1. /\ at # "down" /\ pool["active"][i] > 0
      /\ pool' = [pool EXCEPT !["active"][i] = 0]
      /\ popped' = [id |-> i, revision |-> pool["active"][i]]
      /\ Comes(i, Nowhere, at \in Pools)
      /\ UNCHANGED <<disk, file, at, walk, data, op>>
  BY DEF Pop
<1>2. pool \in FileContents /\ pool["active"][i] \in Nat
  BY DEF FilesInv, FileTypes, FileContents, Pools
<1>3. pool' \in FileContents /\ popped' \in [id : Ids, revision : Nat \ {0}]
  BY <1>1, <1>2 DEF FileContents, Pools
<1>4. \A p \in Pools, j \in Ids : pool'[p][j] = IF p = "active" /\ j = i THEN 0 ELSE pool[p][j]
  BY <1>1, <1>2 DEF FileContents, Pools
<1>5. \A p \in Pools, j \in Ids \ {i} : pool'[p][j] = pool[p][j]
  BY <1>4
<1>6. ASSUME ~overlapped
      PROVE  Single(pool') /\ \A p \in Pools : pool'[p][i] = 0
  <2>1. Single(pool)
    BY <1>6 DEF FilesInv, PoolsTold
  <2>2. \A p \in Pools : pool'[p][i] = 0
    BY <1>1, <1>2, <1>4, <2>1, InOnePool DEF Pools
  <2> QED
    BY <1>5, <2>1, <2>2 DEF Single
<1>7. ~overlapped => Told(pool', i, {Nowhere})
  BY <1>6 DEF Told
<1>8. popped'.id = i
  BY <1>1
<1>9. ~overlapped /\ ~(at \in Pools) =>
        /\ at \notin Pools /\ at # "down"
        /\ \A p \in Pools, j \in Ids \ {i} : pool'[p][j] = pool[p][j]
        /\ Single(pool') /\ Told(pool', i, {Nowhere})
        /\ popped' # None => \A p \in Pools : pool'[p][popped'.id] = 0
  BY <1>1, <1>5, <1>6, <1>7, <1>8
<1> QED
  BY <1>1, <1>3, <1>9, ComesKeeps, Zenon

\* ... and puts it into the archive.
LEMMA InsertKeeps ==
    ASSUME FilesInv, Insert
    PROVE  FilesInv'
<1>1. /\ popped # None
      /\ pool' = [pool EXCEPT !["archived"][popped.id] = popped.revision]
      /\ popped' = None
      /\ Comes(popped.id, At("archived", popped.revision), at \in Pools)
      /\ UNCHANGED <<disk, file, at, walk, data, op>>
  BY DEF Insert
<1>2. popped.id \in Ids /\ popped.revision \in Nat \ {0} /\ pool \in FileContents
  BY <1>1 DEF FilesInv, FileTypes
<1>3. pool' \in FileContents
  BY <1>1, <1>2 DEF FileContents, Pools
<1>4. \A p \in Pools, j \in Ids :
        pool'[p][j] = IF p = "archived" /\ j = popped.id THEN popped.revision ELSE pool[p][j]
  BY <1>1, <1>2 DEF FileContents, Pools
<1>5. \A p \in Pools, j \in Ids \ {popped.id} : pool'[p][j] = pool[p][j]
  BY <1>4
<1>6. ASSUME ~overlapped
      PROVE  /\ at # "down"
             /\ Single(pool') /\ Told(pool', popped.id, {At("archived", popped.revision)})
  <2>1. Single(pool) /\ at # "down" /\ \A p \in Pools : pool[p][popped.id] = 0
    BY <1>1, <1>6 DEF FilesInv, PoolsTold
  <2>2. /\ pool'["archived"][popped.id] = popped.revision
        /\ \A p \in Pools \ {"archived"} : pool'[p][popped.id] = 0
    BY <1>4, <2>1, <1>2 DEF Pools
  <2>3. Single(pool')
    <3>1. \A p \in Pools : pool'[p][popped.id] > 0 => p = "archived"
      BY <2>2
    <3> QED
      BY <1>5, <2>1, <3>1 DEF Single
  <2>4. Told(pool', popped.id, {At("archived", popped.revision)})
    BY <1>2, <2>2 DEF Told, Pools
  <2> QED
    BY <2>1, <2>3, <2>4
<1>7. ~overlapped /\ ~(at \in Pools) =>
        /\ at \notin Pools /\ at # "down"
        /\ \A p \in Pools, j \in Ids \ {popped.id} : pool'[p][j] = pool[p][j]
        /\ Single(pool') /\ Told(pool', popped.id, {At("archived", popped.revision)})
        /\ popped' # None => \A p \in Pools : pool'[p][popped'.id] = 0
  BY <1>1, <1>5, <1>6
<1> QED
  BY <1>1, <1>2, <1>3, <1>7, ComesKeeps, Zenon

------------------------------------------------------------------------------
(* save *)

\* The places that are due are the ones that the pools tell.
LEMMA SaveAllKeeps ==
    ASSUME None \notin Ids, FilesInv, SaveAll
    PROVE  FilesInv'
<1>1. FileTypes'
  <2>1. walk' \in [Ids -> Nat] /\ data' \in FileContents
    BY NothingTyped DEF SaveAll, FilesInv, FileTypes, FileContents, Pools
  <2> QED
    BY <2>1 DEF SaveAll, FilesInv, FileTypes, NoPlaces, Pools
<1>2. ASSUME ~overlapped'
      PROVE  FileTold' /\ PoolsTold' /\ DataTold'
  <2>1. /\ ~overlapped /\ popped = None /\ FileTold /\ PoolsTold
        /\ at = "idle" /\ at' = "active" /\ op = None /\ walk' = pool["active"]
        /\ UNCHANGED <<pool, popped, since, fresh, op, file, disk>>
    BY <1>2 DEF SaveAll, FilesInv, PoolsTold, Saving, Pools
  <2>2. FileTold'
    BY <2>1 DEF FileTold
  <2>3. ASSUME NEW i \in Ids
        PROVE  Told(pool', i, since'[i]) /\ Told(pool', i, Due(i)')
    BY <2>1 DEF PoolsTold, Due
  <2>4. PoolsTold'
    BY <2>1, <2>3 DEF PoolsTold, Saving, Pools
  <2> QED
    BY <2>1, <2>2, <2>4 DEF DataTold, Pools
<1> QED
  BY <1>1, <1>2 DEF FilesInv

\* One pool after the other is collected, as it is.
LEMMA WalkedKeeps ==
    ASSUME FilesInv, Walked
    PROVE  FilesInv'
<1>1. /\ at \in Pools /\ data' = [data EXCEPT ![at] = walk]
      /\ walk' = IF at' \in Pools THEN pool[at'] ELSE Nothing
      /\ UNCHANGED <<pool, popped, disk, file, op, overlapped, since, fresh>>
  BY DEF Walked
<1>2. /\ at = "active" => at' = "archived"
      /\ at = "archived" => at' = "deleted"
      /\ at = "deleted" => at' = "open"
  BY DEF Walked, After
<1>3. FileTypes'
  <2>1. data' \in FileContents
    BY <1>1 DEF FilesInv, FileTypes, FileContents
  <2>2. walk' \in [Ids -> Nat]
    BY <1>1, NothingTyped DEF FilesInv, FileTypes, FileContents
  <2> QED
    BY <1>1, <1>2, <2>1, <2>2 DEF FilesInv, FileTypes, Pools
<1>4. ASSUME ~overlapped
      PROVE  FileTold' /\ PoolsTold' /\ DataTold'
  <2>1. FileTold /\ PoolsTold /\ DataTold /\ walk = pool[at] /\ popped = None
    BY <1>1, <1>4 DEF FilesInv, DataTold
  <2>2. FileTold'
    BY <1>1, <2>1 DEF FileTold
  <2>3. at' # "down" /\ at' # "idle" /\ at' \in Pools \cup {"open"}
    BY <1>1, <1>2 DEF Pools
  <2>4. \A i \in Ids : Due(i)' = Due(i)
    BY <1>1 DEF Due
  <2>5. PoolsTold'
    BY <1>1, <2>1, <2>3, <2>4 DEF PoolsTold, Saving, Pools
  <2>6. data'[at] = pool[at] /\ \A p \in Pools \ {at} : data'[p] = data[p]
    BY <1>1, <2>1 DEF FilesInv, FileTypes, FileContents
  <2>7. CASE at = "deleted"
    <3>1. data' = pool
      <4>1. \A p \in Pools : data'[p] = pool[p]
        BY <2>1, <2>6, <2>7 DEF DataTold, Pools
      <4>2. data' \in FileContents /\ pool \in FileContents
        BY <1>3 DEF FilesInv, FileTypes
      <4> QED
        BY <4>1, <4>2 DEF FileContents
    <3>2. Single(pool) /\ \A i \in Ids : Told(pool, i, Due(i))
      BY <1>1, <2>1 DEF PoolsTold, Saving
    <3>3. Single(data')
      BY <3>1, <3>2 DEF Single
    <3>4. ASSUME NEW i \in Ids
          PROVE  Told(data', i, Due(i)')
      BY <2>4, <3>1, <3>2 DEF Told
    <3>5. at' = "open"
      BY <1>2, <2>7
    <3> QED
      BY <2>2, <2>5, <3>3, <3>4, <3>5 DEF DataTold, Pools
  <2>8. CASE at # "deleted"
    <3>1. at' \in {"archived", "deleted"} /\ popped' = None /\ walk' = pool'[at']
      BY <1>1, <1>2, <2>1, <2>8 DEF Pools
    <3>2. data'["active"] = pool'["active"]
      BY <1>1, <2>1, <2>6, <2>8 DEF DataTold, Pools
    <3>3. at' = "deleted" => data'["archived"] = pool'["archived"]
      BY <1>1, <1>2, <2>6, <2>8 DEF Pools
    <3> QED
      BY <2>2, <2>5, <3>1, <3>2, <3>3 DEF DataTold, Pools
  <2> QED
    BY <2>2, <2>5, <2>7, <2>8
<1> QED
  BY <1>1, <1>3, <1>4 DEF FilesInv

\* A save that fails leaves the file as it is.
LEMMA SaveFailsKeeps ==
    ASSUME FilesInv, SaveFails
    PROVE  FilesInv'
<1>1. FileTypes'
  <2>1. data' \in FileContents /\ walk' \in [Ids -> Nat]
    BY NothingTyped DEF SaveFails, Idle
  <2> QED
    BY <2>1 DEF SaveFails, Idle, FilesInv, FileTypes, NoPlaces
<1>2. ASSUME ~overlapped
      PROVE  FileTold' /\ PoolsTold' /\ DataTold'
  <2>1. FileTold /\ PoolsTold /\ at # "down"
    BY <1>2 DEF FilesInv, SaveFails, Pools
  <2> QED
    BY <2>1 DEF SaveFails, Idle, FileTold, PoolsTold, DataTold, Saving, Pools
<1> QED
  BY <1>1, <1>2 DEF FilesInv, SaveFails

\* The file is opened.
LEMMA TruncateKeeps ==
    ASSUME FilesInv, Truncate
    PROVE  FilesInv'
<1>1. FileTypes'
  BY DEF Truncate, FilesInv, FileTypes
<1>2. \A i \in Ids : Due(i)' = Due(i)
  BY DEF Truncate, Due
<1>3. ASSUME ~overlapped
      PROVE  FileTold' /\ PoolsTold' /\ DataTold'
  BY <1>2, <1>3 DEF Truncate, FilesInv, FileTold, PoolsTold, DataTold, Saving, Pools
<1> QED
  BY <1>1, <1>3 DEF FilesInv, Truncate

\* What was collected is in the file, and what was due is confirmed.
LEMMA WriteKeeps ==
    ASSUME None \notin Ids, FilesInv, Write
    PROVE  FilesInv'
<1>1. DOMAIN since' = Ids /\ \A i \in Ids : since'[i] = Due(i)
  BY DEF Write, FilesInv, FileTypes, Due
<1>2. FileTypes'
  <2>1. data' \in FileContents /\ walk' \in [Ids -> Nat]
    BY NothingTyped DEF Write, Idle
  <2> QED
    BY <1>1, <2>1 DEF Write, Idle, FilesInv, FileTypes, NoPlaces
<1>3. ASSUME ~overlapped
      PROVE  FileTold' /\ PoolsTold' /\ DataTold'
  <2>1. PoolsTold /\ Saving /\ Single(data) /\ \A i \in Ids : Told(data, i, Due(i))
    BY <1>3 DEF Write, FilesInv, DataTold, Saving
  <2>2. FileTold'
    BY <1>1, <2>1 DEF Write, FileTold
  <2>3. /\ at' = "idle" /\ op' = None /\ UNCHANGED <<pool, popped>>
        /\ \A i \in Ids : Told(pool', i, since'[i])
    BY <1>1, <2>1 DEF Write, Idle, PoolsTold
  <2> QED
    BY <2>1, <2>2, <2>3 DEF PoolsTold, DataTold, Saving, Pools
<1> QED
  BY <1>2, <1>3 DEF FilesInv, Write

------------------------------------------------------------------------------
\* A save writes the present version only.
LEMMA ReadableKeeps ==
    ASSUME Readable, [Next]_vars
    PROVE  Readable'
BY DEF Readable, Next, vars, Start, Down, Walked, SaveFails, Truncate, Write, Insert, SaveAll, Idle,
       Add, Update, Rate, Delete, Archive, Restore, Move, Merge, Pop, Call

\* Every step keeps the invariant.
LEMMA FilesInvariant ==
    ASSUME None \notin Ids, Readable, FilesInv, [Next]_vars
    PROVE  FilesInv'
<1>1. CASE UNCHANGED vars
  <2>1. FileTypes' /\ \A i \in Ids : Due(i)' = Due(i)
    BY <1>1 DEF vars, FilesInv, FileTypes, Due
  <2> QED
    BY <1>1, <2>1 DEF vars, FilesInv, FileTold, PoolsTold, DataTold, Saving
<1>2. ASSUME NEW i \in Ids,
             Add(i) \/ Update(i) \/ Rate(i) \/ Delete(i) \/ Archive(i) \/ Restore(i) \/ Merge(i) \/ Pop(i)
      PROVE  FilesInv'
  <2>1. CASE Add(i)
    BY <2>1, AddKeeps
  <2>2. CASE Update(i) \/ Rate(i)
    BY <2>2, UpdateKeeps DEF Rate
  <2>3. CASE Delete(i) \/ Archive(i)
    BY <2>3, MoveKeeps DEF Delete, Archive, Pools
  <2>4. CASE Restore(i)
    <3>1. CASE pool["archived"][i] > 0
      BY <2>4, <3>1, MoveKeeps DEF Restore, Pools
    <3>2. CASE ~(pool["archived"][i] > 0)
      BY <2>4, <3>2, MoveKeeps DEF Restore, Pools
    <3> QED
      BY <3>1, <3>2
  <2>5. CASE Merge(i)
    BY <2>5, MergeKeeps
  <2>6. CASE Pop(i)
    BY <2>6, PopKeeps
  <2> QED
    BY <1>2, <2>1, <2>2, <2>3, <2>4, <2>5, <2>6
<1> QED
  BY <1>1, <1>2, StartKeeps, DownKeeps, WalkedKeeps, SaveFailsKeeps, TruncateKeeps, WriteKeeps,
     InsertKeeps, SaveAllKeeps DEF Next

\* What a tool confirmed is not undone by a later save, a crash or a restart,
\* if at the start the file has no version that SchemaLayer cannot migrate
\* (MemoryStore.save, load, the tools).
THEOREM ConfirmedStaysAlways ==
    ASSUME None \notin Ids
    PROVE  Readable /\ Spec => []ConfirmedStays
<1>1. Init => FilesInv
  BY InitTold
<1>2. Readable /\ FilesInv /\ [Next]_vars => Readable' /\ FilesInv'
  BY FilesInvariant, ReadableKeeps
<1>3. FilesInv => ConfirmedStays
  <2> SUFFICES ASSUME FilesInv, disk # "torn", ~overlapped, NEW i \in Ids
               PROVE  IF InFile(i) = {} THEN Nowhere \in since[i] ELSE InFile(i) \subseteq since[i]
    BY DEF ConfirmedStays
  <2>1. Told(file, i, since[i]) /\ file \in FileContents
    BY DEF FilesInv, FileTold, FileTypes
  <2>2. InFile(i) \subseteq since[i]
    BY <2>1 DEF InFile, Told
  <2>3. ASSUME InFile(i) = {}
        PROVE  Nowhere \in since[i]
    <3>1. \A p \in Pools : ~(file[p][i] > 0)
      BY <2>3 DEF InFile
    <3> QED
      BY <2>1, <3>1, RevisionType DEF Told
  <2> QED
    BY <2>2, <2>3
<1> QED
  BY <1>1, <1>2, <1>3, PTL DEF Spec

\* As long as no save overlaps with a move, the file has a memory in one pool at
\* most (MemoryStore.save).
THEOREM OneCopyBeforeOverlap ==
    ASSUME None \notin Ids
    PROVE  Readable /\ Spec => [](disk # "torn" /\ ~overlapped => Single(file))
<1>1. Init => FilesInv
  BY InitTold
<1>2. Readable /\ FilesInv /\ [Next]_vars => Readable' /\ FilesInv'
  BY FilesInvariant, ReadableKeeps
<1>3. FilesInv => (disk # "torn" /\ ~overlapped => Single(file))
  BY DEF FilesInv, FileTold
<1> QED
  BY <1>1, <1>2, <1>3, PTL DEF Spec

------------------------------------------------------------------------------
(* Folds *)

\* A set of numbers that is not empty has a least element.
LEMMA HasLeast ==
    ASSUME NEW S \in SUBSET Nat, S # {}
    PROVE  \E m \in S : \A k \in S : m <= k
<1> DEFINE Less == {p \in Nat \X Nat : p[1] < p[2]}
<1>1. PICK m \in S : \A k \in S : <<k, m>> \notin Less
  <2> HIDE DEF Less
  <2>1. IsWellFoundedOn(Less, Nat)
    BY NatLessThanWellFounded DEF Less, OpToRel
  <2> QED
    BY <2>1, WFMin
<1>2. \A k \in S : ~(k < m)
  BY <1>1
<1> QED
  BY <1>2

\* The greatest of a set of places.
Greatest(S) == CHOOSE x \in S : \A y \in S : x >= y

\* The greatest place of a part of a sequence is one of its places.
LEMMA HasGreatest ==
    ASSUME NEW n \in Nat, NEW S \in SUBSET (1 .. n), S # {}
    PROVE  Greatest(S) \in S /\ \A k \in S : k <= Greatest(S)
<1> DEFINE Bounds == {u \in Nat : \A k \in S : k <= u}
<1>1. PICK u \in Bounds : \A v \in Bounds : u <= v
  <2>1. n \in Bounds
    OBVIOUS
  <2> QED
    BY <2>1, HasLeast
<1>2. u \in S
  <2> SUFFICES ASSUME u \notin S PROVE FALSE
    OBVIOUS
  <2>1. \A k \in S : k <= u - 1
    BY <1>1
  <2>2. u - 1 \in Nat
    <3>1. PICK k \in S : TRUE
      OBVIOUS
    <3> QED
      BY <1>1, <2>1, <3>1
  <2> QED
    BY <1>1, <2>1, <2>2
<1> QED
  BY <1>1, <1>2 DEF Greatest

\* The greatest of some places of a sequence is one of them, and the rest are places too.
LEMMA GreatestPlace ==
    ASSUME NEW S, NEW s \in Seq(S), NEW t \in SUBSET (1 .. Len(s)), t # {}
    PROVE  /\ Greatest(t) \in 1 .. Len(s) /\ s[Greatest(t)] \in S
           /\ t \ {Greatest(t)} \in SUBSET (1 .. Len(s))
<1>1. Len(s) \in Nat
  OBVIOUS
<1>2. Greatest(t) \in t
  BY <1>1, HasGreatest
<1>3. Greatest(t) \in 1 .. Len(s)
  BY <1>2
<1>4. s[Greatest(t)] \in S
  BY <1>3, ElementOfSeq
<1>5. t \ {Greatest(t)} \in SUBSET (1 .. Len(s))
  OBVIOUS
<1> QED
  BY <1>3, <1>4, <1>5

\* The values that a fold by the function by passes through, over the parts of a
\* sequence of length n.
Folding(g, T, by, base, s, n) ==
    /\ g \in [SUBSET (1 .. n) -> T]
    /\ \A t \in SUBSET (1 .. n) :
          g[t] = IF t = {} THEN base
                 ELSE by[<<g[t \ {Greatest(t)}], s[Greatest(t)]>>]

\* They exist.
LEMMA FoldingExists ==
    ASSUME NEW T, NEW E, NEW by \in [T \X E -> T], NEW base \in T, NEW s \in Seq(E)
    PROVE  \E g : Folding(g, T, by, base, s, Len(s))
<1> DEFINE Good(k) == \E g : Folding(g, T, by, base, s, k)
           Bad == {k \in 0 .. Len(s) : ~Good(k)}
<1>1. Good(0)
  <2> DEFINE g == [t \in SUBSET (1 .. 0) |-> base]
  <2>1. g \in [SUBSET (1 .. 0) -> T]
    OBVIOUS
  <2>2. \A t \in SUBSET (1 .. 0) : t = {}
    OBVIOUS
  <2>3. Folding(g, T, by, base, s, 0)
    BY <2>1, <2>2 DEF Folding
  <2> QED
    BY <2>3
<1>2. ASSUME NEW k \in 1 .. Len(s), Good(k - 1)
      PROVE  Good(k)
  <2>1. PICK g : Folding(g, T, by, base, s, k - 1)
    BY <1>2
  <2> DEFINE h == [t \in SUBSET (1 .. k) |->
                     IF k \in t THEN by[<<g[t \ {k}], s[k]>>] ELSE g[t]]
  <2>2. \A t \in SUBSET (1 .. k) : t \ {k} \in SUBSET (1 .. k - 1)
    OBVIOUS
  <2>3. s[k] \in E
    OBVIOUS
  <2>4. h \in [SUBSET (1 .. k) -> T]
    <3> SUFFICES ASSUME NEW t \in SUBSET (1 .. k)
                 PROVE  (IF k \in t THEN by[<<g[t \ {k}], s[k]>>] ELSE g[t]) \in T
      OBVIOUS
    <3>1. CASE k \in t
      <4>1. g[t \ {k}] \in T
        BY <2>1, <2>2 DEF Folding
      <4> QED
        BY <3>1, <4>1, <2>3
    <3>2. CASE k \notin t
      <4>1. t \in SUBSET (1 .. k - 1)
        BY <3>2
      <4> QED
        BY <3>2, <4>1, <2>1 DEF Folding
    <3> QED
      BY <3>1, <3>2
  <2>5. ASSUME NEW t \in SUBSET (1 .. k)
        PROVE  h[t] = IF t = {} THEN base
                      ELSE by[<<h[t \ {Greatest(t)}], s[Greatest(t)]>>]
    <3>1. CASE k \in t
      <4>1. Greatest(t) = k
        <5>1. k \in Nat /\ t \in SUBSET (1 .. k) /\ t # {}
          BY <3>1
        <5>2. Greatest(t) \in t /\ \A m \in t : m <= Greatest(t)
          BY <5>1, HasGreatest
        <5>3. Greatest(t) \in 1 .. k /\ k <= Greatest(t)
          BY <3>1, <5>1, <5>2
        <5> QED
          BY <5>1, <5>3
      <4>2. h[t \ {k}] = g[t \ {k}]
        BY <2>2
      <4> QED
        BY <3>1, <4>1, <4>2
    <3>2. CASE k \notin t
      <4>1. t \in SUBSET (1 .. k - 1) /\ h[t] = g[t]
        BY <3>2
      <4>2. CASE t = {}
        BY <4>1, <4>2, <2>1 DEF Folding
      <4>3. CASE t # {}
        <5> DEFINE r == t \ {Greatest(t)}
        <5>1. r \in SUBSET (1 .. k - 1) /\ r \in SUBSET (1 .. k) /\ k \notin r
          BY <3>2, <4>1
        <5>2. h[r] = g[r]
          BY <5>1
        <5> QED
          BY <4>1, <4>3, <5>2, <2>1 DEF Folding
      <4> QED
        BY <4>2, <4>3
    <3> QED
      BY <3>1, <3>2
  <2> HIDE DEF h
  <2>6. Folding(h, T, by, base, s, k)
    BY <2>4, <2>5 DEF Folding
  <2> QED
    BY <2>6
<1>3. Bad = {}
  <2> SUFFICES ASSUME Bad # {} PROVE FALSE
    OBVIOUS
  <2> HIDE DEF Good
  <2>1. PICK k \in Bad : \A m \in Bad : k <= m
    <3>1. Bad \subseteq Nat
      OBVIOUS
    <3> HIDE DEF Bad
    <3> QED
      BY <3>1, HasLeast
  <2>2. k \in 0 .. Len(s) /\ k # 0
    BY <1>1, <2>1
  <2>3. k - 1 \in 0 .. Len(s) /\ k - 1 \notin Bad /\ k \in 1 .. Len(s)
    BY <2>1, <2>2
  <2>4. Good(k - 1)
    BY <2>3
  <2> QED
    BY <1>2, <2>1, <2>3, <2>4
<1>4. Good(Len(s))
  <2> HIDE DEF Good
  <2> QED
    BY <1>3
<1> QED
  BY <1>4

\* And there is but one: what agrees on a part when it does on the part without its
\* greatest place agrees on all.
LEMMA FoldingUnique ==
    ASSUME NEW n \in Nat, NEW f, NEW g, f[{}] = g[{}],
           \A t \in SUBSET (1 .. n) :
              t # {} /\ f[t \ {Greatest(t)}] = g[t \ {Greatest(t)}] => f[t] = g[t]
    PROVE  f[1 .. n] = g[1 .. n]
<1> DEFINE Good(k) == \A t \in SUBSET (1 .. k) : f[t] = g[t]
           Bad == {k \in 0 .. n : ~Good(k)}
<1>1. Good(0)
  <2>1. \A t \in SUBSET (1 .. 0) : t = {}
    OBVIOUS
  <2> QED
    BY <2>1
<1>2. ASSUME NEW k \in 1 .. n, Good(k - 1)
      PROVE  Good(k)
  <2> SUFFICES ASSUME NEW t \in SUBSET (1 .. k), t # {}
               PROVE  f[t] = g[t]
    OBVIOUS
  <2>4. k \in Nat /\ t \in SUBSET (1 .. k)
    OBVIOUS
  <2>1. Greatest(t) \in t /\ \A m \in t : m <= Greatest(t)
    BY <2>4, HasGreatest
  <2>5. Greatest(t) \in 1 .. k
    BY <2>1
  <2>6. \A m \in t \ {Greatest(t)} : m \in 1 .. k /\ m <= Greatest(t) /\ m # Greatest(t)
    BY <2>1
  <2>7. ASSUME NEW m \in t \ {Greatest(t)} PROVE m \in 1 .. k - 1
    <3>1. m \in 1 .. k /\ m < Greatest(t)
      BY <2>5, <2>6
    <3> QED
      BY <3>1, <2>5
  <2>2. t \ {Greatest(t)} \in SUBSET (1 .. k - 1)
    BY <2>7
  <2>3. t \in SUBSET (1 .. n)
    OBVIOUS
  <2> QED
    BY <1>2, <2>2, <2>3
<1>3. Bad = {}
  <2> SUFFICES ASSUME Bad # {} PROVE FALSE
    OBVIOUS
  <2> HIDE DEF Good
  <2>1. PICK k \in Bad : \A m \in Bad : k <= m
    <3>1. Bad \subseteq Nat
      OBVIOUS
    <3> HIDE DEF Bad
    <3> QED
      BY <3>1, HasLeast
  <2>2. k \in 0 .. n /\ k # 0
    BY <1>1, <2>1
  <2>3. k - 1 \in 0 .. n /\ k - 1 \notin Bad /\ k \in 1 .. n
    BY <2>1, <2>2
  <2>4. Good(k - 1)
    BY <2>3
  <2> QED
    BY <1>2, <2>1, <2>3, <2>4
<1>4. Good(n)
  <2> HIDE DEF Good
  <2> QED
    BY <1>3
<1> QED
  BY <1>4

\* The same values, element by element of the sequence.
Steps(g, n) == [k \in 0 .. n |-> g[1 .. k]]

\* The values that a fold passes through: h[k] is what it has made of the first k elements.
Passing(h, T, by, base, s, n) ==
    /\ h \in [0 .. n -> T] /\ h[0] = base
    /\ \A k \in 1 .. n : h[k] = by[<<h[k - 1], s[k]>>]

\* The partial results of a fold over the first places are the values that it passes through.
LEMMA FoldingSteps ==
    ASSUME NEW T, NEW by, NEW base, NEW s, NEW n \in Nat, NEW g,
           Folding(g, T, by, base, s, n)
    PROVE  Passing(Steps(g, n), T, by, base, s, n) /\ Steps(g, n)[n] = g[1 .. n]
<1> DEFINE h == Steps(g, n)
<1> USE DEF Steps
<1>1. \A k \in 0 .. n : 1 .. k \in SUBSET (1 .. n)
  OBVIOUS
<1>2. h \in [0 .. n -> T]
  BY <1>1 DEF Folding
<1>3. h[0] = base
  <2>1. 1 .. 0 = {} /\ {} \in SUBSET (1 .. n)
    OBVIOUS
  <2>2. g[{}] = base
    BY <2>1 DEF Folding
  <2>3. h[0] = g[1 .. 0]
    OBVIOUS
  <2> QED
    BY <2>1, <2>2, <2>3
<1>4. ASSUME NEW k \in 1 .. n
      PROVE  h[k] = by[<<h[k - 1], s[k]>>]
  <2> DEFINE t == 1 .. k
  <2>1. k \in Nat /\ t \in SUBSET (1 .. k) /\ t # {} /\ k \in t
    OBVIOUS
  <2>2. Greatest(t) = k
    <3>1. Greatest(t) \in t /\ \A m \in t : m <= Greatest(t)
      BY <2>1, HasGreatest
    <3> QED
      BY <3>1
  <2>3. t \ {k} = 1 .. k - 1
    OBVIOUS
  <2>4. t \in SUBSET (1 .. n)
    OBVIOUS
  <2>5. g[t] = by[<<g[t \ {k}], s[k]>>]
    <3> HIDE DEF t
    <3> QED
      BY <2>1, <2>2, <2>4 DEF Folding
  <2>6. h[k] = g[t] /\ h[k - 1] = g[1 .. k - 1]
    OBVIOUS
  <2> QED
    BY <2>3, <2>5, <2>6
<1>5. h[n] = g[1 .. n]
  OBVIOUS
<1> QED
  BY <1>2, <1>3, <1>4, <1>5 DEF Passing

------------------------------------------------------------------------------
(* Subsequences *)

\* Some of the places of a sequence are finitely many.
LEMMA PlacesFinite ==
    ASSUME NEW l \in Nat, NEW P \in SUBSET (1 .. l)
    PROVE  IsFiniteSet(P) /\ Cardinality(P) \in Nat
<1>1. IsFiniteSet(1 .. l)
  BY FS_Interval
<1>2. IsFiniteSet(P)
  BY <1>1, FS_Subset
<1> QED
  BY <1>2, FS_CardinalityType

\* Places have as many of them up to one of them as any number up to their own.
LEMMA NthExists ==
    ASSUME NEW l \in Nat, NEW P \in SUBSET (1 .. l)
    PROVE  \A n \in 1 .. Cardinality(P) :
              \E k \in P : Cardinality({m \in P : m <= k}) = n
<1> DEFINE UpTo(k) == {m \in P : m <= k}
           Good(n) == n = 0 \/ \E k \in P : Cardinality(UpTo(k)) = n
           Bad == {n \in 0 .. Cardinality(P) : ~Good(n)}
<1>1. Cardinality(P) \in Nat /\ IsFiniteSet(P)
  BY PlacesFinite
<1>0. \A m \in P : m \in Nat /\ m >= 1 /\ m \in 0 .. l
  OBVIOUS
<1>2. ASSUME NEW n \in 1 .. Cardinality(P), Good(n - 1)
      PROVE  Good(n)
  <2>1. PICK c \in 0 .. l : Cardinality(UpTo(c)) = n - 1
    <3>1. CASE n = 1
      <4>0. \A m \in P : ~(m <= 0)
        BY <1>0
      <4>1. UpTo(0) = {}
        BY <4>0, Zenon
      <4>2. Cardinality(UpTo(0)) = 0
        BY <4>1, FS_EmptySet
      <4> QED
        BY <3>1, <4>2
    <3>2. CASE n # 1
      <4>1. PICK k \in P : Cardinality(UpTo(k)) = n - 1
        BY <1>2, <3>2
      <4>2. k \in 0 .. l
        OBVIOUS
      <4> QED
        BY <4>1, <4>2
    <3> QED
      BY <3>1, <3>2
  <2> DEFINE Rest == {m \in P : m > c}
  <2>2. Rest # {}
    <3>1. SUFFICES ASSUME Rest = {} PROVE FALSE
      OBVIOUS
    <3>2. \A m \in P : m <= c
      BY <1>0, <3>1
    <3>3. UpTo(c) = P
      BY <3>2, Zenon
    <3> HIDE DEF UpTo
    <3>4. Cardinality(P) = n - 1
      BY <2>1, <3>3
    <3> QED
      BY <1>1, <3>4
  <2>3. PICK k \in Rest : \A m \in Rest : k <= m
    <3>1. Rest \in SUBSET Nat
      BY <1>0
    <3> HIDE DEF Rest
    <3> QED
      BY <2>2, <3>1, HasLeast
  <2>4. UpTo(k) = UpTo(c) \cup {k} /\ k \notin UpTo(c)
    <3>1. k \in P /\ k > c /\ k \in Nat
      BY <1>0, <2>3
    <3>2. \A m \in P : m <= k <=> (m <= c \/ m = k)
      <4> TAKE m \in P
      <4>1. m > c => k <= m
        BY <2>3
      <4> QED
        BY <1>0, <3>1, <4>1
    <3>3. ~(k <= c)
      BY <3>1
    <3>4. UpTo(k) = UpTo(c) \cup {k}
      BY <3>1, <3>2, Zenon
    <3> QED
      BY <3>3, <3>4
  <2>5. IsFiniteSet(UpTo(c))
    BY <1>1, FS_Subset
  <2>6. Cardinality(UpTo(k)) = n
    BY <2>1, <2>4, <2>5, FS_AddElement
  <2> QED
    BY <2>3, <2>6
<1>3. Bad = {}
  <2> SUFFICES ASSUME Bad # {} PROVE FALSE
    OBVIOUS
  <2>0. Good(0)
    OBVIOUS
  <2> HIDE DEF Good
  <2>1. PICK n \in Bad : \A m \in Bad : n <= m
    <3>1. Bad \subseteq Nat
      OBVIOUS
    <3> HIDE DEF Bad
    <3> QED
      BY <3>1, HasLeast
  <2>2. n \in 0 .. Cardinality(P) /\ n # 0
    BY <2>0, <2>1
  <2>3. n - 1 \in 0 .. Cardinality(P) /\ n - 1 \notin Bad /\ n \in 1 .. Cardinality(P)
    BY <1>1, <2>1, <2>2
  <2>4. Good(n - 1)
    BY <2>3
  <2> QED
    BY <1>2, <2>1, <2>3, <2>4
<1>4. \A n \in 1 .. Cardinality(P) : Good(n)
  <2> HIDE DEF Good
  <2> QED
    BY <1>1, <1>3
<1> QED
  BY <1>4

\* The cardinality that PromptBuild sees is that of FiniteSets.
LEMMA CardPrompt == \A S : Prompt!Cardinality(S) = Cardinality(S)
BY DEF Cardinality, Prompt!Cardinality

\* What a list comprehension gives are elements of the list, at the places.
LEMMA PromptPlaces ==
    ASSUME NEW S, NEW s \in Seq(S), NEW P \in SUBSET (1 .. Len(s))
    PROVE  /\ Prompt!AtPlaces(s, P) \in Seq(S)
           /\ Len(Prompt!AtPlaces(s, P)) = Cardinality(P)
           /\ \A n \in 1 .. Cardinality(P) :
                 \E k \in P : Prompt!AtPlaces(s, P)[n] = s[k]
<1> DEFINE g == [n \in 1 .. Cardinality(P) |-> s[Prompt!Nth(P, n)]]
<1>1. Prompt!AtPlaces(s, P) = g
  BY CardPrompt DEF Prompt!AtPlaces
<1>2. Len(s) \in Nat /\ Cardinality(P) \in Nat
  BY PlacesFinite, LenProperties
<1>3. ASSUME NEW n \in 1 .. Cardinality(P) PROVE Prompt!Nth(P, n) \in P
  <2>1. \E k \in P : Cardinality({m \in P : m <= k}) = n
    BY <1>2, NthExists
  <2>2. \E k \in P : Prompt!Cardinality({m \in P : m <= k}) = n
    BY <2>1, CardPrompt
  <2> QED
    BY <2>2 DEF Prompt!Nth
<1>4. ASSUME NEW n \in 1 .. Cardinality(P)
      PROVE  g[n] = s[Prompt!Nth(P, n)] /\ g[n] \in S
  <2>1. g[n] = s[Prompt!Nth(P, n)]
    OBVIOUS
  <2>2. Prompt!Nth(P, n) \in 1 .. Len(s)
    BY <1>3
  <2> QED
    BY <2>1, <2>2, ElementOfSeq
<1>5. g \in [1 .. Cardinality(P) -> S]
  BY <1>4
<1>6. g \in Seq(S) /\ Len(g) = Cardinality(P)
  BY <1>2, <1>5
<1> QED
  BY <1>1, <1>3, <1>4, <1>6

\* What satisfies the equation of a fold passes through these values.
Following(f, T, by, base, s) ==
    /\ f[{}] = base
    /\ \A t \in SUBSET (1 .. Len(s)) :
          t # {} /\ f[t \ {Greatest(t)}] \in T
            => f[t] = by[<<f[t \ {Greatest(t)}], s[Greatest(t)]>>]

\* v is what a fold makes of s.
Folded(v, T, by, base, s) == \E h : Passing(h, T, by, base, s, Len(s)) /\ h[Len(s)] = v

\* The result of a fold over a sequence is the last of values each made of the one before.
LEMMA FoldPasses ==
    ASSUME NEW T, NEW E, NEW by \in [T \X E -> T], NEW base \in T, NEW s \in Seq(E), NEW f,
           Following(f, T, by, base, s)
    PROVE  Folded(f[1 .. Len(s)], T, by, base, s)
<1>1. PICK g : Folding(g, T, by, base, s, Len(s))
  BY FoldingExists
<1>2. Len(s) \in Nat
  OBVIOUS
<1>3. f[{}] = g[{}]
  <2>1. {} \in SUBSET (1 .. Len(s))
    OBVIOUS
  <2> QED
    BY <1>1, <2>1 DEF Folding, Following
<1>4. ASSUME NEW t \in SUBSET (1 .. Len(s)), t # {}, f[t \ {Greatest(t)}] = g[t \ {Greatest(t)}]
      PROVE  f[t] = g[t]
  <2>1. t \ {Greatest(t)} \in SUBSET (1 .. Len(s))
    OBVIOUS
  <2>2. g[t \ {Greatest(t)}] \in T
    BY <1>1, <2>1 DEF Folding
  <2>3. g[t] = by[<<g[t \ {Greatest(t)}], s[Greatest(t)]>>]
    BY <1>1, <1>4 DEF Folding
  <2> QED
    BY <1>4, <2>2, <2>3 DEF Following
<1>5. f[1 .. Len(s)] = g[1 .. Len(s)]
  BY <1>2, <1>3, <1>4, FoldingUnique
<1>6. Passing(Steps(g, Len(s)), T, by, base, s, Len(s)) /\ Steps(g, Len(s))[Len(s)] = g[1 .. Len(s)]
  BY <1>1, <1>2, FoldingSteps
<1> QED
  BY <1>5, <1>6 DEF Folded

\* Two that pass alike over the first elements agree there.
Alike(h, g, n) == h[0] = g[0] /\ \A k \in 1 .. n : h[k - 1] = g[k - 1] => h[k] = g[k]

\* Two sequences of values that begin and go on alike end alike.
LEMMA PassingAlike ==
    ASSUME NEW n \in Nat, NEW h, NEW g, Alike(h, g, n)
    PROVE  h[n] = g[n]
<1> USE DEF Alike
<1> DEFINE Bad == {k \in 0 .. n : h[k] # g[k]}
<1>1. Bad = {}
  <2> SUFFICES ASSUME Bad # {} PROVE FALSE
    OBVIOUS
  <2>1. PICK k \in Bad : \A m \in Bad : k <= m
    <3>1. Bad \subseteq Nat
      OBVIOUS
    <3> HIDE DEF Bad
    <3> QED
      BY <3>1, HasLeast
  <2>2. k \in 1 .. n
    BY <2>1
  <2>3. k - 1 \notin Bad
    BY <2>1, <2>2
  <2> QED
    BY <2>1, <2>2, <2>3
<1> QED
  BY <1>1

------------------------------------------------------------------------------
(* The prompt: candidates and what is used of them *)

\* The layers that a candidate comes from.
Sources == {"instruction", "workspace", "memory", "summary", "file_cache", "conversation"}

\* Candidates that are taken from a conversation of k rounds.
Candidates(k) ==
    {c \in [layer : Sources, item : Files \cup Nat, tokens : Nat, recency : Nat] :
       c.layer = "conversation" => c.item \in 1 .. k}

\* Used adds up the tokens.
Adds(h, cs) ==
    /\ h \in [0 .. Len(cs) -> Nat] /\ h[0] = 0
    /\ h[Len(cs)] = Prompt!Used(cs)
    /\ \A k \in 1 .. Len(cs) : h[k] = h[k - 1] + cs[k].tokens

\* The tokens of a selection are added up candidate by candidate.
LEMMA UsedPasses ==
    ASSUME NEW r \in Nat, NEW cs \in Seq(Candidates(r))
    PROVE  \E h : Adds(h, cs)
<1> DEFINE T == Nat
           E == Candidates(r)
           by == [p \in T \X E |-> p[1] + p[2].tokens]
           Eq(i) == i = [t \in SUBSET DOMAIN cs |->
                           IF t = {} THEN 0
                           ELSE i[t \ {Greatest(t)}] + cs[Greatest(t)].tokens]
           f == CHOOSE i : Eq(i)
<1>0. ASSUME NEW v \in T, NEW e \in E
      PROVE  v + e.tokens \in T
  BY DEF Candidates
<1>1. \A v \in T, e \in E : by[<<v, e>>] = v + e.tokens
  OBVIOUS
<1>2. by \in [T \X E -> T]
  BY <1>0
<1>3. cs \in Seq(E)
  OBVIOUS
<1>4. 0 \in T
  OBVIOUS
<1>5. Prompt!Used(cs) = f[1 .. Len(cs)]
  <2>1. DOMAIN cs = 1 .. Len(cs)
    BY <1>3
  <2> QED
    BY <2>1 DEF Prompt!Used, Prompt!FoldLeft, Prompt!MapThenFoldSet, Prompt!Max, Greatest
<1> HIDE DEF T, E, by
<1>6. Len(cs) \in Nat /\ DOMAIN cs = 1 .. Len(cs)
  BY <1>3
<1>7. PICK g : Folding(g, T, by, 0, cs, Len(cs))
  BY <1>2, <1>3, <1>4, FoldingExists
<1>8. Eq(g)
  <2>1. ASSUME NEW t \in SUBSET (1 .. Len(cs)), t # {}
        PROVE  by[<<g[t \ {Greatest(t)}], cs[Greatest(t)]>>]
                 = g[t \ {Greatest(t)}] + cs[Greatest(t)].tokens
    <3>1. cs[Greatest(t)] \in E /\ t \ {Greatest(t)} \in SUBSET (1 .. Len(cs))
      BY <1>3, <2>1, GreatestPlace
    <3>2. g[t \ {Greatest(t)}] \in T
      BY <1>7, <3>1 DEF Folding
    <3> QED
      BY <1>1, <3>1, <3>2
  <2> QED
    BY <1>6, <1>7, <2>1 DEF Folding
<1>9. Eq(f)
  <2> HIDE DEF Eq
  <2> QED
    BY <1>8
<1> HIDE DEF f
<1>10. f[{}] = 0
  BY <1>9
<1>11. ASSUME NEW t \in SUBSET (1 .. Len(cs)), t # {}, f[t \ {Greatest(t)}] \in T
       PROVE  f[t] = by[<<f[t \ {Greatest(t)}], cs[Greatest(t)]>>]
  <2>1. cs[Greatest(t)] \in E
    BY <1>3, <1>11, GreatestPlace
  <2>2. f[t] = f[t \ {Greatest(t)}] + cs[Greatest(t)].tokens
    BY <1>6, <1>9, <1>11
  <2> QED
    BY <1>1, <1>11, <2>1, <2>2
<1>12. Following(f, T, by, 0, cs)
  BY <1>10, <1>11 DEF Following
<1>13. Folded(f[1 .. Len(cs)], T, by, 0, cs)
  BY <1>2, <1>3, <1>4, <1>12, FoldPasses
<1>14. PICK h : Passing(h, T, by, 0, cs, Len(cs)) /\ h[Len(cs)] = f[1 .. Len(cs)]
  BY <1>13 DEF Folded
<1>15. ASSUME NEW k \in 1 .. Len(cs)
       PROVE  h[k] = h[k - 1] + cs[k].tokens
  <2>1. k - 1 \in 0 .. Len(cs) /\ cs[k] \in E
    BY <1>3, ElementOfSeq
  <2>2. h[k - 1] \in T /\ h[k] = by[<<h[k - 1], cs[k]>>]
    BY <1>14, <2>1 DEF Passing
  <2> QED
    BY <1>1, <2>1, <2>2
<1>16. h \in [0 .. Len(cs) -> T] /\ h[0] = 0 /\ h[Len(cs)] = Prompt!Used(cs)
  BY <1>5, <1>14 DEF Passing
<1> QED
  BY <1>15, <1>16 DEF T, Adds

\* And UsedBy those of one source.
AddsOf(h, cs, layer) ==
    /\ h \in [0 .. Len(cs) -> Nat] /\ h[0] = 0
    /\ h[Len(cs)] = Prompt!UsedBy(cs, layer)
    /\ \A k \in 1 .. Len(cs) : h[k] = (IF cs[k].layer = layer THEN h[k - 1] + cs[k].tokens ELSE h[k - 1])

\* So are the tokens that one layer takes of it.
LEMMA UsedByPasses ==
    ASSUME NEW r \in Nat, NEW cs \in Seq(Candidates(r)), NEW layer
    PROVE  \E h : AddsOf(h, cs, layer)
<1> DEFINE T == Nat
           E == Candidates(r)
           by == [p \in T \X E |-> (IF p[2].layer = layer THEN p[1] + p[2].tokens ELSE p[1])]
           Eq(i) == i = [t \in SUBSET DOMAIN cs |->
                           IF t = {} THEN 0
                           ELSE (IF cs[Greatest(t)].layer = layer THEN i[t \ {Greatest(t)}] + cs[Greatest(t)].tokens ELSE i[t \ {Greatest(t)}])]
           f == CHOOSE i : Eq(i)
<1>0. ASSUME NEW v \in T, NEW e \in E
      PROVE  (IF e.layer = layer THEN v + e.tokens ELSE v) \in T
  BY DEF Candidates
<1>1. \A v \in T, e \in E : by[<<v, e>>] = (IF e.layer = layer THEN v + e.tokens ELSE v)
  OBVIOUS
<1>2. by \in [T \X E -> T]
  BY <1>0
<1>3. cs \in Seq(E)
  OBVIOUS
<1>4. 0 \in T
  OBVIOUS
<1>5. Prompt!UsedBy(cs, layer) = f[1 .. Len(cs)]
  <2>1. DOMAIN cs = 1 .. Len(cs)
    BY <1>3
  <2> QED
    BY <2>1 DEF Prompt!UsedBy, Prompt!FoldLeft, Prompt!MapThenFoldSet, Prompt!Max, Greatest
<1> HIDE DEF T, E, by
<1>6. Len(cs) \in Nat /\ DOMAIN cs = 1 .. Len(cs)
  BY <1>3
<1>7. PICK g : Folding(g, T, by, 0, cs, Len(cs))
  BY <1>2, <1>3, <1>4, FoldingExists
<1>8. Eq(g)
  <2>1. ASSUME NEW t \in SUBSET (1 .. Len(cs)), t # {}
        PROVE  by[<<g[t \ {Greatest(t)}], cs[Greatest(t)]>>]
                 = (IF cs[Greatest(t)].layer = layer THEN g[t \ {Greatest(t)}] + cs[Greatest(t)].tokens ELSE g[t \ {Greatest(t)}])
    <3>1. cs[Greatest(t)] \in E /\ t \ {Greatest(t)} \in SUBSET (1 .. Len(cs))
      BY <1>3, <2>1, GreatestPlace
    <3>2. g[t \ {Greatest(t)}] \in T
      BY <1>7, <3>1 DEF Folding
    <3> QED
      BY <1>1, <3>1, <3>2
  <2> QED
    BY <1>6, <1>7, <2>1 DEF Folding
<1>9. Eq(f)
  <2> HIDE DEF Eq
  <2> QED
    BY <1>8
<1> HIDE DEF f
<1>10. f[{}] = 0
  BY <1>9
<1>11. ASSUME NEW t \in SUBSET (1 .. Len(cs)), t # {}, f[t \ {Greatest(t)}] \in T
       PROVE  f[t] = by[<<f[t \ {Greatest(t)}], cs[Greatest(t)]>>]
  <2>1. cs[Greatest(t)] \in E
    BY <1>3, <1>11, GreatestPlace
  <2>2. f[t] = (IF cs[Greatest(t)].layer = layer THEN f[t \ {Greatest(t)}] + cs[Greatest(t)].tokens ELSE f[t \ {Greatest(t)}])
    BY <1>6, <1>9, <1>11
  <2> QED
    BY <1>1, <1>11, <2>1, <2>2
<1>12. Following(f, T, by, 0, cs)
  BY <1>10, <1>11 DEF Following
<1>13. Folded(f[1 .. Len(cs)], T, by, 0, cs)
  BY <1>2, <1>3, <1>4, <1>12, FoldPasses
<1>14. PICK h : Passing(h, T, by, 0, cs, Len(cs)) /\ h[Len(cs)] = f[1 .. Len(cs)]
  BY <1>13 DEF Folded
<1>15. ASSUME NEW k \in 1 .. Len(cs)
       PROVE  h[k] = (IF cs[k].layer = layer THEN h[k - 1] + cs[k].tokens ELSE h[k - 1])
  <2>1. k - 1 \in 0 .. Len(cs) /\ cs[k] \in E
    BY <1>3, ElementOfSeq
  <2>2. h[k - 1] \in T /\ h[k] = by[<<h[k - 1], cs[k]>>]
    BY <1>14, <2>1 DEF Passing
  <2> QED
    BY <1>1, <2>1, <2>2
<1>16. h \in [0 .. Len(cs) -> T] /\ h[0] = 0 /\ h[Len(cs)] = Prompt!UsedBy(cs, layer)
  BY <1>5, <1>14 DEF Passing
<1> QED
  BY <1>15, <1>16 DEF T, AddsOf


\* Used of a list that grows.
LEMMA UsedAppend ==
    ASSUME NEW r \in Nat, NEW cs \in Seq(Candidates(r)), NEW c \in Candidates(r)
    PROVE  /\ Prompt!Used(cs) \in Nat
           /\ Prompt!Used(Append(cs, c)) = Prompt!Used(cs) + c.tokens
<1> DEFINE C == Candidates(r)
           ds == Append(cs, c)
<1>1. /\ cs \in Seq(C) /\ ds \in Seq(C) /\ Len(cs) \in Nat /\ Len(ds) = Len(cs) + 1
      /\ ds[Len(cs) + 1] = c /\ \A k \in 1 .. Len(cs) : ds[k] = cs[k]
  BY AppendProperties, LenProperties
<1>2. PICK h : Adds(h, cs)
  BY UsedPasses
<1> HIDE DEF ds
<1>3. PICK g : Adds(g, ds)
  BY <1>1, UsedPasses
<1>4. h[Len(cs)] = g[Len(cs)]
  <2>1. \A k \in 1 .. Len(cs) : k \in 1 .. Len(ds)
    BY <1>1
  <2>2. ASSUME NEW k \in 1 .. Len(cs), h[k - 1] = g[k - 1]
        PROVE  h[k] = g[k]
    BY <1>1, <1>2, <1>3, <2>1, <2>2 DEF Adds
  <2>3. Alike(h, g, Len(cs))
    BY <1>2, <1>3, <2>2 DEF Adds, Alike
  <2> QED
    BY <1>1, <2>3, PassingAlike
<1>5. g[Len(cs) + 1] = g[Len(cs)] + c.tokens
  <2>1. Len(cs) + 1 \in 1 .. Len(ds) /\ Len(cs) + 1 - 1 = Len(cs)
    BY <1>1
  <2> QED
    BY <1>1, <1>3, <2>1 DEF Adds
<1>6. h[Len(cs)] \in Nat
  BY <1>1, <1>2 DEF Adds
<1> QED
  BY <1>1, <1>2, <1>3, <1>4, <1>5, <1>6 DEF ds, Adds


\* UsedBy of a list that grows.
LEMMA UsedByAppend ==
    ASSUME NEW r \in Nat, NEW cs \in Seq(Candidates(r)), NEW c \in Candidates(r), NEW layer
    PROVE  /\ Prompt!UsedBy(cs, layer) \in Nat
           /\ Prompt!UsedBy(Append(cs, c), layer)
                = (IF c.layer = layer THEN Prompt!UsedBy(cs, layer) + c.tokens
                   ELSE Prompt!UsedBy(cs, layer))
<1> DEFINE C == Candidates(r)
           ds == Append(cs, c)
<1>1. /\ cs \in Seq(C) /\ ds \in Seq(C) /\ Len(cs) \in Nat /\ Len(ds) = Len(cs) + 1
      /\ ds[Len(cs) + 1] = c /\ \A k \in 1 .. Len(cs) : ds[k] = cs[k]
  BY AppendProperties, LenProperties
<1>2. PICK h : AddsOf(h, cs, layer)
  BY UsedByPasses
<1> HIDE DEF ds
<1>3. PICK g : AddsOf(g, ds, layer)
  BY <1>1, UsedByPasses
<1>4. h[Len(cs)] = g[Len(cs)]
  <2>1. \A k \in 1 .. Len(cs) : k \in 1 .. Len(ds)
    BY <1>1
  <2>2. ASSUME NEW k \in 1 .. Len(cs), h[k - 1] = g[k - 1]
        PROVE  h[k] = g[k]
    BY <1>1, <1>2, <1>3, <2>1, <2>2 DEF AddsOf
  <2>3. Alike(h, g, Len(cs))
    BY <1>2, <1>3, <2>2 DEF AddsOf, Alike
  <2> QED
    BY <1>1, <2>3, PassingAlike
<1>5. g[Len(cs) + 1] = (IF c.layer = layer THEN g[Len(cs)] + c.tokens ELSE g[Len(cs)])
  <2>1. Len(cs) + 1 \in 1 .. Len(ds) /\ Len(cs) + 1 - 1 = Len(cs)
    BY <1>1
  <2> QED
    BY <1>1, <1>3, <2>1 DEF AddsOf
<1>6. h[Len(cs)] \in Nat
  BY <1>1, <1>2 DEF AddsOf
<1> QED
  BY <1>1, <1>2, <1>3, <1>4, <1>5, <1>6 DEF ds, AddsOf


\* What is not selected uses no tokens.
LEMMA UsedOfNone ==
    Prompt!Used(<<>>) = 0 /\ \A layer : Prompt!UsedBy(<<>>, layer) = 0
<1> DEFINE cs == <<>>
<1>1. cs \in Seq(Candidates(0)) /\ Len(cs) = 0 /\ 0 \in Nat
  OBVIOUS
<1> HIDE DEF cs
<1>2. Prompt!Used(cs) = 0
  <2>1. PICK h : Adds(h, cs)
    BY <1>1, UsedPasses
  <2> QED
    BY <1>1, <2>1 DEF Adds
<1>3. ASSUME NEW layer PROVE Prompt!UsedBy(cs, layer) = 0
  <2>1. PICK h : AddsOf(h, cs, layer)
    BY <1>1, UsedByPasses
  <2> QED
    BY <1>1, <2>1 DEF AddsOf
<1> QED
  BY <1>2, <1>3 DEF cs

\* Selections that keep to the budgets and leave out only what does not fit.
Selections(r) ==
    {sel \in [selected : Seq(Candidates(r)), discarded : Seq(Candidates(r))] :
       /\ Prompt!Used(sel.selected) <= TotalBudget
       /\ \A layer \in DOMAIN MaxTokens : Prompt!UsedBy(sel.selected, layer) <= MaxTokens[layer]
       /\ \A n \in DOMAIN sel.discarded : /\ sel.discarded[n].layer \in DOMAIN MaxTokens
                                           /\ ~Prompt!Fits(sel.discarded[n], sel.selected)}

\* What does not fit a list of candidates does not fit a longer one.
LEMMA FitsLess ==
    ASSUME NEW r \in Nat, NEW cs \in Seq(Candidates(r)), NEW c \in Candidates(r),
           NEW d \in Candidates(r), d.layer \in DOMAIN MaxTokens, Prompt!Fits(d, Append(cs, c))
    PROVE  Prompt!Fits(d, cs)
<1>1. Prompt!Used(cs) \in Nat /\ Prompt!Used(Append(cs, c)) = Prompt!Used(cs) + c.tokens
  BY UsedAppend
<1>2. /\ Prompt!UsedBy(cs, d.layer) \in Nat
      /\ Prompt!UsedBy(Append(cs, c), d.layer)
           = (IF c.layer = d.layer THEN Prompt!UsedBy(cs, d.layer) + c.tokens
              ELSE Prompt!UsedBy(cs, d.layer))
  BY UsedByAppend
<1>3. c.tokens \in Nat /\ d.tokens \in Nat /\ TotalBudget \in Nat /\ MaxTokens[d.layer] \in Nat
  BY PromptConstants DEF Candidates, Prompt!BoundsAreNumbers
<1>4. /\ Prompt!UsedBy(Append(cs, c), d.layer) + d.tokens <= MaxTokens[d.layer]
      /\ Prompt!Used(Append(cs, c)) + d.tokens <= TotalBudget
  BY DEF Prompt!Fits
<1>5. Prompt!Used(cs) + d.tokens <= TotalBudget
  BY <1>1, <1>3, <1>4
<1>6. Prompt!UsedBy(cs, d.layer) + d.tokens <= MaxTokens[d.layer]
  <2> DEFINE u == Prompt!UsedBy(cs, d.layer)
             w == Prompt!UsedBy(Append(cs, c), d.layer)
             m == MaxTokens[d.layer]
  <2>1. u \in Nat /\ m \in Nat /\ (w = u + c.tokens \/ w = u) /\ w + d.tokens <= m
    BY <1>2, <1>3, <1>4
  <2> HIDE DEF u, w, m
  <2>2. u + d.tokens <= m
    BY <1>3, <2>1
  <2> QED
    BY <2>2 DEF u, m
<1> QED
  BY <1>5, <1>6 DEF Prompt!Fits

\* A sequence whose elements are all in a set is a sequence over that set.
LEMMA SeqOfElements ==
    ASSUME NEW S, NEW s \in Seq(S), NEW R, \A n \in 1 .. Len(s) : s[n] \in R
    PROVE  s \in Seq(R)
<1>1. Len(s) \in Nat /\ s \in [1 .. Len(s) -> R]
  BY LenProperties
<1> QED
  BY <1>1

\* What a list comprehension keeps is of every set that all kept elements are of.
LEMMA PromptPlacesIn ==
    ASSUME NEW S, NEW s \in Seq(S), NEW P \in SUBSET (1 .. Len(s)), NEW R, \A k \in P : s[k] \in R
    PROVE  Prompt!AtPlaces(s, P) \in Seq(R)
<1> DEFINE g == Prompt!AtPlaces(s, P)
<1>1. g \in Seq(S) /\ Len(g) = Cardinality(P) /\ \A n \in 1 .. Cardinality(P) : \E k \in P : g[n] = s[k]
  BY PromptPlaces
<1> HIDE DEF g
<1>2. \A n \in 1 .. Len(g) : g[n] \in R
  BY <1>1
<1>3. g \in Seq(R)
  BY <1>1, <1>2, SeqOfElements
<1> QED
  BY <1>3 DEF g

\* A candidate considered leaves a selection that is good.
LEMMA Considered ==
    ASSUME NEW r \in Nat, NEW sel \in Selections(r), NEW c \in Candidates(r),
           c.layer \in DOMAIN MaxTokens
    PROVE  Prompt!Consider(sel, c) \in Selections(r)
<1> DEFINE C == Candidates(r)
           cs == sel.selected
           ds == sel.discarded
<1>1. /\ sel \in [selected : Seq(C), discarded : Seq(C)] /\ cs \in Seq(C) /\ ds \in Seq(C)
      /\ Prompt!Used(cs) <= TotalBudget
      /\ \A layer \in DOMAIN MaxTokens : Prompt!UsedBy(cs, layer) <= MaxTokens[layer]
      /\ \A n \in DOMAIN ds : ds[n].layer \in DOMAIN MaxTokens /\ ~Prompt!Fits(ds[n], cs)
  BY DEF Selections
<1>2. CASE Prompt!Fits(c, cs)
  <2> DEFINE as == Append(cs, c)
             new == [sel EXCEPT !.selected = as]
  <2>1. as \in Seq(C)
    BY <1>1, AppendProperties
  <2>2. Prompt!Used(as) <= TotalBudget
    BY <1>1, <1>2, UsedAppend DEF Prompt!Fits
  <2>3. ASSUME NEW layer \in DOMAIN MaxTokens
        PROVE  Prompt!UsedBy(as, layer) <= MaxTokens[layer]
    <3>1. Prompt!UsedBy(as, layer) = (IF c.layer = layer THEN Prompt!UsedBy(cs, layer) + c.tokens
                                      ELSE Prompt!UsedBy(cs, layer))
      BY <1>1, UsedByAppend
    <3> HIDE DEF as
    <3>2. CASE c.layer = layer
      BY <1>2, <3>1, <3>2 DEF Prompt!Fits
    <3>3. CASE c.layer # layer
      BY <1>1, <3>1, <3>3
    <3> QED
      BY <3>2, <3>3
  <2>4. ASSUME NEW n \in DOMAIN ds, Prompt!Fits(ds[n], as)
        PROVE  FALSE
    <3>1. ds[n] \in C
      BY <1>1
    <3>2. ds[n].layer \in DOMAIN MaxTokens
      BY <1>1
    <3> QED
      BY <1>1, <2>4, <3>1, <3>2, FitsLess
  <2>5. new \in [selected : Seq(C), discarded : Seq(C)] /\ new.selected = as /\ new.discarded = ds
    BY <1>1, <2>1
  <2>6. Prompt!Consider(sel, c) = new
    BY <1>2 DEF Prompt!Consider
  <2> HIDE DEF as, new
  <2> QED
    BY <2>2, <2>3, <2>4, <2>5, <2>6 DEF Selections
<1>3. CASE ~Prompt!Fits(c, cs)
  <2> DEFINE bs == Append(ds, c)
             new == [sel EXCEPT !.discarded = bs]
  <2>1. bs \in Seq(C) /\ \A n \in DOMAIN bs : bs[n] = c \/ \E m \in DOMAIN ds : bs[n] = ds[m]
    <3>1. /\ bs \in Seq(C) /\ Len(bs) = Len(ds) + 1 /\ bs[Len(ds) + 1] = c /\ Len(ds) \in Nat
          /\ \A n \in 1 .. Len(ds) : bs[n] = ds[n]
      BY <1>1, AppendProperties, LenProperties
    <3>2. DOMAIN bs = 1 .. Len(bs) /\ DOMAIN ds = 1 .. Len(ds)
      BY <1>1, <3>1, LenProperties
    <3> HIDE DEF bs
    <3> QED
      BY <3>1, <3>2
  <2>2. new \in [selected : Seq(C), discarded : Seq(C)] /\ new.selected = cs /\ new.discarded = bs
    BY <1>1, <2>1
  <2>3. Prompt!Consider(sel, c) = new
    BY <1>3 DEF Prompt!Consider
  <2> HIDE DEF bs, new
  <2> QED
    BY <1>1, <1>3, <2>1, <2>2, <2>3 DEF Selections
<1> QED
  BY <1>2, <1>3

\* So the selection made of a list of candidates is good.
LEMMA SelectTyped ==
    ASSUME NEW r \in Nat, NEW cs \in Seq(Candidates(r))
    PROVE  Prompt!Select(cs) \in Selections(r)
<1> DEFINE line == Prompt!AtPlaces(cs, {n \in DOMAIN cs : cs[n].layer \in Reserved})
                   \o Prompt!AtPlaces(cs, {n \in DOMAIN cs : cs[n].layer \in DOMAIN MaxTokens \ Reserved})
           T == Selections(r)
           E == {c \in Candidates(r) : c.layer \in DOMAIN MaxTokens}
           by == [p \in T \X E |-> Prompt!Consider(p[1], p[2])]
           Eq(i) == i = [t \in SUBSET DOMAIN line |->
                           IF t = {} THEN [selected |-> <<>>, discarded |-> <<>>]
                           ELSE Prompt!Consider(i[t \ {Greatest(t)}], line[Greatest(t)])]
           f == CHOOSE i : Eq(i)
<1>0. ASSUME NEW v \in T, NEW e \in E
      PROVE  Prompt!Consider(v, e) \in T
  BY Considered
<1>1. \A v \in T, e \in E : by[<<v, e>>] = Prompt!Consider(v, e)
  OBVIOUS
<1>2. by \in [T \X E -> T]
  BY <1>0
<1>3. line \in Seq(E)
  <2> DEFINE P == {n \in DOMAIN cs : cs[n].layer \in Reserved}
             Q == {n \in DOMAIN cs : cs[n].layer \in DOMAIN MaxTokens \ Reserved}
  <2>1. P \in SUBSET (1 .. Len(cs)) /\ Q \in SUBSET (1 .. Len(cs))
    BY LenProperties
  <2>2. \A n \in P : cs[n] \in E
    BY PromptConstants DEF Prompt!BudgetsCover
  <2>3. \A n \in Q : cs[n] \in E
    OBVIOUS
  <2> HIDE DEF P, Q, E
  <2>4. Prompt!AtPlaces(cs, P) \in Seq(E) /\ Prompt!AtPlaces(cs, Q) \in Seq(E)
    BY <2>1, <2>2, <2>3, PromptPlacesIn
  <2>5. Prompt!AtPlaces(cs, P) \o Prompt!AtPlaces(cs, Q) \in Seq(E)
    BY <2>4, ConcatProperties
  <2> QED
    BY <2>5 DEF P, Q
<1>4. [selected |-> <<>>, discarded |-> <<>>] \in T
  BY UsedOfNone, PromptConstants DEF Selections, Prompt!BoundsAreNumbers
<1>5. Prompt!Select(cs) = f[1 .. Len(line)]
  <2>1. DOMAIN line = 1 .. Len(line)
    BY <1>3
  <2> QED
    BY <2>1 DEF Prompt!Select, Prompt!FoldLeft, Prompt!MapThenFoldSet, Prompt!Max, Greatest
<1> HIDE DEF T, E, by, line
<1>6. Len(line) \in Nat /\ DOMAIN line = 1 .. Len(line)
  BY <1>3
<1>7. PICK g : Folding(g, T, by, [selected |-> <<>>, discarded |-> <<>>], line, Len(line))
  BY <1>2, <1>3, <1>4, FoldingExists
<1>8. Eq(g)
  <2>1. ASSUME NEW t \in SUBSET (1 .. Len(line)), t # {}
        PROVE  by[<<g[t \ {Greatest(t)}], line[Greatest(t)]>>]
                 = Prompt!Consider(g[t \ {Greatest(t)}], line[Greatest(t)])
    <3>1. line[Greatest(t)] \in E /\ t \ {Greatest(t)} \in SUBSET (1 .. Len(line))
      BY <1>3, <2>1, GreatestPlace
    <3>2. g[t \ {Greatest(t)}] \in T
      BY <1>7, <3>1 DEF Folding
    <3> QED
      BY <1>1, <3>1, <3>2
  <2> QED
    BY <1>6, <1>7, <2>1 DEF Folding
<1>9. Eq(f)
  <2> HIDE DEF Eq
  <2> QED
    BY <1>8
<1> HIDE DEF f
<1>10. f[{}] = [selected |-> <<>>, discarded |-> <<>>]
  BY <1>9
<1>11. ASSUME NEW t \in SUBSET (1 .. Len(line)), t # {}, f[t \ {Greatest(t)}] \in T
       PROVE  f[t] = by[<<f[t \ {Greatest(t)}], line[Greatest(t)]>>]
  <2>1. line[Greatest(t)] \in E
    BY <1>3, <1>11, GreatestPlace
  <2>2. f[t] = Prompt!Consider(f[t \ {Greatest(t)}], line[Greatest(t)])
    BY <1>6, <1>9, <1>11
  <2> QED
    BY <1>1, <1>11, <2>1, <2>2
<1>12. Following(f, T, by, [selected |-> <<>>, discarded |-> <<>>], line)
  BY <1>10, <1>11 DEF Following
<1>13. Folded(f[1 .. Len(line)], T, by, [selected |-> <<>>, discarded |-> <<>>], line)
  BY <1>2, <1>3, <1>4, <1>12, FoldPasses
<1>14. PICK h : Passing(h, T, by, [selected |-> <<>>, discarded |-> <<>>], line, Len(line)) /\ h[Len(line)] = f[1 .. Len(line)]
  BY <1>13 DEF Folded
<1>15. ASSUME NEW k \in 1 .. Len(line)
       PROVE  h[k] = Prompt!Consider(h[k - 1], line[k])
  <2>1. k - 1 \in 0 .. Len(line) /\ line[k] \in E
    BY <1>3, ElementOfSeq
  <2>2. h[k - 1] \in T /\ h[k] = by[<<h[k - 1], line[k]>>]
    BY <1>14, <2>1 DEF Passing
  <2> QED
    BY <1>1, <2>1, <2>2
<1>16. h \in [0 .. Len(line) -> T] /\ h[0] = [selected |-> <<>>, discarded |-> <<>>] /\ h[Len(line)] = Prompt!Select(cs)
  BY <1>5, <1>14 DEF Passing
<1> QED
  BY <1>6, <1>16 DEF T

\* An element inserted into a list gives a list over the same set.
LEMMA PromptInserts ==
    ASSUME NEW S, NEW s \in Seq(S), NEW e \in S, NEW i \in 1 .. Len(s) + 1
    PROVE  Prompt!InsertAt(s, i, e) \in Seq(S)
<1>1. Len(s) \in Nat /\ i - 1 \in Int /\ i \in Int
  BY LenProperties
<1>2. SubSeq(s, 1, i - 1) \in Seq(S)
  <2>1. \A k \in 1 .. i - 1 : s[k] \in S
    BY <1>1, ElementOfSeq
  <2> QED
    BY <1>1, <2>1, SubSeqProperties
<1>3. SubSeq(s, i, Len(s)) \in Seq(S)
  <2>1. \A k \in i .. Len(s) : s[k] \in S
    BY <1>1, ElementOfSeq
  <2> QED
    BY <1>1, <2>1, SubSeqProperties
<1>4. <<e>> \in Seq(S)
  OBVIOUS
<1>5. SubSeq(s, 1, i - 1) \o <<e>> \in Seq(S)
  BY <1>2, <1>4, ConcatProperties
<1> QED
  BY <1>3, <1>5, ConcatProperties DEF Prompt!InsertAt

\* A list reversed is a list over the same set.
LEMMA PromptReversed ==
    ASSUME NEW S, NEW s \in Seq(S)
    PROVE  Prompt!Reverse(s) \in Seq(S)
<1>1. Len(s) \in Nat
  BY LenProperties
<1>2. \A i \in 1 .. Len(s) : Len(s) - i + 1 \in 1 .. Len(s)
  BY <1>1
<1>3. \A i \in 1 .. Len(s) : s[Len(s) - i + 1] \in S
  BY <1>2, ElementOfSeq
<1>4. [i \in 1 .. Len(s) |-> s[Len(s) - i + 1]] \in [1 .. Len(s) -> S]
  BY <1>3
<1>5. [i \in 1 .. Len(s) |-> s[Len(s) - i + 1]] \in Seq(S)
  BY <1>1, <1>4
<1> QED
  BY <1>5 DEF Prompt!Reverse

\* The last elements of a sequence are elements of it.
LEMMA LastOfSome ==
    ASSUME NEW S, NEW s \in Seq(S), NEW n \in Nat
    PROVE  Prompt!LastOf(s, n) \in Seq(S)
<1>1. Len(s) \in Nat
  BY LenProperties
<1>2. CASE Len(s) > n
  <2>1. \A k \in Len(s) - n + 1 .. Len(s) : s[k] \in S
    BY <1>1, <1>2, ElementOfSeq
  <2>2. SubSeq(s, Len(s) - n + 1, Len(s)) \in Seq(S)
    BY <1>1, <2>1, SubSeqProperties
  <2> QED
    BY <1>2, <2>2 DEF Prompt!LastOf
<1>3. CASE ~(Len(s) > n)
  BY <1>3 DEF Prompt!LastOf
<1> QED
  BY <1>2, <1>3

\* Entries of other files stay when those of one are dropped.
LEMMA DroppedSome ==
    ASSUME NEW S, NEW c \in Seq(S), NEW x
    PROVE  /\ Prompt!Dropped(c, x) \in Seq({e \in S : e.file # x})
           /\ Prompt!Dropped(c, x) \in Seq(S)
           /\ Prompt!Touch(c, x) \in Seq(S)
<1> DEFINE P == {n \in DOMAIN c : c[n].file # x}
           Q == {n \in DOMAIN c : c[n].file = x}
<1>1. /\ P \in SUBSET (1 .. Len(c)) /\ Q \in SUBSET (1 .. Len(c))
      /\ \A n \in 1 .. Len(c) : c[n] \in S
  BY LenProperties, ElementOfSeq
<1>2. \A n \in P : c[n] \in {e \in S : e.file # x}
  BY <1>1
<1>3. \A n \in P : c[n] \in S
  BY <1>1
<1>4. \A n \in Q : c[n] \in S
  BY <1>1
<1> HIDE DEF P, Q
<1>5. /\ Prompt!AtPlaces(c, P) \in Seq({e \in S : e.file # x})
      /\ Prompt!AtPlaces(c, P) \in Seq(S) /\ Prompt!AtPlaces(c, Q) \in Seq(S)
  <2> DEFINE R == {e \in S : e.file # x}
  <2> HIDE DEF R
  <2>1. Prompt!AtPlaces(c, P) \in Seq(R)
    BY <1>1, <1>2, PromptPlacesIn DEF R
  <2>2. Prompt!AtPlaces(c, P) \in Seq(S) /\ Prompt!AtPlaces(c, Q) \in Seq(S)
    BY <1>1, <1>3, <1>4, PromptPlacesIn
  <2> QED
    BY <2>1, <2>2 DEF R
<1>6. Prompt!AtPlaces(c, P) \o Prompt!AtPlaces(c, Q) \in Seq(S)
  BY <1>5, ConcatProperties
<1> QED
  BY <1>5, <1>6 DEF P, Q, Prompt!Dropped, Prompt!Touch

\* Ranked candidates are the candidates.
LEMMA RankTyped ==
    ASSUME NEW S, NEW cs \in Seq(S)
    PROVE  Prompt!Rank(cs) \in Seq(S)
<1> DEFINE T == Seq(S)
           E == S
           by == [p \in T \X E |-> Prompt!InsertAt(p[1], 1 + Prompt!Cardinality({n \in DOMAIN p[1] : Prompt!NotAfter(p[1][n], p[2])}), p[2])]
           Eq(i) == i = [t \in SUBSET DOMAIN cs |->
                           IF t = {} THEN <<>>
                           ELSE Prompt!InsertAt(i[t \ {Greatest(t)}], 1 + Prompt!Cardinality({n \in DOMAIN i[t \ {Greatest(t)}] : Prompt!NotAfter(i[t \ {Greatest(t)}][n], cs[Greatest(t)])}), cs[Greatest(t)])]
           f == CHOOSE i : Eq(i)
<1>0. ASSUME NEW v \in T, NEW e \in E
      PROVE  Prompt!InsertAt(v, 1 + Prompt!Cardinality({n \in DOMAIN v : Prompt!NotAfter(v[n], e)}), e) \in T
  <2> DEFINE P == {n \in DOMAIN v : Prompt!NotAfter(v[n], e)}
  <2>0. Len(v) \in Nat /\ DOMAIN v = 1 .. Len(v) /\ 1 \in Int /\ Len(v) \in Int
    BY LenProperties
  <2>6. /\ IsFiniteSet(1 .. Len(v))
        /\ Cardinality(1 .. Len(v)) = IF 1 > Len(v) THEN 0 ELSE Len(v) - 1 + 1
    BY <2>0, FS_Interval
  <2>2. Cardinality(1 .. Len(v)) = Len(v)
    BY <2>0, <2>6
  <2>1. P \in SUBSET (1 .. Len(v)) /\ IsFiniteSet(1 .. Len(v)) /\ Len(v) \in Nat
    BY <2>0, <2>6
  <2> HIDE DEF P
  <2>3. Cardinality(P) \in Nat /\ Cardinality(P) <= Len(v)
    BY <2>1, <2>2, FS_Subset, PlacesFinite
  <2>4. 1 + Prompt!Cardinality(P) \in 1 .. Len(v) + 1
    BY <2>1, <2>3, CardPrompt
  <2>5. Prompt!InsertAt(v, 1 + Prompt!Cardinality(P), e) \in Seq(S)
    BY <2>4, PromptInserts
  <2> QED
    BY <2>5 DEF P
<1>1. \A v \in T, e \in E : by[<<v, e>>] = Prompt!InsertAt(v, 1 + Prompt!Cardinality({n \in DOMAIN v : Prompt!NotAfter(v[n], e)}), e)
  OBVIOUS
<1>2. by \in [T \X E -> T]
  BY <1>0
<1>3. cs \in Seq(E)
  OBVIOUS
<1>4. <<>> \in T
  OBVIOUS
<1>5. Prompt!Rank(cs) = f[1 .. Len(cs)]
  <2>1. DOMAIN cs = 1 .. Len(cs)
    BY <1>3
  <2> QED
    BY <2>1 DEF Prompt!Rank, Prompt!FoldLeft, Prompt!MapThenFoldSet, Prompt!Max, Greatest
<1> HIDE DEF T, E, by
<1>6. Len(cs) \in Nat /\ DOMAIN cs = 1 .. Len(cs)
  BY <1>3
<1>7. PICK g : Folding(g, T, by, <<>>, cs, Len(cs))
  BY <1>2, <1>3, <1>4, FoldingExists
<1>8. Eq(g)
  <2>1. ASSUME NEW t \in SUBSET (1 .. Len(cs)), t # {}
        PROVE  by[<<g[t \ {Greatest(t)}], cs[Greatest(t)]>>]
                 = Prompt!InsertAt(g[t \ {Greatest(t)}], 1 + Prompt!Cardinality({n \in DOMAIN g[t \ {Greatest(t)}] : Prompt!NotAfter(g[t \ {Greatest(t)}][n], cs[Greatest(t)])}), cs[Greatest(t)])
    <3>1. cs[Greatest(t)] \in E /\ t \ {Greatest(t)} \in SUBSET (1 .. Len(cs))
      BY <1>3, <2>1, GreatestPlace
    <3>2. g[t \ {Greatest(t)}] \in T
      BY <1>7, <3>1 DEF Folding
    <3> QED
      BY <1>1, <3>1, <3>2
  <2> QED
    BY <1>6, <1>7, <2>1 DEF Folding
<1>9. Eq(f)
  <2> HIDE DEF Eq
  <2> QED
    BY <1>8
<1> HIDE DEF f
<1>10. f[{}] = <<>>
  BY <1>9
<1>11. ASSUME NEW t \in SUBSET (1 .. Len(cs)), t # {}, f[t \ {Greatest(t)}] \in T
       PROVE  f[t] = by[<<f[t \ {Greatest(t)}], cs[Greatest(t)]>>]
  <2>1. cs[Greatest(t)] \in E
    BY <1>3, <1>11, GreatestPlace
  <2>2. f[t] = Prompt!InsertAt(f[t \ {Greatest(t)}], 1 + Prompt!Cardinality({n \in DOMAIN f[t \ {Greatest(t)}] : Prompt!NotAfter(f[t \ {Greatest(t)}][n], cs[Greatest(t)])}), cs[Greatest(t)])
    BY <1>6, <1>9, <1>11
  <2> QED
    BY <1>1, <1>11, <2>1, <2>2
<1>12. Following(f, T, by, <<>>, cs)
  BY <1>10, <1>11 DEF Following
<1>13. Folded(f[1 .. Len(cs)], T, by, <<>>, cs)
  BY <1>2, <1>3, <1>4, <1>12, FoldPasses
<1>14. PICK h : Passing(h, T, by, <<>>, cs, Len(cs)) /\ h[Len(cs)] = f[1 .. Len(cs)]
  BY <1>13 DEF Folded
<1>15. ASSUME NEW k \in 1 .. Len(cs)
       PROVE  h[k] = Prompt!InsertAt(h[k - 1], 1 + Prompt!Cardinality({n \in DOMAIN h[k - 1] : Prompt!NotAfter(h[k - 1][n], cs[k])}), cs[k])
  <2>1. k - 1 \in 0 .. Len(cs) /\ cs[k] \in E
    BY <1>3, ElementOfSeq
  <2>2. h[k - 1] \in T /\ h[k] = by[<<h[k - 1], cs[k]>>]
    BY <1>14, <2>1 DEF Passing
  <2> QED
    BY <1>1, <2>1, <2>2
<1>16. h \in [0 .. Len(cs) -> T] /\ h[0] = <<>> /\ h[Len(cs)] = Prompt!Rank(cs)
  BY <1>5, <1>14 DEF Passing
<1> QED
  BY <1>6, <1>16 DEF T

\* Looking at entries leaves them in the cache.
LEMMA TouchAllTyped ==
    ASSUME NEW S, NEW c \in Seq(S), NEW F, NEW fs \in Seq(F)
    PROVE  Prompt!TouchAll(c, fs) \in Seq(S)
<1> DEFINE T == Seq(S)
           E == F
           by == [p \in T \X E |-> Prompt!Touch(p[1], p[2])]
           Eq(i) == i = [t \in SUBSET DOMAIN fs |->
                           IF t = {} THEN c
                           ELSE Prompt!Touch(i[t \ {Greatest(t)}], fs[Greatest(t)])]
           f == CHOOSE i : Eq(i)
<1>0. ASSUME NEW v \in T, NEW e \in E
      PROVE  Prompt!Touch(v, e) \in T
  BY DroppedSome
<1>1. \A v \in T, e \in E : by[<<v, e>>] = Prompt!Touch(v, e)
  OBVIOUS
<1>2. by \in [T \X E -> T]
  BY <1>0
<1>3. fs \in Seq(E)
  OBVIOUS
<1>4. c \in T
  OBVIOUS
<1>5. Prompt!TouchAll(c, fs) = f[1 .. Len(fs)]
  <2>1. DOMAIN fs = 1 .. Len(fs)
    BY <1>3
  <2> QED
    BY <2>1 DEF Prompt!TouchAll, Prompt!FoldLeft, Prompt!MapThenFoldSet, Prompt!Max, Greatest
<1> HIDE DEF T, E, by
<1>6. Len(fs) \in Nat /\ DOMAIN fs = 1 .. Len(fs)
  BY <1>3
<1>7. PICK g : Folding(g, T, by, c, fs, Len(fs))
  BY <1>2, <1>3, <1>4, FoldingExists
<1>8. Eq(g)
  <2>1. ASSUME NEW t \in SUBSET (1 .. Len(fs)), t # {}
        PROVE  by[<<g[t \ {Greatest(t)}], fs[Greatest(t)]>>]
                 = Prompt!Touch(g[t \ {Greatest(t)}], fs[Greatest(t)])
    <3>1. fs[Greatest(t)] \in E /\ t \ {Greatest(t)} \in SUBSET (1 .. Len(fs))
      BY <1>3, <2>1, GreatestPlace
    <3>2. g[t \ {Greatest(t)}] \in T
      BY <1>7, <3>1 DEF Folding
    <3> QED
      BY <1>1, <3>1, <3>2
  <2> QED
    BY <1>6, <1>7, <2>1 DEF Folding
<1>9. Eq(f)
  <2> HIDE DEF Eq
  <2> QED
    BY <1>8
<1> HIDE DEF f
<1>10. f[{}] = c
  BY <1>9
<1>11. ASSUME NEW t \in SUBSET (1 .. Len(fs)), t # {}, f[t \ {Greatest(t)}] \in T
       PROVE  f[t] = by[<<f[t \ {Greatest(t)}], fs[Greatest(t)]>>]
  <2>1. fs[Greatest(t)] \in E
    BY <1>3, <1>11, GreatestPlace
  <2>2. f[t] = Prompt!Touch(f[t \ {Greatest(t)}], fs[Greatest(t)])
    BY <1>6, <1>9, <1>11
  <2> QED
    BY <1>1, <1>11, <2>1, <2>2
<1>12. Following(f, T, by, c, fs)
  BY <1>10, <1>11 DEF Following
<1>13. Folded(f[1 .. Len(fs)], T, by, c, fs)
  BY <1>2, <1>3, <1>4, <1>12, FoldPasses
<1>14. PICK h : Passing(h, T, by, c, fs, Len(fs)) /\ h[Len(fs)] = f[1 .. Len(fs)]
  BY <1>13 DEF Folded
<1>15. ASSUME NEW k \in 1 .. Len(fs)
       PROVE  h[k] = Prompt!Touch(h[k - 1], fs[k])
  <2>1. k - 1 \in 0 .. Len(fs) /\ fs[k] \in E
    BY <1>3, ElementOfSeq
  <2>2. h[k - 1] \in T /\ h[k] = by[<<h[k - 1], fs[k]>>]
    BY <1>14, <2>1 DEF Passing
  <2> QED
    BY <1>1, <2>1, <2>2
<1>16. h \in [0 .. Len(fs) -> T] /\ h[0] = c /\ h[Len(fs)] = Prompt!TouchAll(c, fs)
  BY <1>5, <1>14 DEF Passing
<1> QED
  BY <1>6, <1>16 DEF T

\* Rounds are of the messages of the conversation.
LEMMA RoundtripsTyped ==
    ASSUME NEW M, NEW ms \in Seq(M)
    PROVE  Prompt!Roundtrips(ms) \in Seq(Seq(M))
<1> DEFINE T == Seq(Seq(M))
           E == M
           by == [p \in T \X E |-> (IF p[1] = <<>> \/ texts[p[2]].role = "assistant" THEN Append(p[1], <<p[2]>>)
                  ELSE [p[1] EXCEPT ![Len(p[1])] = Append(@, p[2])])]
           Eq(i) == i = [t \in SUBSET DOMAIN ms |->
                           IF t = {} THEN <<>>
                           ELSE (IF i[t \ {Greatest(t)}] = <<>> \/ texts[ms[Greatest(t)]].role = "assistant" THEN Append(i[t \ {Greatest(t)}], <<ms[Greatest(t)]>>)
                  ELSE [i[t \ {Greatest(t)}] EXCEPT ![Len(i[t \ {Greatest(t)}])] = Append(@, ms[Greatest(t)])])]
           f == CHOOSE i : Eq(i)
<1>0. ASSUME NEW v \in T, NEW e \in E
      PROVE  (IF v = <<>> \/ texts[e].role = "assistant" THEN Append(v, <<e>>)
                  ELSE [v EXCEPT ![Len(v)] = Append(@, e)]) \in T
  <2>1. Append(v, <<e>>) \in Seq(Seq(M))
    <3>1. <<e>> \in Seq(M)
      OBVIOUS
    <3> QED
      BY <3>1, AppendProperties
  <2>2. CASE v # <<>>
    <3>1. Len(v) \in 1 .. Len(v)
      BY <2>2, EmptySeq
    <3>2. v[Len(v)] \in Seq(M)
      BY <3>1, ElementOfSeq
    <3>3. Append(v[Len(v)], e) \in Seq(M)
      BY <3>2, AppendProperties
    <3>4. [v EXCEPT ![Len(v)] = Append(v[Len(v)], e)] \in Seq(Seq(M))
      BY <3>1, <3>3, ExceptSeq
    <3> QED
      BY <2>1, <3>4
  <2> QED
    BY <2>1, <2>2
<1>1. \A v \in T, e \in E : by[<<v, e>>] = (IF v = <<>> \/ texts[e].role = "assistant" THEN Append(v, <<e>>)
                  ELSE [v EXCEPT ![Len(v)] = Append(@, e)])
  OBVIOUS
<1>2. by \in [T \X E -> T]
  BY <1>0
<1>3. ms \in Seq(E)
  OBVIOUS
<1>4. <<>> \in T
  OBVIOUS
<1>5. Prompt!Roundtrips(ms) = f[1 .. Len(ms)]
  <2>1. DOMAIN ms = 1 .. Len(ms)
    BY <1>3
  <2> QED
    BY <2>1 DEF Prompt!Roundtrips, Prompt!FoldLeft, Prompt!MapThenFoldSet, Prompt!Max, Greatest
<1> HIDE DEF T, E, by
<1>6. Len(ms) \in Nat /\ DOMAIN ms = 1 .. Len(ms)
  BY <1>3
<1>7. PICK g : Folding(g, T, by, <<>>, ms, Len(ms))
  BY <1>2, <1>3, <1>4, FoldingExists
<1>8. Eq(g)
  <2>1. ASSUME NEW t \in SUBSET (1 .. Len(ms)), t # {}
        PROVE  by[<<g[t \ {Greatest(t)}], ms[Greatest(t)]>>]
                 = (IF g[t \ {Greatest(t)}] = <<>> \/ texts[ms[Greatest(t)]].role = "assistant" THEN Append(g[t \ {Greatest(t)}], <<ms[Greatest(t)]>>)
                  ELSE [g[t \ {Greatest(t)}] EXCEPT ![Len(g[t \ {Greatest(t)}])] = Append(@, ms[Greatest(t)])])
    <3>1. ms[Greatest(t)] \in E /\ t \ {Greatest(t)} \in SUBSET (1 .. Len(ms))
      BY <1>3, <2>1, GreatestPlace
    <3>2. g[t \ {Greatest(t)}] \in T
      BY <1>7, <3>1 DEF Folding
    <3> QED
      BY <1>1, <3>1, <3>2
  <2> QED
    BY <1>6, <1>7, <2>1 DEF Folding
<1>9. Eq(f)
  <2> HIDE DEF Eq
  <2> QED
    BY <1>8
<1> HIDE DEF f
<1>10. f[{}] = <<>>
  BY <1>9
<1>11. ASSUME NEW t \in SUBSET (1 .. Len(ms)), t # {}, f[t \ {Greatest(t)}] \in T
       PROVE  f[t] = by[<<f[t \ {Greatest(t)}], ms[Greatest(t)]>>]
  <2>1. ms[Greatest(t)] \in E
    BY <1>3, <1>11, GreatestPlace
  <2>2. f[t] = (IF f[t \ {Greatest(t)}] = <<>> \/ texts[ms[Greatest(t)]].role = "assistant" THEN Append(f[t \ {Greatest(t)}], <<ms[Greatest(t)]>>)
                  ELSE [f[t \ {Greatest(t)}] EXCEPT ![Len(f[t \ {Greatest(t)}])] = Append(@, ms[Greatest(t)])])
    BY <1>6, <1>9, <1>11
  <2> QED
    BY <1>1, <1>11, <2>1, <2>2
<1>12. Following(f, T, by, <<>>, ms)
  BY <1>10, <1>11 DEF Following
<1>13. Folded(f[1 .. Len(ms)], T, by, <<>>, ms)
  BY <1>2, <1>3, <1>4, <1>12, FoldPasses
<1>14. PICK h : Passing(h, T, by, <<>>, ms, Len(ms)) /\ h[Len(ms)] = f[1 .. Len(ms)]
  BY <1>13 DEF Folded
<1>15. ASSUME NEW k \in 1 .. Len(ms)
       PROVE  h[k] = (IF h[k - 1] = <<>> \/ texts[ms[k]].role = "assistant" THEN Append(h[k - 1], <<ms[k]>>)
                  ELSE [h[k - 1] EXCEPT ![Len(h[k - 1])] = Append(@, ms[k])])
  <2>1. k - 1 \in 0 .. Len(ms) /\ ms[k] \in E
    BY <1>3, ElementOfSeq
  <2>2. h[k - 1] \in T /\ h[k] = by[<<h[k - 1], ms[k]>>]
    BY <1>14, <2>1 DEF Passing
  <2> QED
    BY <1>1, <2>1, <2>2
<1>16. h \in [0 .. Len(ms) -> T] /\ h[0] = <<>> /\ h[Len(ms)] = Prompt!Roundtrips(ms)
  BY <1>5, <1>14 DEF Passing
<1> QED
  BY <1>6, <1>16 DEF T


\* The tokens of a group of messages are a number.
LEMMA GroupTokensTyped ==
    ASSUME NEW M, NEW ms \in Seq(M)
    PROVE  Prompt!GroupTokens(ms) \in Nat
<1> DEFINE T == Nat
           E == M
           by == [p \in T \X E |-> p[1] + Prompt!MessageTokens(p[2])]
           Eq(i) == i = [t \in SUBSET DOMAIN ms |->
                           IF t = {} THEN 0
                           ELSE i[t \ {Greatest(t)}] + Prompt!MessageTokens(ms[Greatest(t)])]
           f == CHOOSE i : Eq(i)
<1>0. ASSUME NEW v \in T, NEW e \in E
      PROVE  v + Prompt!MessageTokens(e) \in T
  BY DEF Prompt!MessageTokens
<1>1. \A v \in T, e \in E : by[<<v, e>>] = v + Prompt!MessageTokens(e)
  OBVIOUS
<1>2. by \in [T \X E -> T]
  BY <1>0
<1>3. ms \in Seq(E)
  OBVIOUS
<1>4. 0 \in T
  OBVIOUS
<1>5. Prompt!GroupTokens(ms) = f[1 .. Len(ms)]
  <2>1. DOMAIN ms = 1 .. Len(ms)
    BY <1>3
  <2> QED
    BY <2>1 DEF Prompt!GroupTokens, Prompt!FoldLeft, Prompt!MapThenFoldSet, Prompt!Max, Greatest
<1> HIDE DEF T, E, by
<1>6. Len(ms) \in Nat /\ DOMAIN ms = 1 .. Len(ms)
  BY <1>3
<1>7. PICK g : Folding(g, T, by, 0, ms, Len(ms))
  BY <1>2, <1>3, <1>4, FoldingExists
<1>8. Eq(g)
  <2>1. ASSUME NEW t \in SUBSET (1 .. Len(ms)), t # {}
        PROVE  by[<<g[t \ {Greatest(t)}], ms[Greatest(t)]>>]
                 = g[t \ {Greatest(t)}] + Prompt!MessageTokens(ms[Greatest(t)])
    <3>1. ms[Greatest(t)] \in E /\ t \ {Greatest(t)} \in SUBSET (1 .. Len(ms))
      BY <1>3, <2>1, GreatestPlace
    <3>2. g[t \ {Greatest(t)}] \in T
      BY <1>7, <3>1 DEF Folding
    <3> QED
      BY <1>1, <3>1, <3>2
  <2> QED
    BY <1>6, <1>7, <2>1 DEF Folding
<1>9. Eq(f)
  <2> HIDE DEF Eq
  <2> QED
    BY <1>8
<1> HIDE DEF f
<1>10. f[{}] = 0
  BY <1>9
<1>11. ASSUME NEW t \in SUBSET (1 .. Len(ms)), t # {}, f[t \ {Greatest(t)}] \in T
       PROVE  f[t] = by[<<f[t \ {Greatest(t)}], ms[Greatest(t)]>>]
  <2>1. ms[Greatest(t)] \in E
    BY <1>3, <1>11, GreatestPlace
  <2>2. f[t] = f[t \ {Greatest(t)}] + Prompt!MessageTokens(ms[Greatest(t)])
    BY <1>6, <1>9, <1>11
  <2> QED
    BY <1>1, <1>11, <2>1, <2>2
<1>12. Following(f, T, by, 0, ms)
  BY <1>10, <1>11 DEF Following
<1>13. Folded(f[1 .. Len(ms)], T, by, 0, ms)
  BY <1>2, <1>3, <1>4, <1>12, FoldPasses
<1>14. PICK h : Passing(h, T, by, 0, ms, Len(ms)) /\ h[Len(ms)] = f[1 .. Len(ms)]
  BY <1>13 DEF Folded
<1>15. ASSUME NEW k \in 1 .. Len(ms)
       PROVE  h[k] = h[k - 1] + Prompt!MessageTokens(ms[k])
  <2>1. k - 1 \in 0 .. Len(ms) /\ ms[k] \in E
    BY <1>3, ElementOfSeq
  <2>2. h[k - 1] \in T /\ h[k] = by[<<h[k - 1], ms[k]>>]
    BY <1>14, <2>1 DEF Passing
  <2> QED
    BY <1>1, <2>1, <2>2
<1>16. h \in [0 .. Len(ms) -> T] /\ h[0] = 0 /\ h[Len(ms)] = Prompt!GroupTokens(ms)
  BY <1>5, <1>14 DEF Passing
<1> QED
  BY <1>6, <1>16 DEF T


\* The messages of some groups, joined, are messages of the groups.
LEMMA JoinedTyped ==
    ASSUME NEW M, NEW parts \in Seq(Seq(M))
    PROVE  Prompt!Joined(parts) \in Seq(M)
<1> DEFINE T == Seq(M)
           E == Seq(M)
           by == [p \in T \X E |-> p[1] \o p[2]]
           Eq(i) == i = [t \in SUBSET DOMAIN parts |->
                           IF t = {} THEN <<>>
                           ELSE i[t \ {Greatest(t)}] \o parts[Greatest(t)]]
           f == CHOOSE i : Eq(i)
<1>0. ASSUME NEW v \in T, NEW e \in E
      PROVE  v \o e \in T
  BY ConcatProperties
<1>1. \A v \in T, e \in E : by[<<v, e>>] = v \o e
  OBVIOUS
<1>2. by \in [T \X E -> T]
  BY <1>0
<1>3. parts \in Seq(E)
  OBVIOUS
<1>4. <<>> \in T
  OBVIOUS
<1>5. Prompt!Joined(parts) = f[1 .. Len(parts)]
  <2>1. DOMAIN parts = 1 .. Len(parts)
    BY <1>3
  <2> QED
    BY <2>1 DEF Prompt!Joined, Prompt!FoldLeft, Prompt!MapThenFoldSet, Prompt!Max, Greatest
<1> HIDE DEF T, E, by
<1>6. Len(parts) \in Nat /\ DOMAIN parts = 1 .. Len(parts)
  BY <1>3
<1>7. PICK g : Folding(g, T, by, <<>>, parts, Len(parts))
  BY <1>2, <1>3, <1>4, FoldingExists
<1>8. Eq(g)
  <2>1. ASSUME NEW t \in SUBSET (1 .. Len(parts)), t # {}
        PROVE  by[<<g[t \ {Greatest(t)}], parts[Greatest(t)]>>]
                 = g[t \ {Greatest(t)}] \o parts[Greatest(t)]
    <3>1. parts[Greatest(t)] \in E /\ t \ {Greatest(t)} \in SUBSET (1 .. Len(parts))
      BY <1>3, <2>1, GreatestPlace
    <3>2. g[t \ {Greatest(t)}] \in T
      BY <1>7, <3>1 DEF Folding
    <3> QED
      BY <1>1, <3>1, <3>2
  <2> QED
    BY <1>6, <1>7, <2>1 DEF Folding
<1>9. Eq(f)
  <2> HIDE DEF Eq
  <2> QED
    BY <1>8
<1> HIDE DEF f
<1>10. f[{}] = <<>>
  BY <1>9
<1>11. ASSUME NEW t \in SUBSET (1 .. Len(parts)), t # {}, f[t \ {Greatest(t)}] \in T
       PROVE  f[t] = by[<<f[t \ {Greatest(t)}], parts[Greatest(t)]>>]
  <2>1. parts[Greatest(t)] \in E
    BY <1>3, <1>11, GreatestPlace
  <2>2. f[t] = f[t \ {Greatest(t)}] \o parts[Greatest(t)]
    BY <1>6, <1>9, <1>11
  <2> QED
    BY <1>1, <1>11, <2>1, <2>2
<1>12. Following(f, T, by, <<>>, parts)
  BY <1>10, <1>11 DEF Following
<1>13. Folded(f[1 .. Len(parts)], T, by, <<>>, parts)
  BY <1>2, <1>3, <1>4, <1>12, FoldPasses
<1>14. PICK h : Passing(h, T, by, <<>>, parts, Len(parts)) /\ h[Len(parts)] = f[1 .. Len(parts)]
  BY <1>13 DEF Folded
<1>15. ASSUME NEW k \in 1 .. Len(parts)
       PROVE  h[k] = h[k - 1] \o parts[k]
  <2>1. k - 1 \in 0 .. Len(parts) /\ parts[k] \in E
    BY <1>3, ElementOfSeq
  <2>2. h[k - 1] \in T /\ h[k] = by[<<h[k - 1], parts[k]>>]
    BY <1>14, <2>1 DEF Passing
  <2> QED
    BY <1>1, <2>1, <2>2
<1>16. h \in [0 .. Len(parts) -> T] /\ h[0] = <<>> /\ h[Len(parts)] = Prompt!Joined(parts)
  BY <1>5, <1>14 DEF Passing
<1> QED
  BY <1>6, <1>16 DEF T

------------------------------------------------------------------------------
(* The prompt: the candidates collected and the selection made of them *)

\* A message of the conversation.
Text == [role : {"user", "assistant"}, cleared : BOOLEAN]

\* Contents not older than what the loop itself wrote.
Fresh == {e \in [file : Files, version : Nat, tokens : Nat] : e.version >= own[e.file]}

\* The conversation is of messages that were written.
TalkTyped ==
    /\ texts \in Seq(Text) /\ convo \in Seq(1 .. Len(texts))
    /\ policies \in Nat /\ memories \in Nat

\* No file is known to the loop as newer than it is, and the cache has entries only.
FilesTyped ==
    /\ lines \in [Files -> 0 .. MaxVersion] /\ own \in [Files -> 0 .. MaxVersion]
    /\ \A f \in Files : own[f] <= lines[f]
    /\ cache \in Seq(Fresh)

\* The number of roundtrips of the conversation.
Rounds == Len(Prompt!Roundtrips(convo))

\* The roundtrips are groups of messages that were written.
LEMMA RoundsTyped ==
    ASSUME TalkTyped
    PROVE  /\ Prompt!Roundtrips(convo) \in Seq(Seq(1 .. Len(texts)))
           /\ Rounds \in Nat /\ DOMAIN Prompt!Roundtrips(convo) = 1 .. Rounds
<1>1. Prompt!Roundtrips(convo) \in Seq(Seq(1 .. Len(texts)))
  BY RoundtripsTyped DEF TalkTyped
<1> QED
  BY <1>1, LenProperties DEF Rounds

\* What a collector offers is a candidate.
LEMMA CandTyped ==
    ASSUME NEW r, NEW layer \in Sources, NEW item \in Files \cup Nat, NEW tokens \in Nat,
           NEW recency \in Nat, layer = "conversation" => item \in 1 .. r
    PROVE  Prompt!Cand(layer, item, tokens, recency) \in Candidates(r)
<1> DEFINE c == [layer |-> layer, item |-> item, tokens |-> tokens, recency |-> recency]
<1>1. c \in [layer : Sources, item : Files \cup Nat, tokens : Nat, recency : Nat]
  OBVIOUS
<1>2. c.layer = layer /\ c.item = item
  OBVIOUS
<1> HIDE DEF c
<1>3. c \in Candidates(r)
  BY <1>1, <1>2 DEF Candidates
<1> QED
  BY <1>3 DEF c, Prompt!Cand

\* What the instruction, the workspace, the memory and the summary offer are candidates.
LEMMA FewCandidates ==
    ASSUME TalkTyped, NEW r \in Nat, NEW m \in Nat
    PROVE  /\ Prompt!InstructionCandidates \in Seq(Candidates(r))
           /\ Prompt!WorkspaceCandidates \in Seq(Candidates(r))
           /\ Prompt!MemoryCandidates(m) \in Seq(Candidates(r))
           /\ Prompt!SummaryCandidates(m) \in Seq(Candidates(r))
<1> DEFINE C == Candidates(r)
<1>1. /\ Prompt!Cand("instruction", 1, 1 + policies, 1) \in C
      /\ Prompt!Cand("workspace", 1, 1, 1) \in C
      /\ Prompt!Cand("memory", memories, memories, m) \in C
      /\ Prompt!Cand("summary", 1, 1, m) \in C
  <2>1. 1 \in Files \cup Nat /\ memories \in Files \cup Nat /\ 1 + policies \in Nat /\ memories \in Nat
    BY DEF TalkTyped
  <2>2. {"instruction", "workspace", "memory", "summary"} \subseteq Sources /\ 1 \in Nat
    BY DEF Sources
  <2>3. Prompt!Cand("instruction", 1, 1 + policies, 1) \in C
    BY <2>1, <2>2, CandTyped
  <2>4. Prompt!Cand("workspace", 1, 1, 1) \in C
    BY <2>1, <2>2, CandTyped
  <2> QED
    BY <2>1, <2>2, <2>3, <2>4, CandTyped
<1> HIDE DEF C
<1>2. \A c \in C : <<c>> \in Seq(C)
  OBVIOUS
<1>3. <<>> \in Seq(C)
  OBVIOUS
<1>4. /\ Prompt!InstructionCandidates \in Seq(C)
      /\ Prompt!WorkspaceCandidates \in Seq(C)
      /\ Prompt!MemoryCandidates(m) \in Seq(C)
      /\ Prompt!SummaryCandidates(m) \in Seq(C)
  BY <1>1, <1>2, <1>3 DEF Prompt!InstructionCandidates, Prompt!WorkspaceCandidates,
                          Prompt!MemoryCandidates, Prompt!SummaryCandidates
<1> QED
  BY <1>4 DEF C

\* What the file cache offers, file by file, are candidates.
LEMMA FileCandidatesTyped ==
    ASSUME FilesTyped, NEW r \in Nat, NEW clock
    PROVE  Prompt!FileCandidates(clock) \in Seq(Candidates(r))
<1>0. "file_cache" \in Sources /\ "file_cache" # "conversation"
  BY DEF Sources
<1> DEFINE paths == Prompt!Reverse(cache)
           len == IF Len(paths) < MaxCandidates THEN Len(paths) ELSE MaxCandidates
           looked == SubSeq(paths, 1, len)
<1>1. paths \in Seq(Fresh)
  BY PromptReversed DEF FilesTyped
<1>2. Len(paths) \in Nat /\ MaxCandidates \in Nat
  BY <1>1, LenProperties, PromptConstants DEF Prompt!BoundsAreNumbers
<1> HIDE DEF paths
<1>3. len \in Nat /\ len <= Len(paths)
  BY <1>2
<1> HIDE DEF len
<1>4. looked \in Seq(Fresh)
  <2>1. \A k \in 1 .. len : paths[k] \in Fresh
    BY <1>1, <1>2, <1>3, ElementOfSeq
  <2> QED
    BY <1>3, <2>1, SubSeqProperties
<1>5. Prompt!Looked = looked
  BY DEF Prompt!Looked, len, paths
<1> HIDE DEF looked
<1>6. Len(looked) \in Nat /\ DOMAIN looked = 1 .. Len(looked)
  BY <1>4, LenProperties
<1> DEFINE cand(n) == Prompt!Cand("file_cache", looked[n].file, looked[n].tokens,
                                  IF clock = "fine" THEN n ELSE 1)
<1>7. ASSUME NEW n \in 1 .. Len(looked)
      PROVE  cand(n) \in Candidates(r)
  <2>1. looked[n] \in Fresh
    BY <1>4, ElementOfSeq
  <2>2. looked[n].file \in Files /\ looked[n].tokens \in Nat /\ n \in Nat
    BY <1>6, <2>1 DEF Fresh
  <2>3. (IF clock = "fine" THEN n ELSE 1) \in Nat
    BY <2>2
  <2> QED
    BY <1>0, <2>2, <2>3, CandTyped
<1> HIDE DEF cand
<1>8. [n \in 1 .. Len(looked) |-> cand(n)] \in Seq(Candidates(r))
  BY <1>6, <1>7
<1> QED
  BY <1>5, <1>6, <1>8 DEF cand, Prompt!FileCandidates

\* What the conversation offers, roundtrip by roundtrip, are candidates.
LEMMA RoundCandidatesTyped ==
    ASSUME TalkTyped
    PROVE  Prompt!RoundCandidates \in Seq(Candidates(Rounds))
<1>0. "conversation" \in Sources
  BY DEF Sources
<1> DEFINE groups == Prompt!Roundtrips(convo)
           all == [n \in DOMAIN groups |->
                     Prompt!Cand("conversation", n, Prompt!GroupTokens(groups[n]), n)]
<1>1. groups \in Seq(Seq(1 .. Len(texts))) /\ Rounds \in Nat /\ DOMAIN groups = 1 .. Rounds
      /\ Len(groups) = Rounds
  BY RoundsTyped DEF Rounds
<1>2. all \in Seq(Candidates(Rounds))
  <2> DEFINE cand(n) == Prompt!Cand("conversation", n, Prompt!GroupTokens(groups[n]), n)
  <2>1. ASSUME NEW n \in 1 .. Rounds
        PROVE  cand(n) \in Candidates(Rounds)
    <3>1. groups[n] \in Seq(1 .. Len(texts))
      BY <1>1, ElementOfSeq
    <3>2. Prompt!GroupTokens(groups[n]) \in Nat
      BY <3>1, GroupTokensTyped
    <3>3. n \in Nat /\ n \in Files \cup Nat
      BY <1>1
    <3> QED
      BY <1>0, <3>2, <3>3, CandTyped
  <2> HIDE DEF cand
  <2>2. [n \in 1 .. Rounds |-> cand(n)] \in Seq(Candidates(Rounds))
    BY <1>1, <2>1
  <2> QED
    BY <1>1, <2>2 DEF cand
<1>3. Prompt!RoundCandidates = Prompt!Reverse(Prompt!LastOf(all, MaxRounds))
  BY DEF Prompt!RoundCandidates
<1> HIDE DEF all
<1>4. MaxRounds \in Nat
  BY PromptConstants DEF Prompt!BoundsAreNumbers
<1> QED
  BY <1>2, <1>3, <1>4, LastOfSome, PromptReversed

\* What a build selects keeps to the budgets, and what it discards does not fit beside that.
LEMMA RunTyped ==
    ASSUME TalkTyped, FilesTyped, NEW clock, NEW m \in {1, 3}
    PROVE  Prompt!Run(clock, m) \in Selections(Rounds)
<1> DEFINE C == Candidates(Rounds)
<1>1. Rounds \in Nat /\ m \in Nat /\ 2 \in Nat
  BY RoundsTyped
<1>2. /\ Prompt!InstructionCandidates \in Seq(C) /\ Prompt!WorkspaceCandidates \in Seq(C)
      /\ Prompt!MemoryCandidates(m) \in Seq(C) /\ Prompt!SummaryCandidates(2) \in Seq(C)
      /\ Prompt!FileCandidates(clock) \in Seq(C) /\ Prompt!RoundCandidates \in Seq(C)
  BY <1>1, FewCandidates, FileCandidatesTyped, RoundCandidatesTyped
<1> HIDE DEF C
<1>3. Prompt!InstructionCandidates \o Prompt!WorkspaceCandidates \in Seq(C)
  BY <1>2, ConcatProperties
<1>4. Prompt!InstructionCandidates \o Prompt!WorkspaceCandidates \o Prompt!MemoryCandidates(m) \in Seq(C)
  BY <1>2, <1>3, ConcatProperties
<1>5. Prompt!InstructionCandidates \o Prompt!WorkspaceCandidates \o Prompt!MemoryCandidates(m)
        \o Prompt!SummaryCandidates(2) \in Seq(C)
  BY <1>2, <1>4, ConcatProperties
<1>6. Prompt!InstructionCandidates \o Prompt!WorkspaceCandidates \o Prompt!MemoryCandidates(m)
        \o Prompt!SummaryCandidates(2) \o Prompt!FileCandidates(clock) \in Seq(C)
  BY <1>2, <1>5, ConcatProperties
<1> DEFINE cs == Prompt!InstructionCandidates \o Prompt!WorkspaceCandidates \o Prompt!MemoryCandidates(m)
                   \o Prompt!SummaryCandidates(2) \o Prompt!FileCandidates(clock)
                   \o Prompt!RoundCandidates
<1>7. cs \in Seq(C)
  BY <1>2, <1>6, ConcatProperties
<1>8. Prompt!Run(clock, m) = Prompt!Select(Prompt!Rank(cs))
  BY DEF Prompt!Run
<1> HIDE DEF cs
<1>9. Prompt!Rank(cs) \in Seq(C)
  BY <1>7, RankTyped
<1> QED
  BY <1>1, <1>8, <1>9, SelectTyped DEF C

------------------------------------------------------------------------------
(* The prompt: its invariant *)

\* The parts of a prompt are groups of messages that were written.
LEMMA PartsTyped ==
    ASSUME TalkTyped, NEW cs \in Seq(Candidates(Rounds))
    PROVE  Prompt!MessageParts(cs) \in Seq(Seq(1 .. Len(texts)))
<1> DEFINE groups == Prompt!Roundtrips(convo)
           of == Prompt!Of(cs, "conversation")
           R == {c \in Candidates(Rounds) : c.layer = "conversation"}
           S == Seq(1 .. Len(texts))
<1>1. groups \in Seq(S) /\ Rounds \in Nat /\ Len(groups) = Rounds
  BY RoundsTyped DEF Rounds
<1>2. of \in Seq(R)
  <2> DEFINE P == {n \in DOMAIN cs : cs[n].layer = "conversation"}
  <2>1. P \in SUBSET (1 .. Len(cs)) /\ \A n \in 1 .. Len(cs) : cs[n] \in Candidates(Rounds)
    BY LenProperties, ElementOfSeq
  <2>2. \A n \in P : cs[n] \in R
    BY <2>1
  <2> HIDE DEF P, R
  <2>3. Prompt!AtPlaces(cs, P) \in Seq(R)
    BY <2>1, <2>2, PromptPlacesIn
  <2> QED
    BY <2>3 DEF P, Prompt!Of
<1>3. \A c \in R : c.item \in 1 .. Rounds
  BY DEF Candidates
<1> HIDE DEF of, R, S, groups
<1> DEFINE part(n) == groups[of[n].item]
<1>4. Len(of) \in Nat /\ DOMAIN of = 1 .. Len(of)
  BY <1>2, LenProperties
<1>5. ASSUME NEW n \in 1 .. Len(of) PROVE part(n) \in S
  <2>1. of[n] \in R
    BY <1>2, ElementOfSeq
  <2>2. of[n].item \in 1 .. Len(groups)
    BY <1>1, <1>3, <2>1
  <2> QED
    BY <1>1, <2>2, ElementOfSeq
<1> HIDE DEF part
<1>6. [n \in 1 .. Len(of) |-> part(n)] \in Seq(S)
  BY <1>4, <1>5
<1> QED
  BY <1>4, <1>6 DEF part, of, S, groups, Prompt!MessageParts

\* The files of a prompt are entries of the cache that show what the loop wrote last.
LEMMA FilePartsTyped ==
    ASSUME FilesTyped, NEW cs
    PROVE  Prompt!FileParts(cs) \in Seq(Fresh)
<1> DEFINE P == {k \in DOMAIN cache : \E n \in DOMAIN cs :
                   cs[n].layer = "file_cache" /\ cs[n].item = cache[k].file}
<1>1. P \in SUBSET (1 .. Len(cache)) /\ cache \in Seq(Fresh)
  BY LenProperties DEF FilesTyped
<1> HIDE DEF P
<1>2. Prompt!AtPlaces(cache, P) \in Seq(Fresh)
  BY <1>1, PromptPlaces
<1> QED
  BY <1>2 DEF P, Prompt!FileParts

\* The messages of lists of numbers of them.
LEMMA FlattenedTyped ==
    ASSUME TalkTyped, NEW parts \in Seq(Seq(1 .. Len(texts)))
    PROVE  Prompt!Flattened(parts) \in Seq(Text)
<1> DEFINE ms == Prompt!Joined(parts)
<1>1. ms \in Seq(1 .. Len(texts)) /\ texts \in Seq(Text)
  BY JoinedTyped DEF TalkTyped
<1> HIDE DEF ms
<1>2. Len(ms) \in Nat /\ DOMAIN ms = 1 .. Len(ms)
  BY <1>1, LenProperties
<1>3. \A n \in 1 .. Len(ms) : texts[ms[n]] \in Text
  BY <1>1, <1>2, ElementOfSeq
<1>4. [n \in 1 .. Len(ms) |-> texts[ms[n]]] \in Seq(Text)
  BY <1>2, <1>3
<1> QED
  BY <1>2, <1>4 DEF ms, Prompt!Flattened

\* The messages of a prompt are the same as long as the messages it is of are.
LEMMA FlattenedSame ==
    ASSUME NEW parts \in Seq(Seq(1 .. Len(texts))),
           \A k \in 1 .. Len(texts) : texts'[k] = texts[k]
    PROVE  Prompt!Flattened(parts)' = Prompt!Flattened(parts)
<1> DEFINE ms == Prompt!Joined(parts)
<1>1. ms \in Seq(1 .. Len(texts))
  BY JoinedTyped
<1> HIDE DEF ms
<1>2. DOMAIN ms = 1 .. Len(ms)
  BY <1>1, LenProperties
<1>3. \A n \in 1 .. Len(ms) : texts'[ms[n]] = texts[ms[n]]
  BY <1>1, ElementOfSeq
<1>4. [n \in 1 .. Len(ms) |-> texts'[ms[n]]] = [n \in 1 .. Len(ms) |-> texts[ms[n]]]
  BY <1>3
<1> QED
  BY <1>2, <1>4 DEF ms, Prompt!Flattened

\* Entries of the audit log, right if they replay as what was said.
Right == {e \in [id : Nat, clean : BOOLEAN, parts : Seq(Seq(1 .. Len(texts))), said : Seq(Text)] :
            e.clean => e.said = Prompt!Flattened(e.parts)}

\* The entries of the log say what their messages say.
LogTyped == log \in Seq(Right) /\ counter \in Nat

\* The last prompt shows entries of the cache, and what was selected for it fits the budgets.
LastTyped ==
    last.built =>
      /\ last.files \in Seq(Fresh)
      /\ last.parts \in Seq(Seq(1 .. Len(texts)))
      /\ last.messages = Prompt!Flattened(last.parts)
      /\ \E r \in Nat : \E sel \in Selections(r) :
            last.selected = sel.selected /\ last.discarded = sel.discarded

\* The inductive invariant of the prompts.
PromptInv == TalkTyped /\ FilesTyped /\ LogTyped /\ LastTyped

\* The inductive invariant has in it the three invariants of the prompts.
LEMMA PromptInvHolds ==
    ASSUME PromptInv
    PROVE  Prompt!OwnWritesSeen /\ Prompt!RoomUsed /\ Prompt!ReplayedAsBuilt
<1>1. Prompt!OwnWritesSeen
  <2>1. ASSUME NEW s \in Seq(Fresh)
        PROVE  \A n \in DOMAIN s : s[n].version >= own[s[n].file]
    <3>1. DOMAIN s = 1 .. Len(s)
      BY LenProperties
    <3>2. \A n \in 1 .. Len(s) : s[n] \in Fresh
      BY ElementOfSeq
    <3> QED
      BY <3>1, <3>2 DEF Fresh
  <2>2. \A n \in DOMAIN cache : cache[n].version >= own[cache[n].file]
    BY <2>1 DEF PromptInv, FilesTyped
  <2>3. last.built => \A n \in DOMAIN last.files :
                        last.files[n].version >= own[last.files[n].file]
    BY <2>1 DEF PromptInv, LastTyped
  <2> QED
    BY <2>2, <2>3 DEF Prompt!OwnWritesSeen
<1>2. Prompt!RoomUsed
  <2> SUFFICES ASSUME last.built
               PROVE  /\ Prompt!Used(last.selected) <= TotalBudget
                      /\ \A layer \in DOMAIN MaxTokens :
                            Prompt!UsedBy(last.selected, layer) <= MaxTokens[layer]
                      /\ \A n \in DOMAIN last.discarded :
                            ~Prompt!Fits(last.discarded[n], last.selected)
    BY DEF Prompt!RoomUsed
  <2>1. PICK r \in Nat : \E sel \in Selections(r) :
           last.selected = sel.selected /\ last.discarded = sel.discarded
    BY DEF PromptInv, LastTyped
  <2>2. PICK sel \in Selections(r) :
           last.selected = sel.selected /\ last.discarded = sel.discarded
    BY <2>1
  <2> QED
    BY <2>2 DEF Selections
<1>3. Prompt!ReplayedAsBuilt
  <2>1. DOMAIN log = 1 .. Len(log) /\ \A n \in 1 .. Len(log) : log[n] \in Right
    BY LenProperties, ElementOfSeq DEF PromptInv, LogTyped
  <2> QED
    BY <2>1 DEF Right, Prompt!ReplayedAsBuilt, Prompt!Replay
<1> QED
  BY <1>1, <1>2, <1>3

\* It holds before the first prompt.
LEMMA PromptInit ==
    ASSUME Prompt!Init
    PROVE  PromptInv
<1>1. TalkTyped
  <2>1. texts = <<>> /\ convo = <<>> /\ policies = 0 /\ memories = 0
    BY DEF Prompt!Init
  <2> QED
    BY <2>1 DEF TalkTyped
<1>2. FilesTyped
  <2>1. /\ lines = [f \in Files |-> 0] /\ own = [f \in Files |-> 0] /\ cache = <<>>
    BY DEF Prompt!Init
  <2>2. 0 \in 0 .. MaxVersion
    BY PromptConstants DEF Prompt!BoundsAreNumbers
  <2> QED
    BY <2>1, <2>2 DEF FilesTyped
<1>3. LogTyped
  <2>1. log = <<>> /\ counter = 0
    BY DEF Prompt!Init
  <2> QED
    BY <2>1 DEF LogTyped
<1>4. LastTyped
  BY DEF Prompt!Init, Prompt!Nothing, LastTyped
<1> QED
  BY <1>1, <1>2, <1>3, <1>4 DEF PromptInv

\* The items of a selection are a sequence of items.
LEMMA SequenceOf ==
    ASSUME NEW S, NEW s \in Seq(S)
    PROVE  Prompt!Items(s) \in Seq({s[n].item : n \in 1 .. Len(s)})
<1>1. Len(s) \in Nat /\ DOMAIN s = 1 .. Len(s)
  BY LenProperties
<1>2. [n \in 1 .. Len(s) |-> s[n].item] \in [1 .. Len(s) -> {s[n].item : n \in 1 .. Len(s)}]
  OBVIOUS
<1> QED
  BY <1>1, <1>2 DEF Prompt!Items

\* A prompt that is built is of what is fresh, fills the room and has its messages.
LEMMA BuildStep ==
    ASSUME TalkTyped, FilesTyped, Prompt!BuildPrompt
    PROVE  LastTyped' /\ UNCHANGED <<lines, own>> /\ cache' \in Seq(Fresh)
                      /\ FilesTyped'
<1>1. PICK clock \in Clocks, m \in {1, 3} :
         /\ last' = [built |-> TRUE,
                     selected |-> Prompt!Run(clock, m).selected,
                     discarded |-> Prompt!Run(clock, m).discarded,
                     files |-> Prompt!FileParts(Prompt!Run(clock, m).selected),
                     parts |-> Prompt!MessageParts(Prompt!Run(clock, m).selected),
                     messages |-> Prompt!Flattened(Prompt!MessageParts(Prompt!Run(clock, m).selected))]
         /\ cache' = Prompt!TouchAll(Prompt!TouchAll(cache, Prompt!Items(Prompt!FileCandidates(clock))),
                                     Prompt!Items(Prompt!Of(Prompt!Run(clock, m).selected, "file_cache")))
  BY Zenon DEF Prompt!BuildPrompt
<1>2. UNCHANGED <<lines, own, texts, convo>>
  BY DEF Prompt!BuildPrompt, Prompt!talk
<1> DEFINE sel == Prompt!Run(clock, m)
<1>3. sel \in Selections(Rounds) /\ Rounds \in Nat
  BY RunTyped, RoundsTyped
<1> DEFINE cs == sel.selected
<1>4. cs \in Seq(Candidates(Rounds))
  BY <1>3 DEF Selections
<1>5. /\ last' = [built |-> TRUE, selected |-> cs, discarded |-> sel.discarded,
                  files |-> Prompt!FileParts(cs), parts |-> Prompt!MessageParts(cs),
                  messages |-> Prompt!Flattened(Prompt!MessageParts(cs))]
      /\ cache' = Prompt!TouchAll(Prompt!TouchAll(cache, Prompt!Items(Prompt!FileCandidates(clock))),
                                  Prompt!Items(Prompt!Of(cs, "file_cache")))
  BY <1>1
<1> HIDE DEF sel
<1>6. cache' \in Seq(Fresh)
  <2> DEFINE looked == Prompt!FileCandidates(clock)
             of == Prompt!Of(cs, "file_cache")
             P == {n \in DOMAIN cs : cs[n].layer = "file_cache"}
  <2>1. looked \in Seq(Candidates(Rounds))
    BY <1>3, FileCandidatesTyped
  <2>2. of \in Seq(Candidates(Rounds))
    <3>1. P \in SUBSET (1 .. Len(cs))
      BY <1>4, LenProperties
    <3> HIDE DEF P
    <3>2. Prompt!AtPlaces(cs, P) \in Seq(Candidates(Rounds))
      BY <1>4, <3>1, PromptPlaces
    <3> QED
      BY <3>2 DEF P, Prompt!Of
  <2> HIDE DEF looked, of
  <2>3. PICK F, G : Prompt!Items(looked) \in Seq(F) /\ Prompt!Items(of) \in Seq(G)
    BY <2>1, <2>2, SequenceOf
  <2>4. cache \in Seq(Fresh)
    BY DEF FilesTyped
  <2>5. Prompt!TouchAll(cache, Prompt!Items(looked)) \in Seq(Fresh)
    BY <2>3, <2>4, TouchAllTyped
  <2>6. Prompt!TouchAll(Prompt!TouchAll(cache, Prompt!Items(looked)), Prompt!Items(of)) \in Seq(Fresh)
    BY <2>3, <2>5, TouchAllTyped
  <2> QED
    BY <1>5, <2>6 DEF looked, of
<1>7. Fresh' = Fresh
  BY <1>2 DEF Fresh
<1>8. Prompt!FileParts(cs) \in Seq(Fresh)
  BY FilePartsTyped
<1>9. Prompt!MessageParts(cs) \in Seq(Seq(1 .. Len(texts)))
  BY <1>4, PartsTyped
<1>10. last'.messages = [n \in DOMAIN Prompt!Joined(last'.parts) |-> texts'[Prompt!Joined(last'.parts)[n]]]
  <2> DEFINE ps == Prompt!MessageParts(cs)
  <2>1. last'.parts = ps /\ last'.messages = Prompt!Flattened(ps)
    BY <1>5
  <2> HIDE DEF ps
  <2> QED
    BY <1>2, <2>1 DEF Prompt!Flattened
<1>11. /\ last'.files \in Seq(Fresh) /\ last'.parts \in Seq(Seq(1 .. Len(texts)))
       /\ last'.selected = cs /\ last'.discarded = sel.discarded
  BY <1>5, <1>8, <1>9
<1>12. LastTyped'
  <2>1. last'.files \in Seq(Fresh') /\ last'.parts \in Seq(Seq(1 .. Len(texts')))
    BY <1>2, <1>7, <1>11
  <2>2. \E r \in Nat : \E s \in Selections(r) :
           last'.selected = s.selected /\ last'.discarded = s.discarded
    BY <1>3, <1>11
  <2> QED
    BY <1>10, <2>1, <2>2 DEF LastTyped, Prompt!Flattened
<1> QED
  BY <1>2, <1>6, <1>7, <1>12 DEF FilesTyped

\* What the steps of a conversation leave of it.
LEMMA TalkStep ==
    ASSUME TalkTyped, Prompt!Next
    PROVE  TalkTyped'
<1> USE DEF TalkTyped
<1>1. ASSUME \/ \E f \in Files : Prompt!OnFileRead(f)
             \/ \E f \in Written : Prompt!OnFileWrite(f) \/ Prompt!WrittenElsewhere(f)
             \/ Prompt!OnDirectoryChanged \/ Prompt!Committed \/ Prompt!BuildPrompt \/ Prompt!Record
      PROVE  TalkTyped'
  <2>1. UNCHANGED Prompt!talk
    BY <1>1 DEF Prompt!OnFileRead, Prompt!OnFileWrite, Prompt!WrittenElsewhere,
                Prompt!OnDirectoryChanged, Prompt!Committed, Prompt!BuildPrompt, Prompt!Record
  <2> QED
    BY <2>1 DEF Prompt!talk
<1>2. ASSUME NEW role \in {"user", "assistant"}, Prompt!AddMessage(role)
      PROVE  TalkTyped'
  <2> DEFINE text == [role |-> role, cleared |-> FALSE]
  <2>1. /\ texts' = Append(texts, text) /\ convo' = Append(convo, Len(texts'))
        /\ policies' = policies /\ memories' = memories
    BY <1>2 DEF Prompt!AddMessage
  <2>2. text \in Text
    BY DEF Text
  <2> HIDE DEF text
  <2>3. texts' \in Seq(Text) /\ Len(texts') = Len(texts) + 1 /\ Len(texts) \in Nat
    BY <2>1, <2>2, AppendProperties, LenProperties
  <2>4. convo \in Seq(1 .. Len(texts'))
    <3>1. 1 .. Len(texts) \subseteq 1 .. Len(texts')
      BY <2>3
    <3> QED
      BY <3>1, SeqMonotonic
  <2>5. Len(texts') \in 1 .. Len(texts')
    BY <2>3
  <2>6. convo' \in Seq(1 .. Len(texts'))
    BY <2>1, <2>4, <2>5, AppendProperties
  <2> QED
    BY <2>1, <2>3, <2>6
<1>3. CASE Prompt!AddPolicy
  BY <1>3 DEF Prompt!AddPolicy
<1>4. CASE Prompt!MemoriesChange
  <2>1. memories' \in 0 .. MaxMemories /\ MaxMemories \in Nat
    BY <1>4, PromptConstants DEF Prompt!MemoriesChange, Prompt!BoundsAreNumbers
  <2>2. UNCHANGED <<texts, convo, policies>>
    BY <1>4 DEF Prompt!MemoriesChange
  <2> QED
    BY <2>1, <2>2
<1>5. CASE Prompt!Microcompact
  <2>1. PICK old : texts' = [m \in DOMAIN texts |->
                      IF m \in old THEN [texts[m] EXCEPT !.cleared = TRUE] ELSE texts[m]]
    BY <1>5 DEF Prompt!Microcompact
  <2>2. UNCHANGED <<convo, policies, memories>>
    BY <1>5 DEF Prompt!Microcompact
  <2> DEFINE new(m) == IF m \in old THEN [texts[m] EXCEPT !.cleared = TRUE] ELSE texts[m]
  <2>3. Len(texts) \in Nat /\ DOMAIN texts = 1 .. Len(texts)
    BY LenProperties
  <2>4. ASSUME NEW m \in 1 .. Len(texts) PROVE new(m) \in Text
    <3>1. texts[m] \in Text
      BY ElementOfSeq
    <3> QED
      BY <3>1 DEF Text
  <2>5. texts' = [m \in 1 .. Len(texts) |-> new(m)]
    BY <2>1, <2>3
  <2> HIDE DEF new
  <2>6. texts' \in Seq(Text) /\ Len(texts') = Len(texts)
    BY <2>3, <2>4, <2>5
  <2> QED
    BY <2>2, <2>6
<1>6. CASE Prompt!AutoCompact
  <2> DEFINE text == [role |-> "user", cleared |-> FALSE]
  <2>1. /\ texts' = Append(texts, text)
        /\ convo' = <<Len(texts')>> \o Prompt!LastOf(convo, 1)
        /\ policies' = policies /\ memories' = memories
    BY <1>6 DEF Prompt!AutoCompact
  <2>2. text \in Text
    BY DEF Text
  <2> HIDE DEF text
  <2>3. texts' \in Seq(Text) /\ Len(texts') = Len(texts) + 1 /\ Len(texts) \in Nat
    BY <2>1, <2>2, AppendProperties, LenProperties
  <2>4. convo \in Seq(1 .. Len(texts'))
    <3>1. 1 .. Len(texts) \subseteq 1 .. Len(texts')
      BY <2>3
    <3> QED
      BY <3>1, SeqMonotonic
  <2>5. Prompt!LastOf(convo, 1) \in Seq(1 .. Len(texts'))
    BY <2>4, LastOfSome
  <2>6. <<Len(texts')>> \in Seq(1 .. Len(texts'))
    BY <2>3
  <2>7. convo' \in Seq(1 .. Len(texts'))
    BY <2>1, <2>5, <2>6, ConcatProperties
  <2> QED
    BY <2>1, <2>3, <2>7
<1>7. CASE Prompt!Clear
  <2>1. texts' = texts /\ convo' = <<>> /\ policies' = 0 /\ memories' = memories
    BY <1>7 DEF Prompt!Clear
  <2> QED
    BY <2>1
<1> QED
  BY <1>1, <1>2, <1>3, <1>4, <1>5, <1>6, <1>7 DEF Prompt!Next

\* And of the cache: what is put into it is not older than the loop's own writes.
LEMMA FilesStep ==
    ASSUME TalkTyped, FilesTyped, Prompt!Next
    PROVE  FilesTyped'
<1> USE DEF FilesTyped
<1>0. MaxVersion \in Nat /\ MaxFiles \in Nat /\ Written \subseteq Files
  BY PromptConstants DEF Prompt!BoundsAreNumbers, Prompt!WrittenAreFiles
<1>1. ASSUME NEW f \in Files, Prompt!OnFileRead(f)
      PROVE  FilesTyped'
  <2>1. PICK e : /\ cache' = Prompt!Put(e)
                 /\ e \in {Prompt!Stored(f, lines[f]),
                           [file |-> f, version |-> MaxVersion + 1, tokens |-> 1]}
    BY <1>1 DEF Prompt!OnFileRead
  <2>2. UNCHANGED <<lines, own>>
    BY <1>1 DEF Prompt!OnFileRead
  <2>3. e \in Fresh
    <3>1. Size[f] \in Nat
      BY PromptConstants DEF Prompt!BoundsAreNumbers
    <3>2. lines[f] \in Nat /\ own[f] <= lines[f] /\ own[f] \in Nat /\ own[f] <= MaxVersion
      BY <1>0
    <3>3. CASE e = Prompt!Stored(f, lines[f])
      BY <3>1, <3>2, <3>3 DEF Fresh, Prompt!Stored
    <3>4. CASE e = [file |-> f, version |-> MaxVersion + 1, tokens |-> 1]
      BY <1>0, <3>2, <3>4 DEF Fresh
    <3> QED
      BY <2>1, <3>3, <3>4
  <2>4. Prompt!Dropped(cache, e.file) \in Seq(Fresh)
    BY DroppedSome
  <2>5. Append(Prompt!Dropped(cache, e.file), e) \in Seq(Fresh)
    BY <2>3, <2>4, AppendProperties
  <2>6. cache' \in Seq(Fresh)
    BY <1>0, <2>1, <2>5, LastOfSome DEF Prompt!Put
  <2>7. Fresh' = Fresh
    BY <2>2 DEF Fresh
  <2> QED
    BY <2>2, <2>6, <2>7
<1>2. ASSUME NEW f \in Written, Prompt!OnFileWrite(f)
      PROVE  FilesTyped'
  <2>1. /\ \/ lines' = [lines EXCEPT ![f] = lines[f] + 1] /\ lines[f] < MaxVersion
           \/ lines' = lines
        /\ own' = [own EXCEPT ![f] = lines'[f]]
        /\ cache' = Prompt!Dropped(cache, f)
    BY <1>2 DEF Prompt!OnFileWrite, Prompt!Invalidate
  <2>2. f \in Files /\ lines[f] \in 0 .. MaxVersion
    BY <1>0
  <2>9. lines[f] < MaxVersion => lines[f] + 1 \in 0 .. MaxVersion
    BY <1>0, <2>2
  <2>3. lines' \in [Files -> 0 .. MaxVersion]
    BY <2>1, <2>2, <2>9
  <2>10. lines'[f] \in 0 .. MaxVersion
    BY <2>2, <2>3
  <2>4. own' \in [Files -> 0 .. MaxVersion]
    BY <2>1, <2>2, <2>10
  <2>5. ASSUME NEW g \in Files PROVE own'[g] <= lines'[g]
    <3>1. CASE g = f
      BY <2>1, <2>2, <2>10, <3>1
    <3>2. CASE g # f
      <4>1. own'[g] = own[g] /\ lines'[g] = lines[g]
        BY <2>1, <2>2, <3>2
      <4> QED
        BY <4>1
    <3> QED
      BY <3>1, <3>2
  <2>6. cache' \in Seq({e \in Fresh : e.file # f})
    BY <2>1, DroppedSome
  <2>7. {e \in Fresh : e.file # f} \subseteq Fresh'
    BY <2>1 DEF Fresh
  <2>8. cache' \in Seq(Fresh')
    BY <2>6, <2>7, SeqMonotonic
  <2> QED
    BY <2>3, <2>4, <2>5, <2>8
<1>3. ASSUME NEW f \in Written, Prompt!WrittenElsewhere(f)
      PROVE  FilesTyped'
  <2>1. /\ lines' = [lines EXCEPT ![f] = lines[f] + 1] /\ lines[f] < MaxVersion
        /\ own' = own /\ cache' = cache
    BY <1>3 DEF Prompt!WrittenElsewhere
  <2>2. f \in Files /\ lines[f] \in 0 .. MaxVersion
    BY <1>0
  <2>3. lines' \in [Files -> 0 .. MaxVersion]
    BY <1>0, <2>1, <2>2
  <2>4. \A g \in Files : own'[g] <= lines'[g]
    BY <1>0, <2>1, <2>2
  <2>5. Fresh' = Fresh
    BY <2>1 DEF Fresh
  <2> QED
    BY <2>1, <2>3, <2>4, <2>5
<1>4. ASSUME UNCHANGED <<lines, own>>, cache' = cache \/ cache' = <<>>
      PROVE  FilesTyped'
  <2>1. Fresh' = Fresh
    BY <1>4 DEF Fresh
  <2>2. cache' \in Seq(Fresh)
    <3>1. <<>> \in Seq(Fresh)
      OBVIOUS
    <3> QED
      BY <1>4, <3>1
  <2> QED
    BY <1>4, <2>1, <2>2
<1>5. CASE \/ Prompt!OnDirectoryChanged \/ Prompt!Committed \/ Prompt!Clear \/ Prompt!Record
           \/ \E role \in {"user", "assistant"} : Prompt!AddMessage(role)
           \/ Prompt!AddPolicy \/ Prompt!MemoriesChange \/ Prompt!Microcompact \/ Prompt!AutoCompact
  <2>1. UNCHANGED <<lines, own>> /\ (cache' = cache \/ cache' = <<>>)
    BY <1>5 DEF Prompt!OnDirectoryChanged, Prompt!Committed, Prompt!Clear, Prompt!Record,
                Prompt!AddMessage, Prompt!AddPolicy, Prompt!MemoriesChange, Prompt!Microcompact,
                Prompt!AutoCompact, Prompt!files
  <2> QED
    BY <1>4, <2>1
<1>6. CASE Prompt!BuildPrompt
  BY <1>6, BuildStep DEF FilesTyped
<1> QED
  BY <1>1, <1>2, <1>3, <1>5, <1>6 DEF Prompt!Next

\* What an entry says stays right while no message it is of changes.
LEMMA RightStays ==
    ASSUME Len(texts) \in Nat, Len(texts') \in Nat, Len(texts) <= Len(texts'),
           \A k \in 1 .. Len(texts) : texts'[k] = texts[k]
    PROVE  Right \subseteq Right'
<1> SUFFICES ASSUME NEW e \in Right PROVE e \in Right'
  OBVIOUS
<1>1. /\ e \in [id : Nat, clean : BOOLEAN, parts : Seq(Seq(1 .. Len(texts))), said : Seq(Text)]
      /\ e.clean => e.said = Prompt!Flattened(e.parts)
  BY DEF Right
<1> DEFINE ps == e.parts
<1>2. ps \in Seq(Seq(1 .. Len(texts)))
  BY <1>1
<1>3. ps \in Seq(Seq(1 .. Len(texts')))
  <2>1. 1 .. Len(texts) \subseteq 1 .. Len(texts')
    OBVIOUS
  <2>2. Seq(1 .. Len(texts)) \subseteq Seq(1 .. Len(texts'))
    BY <2>1, SeqMonotonic
  <2> QED
    BY <1>2, <2>2, SeqMonotonic
<1>4. e \in [id : Nat, clean : BOOLEAN, parts : Seq(Seq(1 .. Len(texts'))), said : Seq(Text)]
  BY <1>1, <1>3
<1>5. Prompt!Flattened(ps)' = Prompt!Flattened(ps)
  BY <1>2, FlattenedSame
<1> QED
  BY <1>1, <1>4, <1>5 DEF Right

\* What the audit log has of the prompts stays right.
LEMMA LogStep ==
    ASSUME TalkTyped, LogTyped, LastTyped, Prompt!Next
    PROVE  LogTyped'
<1> USE DEF LogTyped
<1>1. Len(texts) \in Nat
  BY LenProperties DEF TalkTyped
<1>2. ASSUME UNCHANGED <<texts, log, counter>>
      PROVE  LogTyped'
  <2>1. Right \subseteq Right'
    BY <1>1, <1>2, RightStays
  <2> QED
    BY <1>2, <2>1, SeqMonotonic
<1>3. CASE \/ \E f \in Files : Prompt!OnFileRead(f)
           \/ \E f \in Written : Prompt!OnFileWrite(f) \/ Prompt!WrittenElsewhere(f)
           \/ Prompt!OnDirectoryChanged \/ Prompt!Committed \/ Prompt!BuildPrompt
           \/ Prompt!AddPolicy \/ Prompt!MemoriesChange \/ Prompt!Clear
  <2>1. UNCHANGED <<texts, log, counter>>
    BY <1>3 DEF Prompt!OnFileRead, Prompt!OnFileWrite, Prompt!WrittenElsewhere,
                Prompt!OnDirectoryChanged, Prompt!Committed, Prompt!BuildPrompt,
                Prompt!AddPolicy, Prompt!MemoriesChange, Prompt!Clear, Prompt!talk, Prompt!audit
  <2> QED
    BY <1>2, <2>1
<1>4. CASE Prompt!AutoCompact \/ \E role \in {"user", "assistant"} : Prompt!AddMessage(role)
  <2>1. PICK text \in Text : texts' = Append(texts, text)
    <3>1. CASE Prompt!AutoCompact
      <4>1. [role |-> "user", cleared |-> FALSE] \in Text
        BY DEF Text
      <4> QED
        BY <3>1, <4>1 DEF Prompt!AutoCompact
    <3>2. ASSUME NEW role \in {"user", "assistant"}, Prompt!AddMessage(role)
          PROVE  \E text \in Text : texts' = Append(texts, text)
      <4>1. [role |-> role, cleared |-> FALSE] \in Text
        BY DEF Text
      <4> QED
        BY <3>2, <4>1 DEF Prompt!AddMessage
    <3> QED
      BY <1>4, <3>1, <3>2
  <2>2. log' = log /\ counter' = counter
    BY <1>4 DEF Prompt!AutoCompact, Prompt!AddMessage, Prompt!audit
  <2>3. Len(texts') = Len(texts) + 1 /\ \A k \in 1 .. Len(texts) : texts'[k] = texts[k]
    BY <2>1, AppendProperties DEF TalkTyped
  <2>4. Len(texts') \in Nat /\ Len(texts) <= Len(texts')
    BY <1>1, <2>3
  <2>5. Right \subseteq Right'
    BY <1>1, <2>3, <2>4, RightStays
  <2> QED
    BY <2>2, <2>5, SeqMonotonic
<1>5. CASE Prompt!Microcompact
  <2>1. /\ DOMAIN texts' = DOMAIN texts /\ counter' = counter
        /\ log' = [n \in DOMAIN log |-> [log[n] EXCEPT !.clean = FALSE]]
    BY <1>5 DEF Prompt!Microcompact
  <2>2. TalkTyped'
    BY TalkStep
  <2>3. Len(texts') = Len(texts)
    <3>1. DOMAIN texts = 1 .. Len(texts) /\ DOMAIN texts' = 1 .. Len(texts') /\ Len(texts') \in Nat
      BY <2>2, LenProperties DEF TalkTyped
    <3> QED
      BY <1>1, <2>1, <3>1
  <2>4. Len(log) \in Nat /\ DOMAIN log = 1 .. Len(log)
    BY LenProperties
  <2> DEFINE new(n) == [log[n] EXCEPT !.clean = FALSE]
  <2>5. ASSUME NEW n \in 1 .. Len(log) PROVE new(n) \in Right'
    <3>1. log[n] \in Right
      BY ElementOfSeq
    <3>2. log[n] \in [id : Nat, clean : BOOLEAN, parts : Seq(Seq(1 .. Len(texts))), said : Seq(Text)]
      BY <3>1 DEF Right
    <3>3. new(n) \in [id : Nat, clean : BOOLEAN, parts : Seq(Seq(1 .. Len(texts))), said : Seq(Text)]
      BY <3>2
    <3>4. ~ new(n).clean
      BY <3>2
    <3> HIDE DEF new
    <3> QED
      BY <2>3, <3>3, <3>4 DEF Right
  <2>6. log' = [n \in 1 .. Len(log) |-> new(n)]
    BY <2>1, <2>4
  <2> HIDE DEF new
  <2>7. log' \in Seq(Right')
    BY <2>4, <2>5, <2>6
  <2> QED
    BY <2>1, <2>7
<1>6. CASE Prompt!Record
  <2> DEFINE e == [id |-> counter', clean |-> TRUE, parts |-> last.parts, said |-> last.messages]
  <2>1. /\ last.built /\ counter' = counter + 1
        /\ log' = Prompt!LastOf(Append(log, e), MaxEntries)
        /\ texts' = texts
    BY <1>6 DEF Prompt!Record, Prompt!talk
  <2>2. /\ last.parts \in Seq(Seq(1 .. Len(texts)))
        /\ last.messages = Prompt!Flattened(last.parts)
    BY <2>1 DEF LastTyped
  <2>3. last.messages \in Seq(Text)
    BY <2>2, FlattenedTyped
  <2>4. /\ e \in [id : Nat, clean : BOOLEAN, parts : Seq(Seq(1 .. Len(texts))), said : Seq(Text)]
        /\ e.said = Prompt!Flattened(e.parts)
    BY <2>1, <2>2, <2>3
  <2> HIDE DEF e
  <2>5. e \in Right
    BY <2>4 DEF Right
  <2>6. MaxEntries \in Nat
    BY PromptConstants DEF Prompt!BoundsAreNumbers
  <2>7. log' \in Seq(Right)
    BY <2>1, <2>5, <2>6, AppendProperties, LastOfSome
  <2>8. Right \subseteq Right'
    BY <1>1, <2>1, RightStays
  <2> QED
    BY <2>1, <2>7, <2>8, SeqMonotonic
<1> QED
  BY <1>3, <1>4, <1>5, <1>6 DEF Prompt!Next

\* A step keeps what is known of the last prompt.
LEMMA LastStep ==
    ASSUME TalkTyped, FilesTyped, Prompt!Next
    PROVE  LastTyped'
<1>1. CASE Prompt!BuildPrompt
  BY <1>1, BuildStep
<1>2. CASE ~Prompt!BuildPrompt
  <2>1. last' = Prompt!Nothing
    BY <1>2 DEF Prompt!Next, Prompt!OnFileRead, Prompt!OnFileWrite, Prompt!WrittenElsewhere,
                Prompt!OnDirectoryChanged, Prompt!Committed, Prompt!AddMessage, Prompt!AddPolicy,
                Prompt!MemoriesChange, Prompt!Microcompact, Prompt!AutoCompact, Prompt!Clear,
                Prompt!Record, Prompt!Call
  <2> QED
    BY <2>1 DEF LastTyped, Prompt!Nothing
<1> QED
  BY <1>1, <1>2

\* So every state of a behaviour about prompts has the inductive invariant.
LEMMA PromptAlways == MCSpec => [](ofPrompt => PromptInv)
<1> DEFINE Inv == setting \in Settings /\ (ofPrompt => PromptInv)
<1>1. ASSUME MCInit PROVE Inv
  BY <1>1, PromptInit DEF MCInit
<1>2. ASSUME Inv, [MCNext]_MCVars PROVE Inv'
  <2>1. CASE UNCHANGED <<setting, promptVars>>
    BY <1>2, <2>1 DEF promptVars, ofPrompt, PromptInv, TalkTyped, FilesTyped, LogTyped, LastTyped,
                      Right, Fresh, Prompt!Flattened
  <2>2. CASE ofPrompt /\ Prompt!Next /\ UNCHANGED setting
    BY <1>2, <2>2, TalkStep, FilesStep, LogStep, LastStep DEF PromptInv, ofPrompt
  <2> QED
    BY <1>2, <2>1, <2>2 DEF MCNext, MCVars
<1> QED
  BY <1>1, <1>2, PTL DEF MCSpec

\* What the loop itself wrote is never hidden from the model by an older content, in
\* the cache or in a prompt, however files are read, written by others and evicted.
THEOREM PromptsShowWrites == MCSpec => []PromptShowsWrites
<1>1. (ofPrompt => PromptInv) => PromptShowsWrites
  BY PromptInvHolds DEF PromptShowsWrites
<1> QED
  BY <1>1, PromptAlways, PTL

\* Every prompt keeps to every budget and leaves out no candidate that there is still
\* room for, whatever the sources offer.
THEOREM PromptsUseRoom == MCSpec => []PromptUsesRoom
<1>1. (ofPrompt => PromptInv) => PromptUsesRoom
  BY PromptInvHolds DEF PromptUsesRoom
<1> QED
  BY <1>1, PromptAlways, PTL

\* A prompt replayed from the audit log is the prompt that was built, until old results
\* are cleared.
THEOREM PromptsReplayed == MCSpec => []PromptReplayed
<1>1. (ofPrompt => PromptInv) => PromptReplayed
  BY PromptInvHolds DEF PromptReplayed
<1> QED
  BY <1>1, PromptAlways, PTL

------------------------------------------------------------------------------
(* The search: results are of the kinds asked for *)

\* A memory that the query lets pass, or that was changed since.
Asked(i) == i \in Sought /\ (asked.kinds = {} \/ kind[i] \in asked.kinds \/ i \in changed)

\* Whatever is in the channels, the ranking and the results is of a kind asked for, or was changed.
KindInv ==
    /\ kind \in [Sought -> Kinds]
    /\ DOMAIN found = Search!Channels
    /\ \A c \in Search!Channels : \A i \in DOMAIN found[c] : Asked(i)
    /\ \A i \in DOMAIN ranked.score : Asked(i)
    /\ \A i \in DOMAIN results : Asked(i)
    /\ phase \in {"idle", "rerank", "format"} => found = Search!NoneFound
    /\ phase \notin {"rerank", "format"} => ranked = Search!NoCandidates

\* Before the channels are asked, nothing is found and nothing is ranked.
LEMMA NothingFound ==
    /\ DOMAIN Search!NoneFound = Search!Channels
    /\ \A c \in Search!Channels : DOMAIN Search!NoneFound[c] = {}
    /\ DOMAIN Search!NoCandidates.score = {}
BY DEF Search!NoneFound, Search!NoCandidates

\* The best of the scored are some of them.
LEMMA BestAreSome ==
    ASSUME NEW score, NEW n, NEW best \in Search!Best(score, n)
    PROVE  DOMAIN best \subseteq DOMAIN score
BY DEF Search!Best, Search!Restrict, Search!kSubset

\* Each step of a retrieval, of a move, a purge or a change of a memory keeps it.
LEMMA KindStep ==
    ASSUME KindInv, Search!Next
    PROVE  KindInv'
<1> USE DEF KindInv
<1>1. ASSUME NEW i \in Sought, Search!TakeOut(i) \/ Search!PutIn(i) \/ Search!Rerank(i)
      PROVE  KindInv'
  <2>1. CASE Search!TakeOut(i) \/ Search!PutIn(i)
    BY <2>1 DEF Search!TakeOut, Search!PutIn, Search!scores, Search!history, Asked
  <2>2. CASE Search!Rerank(i)
    <3>1. DOMAIN ranked'.score = DOMAIN ranked.score /\ phase = "rerank"
      BY <2>2 DEF Search!Rerank
    <3> QED
      BY <2>2, <3>1 DEF Search!Rerank, Search!memories, Search!scores, Search!history, Asked
  <2> QED
    BY <1>1, <2>1, <2>2
<1>2. ASSUME NEW i \in Sought, Search!Change(i)
      PROVE  KindInv'
  <2>1. \A j \in Sought : Asked(j) => Asked(j)'
    BY <1>2 DEF Search!Change, Search!scores, Asked
  <2>2. \A j : Asked(j) => j \in Sought
    BY DEF Asked
  <2>3. kind' \in [Sought -> Kinds]
    BY <1>2 DEF Search!Change
  <2> QED
    BY <1>2, <2>1, <2>2, <2>3 DEF Search!Change, Search!scores
<1>3. ASSUME NEW kinds \in SUBSET Kinds, NEW text \in BOOLEAN, Search!Ask(kinds, text)
      PROVE  KindInv'
  <2>1. DOMAIN results' = {}
    BY <1>3 DEF Search!Ask
  <2> QED
    BY <1>3, <2>1, NothingFound DEF Search!Ask, Search!memories, Search!scores
<1>4. ASSUME Search!Keyword \/ Search!Vector \/ Search!Recent
      PROVE  KindInv'
  <2>1. /\ phase \notin {"idle", "rerank", "format"}
        /\ phase' \notin {"idle", "rerank", "format"}
        /\ UNCHANGED <<place, kind, hits, near, worth, asked, ranked, results, changed, moves, queries>>
    BY <1>4 DEF Search!Keyword, Search!Vector, Search!Recent, Search!Goto, Search!memories,
                Search!scores, Search!history
  <2>2. \E c \in Search!Channels : \E best :
           /\ found' = [found EXCEPT ![c] = best]
           /\ \A i \in DOMAIN best : Asked(i)
    <3>1. CASE Search!Keyword
      <4> DEFINE matching == {i \in Sought : place[i] = "active" /\ hits[i] > 0 /\ Search!Passes(i)}
                 score == IF asked.text THEN [i \in matching |-> hits[i]] ELSE <<>>
      <4>1. PICK best \in Search!Best(score, 3 * MaxResults) : found' = [found EXCEPT !["keyword"] = best]
        BY <3>1 DEF Search!Keyword, Search!Find
      <4>2. DOMAIN score \subseteq matching
        OBVIOUS
      <4>3. DOMAIN best \subseteq matching
        <5> HIDE DEF score, matching
        <5> QED
          BY <4>1, <4>2, BestAreSome
      <4>4. \A i \in DOMAIN best : Asked(i)
        BY <4>3 DEF Asked, Search!Passes
      <4> QED
        BY <4>1, <4>4 DEF Search!Channels
    <3>2. CASE Search!Vector
      <4>1. CASE ~asked.text
        <5>1. found' = [found EXCEPT !["vector"] = <<>>] /\ DOMAIN << >> = {}
          BY <3>2, <4>1 DEF Search!Vector
        <5> QED
          BY <5>1 DEF Search!Channels
      <4>2. CASE asked.text
        <5>1. PICK top : found' = [found EXCEPT !["vector"] = Search!Restrict(top,
                          {i \in DOMAIN top : place[i] \in {"active", "archived"} /\ Search!Passes(i)})]
                  /\ top \in Search!Best([i \in {j \in Sought : place[j] # "gone"} |-> near[i]], 3 * MaxResults)
          BY <3>2, <4>2 DEF Search!Vector
        <5>2. DOMAIN top \subseteq Sought
          BY <5>1, BestAreSome
        <5> DEFINE best == Search!Restrict(top,
                          {i \in DOMAIN top : place[i] \in {"active", "archived"} /\ Search!Passes(i)})
        <5>3. \A i \in DOMAIN best : i \in DOMAIN top /\ Search!Passes(i)
          BY DEF Search!Restrict
        <5>4. \A i \in DOMAIN best : Asked(i)
          BY <5>2, <5>3 DEF Asked, Search!Passes
        <5> HIDE DEF best
        <5>5. found' = [found EXCEPT !["vector"] = best]
          BY <5>1 DEF best
        <5> QED
          BY <5>4, <5>5 DEF Search!Channels
      <4> QED
        BY <4>1, <4>2
    <3>3. CASE Search!Recent
      <4> DEFINE passing == {i \in Sought : place[i] = "active" /\ Search!Passes(i)}
                 score == [i \in passing |-> Search!Cardinality({j \in passing : j <= i})]
      <4>1. PICK best \in Search!Best(score, 3 * MaxResults) : found' = [found EXCEPT !["recent"] = best]
        BY <3>3 DEF Search!Recent, Search!Find
      <4>2. DOMAIN score \subseteq passing
        OBVIOUS
      <4>3. DOMAIN best \subseteq passing
        <5> HIDE DEF score, passing
        <5> QED
          BY <4>1, <4>2, BestAreSome
      <4>4. \A i \in DOMAIN best : Asked(i)
        BY <4>3 DEF Asked, Search!Passes
      <4> QED
        BY <4>1, <4>4 DEF Search!Channels
    <3> QED
      BY <1>4, <3>1, <3>2, <3>3
  <2>3. \A i : Asked(i)' = Asked(i)
    BY <2>1 DEF Asked
  <2>4. DOMAIN found' = Search!Channels /\ \A d \in Search!Channels : \A i \in DOMAIN found'[d] : Asked(i)
    BY <2>2
  <2> QED
    BY <2>1, <2>3, <2>4
<1>5. ASSUME Search!Raise
      PROVE  KindInv'
  BY <1>5, NothingFound DEF Search!Raise, Search!memories, Search!scores, Search!history, Asked
<1>6. ASSUME Search!Fuse
      PROVE  KindInv'
  <2>1. /\ phase' = "rerank" /\ found' = Search!NoneFound
        /\ UNCHANGED <<place, kind, hits, near, worth, asked, results, changed, moves, queries>>
    BY <1>6 DEF Search!Fuse, Search!memories, Search!scores, Search!history
  <2> DEFINE some == {j \in Sought : Search!In(j) # {}}
             score == [i \in some |-> Search!Fused(i)]
  <2>2. PICK best \in Search!Best(score, 2 * MaxResults) :
           ranked' = [score |-> best, todo |-> DOMAIN best, entry |-> {}]
    BY <1>6 DEF Search!Fuse
  <2>3. DOMAIN best \subseteq some
    <3>1. DOMAIN score = some
      OBVIOUS
    <3> HIDE DEF score, some
    <3> QED
      BY <2>2, <3>1, BestAreSome
  <2>4. \A i \in some : Asked(i)
    BY DEF Search!In
  <2>5. \A i : Asked(i)' = Asked(i)
    BY <2>1 DEF Asked
  <2>6. ranked'.score = best
    BY <2>2
  <2> HIDE DEF some, score
  <2> QED
    BY <2>1, <2>3, <2>4, <2>5, <2>6, NothingFound
<1>7. ASSUME Search!Filter
      PROVE  KindInv'
  <2>1. DOMAIN ranked'.score \subseteq DOMAIN ranked.score
    BY <1>7 DEF Search!Filter, Search!Restrict
  <2>2. /\ phase = "rerank" /\ phase' = "format"
        /\ UNCHANGED <<place, kind, hits, near, worth, asked, found, results, changed, moves, queries>>
    BY <1>7 DEF Search!Filter, Search!memories, Search!scores, Search!history
  <2>3. \A i : Asked(i)' = Asked(i)
    BY <2>2 DEF Asked
  <2> QED
    BY <2>1, <2>2, <2>3
<1>8. ASSUME Search!Format
      PROVE  KindInv'
  <2>1. PICK best \in Search!Best(ranked.score, MaxResults) : DOMAIN results' = DOMAIN best
    BY <1>8 DEF Search!Format
  <2>2. DOMAIN results' \subseteq DOMAIN ranked.score
    BY <2>1, BestAreSome
  <2>3. /\ phase = "format" /\ phase' = "idle" /\ ranked' = Search!NoCandidates
        /\ UNCHANGED <<place, kind, hits, near, worth, asked, found, changed, moves, queries>>
    BY <1>8 DEF Search!Format, Search!memories, Search!scores, Search!history
  <2>4. \A i : Asked(i)' = Asked(i)
    BY <2>3 DEF Asked
  <2> QED
    BY <2>2, <2>3, <2>4, NothingFound
<1> QED
  BY <1>1, <1>2, <1>3, <1>4, <1>5, <1>6, <1>7, <1>8 DEF Search!Next

\* It holds before the first query.
LEMMA KindInit ==
    ASSUME Search!Init
    PROVE  KindInv
<1>1. DOMAIN results = {}
  BY DEF Search!Init
<1> QED
  BY <1>1, NothingFound DEF KindInv, Search!Init

\* The results are then of the kinds asked for.
LEMMA KindFound ==
    ASSUME KindInv
    PROVE  Search!ResultsOfKind
BY DEF KindInv, Asked, Search!ResultsOfKind, Search!Passes

\* Whatever is moved, purged and changed while it runs, a retrieval returns memories
\* of the kinds that its query asked for, but for those changed meanwhile.
THEOREM FindsKinds == MCSpec => []FoundOfKind
<1> DEFINE Inv == setting \in Settings /\ (ofSearch => KindInv)
<1>1. ASSUME MCInit PROVE Inv
  BY <1>1, KindInit DEF MCInit
<1>2. ASSUME Inv, [MCNext]_MCVars PROVE Inv'
  <2>1. CASE UNCHANGED MCVars
    BY <1>2, <2>1 DEF MCVars, searchVars, ofSearch, KindInv, Asked
  <2>2. CASE MCNext
    <3>1. CASE ofSearch /\ Search!Next
      BY <1>2, <2>2, <3>1, KindStep DEF MCNext, ofSearch
    <3>2. CASE ~(ofSearch /\ Search!Next)
      BY <1>2, <2>2, <3>2 DEF MCNext, searchVars, ofSearch, KindInv, Asked
    <3> QED
      BY <3>1, <3>2
  <2> QED
    BY <1>2, <2>1, <2>2
<1>3. Inv => FoundOfKind
  BY KindFound DEF FoundOfKind
<1> QED
  BY <1>1, <1>2, <1>3, PTL DEF MCSpec

------------------------------------------------------------------------------
(* The search: a better memory is not after a worse one *)

\* Division by a positive number keeps the order.
LEMMA Quotients ==
    /\ \A a, b, d \in Nat : d > 0 /\ a <= b => a \div d <= b \div d
    /\ \A a, d \in Nat : d > 0 => a \div d \in Nat /\ 0 \div d = 0
OBVIOUS

\* Multiplication keeps the order.
LEMMA Products ==
    /\ \A a, b \in Nat : a * b \in Nat /\ 0 * b = 0
    /\ \A a, b, c, d \in Nat : a <= b /\ c <= d => a * c <= b * d
OBVIOUS

\* The least and the greatest of some numbers.
LEMMA Extremes ==
    ASSUME NEW b \in Nat, NEW S \in SUBSET (0 .. b), S # {}
    PROVE  /\ Search!Min(S) \in S /\ \A x \in S : Search!Min(S) <= x
           /\ Search!Max(S) \in S /\ \A x \in S : x <= Search!Max(S)
<1>1. \E m \in S : \A x \in S : m <= x
  <2>1. S \in SUBSET Nat
    OBVIOUS
  <2> QED
    BY <2>1, HasLeast
<1>2. \E m \in S : \A x \in S : x <= m
  <2> DEFINE Bounds == {u \in Nat : \A k \in S : k <= u}
  <2>1. PICK u \in Bounds : \A v \in Bounds : u <= v
    <3>1. b \in Bounds
      OBVIOUS
    <3>2. Bounds \in SUBSET Nat
      OBVIOUS
    <3> HIDE DEF Bounds
    <3> QED
      BY <3>1, <3>2, HasLeast
  <2>2. u \in S
    <3> SUFFICES ASSUME u \notin S PROVE FALSE
      OBVIOUS
    <3>1. \A k \in S : k \in Nat /\ k < u
      BY <2>1
    <3>2. PICK k \in S : TRUE
      OBVIOUS
    <3>3. u - 1 \in Bounds
      BY <2>1, <3>1, <3>2
    <3> QED
      BY <2>1, <3>3
  <2> QED
    BY <2>1, <2>2
<1>3. Search!Min(S) \in S /\ \A x \in S : Search!Min(S) <= x
  BY <1>1 DEF Search!Min
<1>4. Search!Max(S) \in S /\ \A x \in S : x <= Search!Max(S)
  <2>1. \E m \in S : \A x \in S : m >= x
    BY <1>2
  <2>2. Search!Max(S) \in S /\ \A x \in S : Search!Max(S) >= x
    BY <2>1 DEF Search!Max
  <2> QED
    BY <2>2
<1> QED
  BY <1>3, <1>4

\* Every score of a channel is below this.
Bound == MaxScore + Cardinality(Sought)

\* The scores, weights and worths are natural numbers, and finitely many memories are sought.
LEMMA BoundTyped ==
    /\ Bound \in Nat /\ Cardinality(Sought) \in Nat /\ IsFiniteSet(Sought) /\ Sought \subseteq Nat
    /\ MaxScore \in Nat /\ Scale \in Nat /\ Worth \subseteq Nat
    /\ Weight \in [Search!Channels -> Nat]
<1>1. IsFiniteSet(Sought)
  BY SearchConstants DEF Search!ScoresAreNumbers, Search!IsFiniteSet, IsFiniteSet
<1>2. Cardinality(Sought) \in Nat
  BY <1>1, FS_CardinalityType
<1> QED
  BY <1>1, <1>2, SearchConstants DEF Search!ScoresAreNumbers, Bound

\* A memory that is newer than another, has stayed and matches as well.
Better(i, j) ==
    /\ i \in Sought /\ j \in Sought /\ i > j
    /\ i \notin moves /\ i \notin changed /\ place[i] = "active" /\ Search!Passes(i)
    /\ hits[i] >= hits[j] /\ near[i] >= near[j] /\ worth[i] >= worth[j]

\* In a channel it is not after the other, unless the other is the last.
Before(score, i, j) ==
    \/ i \in DOMAIN score /\ score[i] >= score[j]
    \/ \A k \in DOMAIN score : score[k] >= score[j]

\* The score that a candidate has once the reranker has looked it up.
Relevance(n) == IF n = 0 THEN 1 ELSE 1000 * n

\* The score that a memory has when the reranking is over.
Final(i) == IF i \in ranked.todo THEN Relevance(ranked.score[i]) * worth[i] ELSE ranked.score[i]

\* The scores that the channels give.
ScoresTyped ==
    /\ hits \in [Sought -> 0 .. MaxScore] /\ near \in [Sought -> 0 .. MaxScore]
    /\ worth \in [Sought -> Worth]
    /\ DOMAIN place = Sought

\* In every channel, a better memory is found whenever a worse one is, with no smaller score.
FoundOrdered(fs) ==
    \A c \in Search!Channels :
       /\ \A k \in DOMAIN fs[c] : k \in Sought /\ fs[c][k] \in 0 .. Bound
       /\ \A i, j \in Sought : Better(i, j) /\ j \in DOMAIN fs[c] => Before(fs[c], i, j)

\* And when the reranking is over, it has no smaller score in the ranking.
RankedOrdered ==
    /\ \A k \in DOMAIN ranked.score : k \in Sought /\ ranked.score[k] \in Nat
    /\ \A i, j \in DOMAIN ranked.score : Better(i, j) => Final(i) >= Final(j)
    /\ phase = "format" => ranked.todo = {}

\* And none in the results.
ResultsOrdered ==
    \A i, j \in DOMAIN results : Better(i, j) => results[i].score >= results[j].score

\* The inductive invariant of the order of the results.
OrderInv == KindInv /\ ScoresTyped /\ FoundOrdered(found) /\ RankedOrdered /\ ResultsOrdered

\* The best of the scored: who is better than one of them is one of them, or the other
\* is the last.
LEMMA BestBefore ==
    ASSUME NEW score, NEW n, NEW best \in Search!Best(score, n),
           \A k \in DOMAIN score : score[k] \in Nat,
           NEW i \in DOMAIN score, NEW j \in DOMAIN best, score[i] >= score[j]
    PROVE  /\ Before(best, i, j)
           /\ \A k \in DOMAIN best : k \in DOMAIN score /\ best[k] = score[k]
<1>1. PICK s \in SUBSET (DOMAIN score) :
         /\ best = [k \in s |-> score[k]]
         /\ \A x \in s, y \in DOMAIN score \ s : score[x] >= score[y]
  BY DEF Search!Best, Search!Restrict, Search!kSubset
<1>2. \A k \in DOMAIN best : k \in DOMAIN score /\ best[k] = score[k]
  BY <1>1
<1>3. DOMAIN best = s /\ j \in s
  BY <1>1
<1>4. CASE i \in s
  BY <1>1, <1>3, <1>4 DEF Before
<1>5. CASE i \notin s
  <2>1. ASSUME NEW k \in s PROVE score[k] >= score[j]
    <3>1. score[k] >= score[i]
      BY <1>1, <1>5, <2>1
    <3>2. score[k] \in Nat /\ score[i] \in Nat /\ score[j] \in Nat
      BY <1>1, <1>3
    <3> QED
      BY <3>1, <3>2
  <2> QED
    BY <1>1, <1>2, <1>3, <2>1 DEF Before
<1> QED
  BY <1>2, <1>4, <1>5

\* The best of the scored have the scores that they had.
LEMMA BestSome ==
    ASSUME NEW score, NEW n, NEW best \in Search!Best(score, n)
    PROVE  \A k \in DOMAIN best : k \in DOMAIN score /\ best[k] = score[k]
BY DEF Search!Best, Search!Restrict, Search!kSubset

\* A memory's normalized score in a channel is a number, the last one's is nothing, and
\* a better one's is not smaller.
LEMMA NormalizedOrder ==
    ASSUME FoundOrdered(found), NEW c \in Search!Channels, NEW j \in DOMAIN found[c]
    PROVE  /\ Search!Normalized(c, j) \in Nat
           /\ (\A k \in DOMAIN found[c] : found[c][k] >= found[c][j]) => Search!Normalized(c, j) = 0
           /\ \A i \in DOMAIN found[c] :
                 found[c][i] >= found[c][j] => Search!Normalized(c, i) >= Search!Normalized(c, j)
<1> DEFINE all == Search!Range(found[c])
           low == Search!Min(all)
           spread == Search!Max(all) - low
           part(k) == (found[c][k] - low) * Scale
<1>1. all \in SUBSET (0 .. Bound) /\ all # {} /\ \A k \in DOMAIN found[c] : found[c][k] \in all
  BY DEF FoundOrdered, Search!Range
<1>2. /\ Search!Min(all) \in all /\ \A x \in all : Search!Min(all) <= x
      /\ Search!Max(all) \in all /\ \A x \in all : x <= Search!Max(all)
  <2> HIDE DEF all
  <2> QED
    BY <1>1, BoundTyped, Extremes
<1>3. \A k \in DOMAIN found[c] :
         Search!Normalized(c, k) = IF spread = 0 THEN 0 ELSE part(k) \div spread
  BY DEF Search!Normalized
<1>4. low \in Nat /\ spread \in Nat
  <2>1. Search!Min(all) \in Nat /\ Search!Max(all) \in Nat /\ Search!Min(all) <= Search!Max(all)
    BY <1>1, <1>2
  <2> HIDE DEF all
  <2> QED
    BY <2>1
<1>5. \A k \in DOMAIN found[c] : found[c][k] \in Nat /\ low <= found[c][k]
  BY <1>1, <1>2
<1> HIDE DEF all, low, spread
<1>6. \A k \in DOMAIN found[c] : found[c][k] - low \in Nat
  BY <1>4, <1>5
<1>7. \A k \in DOMAIN found[c] : part(k) \in Nat
  BY <1>6, BoundTyped, Products
<1>8. ASSUME NEW i \in DOMAIN found[c], found[c][i] >= found[c][j]
      PROVE  Search!Normalized(c, i) >= Search!Normalized(c, j)
  <2>1. found[c][j] - low <= found[c][i] - low
    BY <1>4, <1>5, <1>8
  <2>2. part(j) <= part(i)
    BY <1>6, <2>1, BoundTyped, Products
  <2> HIDE DEF part
  <2>3. CASE spread = 0
    BY <1>3, <2>3
  <2>4. CASE spread # 0
    <3>1. part(j) \div spread <= part(i) \div spread
      BY <1>4, <1>7, <2>2, <2>4, Quotients
    <3>2. part(j) \div spread \in Nat /\ part(i) \div spread \in Nat
      BY <1>4, <1>7, <2>4, Quotients
    <3> QED
      BY <1>3, <2>4, <3>1, <3>2
  <2> QED
    BY <2>3, <2>4
<1>9. ASSUME \A k \in DOMAIN found[c] : found[c][k] >= found[c][j]
      PROVE  Search!Normalized(c, j) = 0
  <2>1. low = found[c][j]
    <3>1. PICK k \in DOMAIN found[c] : low = found[c][k]
      BY <1>2 DEF all, low, Search!Range
    <3> QED
      BY <1>4, <1>5, <1>9, <3>1
  <2>2. part(j) = 0
    BY <1>4, <1>5, <2>1, BoundTyped, Products
  <2> HIDE DEF part
  <2>3. spread # 0 => part(j) \div spread = 0
    BY <1>4, <2>2, Quotients
  <2> QED
    BY <1>3, <2>3
<1>10. Search!Normalized(c, j) \in Nat
  <2> HIDE DEF part
  <2> QED
    BY <1>3, <1>4, <1>7, Quotients
<1> QED
  BY <1>8, <1>9, <1>10

\* The fused score of a memory that was found is one of its weighted scores, the best.
LEMMA FusedIsBest ==
    ASSUME FoundOrdered(found), NEW i, Search!In(i) # {}
    PROVE  /\ Search!Fused(i) \in Nat
           /\ \E c \in Search!In(i) : Search!Fused(i) = Search!Normalized(c, i) * Weight[c]
           /\ \A c \in Search!In(i) : Search!Normalized(c, i) * Weight[c] <= Search!Fused(i)
<1> DEFINE value(c) == IF c \in Search!In(i) THEN Search!Normalized(c, i) * Weight[c] ELSE 0
           V == {Search!Normalized(c, i) * Weight[c] : c \in Search!In(i)}
           b == value("keyword") + value("vector") + value("recent")
<1>1. \A c \in Search!In(i) : c \in Search!Channels /\ i \in DOMAIN found[c]
  BY DEF Search!In
<1>2. \A c \in Search!In(i) : Search!Normalized(c, i) * Weight[c] \in Nat
  <2> TAKE c \in Search!In(i)
  <2>1. Search!Normalized(c, i) \in Nat
    BY <1>1, NormalizedOrder
  <2>2. Weight[c] \in Nat
    BY <1>1, BoundTyped
  <2> QED
    BY <2>1, <2>2, Products
<1>3. \A c : value(c) \in Nat
  BY <1>2
<1>4. \A c \in Search!In(i) : value(c) = Search!Normalized(c, i) * Weight[c]
  OBVIOUS
<1> HIDE DEF value
<1>5. b \in Nat /\ \A c \in Search!Channels : value(c) <= b
  BY <1>3 DEF Search!Channels
<1> HIDE DEF b
<1>6. V \in SUBSET (0 .. b) /\ V # {}
  BY <1>1, <1>2, <1>4, <1>5
<1>7. Search!Max(V) \in V /\ \A x \in V : x <= Search!Max(V)
  <2> HIDE DEF V
  <2> QED
    BY <1>5, <1>6, Extremes
<1>8. Search!Fused(i) = Search!Max(V)
  BY DEF Search!Fused
<1> QED
  BY <1>2, <1>7, <1>8

\* The fused score of a better memory is not smaller than that of a worse one.
LEMMA FusedOrder ==
    ASSUME FoundOrdered(found), NEW i, NEW j, Better(i, j), Search!In(i) # {}, Search!In(j) # {}
    PROVE  Search!Fused(i) >= Search!Fused(j)
<1>1. PICK c \in Search!In(j) : Search!Fused(j) = Search!Normalized(c, j) * Weight[c]
  BY FusedIsBest
<1>2. c \in Search!Channels /\ j \in DOMAIN found[c]
  BY DEF Search!In
<1>3. Search!Fused(i) \in Nat /\ Search!Fused(j) \in Nat /\ Weight[c] \in Nat
  BY <1>2, BoundTyped, FusedIsBest
<1>4. Before(found[c], i, j)
  BY <1>2 DEF FoundOrdered, Better
<1>5. CASE i \in DOMAIN found[c] /\ found[c][i] >= found[c][j]
  <2>1. c \in Search!In(i)
    BY <1>2, <1>5 DEF Search!In
  <2>2. Search!Normalized(c, i) >= Search!Normalized(c, j)
    BY <1>2, <1>5, NormalizedOrder
  <2>3. Search!Normalized(c, i) \in Nat /\ Search!Normalized(c, j) \in Nat
    BY <1>2, <1>5, NormalizedOrder
  <2>4. Search!Normalized(c, j) * Weight[c] <= Search!Normalized(c, i) * Weight[c]
    BY <1>3, <2>2, <2>3, Products
  <2>5. Search!Normalized(c, i) * Weight[c] <= Search!Fused(i)
    BY <2>1, FusedIsBest
  <2>6. Search!Normalized(c, i) * Weight[c] \in Nat
    BY <1>3, <2>3, Products
  <2> QED
    BY <1>1, <1>3, <2>4, <2>5, <2>6
<1>6. CASE \A k \in DOMAIN found[c] : found[c][k] >= found[c][j]
  <2>1. Search!Normalized(c, j) = 0
    BY <1>2, <1>6, NormalizedOrder
  <2>2. Search!Fused(j) = 0
    BY <1>1, <1>3, <2>1, Products
  <2> QED
    BY <1>3, <2>2
<1> QED
  BY <1>4, <1>5, <1>6 DEF Before

\* Moves and changes of others, and a query, only lose what is better.
LEMMA BetterStays ==
    ASSUME KindInv, ScoresTyped, UNCHANGED <<hits, near, worth, asked>>,
           \A i \in Sought : i \notin moves' => i \notin moves /\ place'[i] = place[i],
           \A i \in Sought : i \notin changed' => i \notin changed /\ kind'[i] = kind[i]
    PROVE  \A i, j : Better(i, j)' => Better(i, j)
BY DEF Better, Search!Passes

\* Which of two memories is better depends on the scores, the query and the changes alone.
LEMMA SameBetter ==
    ASSUME UNCHANGED <<hits, near, worth, asked, moves, changed, place, kind>>
    PROVE  \A i, j : Better(i, j)' <=> Better(i, j)
BY DEF Better, Search!Passes

\* What the others do.
LEMMA OrderOthers ==
    ASSUME OrderInv, NEW i \in Sought, Search!TakeOut(i) \/ Search!PutIn(i) \/ Search!Change(i)
    PROVE  OrderInv'
<1> USE DEF OrderInv
<1>1. UNCHANGED <<hits, near, worth, phase, asked, found, ranked, results>>
  BY DEF Search!TakeOut, Search!PutIn, Search!Change, Search!scores
<1>2. KindInv'
  BY KindStep DEF Search!Next
<1>3. ScoresTyped'
  <2>1. DOMAIN place' = DOMAIN place
    BY DEF Search!TakeOut, Search!PutIn, Search!Change
  <2> QED
    BY <1>1, <2>1 DEF ScoresTyped
<1>4. \A k, j : Better(k, j)' => Better(k, j)
  <2>1. CASE Search!TakeOut(i) \/ Search!PutIn(i)
    <3>1. \A k \in Sought : k \notin moves' => k \notin moves /\ place'[k] = place[k]
      BY <2>1 DEF Search!TakeOut, Search!PutIn, ScoresTyped
    <3>2. changed' = changed /\ kind' = kind
      BY <2>1 DEF Search!TakeOut, Search!PutIn
    <3> QED
      BY <1>1, <3>1, <3>2, BetterStays
  <2>2. CASE Search!Change(i)
    <3>1. \A k \in Sought : k \notin changed' => k \notin changed /\ kind'[k] = kind[k]
      BY <2>2 DEF Search!Change, KindInv
    <3>2. moves' = moves /\ place' = place
      BY <2>2 DEF Search!Change
    <3> QED
      BY <1>1, <3>1, <3>2, BetterStays
  <2> QED
    BY <2>1, <2>2
<1>5. FoundOrdered(found)'
  BY <1>1, <1>4 DEF FoundOrdered, Before
<1>6. RankedOrdered'
  BY <1>1, <1>4 DEF RankedOrdered, Final
<1>7. ResultsOrdered'
  BY <1>1, <1>4 DEF ResultsOrdered
<1> QED
  BY <1>2, <1>3, <1>5, <1>6, <1>7

\* The channels.
LEMMA OrderChannel ==
    ASSUME OrderInv, NEW c \in Search!Channels, NEW best,
           found' = [found EXCEPT ![c] = best],
           UNCHANGED <<place, kind, hits, near, worth, asked, ranked, results, changed, moves>>,
           phase \notin {"rerank", "format"}, phase' \notin {"rerank", "format"},
           \A k \in DOMAIN best : k \in Sought /\ best[k] \in 0 .. Bound,
           \A i, j \in Sought : Better(i, j) /\ j \in DOMAIN best => Before(best, i, j)
    PROVE  ScoresTyped' /\ FoundOrdered(found)' /\ RankedOrdered' /\ ResultsOrdered'
<1> USE DEF OrderInv
<1>1. \A i, j : Better(i, j)' <=> Better(i, j)
  BY SameBetter
<1>2. ScoresTyped'
  BY DEF ScoresTyped
<1>3. \A d \in Search!Channels : found'[d] = IF d = c THEN best ELSE found[d]
  BY DEF KindInv
<1>4. FoundOrdered(found')
  BY <1>3 DEF FoundOrdered
<1>5. FoundOrdered(found)'
  BY <1>1, <1>4 DEF FoundOrdered, Before
<1>6. RankedOrdered'
  BY <1>1, NothingFound DEF RankedOrdered, Final, KindInv
<1>7. ResultsOrdered'
  BY <1>1 DEF ResultsOrdered
<1> QED
  BY <1>2, <1>5, <1>6, <1>7

\* The words found: every active memory that passes and has one is scored.
LEMMA OrderKeyword ==
    ASSUME OrderInv, Search!Keyword
    PROVE  OrderInv'
<1> USE DEF OrderInv
<1>1. /\ UNCHANGED <<place, kind, hits, near, worth, asked, ranked, results, changed, moves>>
      /\ phase = "keyword" /\ phase' = "vector"
  BY DEF Search!Keyword, Search!Goto, Search!memories, Search!scores, Search!history
<1> DEFINE matching == {i \in Sought : place[i] = "active" /\ hits[i] > 0 /\ Search!Passes(i)}
           score == IF asked.text THEN [i \in matching |-> hits[i]] ELSE <<>>
<1>2. PICK best \in Search!Best(score, 3 * MaxResults) : found' = [found EXCEPT !["keyword"] = best]
  BY DEF Search!Keyword, Search!Find
<1>3. \A k \in DOMAIN score : k \in matching /\ score[k] = hits[k] /\ asked.text
  OBVIOUS
<1>4. \A k \in Sought : hits[k] \in Nat /\ hits[k] \in 0 .. Bound
  BY BoundTyped DEF ScoresTyped, Bound
<1>5. \A k \in matching : asked.text => k \in DOMAIN score
  OBVIOUS
<1>6. \A k \in matching : k \in Sought
  OBVIOUS
<1>7. \A i, j : Better(i, j) /\ j \in matching => i \in matching /\ hits[i] >= hits[j]
  BY <1>4 DEF Better
<1> HIDE DEF score, matching
<1>8. \A k \in DOMAIN best : k \in DOMAIN score /\ best[k] = score[k]
  BY <1>2, BestSome
<1>9. \A k \in DOMAIN best : k \in Sought /\ best[k] \in 0 .. Bound
  BY <1>3, <1>4, <1>6, <1>8
<1>10. \A i, j \in Sought : Better(i, j) /\ j \in DOMAIN best => Before(best, i, j)
  <2> SUFFICES ASSUME NEW i \in Sought, NEW j \in Sought, Better(i, j), j \in DOMAIN best
               PROVE  Before(best, i, j)
    OBVIOUS
  <2>1. i \in DOMAIN score /\ score[i] >= score[j]
    BY <1>3, <1>5, <1>7, <1>8
  <2>2. \A k \in DOMAIN score : score[k] \in Nat
    BY <1>3, <1>4, <1>6
  <2> QED
    BY <1>2, <2>1, <2>2, BestBefore
<1>11. KindInv'
  BY KindStep DEF Search!Next
<1> QED
  BY <1>1, <1>2, <1>9, <1>10, <1>11, OrderChannel DEF Search!Channels

\* The nearest: the index is asked first, what it gave is read and filtered then.
LEMMA OrderVector ==
    ASSUME OrderInv, Search!Vector
    PROVE  OrderInv'
<1> USE DEF OrderInv
<1>1. /\ UNCHANGED <<place, kind, hits, near, worth, asked, ranked, results, changed, moves>>
      /\ phase = "vector" /\ phase' = "recent"
  BY DEF Search!Vector, Search!Goto, Search!memories, Search!scores, Search!history
<1>2. KindInv'
  BY KindStep DEF Search!Next
<1>3. CASE ~asked.text
  <2>1. found' = [found EXCEPT !["vector"] = <<>>] /\ DOMAIN << >> = {}
    BY <1>3 DEF Search!Vector
  <2> QED
    BY <1>1, <1>2, <2>1, OrderChannel DEF Search!Channels
<1>4. CASE asked.text
  <2> DEFINE held == {j \in Sought : place[j] # "gone"}
             score == [i \in held |-> near[i]]
             kept_(top) == {i \in DOMAIN top : place[i] \in {"active", "archived"} /\ Search!Passes(i)}
  <2>1. PICK top : /\ top \in Search!Best(score, 3 * MaxResults)
                   /\ found' = [found EXCEPT !["vector"] = Search!Restrict(top, kept_(top))]
    BY <1>4 DEF Search!Vector
  <2> DEFINE best == Search!Restrict(top, kept_(top))
  <2>2. \A k \in DOMAIN score : k \in Sought /\ score[k] = near[k]
    OBVIOUS
  <2>3. \A i, j : Better(i, j) => i \in DOMAIN score
    BY DEF Better
  <2>4. \A k \in Sought : near[k] \in Nat /\ near[k] \in 0 .. Bound
    BY BoundTyped DEF ScoresTyped, Bound
  <2>5. \A k \in DOMAIN best : k \in DOMAIN top /\ best[k] = top[k]
    BY DEF Search!Restrict
  <2>6. \A i, j : Better(i, j) /\ i \in DOMAIN top => i \in DOMAIN best
    BY DEF Better, Search!Restrict
  <2>7. found' = [found EXCEPT !["vector"] = best]
    BY <2>1
  <2> HIDE DEF best, score
  <2>8. \A k \in DOMAIN top : k \in DOMAIN score /\ top[k] = score[k]
    BY <2>1, BestSome
  <2>9. \A k \in DOMAIN best : k \in Sought /\ best[k] \in 0 .. Bound
    BY <2>2, <2>4, <2>5, <2>8
  <2>10. \A i, j \in Sought : Better(i, j) /\ j \in DOMAIN best => Before(best, i, j)
    <3> SUFFICES ASSUME NEW i \in Sought, NEW j \in Sought, Better(i, j), j \in DOMAIN best
                 PROVE  Before(best, i, j)
      OBVIOUS
    <3>1. i \in DOMAIN score /\ j \in DOMAIN top /\ score[i] >= score[j]
      BY <2>2, <2>3, <2>5, <2>8 DEF Better
    <3>2. \A k \in DOMAIN score : score[k] \in Nat
      BY <2>2, <2>4
    <3>3. Before(top, i, j)
      BY <2>1, <3>1, <3>2, BestBefore
    <3> QED
      BY <2>5, <2>6, <3>3 DEF Before
  <2> QED
    BY <1>1, <1>2, <2>7, <2>9, <2>10, OrderChannel DEF Search!Channels
<1> QED
  BY <1>3, <1>4

\* The cardinality that Retrieval sees is that of FiniteSets.
LEMMA CardSearch == \A S : Search!Cardinality(S) = Cardinality(S)
BY DEF Cardinality, Search!Cardinality

\* The newest score best.
LEMMA OrderRecent ==
    ASSUME OrderInv, Search!Recent
    PROVE  OrderInv'
<1> USE DEF OrderInv
<1>1. /\ UNCHANGED <<place, kind, hits, near, worth, asked, ranked, results, changed, moves>>
      /\ phase = "recent" /\ phase' = "fuse"
  BY DEF Search!Recent, Search!Goto, Search!memories, Search!scores, Search!history
<1>2. KindInv'
  BY KindStep DEF Search!Next
<1> DEFINE passing == {i \in Sought : place[i] = "active" /\ Search!Passes(i)}
           rank(i) == Cardinality({j \in passing : j <= i})
           score == [i \in passing |-> rank(i)]
<1>3. PICK best \in Search!Best(score, 3 * MaxResults) : found' = [found EXCEPT !["recent"] = best]
  BY CardSearch DEF Search!Recent, Search!Find
<1>4. \A k \in DOMAIN score : k \in passing /\ score[k] = rank(k)
  OBVIOUS
<1>5. \A k \in passing : k \in Sought /\ k \in DOMAIN score
  OBVIOUS
<1>6. \A i, j : Better(i, j) => i \in passing
  BY DEF Better
<1>7. ASSUME NEW k \in passing PROVE rank(k) \in Nat /\ rank(k) \in 0 .. Bound
  <2>1. {j \in passing : j <= k} \subseteq Sought
    OBVIOUS
  <2>2. rank(k) \in Nat /\ rank(k) <= Cardinality(Sought)
    BY <2>1, BoundTyped, FS_Subset, FS_CardinalityType
  <2> QED
    BY <2>2, BoundTyped DEF Bound
<1>8. ASSUME NEW i \in passing, NEW j \in passing, i > j PROVE rank(i) >= rank(j)
  <2>1. {k \in passing : k <= j} \subseteq {k \in passing : k <= i}
    <3>1. \A k \in passing : k \in Nat
      BY BoundTyped
    <3> HIDE DEF passing
    <3>2. \A k \in passing : k <= j => k <= i
      BY <1>8, <3>1
    <3> QED
      BY <3>2
  <2>2. IsFiniteSet({k \in passing : k <= i})
    BY BoundTyped, FS_Subset
  <2>3. rank(j) <= rank(i)
    BY <2>1, <2>2, FS_Subset
  <2> QED
    BY <1>7, <2>3
<1> HIDE DEF score, rank, passing
<1>9. \A k \in DOMAIN best : k \in DOMAIN score /\ best[k] = score[k]
  BY <1>3, BestSome
<1>10. \A k \in DOMAIN best : k \in Sought /\ best[k] \in 0 .. Bound
  BY <1>4, <1>5, <1>7, <1>9
<1>11. \A i, j \in Sought : Better(i, j) /\ j \in DOMAIN best => Before(best, i, j)
  <2> SUFFICES ASSUME NEW i \in Sought, NEW j \in Sought, Better(i, j), j \in DOMAIN best
               PROVE  Before(best, i, j)
    OBVIOUS
  <2>1. i \in passing /\ j \in passing /\ i > j
    BY <1>4, <1>6, <1>9 DEF Better
  <2>2. i \in DOMAIN score /\ score[i] >= score[j]
    BY <1>4, <1>5, <1>8, <2>1
  <2>3. \A k \in DOMAIN score : score[k] \in Nat
    BY <1>4, <1>7
  <2> QED
    BY <1>3, <2>2, <2>3, BestBefore
<1> QED
  BY <1>1, <1>2, <1>3, <1>10, <1>11, OrderChannel DEF Search!Channels

\* A better score is more relevant, and stays better when it is weighted.
LEMMA RelevanceOrder ==
    /\ \A n \in Nat : Relevance(n) \in Nat
    /\ \A m, n \in Nat : m >= n => Relevance(m) >= Relevance(n)
BY DEF Relevance

\* The relevance, weighed with the worth, keeps the order.
LEMMA FinalOrder ==
    ASSUME NEW m \in Nat, NEW n \in Nat, m >= n, NEW v \in Nat, NEW w \in Nat, v >= w
    PROVE  Relevance(m) * v \in Nat /\ Relevance(n) * w \in Nat
             /\ Relevance(m) * v >= Relevance(n) * w
<1>1. Relevance(m) \in Nat /\ Relevance(n) \in Nat /\ Relevance(n) <= Relevance(m)
  BY RelevanceOrder
<1>2. Relevance(m) * v \in Nat /\ Relevance(n) * w \in Nat
  BY <1>1, Products
<1>3. Relevance(n) * w <= Relevance(m) * v
  BY <1>1, Products
<1> QED
  BY <1>2, <1>3

\* Every memory found is a candidate, with the best of its scores.
LEMMA OrderFuse ==
    ASSUME OrderInv, Search!Fuse
    PROVE  OrderInv'
<1> USE DEF OrderInv
<1>1. /\ UNCHANGED <<place, kind, hits, near, worth, asked, results, changed, moves>>
      /\ phase' = "rerank" /\ found' = Search!NoneFound
  BY DEF Search!Fuse, Search!memories, Search!scores, Search!history
<1>2. KindInv'
  BY KindStep DEF Search!Next
<1> DEFINE some == {j \in Sought : Search!In(j) # {}}
           score == [i \in some |-> Search!Fused(i)]
<1>3. PICK best \in Search!Best(score, 2 * MaxResults) :
         ranked' = [score |-> best, todo |-> DOMAIN best, entry |-> {}]
  BY DEF Search!Fuse
<1>4. \A k \in DOMAIN score : k \in some /\ score[k] = Search!Fused(k)
  OBVIOUS
<1>5. \A k \in some : k \in Sought /\ Search!In(k) # {}
  OBVIOUS
<1>6. \A k \in DOMAIN best : k \in DOMAIN score /\ best[k] = score[k]
  <2> HIDE DEF score
  <2> QED
    BY <1>3, BestSome
<1> HIDE DEF score, some
<1>7. \A k \in DOMAIN best : k \in Sought /\ Search!In(k) # {} /\ best[k] = Search!Fused(k) /\ best[k] \in Nat
  BY <1>4, <1>5, <1>6, FusedIsBest
<1>8. \A i, j \in DOMAIN best : Better(i, j) => best[i] >= best[j]
  BY <1>7, FusedOrder
<1>9. RankedOrdered'
  <2>1. ranked'.score = best /\ ranked'.todo = DOMAIN best
    BY <1>3
  <2>2. \A i, j : Better(i, j)' <=> Better(i, j)
    BY <1>1, SameBetter
  <2>3. \A i \in DOMAIN best : Final(i)' = Relevance(best[i]) * worth[i]
    BY <1>1, <2>1 DEF Final
  <2>4. \A i \in Sought : worth[i] \in Nat
    BY BoundTyped DEF ScoresTyped
  <2>5. ASSUME NEW i \in DOMAIN best, NEW j \in DOMAIN best, Better(i, j)
        PROVE  Final(i)' >= Final(j)'
    <3>1. worth[i] >= worth[j] /\ best[i] >= best[j]
      BY <1>8, <2>5 DEF Better
    <3>2. /\ worth[i] \in Nat /\ worth[j] \in Nat /\ best[i] \in Nat /\ best[j] \in Nat
          /\ Final(i)' = Relevance(best[i]) * worth[i] /\ Final(j)' = Relevance(best[j]) * worth[j]
      BY <1>7, <2>3, <2>4
    <3>3. Relevance(best[i]) * worth[i] >= Relevance(best[j]) * worth[j]
      BY <3>1, <3>2, FinalOrder
    <3> QED
      BY <3>2, <3>3
  <2> QED
    BY <1>1, <1>7, <2>1, <2>2, <2>5 DEF RankedOrdered
<1>10. FoundOrdered(found)'
  BY <1>1, NothingFound DEF FoundOrdered
<1>11. ResultsOrdered' /\ ScoresTyped'
  BY <1>1, SameBetter DEF ResultsOrdered, ScoresTyped
<1> QED
  BY <1>2, <1>9, <1>10, <1>11

\* A candidate that is looked up gets its final score, or none: not one that has stayed.
LEMMA OrderRerank ==
    ASSUME OrderInv, NEW r \in Sought, Search!Rerank(r)
    PROVE  OrderInv'
<1> USE DEF OrderInv
<1>1. /\ UNCHANGED <<place, kind, hits, near, worth, asked, found, results, changed, moves>>
      /\ phase = "rerank" /\ phase' = "rerank" /\ r \in ranked.todo
  BY DEF Search!Rerank, Search!memories, Search!scores, Search!history
<1>2. KindInv'
  BY KindStep DEF Search!Next
<1> DEFINE there == place[r] \in {"active", "archived"}
           value == IF there THEN Relevance(ranked.score[r]) * worth[r] ELSE 0
<1>3. /\ ranked'.score = [ranked.score EXCEPT ![r] = value]
      /\ ranked'.todo = ranked.todo \ {r}
  BY DEF Search!Rerank, Relevance
<1>4. \A i, j : Better(i, j)' <=> Better(i, j)
  BY <1>1, SameBetter
<1>5. \A i \in DOMAIN ranked.score : i # r => Final(i)' = Final(i)
  BY <1>1, <1>3 DEF Final
<1>6. \A i \in DOMAIN ranked.score :
         /\ i \in Sought /\ ranked.score[i] \in Nat /\ worth[i] \in Nat
         /\ Final(i) \in Nat
  <2> TAKE i \in DOMAIN ranked.score
  <2>1. i \in Sought /\ ranked.score[i] \in Nat /\ worth[i] \in Nat
    BY BoundTyped DEF RankedOrdered, ScoresTyped
  <2>2. Relevance(ranked.score[i]) * worth[i] \in Nat
    BY <2>1, FinalOrder
  <2> QED
    BY <2>1, <2>2 DEF Final
<1>7. r \in DOMAIN ranked.score => Final(r) = Relevance(ranked.score[r]) * worth[r] /\ Final(r)' = value
  BY <1>1, <1>3 DEF Final
<1>8. r \in DOMAIN ranked.score => value \in Nat /\ value <= Final(r) /\ (there => value = Final(r))
  BY <1>6, <1>7
<1>9. DOMAIN ranked'.score = DOMAIN ranked.score
  BY <1>3
<1>10. \A i \in DOMAIN ranked.score : ranked'.score[i] = IF i = r THEN value ELSE ranked.score[i]
  BY <1>3
<1>11. \A i, j : Better(i, j) /\ i = r => there
  BY DEF Better
<1> HIDE DEF value, there
<1>12. ASSUME NEW i \in DOMAIN ranked.score, NEW j \in DOMAIN ranked.score, Better(i, j)
       PROVE  Final(i)' >= Final(j)'
  <2>1. Final(i) >= Final(j) /\ Final(i) \in Nat /\ Final(j) \in Nat
    BY <1>6, <1>12 DEF RankedOrdered
  <2>2. Final(i)' = Final(i)
    BY <1>5, <1>7, <1>8, <1>11, <1>12
  <2>3. Final(j)' \in Nat /\ Final(j)' <= Final(j)
    BY <1>5, <1>7, <1>8, <2>1
  <2> QED
    BY <2>1, <2>2, <2>3
<1>13. RankedOrdered'
  <2>1. \A k \in DOMAIN ranked'.score : k \in Sought /\ ranked'.score[k] \in Nat
    BY <1>6, <1>8, <1>9, <1>10
  <2>2. \A i, j \in DOMAIN ranked'.score : Better(i, j)' => Final(i)' >= Final(j)'
    BY <1>4, <1>9, <1>12
  <2>3. phase' # "format"
    BY <1>1
  <2> QED
    BY <2>1, <2>2, <2>3 DEF RankedOrdered
<1>14. FoundOrdered(found)'
  BY <1>1, <1>4 DEF FoundOrdered, Before
<1>15. ResultsOrdered' /\ ScoresTyped'
  BY <1>1, <1>4 DEF ResultsOrdered, ScoresTyped
<1> QED
  BY <1>2, <1>13, <1>14, <1>15

\* The stages that drop candidates, and a retrieval that begins or is given up.
LEMMA OrderRest ==
    ASSUME OrderInv,
           \/ Search!Raise \/ Search!Filter \/ Search!Format
           \/ \E kinds \in SUBSET Kinds, text \in BOOLEAN : Search!Ask(kinds, text)
    PROVE  OrderInv'
<1> USE DEF OrderInv
<1>1. KindInv'
  BY KindStep DEF Search!Next
<1>2. UNCHANGED <<place, kind, hits, near, worth>>
  BY DEF Search!Raise, Search!Filter, Search!Format, Search!Ask, Search!memories, Search!scores
<1>3. ScoresTyped'
  BY <1>2 DEF ScoresTyped
<1>4. CASE \E kinds \in SUBSET Kinds, text \in BOOLEAN : Search!Ask(kinds, text)
  <2>1. /\ phase = "idle" /\ phase' = "keyword" /\ DOMAIN results' = {}
        /\ found' = found /\ ranked' = ranked
    BY <1>4 DEF Search!Ask
  <2>2. found = Search!NoneFound /\ ranked = Search!NoCandidates
    BY <2>1 DEF KindInv
  <2>3. FoundOrdered(found)'
    BY <2>1, <2>2, NothingFound DEF FoundOrdered
  <2>4. RankedOrdered'
    BY <2>1, <2>2, NothingFound DEF RankedOrdered
  <2>5. ResultsOrdered'
    BY <2>1 DEF ResultsOrdered
  <2> QED
    BY <1>1, <1>3, <2>3, <2>4, <2>5
<1>5. CASE Search!Raise \/ Search!Filter \/ Search!Format
  <2>1. UNCHANGED <<asked, moves, changed>>
    BY <1>5 DEF Search!Raise, Search!Filter, Search!Format, Search!history
  <2>2. \A i, j : Better(i, j)' <=> Better(i, j)
    BY <1>2, <2>1, SameBetter
  <2>3. CASE Search!Raise
    <3>1. found' = Search!NoneFound /\ ranked' = ranked /\ results' = results /\ phase' = "idle"
      BY <2>3 DEF Search!Raise
    <3>2. FoundOrdered(found)'
      BY <3>1, NothingFound DEF FoundOrdered
    <3>3. RankedOrdered'
      BY <1>2, <2>2, <3>1 DEF RankedOrdered, Final
    <3>4. ResultsOrdered'
      BY <2>2, <3>1 DEF ResultsOrdered
    <3> QED
      BY <1>1, <1>3, <3>2, <3>3, <3>4
  <2>4. CASE Search!Filter
    <3>1. found' = found /\ results' = results /\ ranked.todo = {} /\ ranked'.todo = {}
      BY <2>4 DEF Search!Filter
    <3>2. \A k \in DOMAIN ranked'.score : k \in DOMAIN ranked.score /\ ranked'.score[k] = ranked.score[k]
      BY <2>4 DEF Search!Filter, Search!Restrict
    <3>3. FoundOrdered(found)'
      BY <2>2, <3>1 DEF FoundOrdered, Before
    <3>4. RankedOrdered'
      BY <2>2, <3>1, <3>2 DEF RankedOrdered, Final
    <3>5. ResultsOrdered'
      BY <2>2, <3>1 DEF ResultsOrdered
    <3> QED
      BY <1>1, <1>3, <3>3, <3>4, <3>5
  <2>5. CASE Search!Format
    <3>1. found' = found /\ ranked' = Search!NoCandidates /\ ranked.todo = {}
      BY <2>5 DEF Search!Format, RankedOrdered
    <3>2. PICK best \in Search!Best(ranked.score, MaxResults) :
             /\ DOMAIN results' = DOMAIN best
             /\ \A i \in DOMAIN best : results'[i].score = best[i]
      BY <2>5 DEF Search!Format
    <3>3. \A k \in DOMAIN best : k \in DOMAIN ranked.score /\ best[k] = ranked.score[k]
      BY <3>2, BestSome
    <3>4. \A i, j \in DOMAIN ranked.score : Better(i, j) => ranked.score[i] >= ranked.score[j]
      BY <3>1 DEF RankedOrdered, Final
    <3>5. ResultsOrdered'
      BY <2>2, <3>2, <3>3, <3>4 DEF ResultsOrdered
    <3>6. RankedOrdered'
      BY <3>1, <2>5, NothingFound DEF RankedOrdered, Search!Format
    <3>7. FoundOrdered(found)'
      BY <2>2, <3>1 DEF FoundOrdered, Before
    <3> QED
      BY <1>1, <1>3, <3>5, <3>6, <3>7
  <2> QED
    BY <1>5, <2>3, <2>4, <2>5
<1> QED
  BY <1>4, <1>5

\* Each step of a retrieval, of a move, a purge or a change of a memory keeps the order.
LEMMA OrderStep ==
    ASSUME OrderInv, Search!Next
    PROVE  OrderInv'
<1>1. CASE \E i \in Sought : Search!TakeOut(i) \/ Search!PutIn(i) \/ Search!Change(i)
  BY <1>1, OrderOthers
<1>2. CASE \E i \in Sought : Search!Rerank(i)
  BY <1>2, OrderRerank
<1>3. CASE Search!Keyword \/ Search!Vector \/ Search!Recent \/ Search!Fuse
  BY <1>3, OrderKeyword, OrderVector, OrderRecent, OrderFuse
<1>4. CASE \/ Search!Raise \/ Search!Filter \/ Search!Format
           \/ \E kinds \in SUBSET Kinds, text \in BOOLEAN : Search!Ask(kinds, text)
  BY <1>4, OrderRest
<1> QED
  BY <1>1, <1>2, <1>3, <1>4 DEF Search!Next

\* The order holds before the first query.
LEMMA OrderInit ==
    ASSUME Search!Init
    PROVE  OrderInv
<1>1. DOMAIN results = {} /\ phase = "idle" /\ found = Search!NoneFound /\ ranked = Search!NoCandidates
  BY DEF Search!Init
<1>2. ScoresTyped
  BY DEF Search!Init, ScoresTyped
<1>3. FoundOrdered(found) /\ RankedOrdered /\ ResultsOrdered
  BY <1>1, NothingFound DEF FoundOrdered, RankedOrdered, ResultsOrdered
<1> QED
  BY <1>2, <1>3, KindInit DEF OrderInv

\* In the results, a better memory is then not after a worse one.
LEMMA OrderFound ==
    ASSUME OrderInv
    PROVE  Search!BetterIsBefore
<1> SUFFICES ASSUME NEW i \in DOMAIN results \ (moves \cup changed),
                    NEW j \in DOMAIN results \ (moves \cup changed),
                    i > j, place[i] = "active", Search!AtLeastAsGood(i, j)
             PROVE  results[i].score >= results[j].score
  BY DEF Search!BetterIsBefore
<1>1. Better(i, j)
  BY DEF OrderInv, KindInv, Asked, Search!Passes, Better, Search!AtLeastAsGood
<1> QED
  BY <1>1 DEF OrderInv, ResultsOrdered

\* A memory that is newer, matches at least as well in every channel and is worth as much
\* comes before the other, of those that have stayed, for any weights and any number of
\* memories, results and moves of others.
THEOREM FindsInOrder == MCSpec => []FoundInOrder
<1> DEFINE Inv == setting \in Settings /\ (ofSearch => OrderInv)
<1>1. ASSUME MCInit PROVE Inv
  BY <1>1, OrderInit DEF MCInit
<1>2. ASSUME Inv, [MCNext]_MCVars PROVE Inv'
  <2>1. ASSUME UNCHANGED <<setting, searchVars>> PROVE Inv'
    BY <1>2, <2>1 DEF searchVars, ofSearch, OrderInv, KindInv, Asked, ScoresTyped, FoundOrdered,
                 RankedOrdered, ResultsOrdered, Better, Before, Final, Search!Passes
  <2>2. CASE UNCHANGED MCVars
    BY <2>1, <2>2 DEF MCVars
  <2>3. CASE MCNext
    <3>1. CASE ofSearch /\ Search!Next
      BY <1>2, <2>3, <3>1, OrderStep DEF MCNext, ofSearch
    <3>2. CASE ~(ofSearch /\ Search!Next)
      BY <2>1, <2>3, <3>2 DEF MCNext
    <3> QED
      BY <3>1, <3>2
  <2> QED
    BY <1>2, <2>2, <2>3
<1>3. Inv => FoundInOrder
  BY OrderFound DEF FoundInOrder
<1> QED
  BY <1>1, <1>2, <1>3, PTL DEF MCSpec

------------------------------------------------------------------------------
(* The saved state: chains of migrations *)

\* What holds at 0 and steps up holds up to n.
LEMMA Upward ==
    ASSUME NEW n \in Nat, NEW G, 0 \in G, \A k \in 1 .. n : k - 1 \in G => k \in G
    PROVE  \A k \in 0 .. n : k \in G
<1> DEFINE Bad == {k \in 0 .. n : k \notin G}
<1>1. Bad = {}
  <2> SUFFICES ASSUME Bad # {} PROVE FALSE
    OBVIOUS
  <2>1. PICK k \in Bad : \A m \in Bad : k <= m
    <3>1. Bad \subseteq Nat
      OBVIOUS
    <3> HIDE DEF Bad
    <3> QED
      BY <3>1, HasLeast
  <2>2. k \in 1 .. n
    BY <2>1
  <2>3. k - 1 \notin Bad /\ k - 1 \in 0 .. n
    BY <2>1, <2>2
  <2> QED
    BY <2>1, <2>2, <2>3
<1> QED
  BY <1>1

\* A registered migration.
Migrations == [from : Schemas, to : Schemas, fails : BOOLEAN]

\* A version that the search has come to, and the migrations that it has come by.
Nodes == [at : Schemas, path : Seq(Migrations)]

\* What the search knows: the versions seen, and those whose migrations it has not followed.
Searches == [seen : SUBSET Schemas, queue : Seq(Nodes)]

\* A chain of registered steps that leads from a version to that of the node.
Chain(from, q) ==
    /\ q \in Nodes
    /\ \A n \in 1 .. Len(q.path) : \E m \in 1 .. Len(steps) : q.path[n] = steps[m]
    /\ \A n \in 2 .. Len(q.path) : q.path[n].from = q.path[n - 1].to
    /\ Len(q.path) = 0 => q.at = from
    /\ Len(q.path) # 0 => q.path[1].from = from /\ q.path[Len(q.path)].to = q.at

\* The node that the m-th migration leads to from q.
Further(q, m) == [at |-> steps[m].to, path |-> Append(q.path, steps[m])]

\* A chain with a registered migration out of its last version is a chain, one longer.
LEMMA ChainGrows ==
    ASSUME steps \in Seq(Migrations), NEW from, NEW q, Chain(from, q),
           NEW m \in 1 .. Len(steps), steps[m].from = q.at
    PROVE  Chain(from, Further(q, m)) /\ Len(Further(q, m).path) = Len(q.path) + 1
<1> DEFINE e == steps[m]
           p == Append(q.path, e)
<1>1. e \in Migrations
  BY ElementOfSeq
<1>2. q.path \in Seq(Migrations) /\ Len(q.path) \in Nat
  BY LenProperties DEF Chain, Nodes
<1> HIDE DEF e
<1>3. /\ p \in Seq(Migrations) /\ Len(p) = Len(q.path) + 1
      /\ \A n \in 1 .. Len(q.path) : p[n] = q.path[n]
      /\ p[Len(q.path) + 1] = e
  BY <1>1, <1>2, AppendProperties
<1> HIDE DEF p
<1>4. Further(q, m) = [at |-> e.to, path |-> p]
  BY DEF Further, e, p
<1>5. Further(q, m) \in Nodes
  BY <1>1, <1>3, <1>4 DEF Nodes, Migrations
<1>6. \A n \in 1 .. Len(p) : \E k \in 1 .. Len(steps) : p[n] = steps[k]
  <2> TAKE n \in 1 .. Len(p)
  <2>1. CASE n \in 1 .. Len(q.path)
    BY <1>3, <2>1 DEF Chain
  <2>2. CASE n = Len(q.path) + 1
    BY <1>3, <2>2 DEF e
  <2> QED
    BY <1>2, <1>3, <2>1, <2>2
<1>7. \A n \in 2 .. Len(p) : p[n].from = p[n - 1].to
  <2> TAKE n \in 2 .. Len(p)
  <2>1. n - 1 \in 1 .. Len(q.path)
    BY <1>2, <1>3
  <2>2. CASE n \in 2 .. Len(q.path)
    <3>1. p[n] = q.path[n] /\ p[n - 1] = q.path[n - 1]
      BY <1>3, <2>1, <2>2
    <3> QED
      BY <2>2, <3>1 DEF Chain
  <2>3. CASE n = Len(q.path) + 1
    <3>1. p[n] = e /\ p[n - 1] = q.path[Len(q.path)] /\ Len(q.path) # 0
      BY <1>2, <1>3, <2>1, <2>3
    <3> QED
      BY <3>1 DEF Chain, e
  <2> QED
    BY <1>2, <1>3, <2>2, <2>3
<1>8. p[1].from = from /\ p[Len(p)].to = e.to
  <2>1. CASE Len(q.path) = 0
    BY <1>3, <2>1 DEF Chain, e
  <2>2. CASE Len(q.path) # 0
    <3>1. p[1] = q.path[1]
      BY <1>2, <1>3, <2>2
    <3> QED
      BY <1>3, <2>2, <3>1 DEF Chain
  <2> QED
    BY <2>1, <2>2
<1> QED
  BY <1>2, <1>3, <1>4, <1>5, <1>6, <1>7, <1>8 DEF Chain

\* What the steps out of a version add to a search: nodes of new versions, each once.
Adding(r, head, seen, queue) ==
    /\ r \in Searches
    /\ seen \subseteq r.seen
    /\ Len(queue) <= Len(r.queue)
    /\ \A i \in 1 .. Len(queue) : r.queue[i] = queue[i]
    /\ \A i \in Len(queue) + 1 .. Len(r.queue) :
          /\ r.queue[i].at \in r.seen \ seen
          /\ \E m \in 1 .. Len(steps) : steps[m].from = head.at /\ r.queue[i] = Further(head, m)
    /\ \A i, j \in Len(queue) + 1 .. Len(r.queue) : r.queue[i].at = r.queue[j].at => i = j
    /\ \A v \in r.seen \ seen : \E i \in Len(queue) + 1 .. Len(r.queue) : r.queue[i].at = v

\* What one migration adds to the versions seen and to the queue.
AddStep(acc, head, step) ==
    IF step.from = head.at /\ step.to \notin acc.seen
    THEN [seen |-> acc.seen \cup {step.to},
          queue |-> Append(acc.queue, [at |-> step.to, path |-> Append(head.path, step)])]
    ELSE acc

\* One migration more adds no version twice, and none by more than one step.
LEMMA AddingStep ==
    ASSUME steps \in Seq(Migrations), NEW from, NEW head, Chain(from, head),
           NEW seen \in SUBSET Schemas, NEW queue \in Seq(Nodes), NEW acc,
           Adding(acc, head, seen, queue), NEW m \in 1 .. Len(steps)
    PROVE  Adding(AddStep(acc, head, steps[m]), head, seen, queue)
<1> DEFINE r == AddStep(acc, head, steps[m])
           l == Len(acc.queue)
           x == Further(head, m)
<1>1. steps[m] \in Migrations
  BY ElementOfSeq
<1>2. CASE ~(steps[m].from = head.at /\ steps[m].to \notin acc.seen)
  BY <1>2 DEF AddStep
<1>3. CASE steps[m].from = head.at /\ steps[m].to \notin acc.seen
  <2>1. acc.seen \in SUBSET Schemas /\ acc.queue \in Seq(Nodes) /\ l \in Nat /\ Len(queue) \in Nat
    BY LenProperties DEF Adding, Searches
  <2>2. x \in Nodes /\ x.at = steps[m].to
    BY <1>3, ChainGrows DEF Chain, Further
  <2>3. r = [seen |-> acc.seen \cup {x.at}, queue |-> Append(acc.queue, x)]
    BY <1>3 DEF AddStep, Further
  <2>4. x.at \in Schemas /\ x.at \notin acc.seen
    BY <1>1, <1>3, <2>2 DEF Migrations
  <2> HIDE DEF x, r
  <2>5. /\ Append(acc.queue, x) \in Seq(Nodes) /\ Len(Append(acc.queue, x)) = l + 1
        /\ \A i \in 1 .. l : Append(acc.queue, x)[i] = acc.queue[i]
        /\ Append(acc.queue, x)[l + 1] = x
    BY <2>1, <2>2, AppendProperties
  <2>6. r \in Searches
    BY <2>1, <2>3, <2>4, <2>5 DEF Searches
  <2>7. /\ r.seen = acc.seen \cup {x.at} /\ Len(r.queue) = l + 1
        /\ \A i \in 1 .. l : r.queue[i] = acc.queue[i]
        /\ r.queue[l + 1] = x
    BY <2>3, <2>5
  <2>8. Len(queue) <= l /\ seen \subseteq acc.seen
    BY DEF Adding
  <2> HIDE DEF l
  <2>9. \A i \in 1 .. Len(queue) : r.queue[i] = queue[i]
    <3> TAKE i \in 1 .. Len(queue)
    <3>1. i \in 1 .. l
      BY <2>1, <2>8
    <3> QED
      BY <2>7, <3>1 DEF Adding
  <2>10. ASSUME NEW i \in Len(queue) + 1 .. l + 1
         PROVE  \/ i = l + 1
                \/ i \in Len(queue) + 1 .. Len(acc.queue) /\ r.queue[i] = acc.queue[i]
    <3>1. i # l + 1 => i \in 1 .. l /\ i \in Len(queue) + 1 .. l
      BY <2>1, <2>8
    <3> QED
      BY <2>7, <3>1 DEF l
  <2>11. \A i \in Len(queue) + 1 .. l + 1 :
            /\ r.queue[i].at \in r.seen \ seen
            /\ \E k \in 1 .. Len(steps) : steps[k].from = head.at /\ r.queue[i] = Further(head, k)
    <3> TAKE i \in Len(queue) + 1 .. l + 1
    <3>1. CASE i = l + 1
      BY <1>3, <2>4, <2>7, <2>8, <3>1 DEF x
    <3>2. CASE i # l + 1
      <4>1. i \in Len(queue) + 1 .. Len(acc.queue) /\ r.queue[i] = acc.queue[i]
        BY <2>10, <3>2
      <4> QED
        BY <2>7, <4>1 DEF Adding
    <3> QED
      BY <3>1, <3>2
  <2>12. \A i, j \in Len(queue) + 1 .. l + 1 : r.queue[i].at = r.queue[j].at => i = j
    <3>1. \A i \in Len(queue) + 1 .. Len(acc.queue) : acc.queue[i].at \in acc.seen
      BY DEF Adding
    <3>2. \A i \in Len(queue) + 1 .. l + 1 : i # l + 1 => r.queue[i].at # x.at
      BY <2>4, <2>10, <3>1
    <3>3. \A i, j \in Len(queue) + 1 .. Len(acc.queue) : acc.queue[i].at = acc.queue[j].at => i = j
      BY DEF Adding
    <3> QED
      BY <2>7, <2>10, <3>2, <3>3
  <2>13. \A v \in r.seen \ seen : \E i \in Len(queue) + 1 .. l + 1 : r.queue[i].at = v
    <3> TAKE v \in r.seen \ seen
    <3>1. CASE v = x.at
      <4>1. l + 1 \in Len(queue) + 1 .. l + 1
        BY <2>1, <2>8
      <4> QED
        BY <2>7, <3>1, <4>1
    <3>2. CASE v # x.at
      <4>1. v \in acc.seen \ seen
        BY <2>7, <3>2
      <4>2. PICK i \in Len(queue) + 1 .. Len(acc.queue) : acc.queue[i].at = v
        BY <4>1 DEF Adding
      <4>3. i \in Len(queue) + 1 .. l + 1 /\ i \in 1 .. l
        BY <2>1, <2>8, <4>2 DEF l
      <4> QED
        BY <2>7, <4>2, <4>3
    <3> QED
      BY <3>1, <3>2
  <2>14. Len(queue) <= l + 1 /\ seen \subseteq r.seen
    BY <2>1, <2>7, <2>8
  <2>15. Adding(r, head, seen, queue)
    BY <2>6, <2>7, <2>9, <2>11, <2>12, <2>13, <2>14 DEF Adding
  <2> QED
    BY <2>15 DEF r
<1> QED
  BY <1>2, <1>3

\* Before the first migration, nothing is added.
LEMMA AddingNothing ==
    ASSUME NEW head, NEW seen \in SUBSET Schemas, NEW queue \in Seq(Nodes)
    PROVE  Adding([seen |-> seen, queue |-> queue], head, seen, queue)
<1>1. Len(queue) \in Nat
  BY LenProperties
<1>2. \A i \in Len(queue) + 1 .. Len(queue) : FALSE
  BY <1>1
<1> QED
  BY <1>1, <1>2 DEF Adding, Searches

\* The steps are looked at one after the other.
Expanding(h, head, seen, queue) ==
    /\ h \in [0 .. Len(steps) -> {acc \in Searches : Adding(acc, head, seen, queue)}] /\ h[0] = [seen |-> seen, queue |-> queue]
    /\ h[Len(steps)] = Saved!Expand(head, seen, queue)
    /\ \A k \in 1 .. Len(steps) : h[k] = AddStep(h[k - 1], head, steps[k])

\* The migrations out of a version are followed one by one, in the order of registration.
LEMMA ExpandPasses ==
    ASSUME steps \in Seq(Migrations), NEW from, NEW head, Chain(from, head),
           NEW seen \in SUBSET Schemas, NEW queue \in Seq(Nodes)
    PROVE  \E h : Expanding(h, head, seen, queue)
<1> DEFINE T == {acc \in Searches : Adding(acc, head, seen, queue)}
           E == {steps[m] : m \in 1 .. Len(steps)}
           by == [p \in T \X E |-> AddStep(p[1], head, p[2])]
           Eq(i) == i = [t \in SUBSET DOMAIN steps |->
                           IF t = {} THEN [seen |-> seen, queue |-> queue]
                           ELSE AddStep(i[t \ {Greatest(t)}], head, steps[Greatest(t)])]
           f == CHOOSE i : Eq(i)
<1>0. ASSUME NEW v \in T, NEW e \in E
      PROVE  AddStep(v, head, e) \in T
  <2>1. PICK m \in 1 .. Len(steps) : e = steps[m]
    OBVIOUS
  <2>2. Adding(v, head, seen, queue)
    OBVIOUS
  <2>3. Adding(AddStep(v, head, steps[m]), head, seen, queue)
    BY <2>2, AddingStep
  <2>4. AddStep(v, head, steps[m]) \in Searches
    BY <2>3 DEF Adding
  <2> QED
    BY <2>1, <2>3, <2>4
<1>1. \A v \in T, e \in E : by[<<v, e>>] = AddStep(v, head, e)
  OBVIOUS
<1>2. by \in [T \X E -> T]
  BY <1>0
<1>3. steps \in Seq(E)
  BY SeqOfElements
<1>4. [seen |-> seen, queue |-> queue] \in T
  BY AddingNothing DEF Adding
<1>5. Saved!Expand(head, seen, queue) = f[1 .. Len(steps)]
  <2>1. DOMAIN steps = 1 .. Len(steps)
    BY <1>3
  <2> QED
    BY <2>1 DEF Saved!Expand, AddStep, Saved!FoldLeft, Saved!MapThenFoldSet, Saved!Max, Greatest
<1> HIDE DEF T, E, by
<1>6. Len(steps) \in Nat /\ DOMAIN steps = 1 .. Len(steps)
  BY <1>3
<1>7. PICK g : Folding(g, T, by, [seen |-> seen, queue |-> queue], steps, Len(steps))
  BY <1>2, <1>3, <1>4, FoldingExists
<1>8. Eq(g)
  <2>1. ASSUME NEW t \in SUBSET (1 .. Len(steps)), t # {}
        PROVE  by[<<g[t \ {Greatest(t)}], steps[Greatest(t)]>>]
                 = AddStep(g[t \ {Greatest(t)}], head, steps[Greatest(t)])
    <3>1. steps[Greatest(t)] \in E /\ t \ {Greatest(t)} \in SUBSET (1 .. Len(steps))
      BY <1>3, <2>1, GreatestPlace
    <3>2. g[t \ {Greatest(t)}] \in T
      BY <1>7, <3>1 DEF Folding
    <3> QED
      BY <1>1, <3>1, <3>2
  <2> QED
    BY <1>6, <1>7, <2>1 DEF Folding
<1>9. Eq(f)
  <2> HIDE DEF Eq
  <2> QED
    BY <1>8
<1> HIDE DEF f
<1>10. f[{}] = [seen |-> seen, queue |-> queue]
  BY <1>9
<1>11. ASSUME NEW t \in SUBSET (1 .. Len(steps)), t # {}, f[t \ {Greatest(t)}] \in T
       PROVE  f[t] = by[<<f[t \ {Greatest(t)}], steps[Greatest(t)]>>]
  <2>1. steps[Greatest(t)] \in E
    BY <1>3, <1>11, GreatestPlace
  <2>2. f[t] = AddStep(f[t \ {Greatest(t)}], head, steps[Greatest(t)])
    BY <1>6, <1>9, <1>11
  <2> QED
    BY <1>1, <1>11, <2>1, <2>2
<1>12. Following(f, T, by, [seen |-> seen, queue |-> queue], steps)
  BY <1>10, <1>11 DEF Following
<1>13. Folded(f[1 .. Len(steps)], T, by, [seen |-> seen, queue |-> queue], steps)
  BY <1>2, <1>3, <1>4, <1>12, FoldPasses
<1>14. PICK h : Passing(h, T, by, [seen |-> seen, queue |-> queue], steps, Len(steps)) /\ h[Len(steps)] = f[1 .. Len(steps)]
  BY <1>13 DEF Folded
<1>15. ASSUME NEW k \in 1 .. Len(steps)
       PROVE  h[k] = AddStep(h[k - 1], head, steps[k])
  <2>1. k - 1 \in 0 .. Len(steps) /\ steps[k] \in E
    BY <1>3, ElementOfSeq
  <2>2. h[k - 1] \in T /\ h[k] = by[<<h[k - 1], steps[k]>>]
    BY <1>14, <2>1 DEF Passing
  <2> QED
    BY <1>1, <2>1, <2>2
<1>16. h \in [0 .. Len(steps) -> T] /\ h[0] = [seen |-> seen, queue |-> queue] /\ h[Len(steps)] = Saved!Expand(head, seen, queue)
  BY <1>5, <1>14 DEF Passing
<1> QED
  BY <1>15, <1>16 DEF T, Expanding

\* After the steps out of a version, all versions that they lead to are seen.
LEMMA Expanded ==
    ASSUME steps \in Seq(Migrations), NEW from, NEW head, Chain(from, head),
           NEW seen \in SUBSET Schemas, NEW queue \in Seq(Nodes)
    PROVE  /\ Adding(Saved!Expand(head, seen, queue), head, seen, queue)
           /\ \A m \in 1 .. Len(steps) :
                 steps[m].from = head.at => steps[m].to \in Saved!Expand(head, seen, queue).seen
<1>1. PICK h : Expanding(h, head, seen, queue)
  BY ExpandPasses
<1>2. Len(steps) \in Nat
  BY LenProperties
<1>3. \A k \in 0 .. Len(steps) : h[k] \in Searches /\ Adding(h[k], head, seen, queue)
  BY <1>1 DEF Expanding
<1>4. \A k \in 1 .. Len(steps) : h[k] = AddStep(h[k - 1], head, steps[k])
  BY <1>1 DEF Expanding
<1> DEFINE Good(k) == \A m \in 1 .. k : steps[m].from = head.at => steps[m].to \in h[k].seen
           G == {k \in 0 .. Len(steps) : Good(k)}
<1>5. 0 \in G
  BY <1>2
<1>6. ASSUME NEW k \in 1 .. Len(steps), k - 1 \in G PROVE k \in G
  <2>1. h[k] = AddStep(h[k - 1], head, steps[k])
    BY <1>4
  <2>2. \A v \in h[k - 1].seen : v \in h[k].seen
    BY <2>1 DEF AddStep
  <2>3. steps[k].from = head.at => steps[k].to \in h[k].seen
    BY <2>1 DEF AddStep
  <2>4. \A m \in 1 .. k : m = k \/ m \in 1 .. k - 1
    OBVIOUS
  <2>5. Good(k - 1)
    BY <1>6
  <2>6. Good(k)
    BY <2>2, <2>3, <2>4, <2>5
  <2> HIDE DEF Good
  <2> QED
    BY <2>6
<1>7. Good(Len(steps))
  <2>1. \A k \in 0 .. Len(steps) : k \in G
    <3> HIDE DEF G
    <3> QED
      BY <1>2, <1>5, <1>6, Upward
  <2> HIDE DEF Good
  <2> QED
    BY <1>2, <2>1
<1>8. h[Len(steps)] = Saved!Expand(head, seen, queue)
  BY <1>1 DEF Expanding
<1> QED
  BY <1>2, <1>3, <1>7, <1>8

------------------------------------------------------------------------------
(* The saved state: the versions within some steps *)

\* The versions of S and those that one migration leads to.
Grown(S) == S \cup {t \in Schemas : \E s \in S : Saved!Edge(s, t)}

\* The versions within 0, 1, 2, ... migrations.
Growing(g, from, k) ==
    /\ DOMAIN g = 0 .. k /\ g[0] = {from}
    /\ \A n \in 1 .. k : g[n] = Grown(g[n - 1])

\* There are such sets.
LEMMA GrowingExists ==
    ASSUME NEW from, NEW l \in Nat
    PROVE  \E g : Growing(g, from, l)
<1> DEFINE G == {k \in 0 .. l : \E g : Growing(g, from, k)}
<1>1. 0 \in G
  <2>1. Growing([n \in 0 .. 0 |-> {from}], from, 0)
    BY DEF Growing
  <2> QED
    BY <2>1
<1>2. ASSUME NEW k \in 1 .. l, k - 1 \in G PROVE k \in G
  <2>1. PICK g : Growing(g, from, k - 1)
    BY <1>2
  <2> DEFINE h == [n \in 0 .. k |-> IF n = k THEN Grown(g[k - 1]) ELSE g[n]]
  <2>2. Growing(h, from, k)
    <3>1. h[0] = {from}
      BY <2>1 DEF Growing
    <3>2. ASSUME NEW n \in 1 .. k PROVE h[n] = Grown(h[n - 1])
      <4>1. h[n - 1] = g[n - 1]
        OBVIOUS
      <4>2. CASE n = k
        BY <4>1, <4>2
      <4>3. CASE n # k
        <5>1. n \in 1 .. k - 1 /\ h[n] = g[n]
          BY <4>3
        <5> QED
          BY <2>1, <4>1, <5>1 DEF Growing
      <4> QED
        BY <4>2, <4>3
    <3> QED
      BY <3>1, <3>2 DEF Growing
  <2> QED
    BY <2>2
<1>3. \A k \in 0 .. l : k \in G
  <2> HIDE DEF G
  <2> QED
    BY <1>1, <1>2, Upward
<1> QED
  BY <1>3

\* Within is the last of them.
LEMMA WithinGrowing ==
    ASSUME NEW from, NEW k \in Nat
    PROVE  \E g : Growing(g, from, k) /\ Saved!Within(from, k) = g[k]
<1> DEFINE Eq(g) == g = [n \in 0 .. k |-> IF n = 0 THEN {from} ELSE Grown(g[n - 1])]
           reach == CHOOSE g : Eq(g)
<1>1. PICK g : Growing(g, from, k)
  BY GrowingExists
<1> DEFINE f == [n \in 0 .. k |-> g[n]]
<1>2. Eq(f)
  BY <1>1 DEF Growing
<1>3. Eq(reach)
  <2> HIDE DEF Eq
  <2> QED
    BY <1>2
<1>4. Saved!Within(from, k) = reach[k]
  BY DEF Saved!Within, Grown
<1> HIDE DEF reach
<1>5. Growing(reach, from, k)
  <2>1. DOMAIN reach = 0 .. k
    BY <1>3
  <2>2. \A n \in 0 .. k : reach[n] = IF n = 0 THEN {from} ELSE Grown(reach[n - 1])
    BY <1>3
  <2> QED
    BY <2>1, <2>2 DEF Growing
<1> QED
  BY <1>4, <1>5

\* No step leads to the version itself, one more to those that a step leads to.
LEMMA WithinSteps ==
    ASSUME NEW from, NEW k \in Nat
    PROVE  /\ Saved!Within(from, 0) = {from}
           /\ Saved!Within(from, k + 1) = Grown(Saved!Within(from, k))
<1>1. PICK g : Growing(g, from, k) /\ Saved!Within(from, k) = g[k]
  BY WithinGrowing
<1>2. PICK h : Growing(h, from, k + 1) /\ Saved!Within(from, k + 1) = h[k + 1]
  BY WithinGrowing
<1>3. PICK z : Growing(z, from, 0) /\ Saved!Within(from, 0) = z[0]
  BY WithinGrowing
<1>4. Alike(h, g, k)
  <2>1. h[0] = g[0]
    BY <1>1, <1>2 DEF Growing
  <2>2. \A n \in 1 .. k : g[n] = Grown(g[n - 1]) /\ h[n] = Grown(h[n - 1])
    BY <1>1, <1>2 DEF Growing
  <2>3. \A n \in 1 .. k : h[n - 1] = g[n - 1] => h[n] = g[n]
    BY <2>2
  <2> QED
    BY <2>1, <2>3 DEF Alike
<1>5. h[k] = g[k]
  BY <1>4, PassingAlike
<1>6. h[k + 1] = Grown(h[k])
  BY <1>2 DEF Growing
<1> QED
  BY <1>1, <1>2, <1>3, <1>5, <1>6 DEF Growing

\* The versions within some migrations of a version of the schema are versions of the schema.
LEMMA WithinSchemas ==
    ASSUME NEW from \in Schemas, NEW k \in Nat
    PROVE  Saved!Within(from, k) \subseteq Schemas
<1> DEFINE G == {n \in 0 .. k : Saved!Within(from, n) \subseteq Schemas}
<1>1. 0 \in G
  BY WithinSteps
<1>2. ASSUME NEW n \in 1 .. k, n - 1 \in G PROVE n \in G
  <2>1. n - 1 \in Nat /\ (n - 1) + 1 = n
    OBVIOUS
  <2>2. Saved!Within(from, n) = Grown(Saved!Within(from, n - 1))
    BY <2>1, WithinSteps
  <2> QED
    BY <1>2, <2>2 DEF Grown
<1>3. \A n \in 0 .. k : n \in G
  <2> HIDE DEF G
  <2> QED
    BY <1>1, <1>2, Upward
<1> QED
  BY <1>3

------------------------------------------------------------------------------
(* The saved state: the search for a chain *)

\* The length of the chain to the i-th version of the queue.
Depth(s, i) == Len(s.queue[i].path)

\* What is queued was reached by a chain that is not too long.
Queued(s, from) ==
    \A i \in 1 .. Len(s.queue) :
       /\ s.queue[i].at \in s.seen /\ Chain(from, s.queue[i])
       /\ Depth(s, i) # 0 => s.queue[i].at \notin Saved!Within(from, Depth(s, i) - 1)

\* By depth, and no deeper than one step below the first.
InOrder(s) ==
    \A i, j \in 1 .. Len(s.queue) :
       i <= j => Depth(s, i) <= Depth(s, j) /\ Depth(s, j) <= Depth(s, 1) + 1

\* Whatever is as near as the first was seen.
Reached(s, from) ==
    Len(s.queue) # 0 => Saved!Within(from, Depth(s, 1)) \subseteq s.seen

\* The steps out of what was seen and is no longer queued were followed.
Followed(s) ==
    \A v \in s.seen :
       \/ \E i \in 1 .. Len(s.queue) : s.queue[i].at = v
       \/ \A m \in 1 .. Len(steps) : steps[m].from = v => steps[m].to \in s.seen

\* No version is in the queue twice.
Once(s) == \A i, j \in 1 .. Len(s.queue) : s.queue[i].at = s.queue[j].at => i = j

\* The target, once seen, is in the queue.
Hit(s, from, target) ==
    target \in s.seen /\ target # from => \E i \in 1 .. Len(s.queue) : s.queue[i].at = target

\* The invariant of the breadth first search.
Breadth(s, from, target) ==
    /\ s \in Searches /\ from \in s.seen
    /\ Queued(s, from) /\ InOrder(s) /\ Reached(s, from) /\ Followed(s) /\ Once(s)
    /\ Hit(s, from, target)

\* What was seen and is no longer queued.
Done(s) == {v \in s.seen : \A i \in 1 .. Len(s.queue) : s.queue[i].at # v}

\* The search has ended: nothing is left to follow, or the target is found.
Ended(s, target) == s.queue = <<>> \/ target \in s.seen

\* What a chain consists of.
LEMMA ChainFacts ==
    ASSUME NEW from, NEW q, Chain(from, q)
    PROVE  q \in Nodes /\ q.at \in Schemas /\ q.path \in Seq(Migrations) /\ Len(q.path) \in Nat
BY LenProperties DEF Chain, Nodes

\* A turn that takes the first of the queue: what it leaves of the queue, and what it adds.
Taken(r, s, from) ==
    LET l == Len(s.queue)
        head == s.queue[1]
    IN /\ r \in Searches /\ s.seen \subseteq r.seen
       /\ l \in Nat \ {0} /\ Len(r.queue) \in Nat /\ l - 1 <= Len(r.queue)
       /\ \A i \in 1 .. l - 1 : r.queue[i] = s.queue[i + 1]
       /\ \A i \in l .. Len(r.queue) :
             /\ r.queue[i].at \in r.seen \ s.seen /\ Chain(from, r.queue[i])
             /\ Depth(r, i) = Depth(s, 1) + 1
       /\ \A i, j \in l .. Len(r.queue) : r.queue[i].at = r.queue[j].at => i = j
       /\ \A v \in r.seen \ s.seen : \E i \in l .. Len(r.queue) : r.queue[i].at = v
       /\ \A m \in 1 .. Len(steps) : steps[m].from = head.at => steps[m].to \in r.seen

\* A turn takes the first of the queue and puts the versions it leads to at the end.
LEMMA TurnTakes ==
    ASSUME steps \in Seq(Migrations), NEW from, NEW target, NEW s,
           s \in Searches, Queued(s, from), ~Ended(s, target)
    PROVE  Taken(Saved!Turn(s, target), s, from)
<1> DEFINE l == Len(s.queue)
           head == s.queue[1]
           rest == Tail(s.queue)
           r == Saved!Turn(s, target)
<1>1. s.queue \in Seq(Nodes) /\ s.seen \in SUBSET Schemas /\ s.queue # <<>>
  BY DEF Searches, Ended
<1>2. l \in Nat \ {0} /\ Head(s.queue) = head
  BY <1>1, LenProperties
<1>3. rest \in Seq(Nodes) /\ Len(rest) = l - 1 /\ \A i \in 1 .. l - 1 : rest[i] = s.queue[i + 1]
  BY <1>1, HeadTailProperties
<1>4. Chain(from, head)
  BY <1>2 DEF Queued
<1>5. r = Saved!Expand(head, s.seen, rest)
  BY <1>2 DEF Saved!Turn, Ended
<1>6. /\ Adding(r, head, s.seen, rest)
      /\ \A m \in 1 .. Len(steps) : steps[m].from = head.at => steps[m].to \in r.seen
  BY <1>1, <1>3, <1>4, <1>5, Expanded
<1> HIDE DEF r, rest
<1>7. r \in Searches /\ Len(r.queue) \in Nat
  BY <1>6, LenProperties DEF Adding, Searches
<1>8. (l - 1) + 1 = l
  BY <1>2
<1>9. \A i \in l .. Len(r.queue) :
         /\ r.queue[i].at \in r.seen \ s.seen
         /\ \E m \in 1 .. Len(steps) : steps[m].from = head.at /\ r.queue[i] = Further(head, m)
  BY <1>3, <1>6, <1>8 DEF Adding
<1>10. \A i \in l .. Len(r.queue) :
          /\ r.queue[i].at \in r.seen \ s.seen /\ Chain(from, r.queue[i])
          /\ Depth(r, i) = Depth(s, 1) + 1
  <2> TAKE i \in l .. Len(r.queue)
  <2>1. PICK m \in 1 .. Len(steps) : steps[m].from = head.at /\ r.queue[i] = Further(head, m)
    BY <1>9
  <2>2. Chain(from, Further(head, m)) /\ Len(Further(head, m).path) = Len(head.path) + 1
    BY <1>4, <2>1, ChainGrows
  <2> QED
    BY <1>9, <2>1, <2>2 DEF Depth
<1>11. \A i \in 1 .. l - 1 : r.queue[i] = s.queue[i + 1]
  BY <1>3, <1>6 DEF Adding
<1>12. /\ \A i, j \in l .. Len(r.queue) : r.queue[i].at = r.queue[j].at => i = j
       /\ \A v \in r.seen \ s.seen : \E i \in l .. Len(r.queue) : r.queue[i].at = v
  BY <1>3, <1>6, <1>8 DEF Adding
<1>13. s.seen \subseteq r.seen /\ l - 1 <= Len(r.queue)
  BY <1>3, <1>6 DEF Adding
<1>14. Taken(r, s, from)
  BY <1>2, <1>6, <1>7, <1>10, <1>11, <1>12, <1>13 DEF Taken
<1> QED
  BY <1>14 DEF r

\* The lengths of the chains are numbers.
LEMMA DepthTyped ==
    ASSUME NEW s, NEW from, Queued(s, from)
    PROVE  \A i \in 1 .. Len(s.queue) : Depth(s, i) \in Nat
BY ChainFacts DEF Queued, Depth

\* The places of the queue after a turn.
LEMMA Shifted ==
    ASSUME NEW from, NEW s, NEW r, Taken(r, s, from)
    PROVE  \A i \in 1 .. Len(r.queue) :
              \/ /\ i \in 1 .. Len(s.queue) - 1 /\ i + 1 \in 1 .. Len(s.queue)
                 /\ r.queue[i] = s.queue[i + 1] /\ Depth(r, i) = Depth(s, i + 1)
              \/ i \in Len(s.queue) .. Len(r.queue)
<1> TAKE i \in 1 .. Len(r.queue)
<1>1. Len(s.queue) \in Nat \ {0} /\ Len(r.queue) \in Nat
  BY DEF Taken
<1>2. CASE i < Len(s.queue)
  <2>1. i \in 1 .. Len(s.queue) - 1 /\ i + 1 \in 1 .. Len(s.queue)
    BY <1>1, <1>2
  <2> QED
    BY <2>1 DEF Taken, Depth
<1>3. CASE ~(i < Len(s.queue))
  BY <1>1, <1>3
<1> QED
  BY <1>2, <1>3

\* A turn leaves in the queue chains that are no detours.
LEMMA QueuedStays ==
    ASSUME NEW from, NEW s, NEW r, Taken(r, s, from), Queued(s, from), InOrder(s), Reached(s, from)
    PROVE  Queued(r, from)
<1>1. Len(s.queue) \in Nat \ {0} /\ s.seen \subseteq r.seen
  BY DEF Taken
<1>2. Saved!Within(from, Depth(s, 1)) \subseteq s.seen /\ Depth(s, 1) \in Nat
  BY <1>1, DepthTyped DEF Reached
<1> SUFFICES ASSUME NEW i \in 1 .. Len(r.queue)
             PROVE  /\ r.queue[i].at \in r.seen /\ Chain(from, r.queue[i])
                    /\ Depth(r, i) # 0 => r.queue[i].at \notin Saved!Within(from, Depth(r, i) - 1)
  BY DEF Queued
<1>3. CASE i + 1 \in 1 .. Len(s.queue) /\ r.queue[i] = s.queue[i + 1] /\ Depth(r, i) = Depth(s, i + 1)
  BY <1>1, <1>3 DEF Queued
<1>4. CASE i \in Len(s.queue) .. Len(r.queue)
  <2>1. /\ r.queue[i].at \in r.seen \ s.seen /\ Chain(from, r.queue[i])
        /\ Depth(r, i) = Depth(s, 1) + 1
    BY <1>4 DEF Taken
  <2>2. Depth(r, i) - 1 = Depth(s, 1)
    BY <1>2, <2>1
  <2> QED
    BY <1>2, <2>1, <2>2
<1> QED
  BY <1>3, <1>4, Shifted

\* The queue stays in the order of the lengths, the last at most one longer than the first.
LEMMA InOrderStays ==
    ASSUME NEW from, NEW s, NEW r, Taken(r, s, from), Queued(s, from), InOrder(s)
    PROVE  InOrder(r)
<1>1. Len(s.queue) \in Nat \ {0} /\ Len(r.queue) \in Nat
  BY DEF Taken
<1>2. \A i \in 1 .. Len(s.queue) : Depth(s, i) \in Nat
  BY DepthTyped
<1>3. \A i \in 1 .. Len(s.queue) : Depth(s, 1) <= Depth(s, i) /\ Depth(s, i) <= Depth(s, 1) + 1
  BY <1>1 DEF InOrder
<1>4. \A i \in 1 .. Len(r.queue) :
         /\ Depth(r, i) \in Nat
         /\ Depth(s, 1) <= Depth(r, i) /\ Depth(r, i) <= Depth(s, 1) + 1
  <2> TAKE i \in 1 .. Len(r.queue)
  <2>1. CASE i + 1 \in 1 .. Len(s.queue) /\ Depth(r, i) = Depth(s, i + 1)
    BY <1>2, <1>3, <2>1
  <2>2. CASE i \in Len(s.queue) .. Len(r.queue)
    <3>1. Depth(r, i) = Depth(s, 1) + 1 /\ Depth(s, 1) \in Nat
      BY <1>1, <1>2, <2>2 DEF Taken
    <3> QED
      BY <3>1
  <2> QED
    BY <2>1, <2>2, Shifted
<1>5. ASSUME NEW i \in 1 .. Len(r.queue), NEW j \in 1 .. Len(r.queue), i <= j
      PROVE  Depth(r, i) <= Depth(r, j)
  <2>1. CASE j \in Len(s.queue) .. Len(r.queue)
    <3>1. Depth(r, j) = Depth(s, 1) + 1
      BY <2>1 DEF Taken
    <3> QED
      BY <1>4, <3>1
  <2>2. CASE j \in 1 .. Len(s.queue) - 1
    <3>1. i \in 1 .. Len(s.queue) - 1 /\ i + 1 <= j + 1
      BY <1>1, <1>5, <2>2
    <3>2. i + 1 \in 1 .. Len(s.queue) /\ j + 1 \in 1 .. Len(s.queue)
      BY <1>1, <2>2, <3>1
    <3>3. Depth(s, i + 1) <= Depth(s, j + 1)
      BY <3>1, <3>2 DEF InOrder
    <3>4. Depth(r, i) = Depth(s, i + 1) /\ Depth(r, j) = Depth(s, j + 1)
      BY <2>2, <3>1 DEF Taken, Depth
    <3> QED
      BY <3>3, <3>4
  <2> QED
    BY <2>1, <2>2, Shifted
<1>6. \A j \in 1 .. Len(r.queue) : Depth(r, j) <= Depth(r, 1) + 1
  <2> TAKE j \in 1 .. Len(r.queue)
  <2>1. 1 \in 1 .. Len(r.queue)
    BY <1>1
  <2>2. Depth(s, 1) \in Nat
    BY <1>1, <1>2
  <2> QED
    BY <1>4, <2>1, <2>2
<1> QED
  BY <1>5, <1>6 DEF InOrder

\* All migrations out of what is seen and not queued any more have been followed.
LEMMA FollowedStays ==
    ASSUME NEW from, NEW s, NEW r, Taken(r, s, from), Followed(s)
    PROVE  Followed(r)
<1>1. Len(s.queue) \in Nat \ {0} /\ Len(r.queue) \in Nat /\ s.seen \subseteq r.seen
        /\ Len(s.queue) - 1 <= Len(r.queue)
  BY DEF Taken
<1> SUFFICES ASSUME NEW v \in r.seen,
                    ~(\E i \in 1 .. Len(r.queue) : r.queue[i].at = v)
             PROVE  \A m \in 1 .. Len(steps) : steps[m].from = v => steps[m].to \in r.seen
  BY DEF Followed
<1>2. v \in s.seen
  <2> SUFFICES ASSUME v \notin s.seen PROVE FALSE
    OBVIOUS
  <2>1. PICK i \in Len(s.queue) .. Len(r.queue) : r.queue[i].at = v
    BY DEF Taken
  <2>2. i \in 1 .. Len(r.queue)
    BY <1>1
  <2> QED
    BY <2>1, <2>2
<1>3. CASE \E i \in 1 .. Len(s.queue) : s.queue[i].at = v
  <2>1. PICK i \in 1 .. Len(s.queue) : s.queue[i].at = v
    BY <1>3
  <2>2. i = 1
    <3> SUFFICES ASSUME i # 1 PROVE FALSE
      OBVIOUS
    <3>1. i - 1 \in 1 .. Len(s.queue) - 1 /\ i - 1 \in 1 .. Len(r.queue) /\ (i - 1) + 1 = i
      BY <1>1
    <3>2. r.queue[i - 1] = s.queue[i]
      BY <3>1 DEF Taken
    <3> QED
      BY <2>1, <3>1, <3>2
  <2> QED
    BY <2>1, <2>2 DEF Taken
<1>4. CASE \A m \in 1 .. Len(steps) : steps[m].from = v => steps[m].to \in s.seen
  BY <1>1, <1>4
<1> QED
  BY <1>2, <1>3, <1>4 DEF Followed

\* No version comes into the queue again.
LEMMA OnceStays ==
    ASSUME NEW from, NEW s, NEW r, Taken(r, s, from), Queued(s, from), Once(s)
    PROVE  Once(r)
<1>1. Len(s.queue) \in Nat \ {0} /\ Len(r.queue) \in Nat
  BY DEF Taken
<1> SUFFICES ASSUME NEW i \in 1 .. Len(r.queue), NEW j \in 1 .. Len(r.queue),
                    r.queue[i].at = r.queue[j].at
             PROVE  i = j
  BY DEF Once
<1> DEFINE Old(k) == k + 1 \in 1 .. Len(s.queue) /\ r.queue[k] = s.queue[k + 1]
           New(k) == k \in Len(s.queue) .. Len(r.queue)
<1>2. \A k \in 1 .. Len(r.queue) : Old(k) \/ New(k)
  BY Shifted
<1>3. \A k \in 1 .. Len(r.queue) : Old(k) => r.queue[k].at \in s.seen
  BY DEF Queued
<1>4. \A k \in 1 .. Len(r.queue) : New(k) => r.queue[k].at \notin s.seen
  BY DEF Taken
<1>5. CASE New(i) /\ New(j)
  BY <1>5 DEF Taken
<1>6. CASE Old(i) /\ Old(j)
  <2>1. i + 1 = j + 1
    BY <1>6 DEF Once
  <2> QED
    BY <2>1
<1> QED
  BY <1>2, <1>3, <1>4, <1>5, <1>6

\* If the turn finds the target, it puts it into the queue.
LEMMA HitStays ==
    ASSUME NEW from, NEW s, NEW r, NEW target, Taken(r, s, from), target \notin s.seen
    PROVE  Hit(r, from, target)
<1>1. Len(s.queue) \in Nat \ {0} /\ Len(r.queue) \in Nat
  BY DEF Taken
<1> SUFFICES ASSUME target \in r.seen
             PROVE  \E i \in 1 .. Len(r.queue) : r.queue[i].at = target
  BY DEF Hit
<1>2. PICK i \in Len(s.queue) .. Len(r.queue) : r.queue[i].at = target
  BY DEF Taken
<1>3. i \in 1 .. Len(r.queue)
  BY <1>1
<1> QED
  BY <1>2, <1>3

\* Whatever is as near as the new head of the queue was seen.
LEMMA ReachedStays ==
    ASSUME steps \in Seq(Migrations), NEW from \in Schemas, NEW s, NEW r, Taken(r, s, from),
           Queued(s, from), InOrder(s), Reached(s, from), Followed(s)
    PROVE  Reached(r, from)
<1>1. Len(s.queue) \in Nat \ {0} /\ Len(r.queue) \in Nat /\ s.seen \subseteq r.seen
  BY DEF Taken
<1>2. \A i \in 1 .. Len(s.queue) : Depth(s, i) \in Nat
  BY DepthTyped
<1> DEFINE d == Depth(s, 1)
<1>3. d \in Nat /\ Saved!Within(from, d) \subseteq s.seen
  BY <1>1, <1>2 DEF Reached
<1> SUFFICES ASSUME Len(r.queue) # 0
             PROVE  Saved!Within(from, Depth(r, 1)) \subseteq r.seen
  BY DEF Reached
<1>4. 1 \in 1 .. Len(r.queue)
  BY <1>1
<1>5. \/ Depth(r, 1) = d
      \/ Depth(r, 1) = d + 1 /\ \A i \in 2 .. Len(s.queue) : Depth(s, i) = d + 1
  <2>1. CASE Len(s.queue) = 1
    <3>1. 1 \in Len(s.queue) .. Len(r.queue)
      BY <1>1, <1>4, <2>1
    <3>2. Depth(r, 1) = d + 1
      BY <3>1 DEF Taken
    <3>3. \A i \in 2 .. Len(s.queue) : FALSE
      BY <2>1
    <3> QED
      BY <3>2, <3>3
  <2>2. CASE Len(s.queue) # 1
    <3>0. \A l \in Nat \ {0} : l # 1 => l >= 2
      OBVIOUS
    <3>a. Len(s.queue) >= 2 /\ Len(s.queue) \in Nat
      BY <1>1, <2>2, <3>0, Zenon
    <3>1. /\ 1 \in 1 .. Len(s.queue) - 1 /\ 1 \in 1 .. Len(s.queue)
          /\ 2 \in 1 .. Len(s.queue) /\ 1 + 1 = 2
      BY <3>a
    <3>2. Depth(r, 1) = Depth(s, 2)
      BY <3>1 DEF Taken, Depth
    <3>3. d <= Depth(s, 2) /\ Depth(s, 2) <= d + 1 /\ Depth(s, 2) \in Nat
      BY <1>2, <3>1 DEF InOrder
    <3>4. \A i \in 2 .. Len(s.queue) :
             Depth(s, 2) <= Depth(s, i) /\ Depth(s, i) <= d + 1 /\ Depth(s, i) \in Nat
      <4> TAKE i \in 2 .. Len(s.queue)
      <4>1. i \in 1 .. Len(s.queue) /\ 2 <= i
        BY <1>1
      <4> QED
        BY <1>2, <3>1, <4>1 DEF InOrder
    <3>5. Depth(s, 2) = d \/ Depth(s, 2) = d + 1
      BY <1>3, <3>3
    <3>6. Depth(s, 2) = d + 1 => \A i \in 2 .. Len(s.queue) : Depth(s, i) = d + 1
      BY <1>3, <3>4
    <3> QED
      BY <3>2, <3>5, <3>6
  <2> QED
    BY <2>1, <2>2
<1>6. CASE Depth(r, 1) = d
  BY <1>1, <1>3, <1>6
<1>7. CASE Depth(r, 1) = d + 1 /\ \A i \in 2 .. Len(s.queue) : Depth(s, i) = d + 1
  <2> SUFFICES ASSUME NEW v \in Saved!Within(from, d + 1) PROVE v \in r.seen
    BY <1>7
  <2>1. v \in Grown(Saved!Within(from, d))
    BY <1>3, WithinSteps
  <2>2. CASE v \in Saved!Within(from, d)
    BY <1>1, <1>3, <2>2
  <2>3. CASE \E u \in Saved!Within(from, d) : Saved!Edge(u, v)
    <3>1. PICK u \in Saved!Within(from, d) : Saved!Edge(u, v)
      BY <2>3
    <3>2. PICK m \in 1 .. Len(steps) : steps[m].from = u /\ steps[m].to = v
      <4>1. DOMAIN steps = 1 .. Len(steps)
        BY LenProperties
      <4> QED
        BY <3>1, <4>1 DEF Saved!Edge
    <3>3. u \in s.seen
      BY <1>3
    <3>4. CASE \E i \in 1 .. Len(s.queue) : s.queue[i].at = u
      <4>1. PICK i \in 1 .. Len(s.queue) : s.queue[i].at = u
        BY <3>4
      <4>2. CASE i = 1
        BY <3>2, <4>1, <4>2 DEF Taken
      <4>3. CASE i # 1
        <5>1. i \in 2 .. Len(s.queue)
          BY <1>1, <4>3
        <5>2. Depth(s, i) = d + 1 /\ Depth(s, i) # 0 /\ Depth(s, i) - 1 = d
          BY <1>3, <1>7, <5>1
        <5>3. u \notin Saved!Within(from, d)
          BY <4>1, <5>2 DEF Queued
        <5> QED
          BY <5>3
      <4> QED
        BY <4>2, <4>3
    <3>5. CASE \A k \in 1 .. Len(steps) : steps[k].from = u => steps[k].to \in s.seen
      BY <1>1, <3>2, <3>5
    <3> QED
      BY <3>3, <3>4, <3>5 DEF Followed
  <2> QED
    BY <2>1, <2>2, <2>3 DEF Grown
<1> QED
  BY <1>5, <1>6, <1>7

\* A turn keeps all of it, and has one more version done unless the search has ended.
LEMMA TurnBreadth ==
    ASSUME steps \in Seq(Migrations), NEW from \in Schemas, NEW target, NEW s,
           Breadth(s, from, target)
    PROVE  Breadth(Saved!Turn(s, target), from, target)
<1> DEFINE r == Saved!Turn(s, target)
<1>1. CASE Ended(s, target)
  <2>1. r = s
    BY <1>1 DEF Saved!Turn, Ended
  <2> QED
    BY <2>1
<1>2. CASE ~Ended(s, target)
  <2>1. Taken(r, s, from)
    BY <1>2, TurnTakes DEF Breadth
  <2> HIDE DEF r
  <2>2. r \in Searches /\ from \in r.seen /\ target \notin s.seen
    BY <1>2, <2>1 DEF Taken, Breadth, Ended
  <2>3. Queued(r, from)
    BY <2>1, QueuedStays DEF Breadth
  <2>4. InOrder(r)
    BY <2>1, InOrderStays DEF Breadth
  <2>5. Reached(r, from)
    BY <2>1, ReachedStays DEF Breadth
  <2>6. Followed(r)
    BY <2>1, FollowedStays DEF Breadth
  <2>7. Once(r)
    BY <2>1, OnceStays DEF Breadth
  <2>8. Hit(r, from, target)
    BY <2>1, <2>2, HitStays
  <2>9. Breadth(r, from, target)
    BY <2>2, <2>3, <2>4, <2>5, <2>6, <2>7, <2>8 DEF Breadth
  <2> QED
    BY <2>9 DEF r
<1> QED
  BY <1>1, <1>2

\* The versions of the schema are finitely many numbers, with 1 among them.
LEMMA SchemasFinite ==
    /\ IsFiniteSet(Schemas) /\ Cardinality(Schemas) \in Nat
    /\ Schemas \subseteq Nat \ {0} /\ 1 \in Schemas
    /\ Saved!Cardinality(Schemas) = Cardinality(Schemas)
<1>1. IsFiniteSet(Schemas)
  BY SavedConstants DEF Saved!SchemasAreNumbers, Saved!IsFiniteSet, IsFiniteSet
<1>2. Cardinality(Schemas) \in Nat
  BY <1>1, FS_CardinalityType
<1>3. \A S : Saved!Cardinality(S) = Cardinality(S)
  BY DEF Cardinality, Saved!Cardinality
<1> QED
  BY <1>1, <1>2, <1>3, SavedConstants DEF Saved!SchemasAreNumbers

\* A turn finishes a version, and none that was finished comes back.
LEMMA TurnDone ==
    ASSUME steps \in Seq(Migrations), NEW from \in Schemas, NEW target, NEW s,
           Breadth(s, from, target), ~Ended(s, target)
    PROVE  /\ Cardinality(Done(s)) \in Nat
           /\ Cardinality(Done(Saved!Turn(s, target))) \in Nat
           /\ Cardinality(Done(Saved!Turn(s, target))) >= Cardinality(Done(s)) + 1
<1> DEFINE r == Saved!Turn(s, target)
           v == s.queue[1].at
<1>1. Taken(r, s, from)
  BY TurnTakes DEF Breadth
<1>2. r \in Searches /\ s \in Searches
  BY <1>1 DEF Taken, Breadth
<1> HIDE DEF r
<1>3. Len(s.queue) \in Nat \ {0} /\ Len(r.queue) \in Nat /\ s.seen \subseteq r.seen
  BY <1>1 DEF Taken
<1>4. IsFiniteSet(Done(s)) /\ IsFiniteSet(Done(r))
  <2>1. Done(s) \in SUBSET Schemas /\ Done(r) \in SUBSET Schemas
    BY <1>2 DEF Done, Searches
  <2> QED
    BY <2>1, SchemasFinite, FS_Subset
<1>5. 1 \in 1 .. Len(s.queue) /\ v \in s.seen /\ v \notin Done(s)
  BY <1>3 DEF Done, Breadth, Queued
<1>6. ASSUME NEW u \in s.seen, \A i \in 2 .. Len(s.queue) : s.queue[i].at # u
      PROVE  u \in Done(r)
  <2>1. ASSUME NEW i \in 1 .. Len(r.queue) PROVE r.queue[i].at # u
    <3>1. CASE i \in 1 .. Len(s.queue) - 1 /\ r.queue[i] = s.queue[i + 1]
      <4>1. i + 1 \in 2 .. Len(s.queue)
        BY <1>3, <3>1
      <4> QED
        BY <1>6, <3>1, <4>1
    <3>2. CASE i \in Len(s.queue) .. Len(r.queue)
      BY <1>1, <3>2 DEF Taken
    <3> QED
      BY <1>1, <3>1, <3>2, Shifted
  <2> QED
    BY <1>3, <2>1 DEF Done
<1>7. Done(s) \cup {v} \subseteq Done(r)
  <2>1. ASSUME NEW u \in Done(s) PROVE u \in Done(r)
    <3>1. u \in s.seen /\ \A i \in 1 .. Len(s.queue) : s.queue[i].at # u
      BY DEF Done
    <3>2. \A i \in 2 .. Len(s.queue) : i \in 1 .. Len(s.queue)
      BY <1>3
    <3> QED
      BY <1>6, <3>1, <3>2
  <2>2. v \in Done(r)
    <3>1. \A i \in 2 .. Len(s.queue) : i \in 1 .. Len(s.queue) /\ i # 1
      BY <1>3
    <3>2. \A i \in 2 .. Len(s.queue) : s.queue[i].at # v
      BY <1>5, <3>1 DEF Breadth, Once
    <3> QED
      BY <1>5, <1>6, <3>2
  <2> QED
    BY <2>1, <2>2
<1>8. Cardinality(Done(s) \cup {v}) = Cardinality(Done(s)) + 1
  BY <1>4, <1>5, FS_AddElement
<1>9. /\ Cardinality(Done(s)) \in Nat /\ Cardinality(Done(r)) \in Nat
      /\ Cardinality(Done(s) \cup {v}) <= Cardinality(Done(r))
  BY <1>4, <1>7, FS_CardinalityType, FS_Subset
<1>10. Cardinality(Done(r)) >= Cardinality(Done(s)) + 1
  BY <1>8, <1>9
<1> QED
  BY <1>9, <1>10 DEF r

\* The search before its first turn.
StartOf(from) == [seen |-> {from}, queue |-> <<[at |-> from, path |-> <<>>]>>]

\* It has the invariant of the breadth first search.
LEMMA StartBreadth ==
    ASSUME NEW from \in Schemas, NEW target
    PROVE  Breadth(StartOf(from), from, target)
<1> DEFINE q == [at |-> from, path |-> <<>>]
           s == StartOf(from)
<1>1. q \in Nodes /\ Len(q.path) = 0
  BY DEF Nodes
<1>2. Chain(from, q)
  BY <1>1 DEF Chain
<1>3. s = [seen |-> {from}, queue |-> <<q>>]
  BY DEF StartOf
<1> HIDE DEF s
<1>4. s \in Searches /\ s.seen = {from} /\ Len(s.queue) = 1 /\ s.queue[1] = q
  BY <1>1, <1>3 DEF Searches
<1>5. \A i \in 1 .. Len(s.queue) : i = 1
  BY <1>4
<1>6. Depth(s, 1) = 0
  BY <1>1, <1>4 DEF Depth
<1>7. Queued(s, from)
  BY <1>2, <1>4, <1>5, <1>6 DEF Queued
<1>8. InOrder(s)
  BY <1>5, <1>6 DEF InOrder
<1>9. Reached(s, from)
  BY <1>4, <1>6, WithinSteps DEF Reached
<1>10. Followed(s)
  <2>1. 1 \in 1 .. Len(s.queue)
    BY <1>4
  <2> QED
    BY <1>4, <2>1 DEF Followed
<1>11. Once(s)
  BY <1>5 DEF Once
<1>12. Hit(s, from, target)
  BY <1>4 DEF Hit
<1>13. Breadth(s, from, target)
  BY <1>4, <1>7, <1>8, <1>9, <1>10, <1>11, <1>12 DEF Breadth
<1> QED
  BY <1>13 DEF s

\* The turns that the search has: one for each version of the schema.
TurnNumbers == [n \in 1 .. Saved!Cardinality(Schemas) |-> n]

\* They are a sequence of that length.
LEMMA TurnNumbersTyped == TurnNumbers \in Seq(Nat) /\ Len(TurnNumbers) = Cardinality(Schemas)
BY SchemasFinite DEF TurnNumbers

\* The search, turn by turn.
Searching(h, from, target) ==
    /\ h \in [0 .. Len(TurnNumbers) -> {s \in Searches : Breadth(s, from, target)}] /\ h[0] = StartOf(from)
    /\ h[Len(TurnNumbers)] = Saved!Search(from, target)
    /\ \A k \in 1 .. Len(TurnNumbers) : h[k] = Saved!Turn(h[k - 1], target)

\* The search passes through states that all have the invariant.
LEMMA SearchPasses ==
    ASSUME steps \in Seq(Migrations), NEW from \in Schemas, NEW target
    PROVE  \E h : Searching(h, from, target)
<1> DEFINE T == {s \in Searches : Breadth(s, from, target)}
           E == Nat
           by == [p \in T \X E |-> Saved!Turn(p[1], target)]
           Eq(i) == i = [t \in SUBSET DOMAIN TurnNumbers |->
                           IF t = {} THEN StartOf(from)
                           ELSE Saved!Turn(i[t \ {Greatest(t)}], target)]
           f == CHOOSE i : Eq(i)
<1>0. ASSUME NEW v \in T, NEW e \in E
      PROVE  Saved!Turn(v, target) \in T
  <2>1. Breadth(v, from, target)
    OBVIOUS
  <2>2. Breadth(Saved!Turn(v, target), from, target)
    BY <2>1, TurnBreadth
  <2> QED
    BY <2>2 DEF Breadth
<1>1. \A v \in T, e \in E : by[<<v, e>>] = Saved!Turn(v, target)
  OBVIOUS
<1>2. by \in [T \X E -> T]
  BY <1>0
<1>3. TurnNumbers \in Seq(E)
  BY TurnNumbersTyped
<1>4. StartOf(from) \in T
  BY StartBreadth DEF Breadth
<1>5. Saved!Search(from, target) = f[1 .. Len(TurnNumbers)]
  <2>1. DOMAIN TurnNumbers = 1 .. Len(TurnNumbers)
    BY <1>3
  <2> QED
    BY <2>1 DEF Saved!Search, TurnNumbers, StartOf, Saved!FoldLeft, Saved!MapThenFoldSet, Saved!Max, Greatest
<1> HIDE DEF T, E, by
<1>6. Len(TurnNumbers) \in Nat /\ DOMAIN TurnNumbers = 1 .. Len(TurnNumbers)
  BY <1>3
<1>7. PICK g : Folding(g, T, by, StartOf(from), TurnNumbers, Len(TurnNumbers))
  BY <1>2, <1>3, <1>4, FoldingExists
<1>8. Eq(g)
  <2>1. ASSUME NEW t \in SUBSET (1 .. Len(TurnNumbers)), t # {}
        PROVE  by[<<g[t \ {Greatest(t)}], TurnNumbers[Greatest(t)]>>]
                 = Saved!Turn(g[t \ {Greatest(t)}], target)
    <3>1. TurnNumbers[Greatest(t)] \in E /\ t \ {Greatest(t)} \in SUBSET (1 .. Len(TurnNumbers))
      BY <1>3, <2>1, GreatestPlace
    <3>2. g[t \ {Greatest(t)}] \in T
      BY <1>7, <3>1 DEF Folding
    <3> QED
      BY <1>1, <3>1, <3>2
  <2> QED
    BY <1>6, <1>7, <2>1 DEF Folding
<1>9. Eq(f)
  <2> HIDE DEF Eq
  <2> QED
    BY <1>8
<1> HIDE DEF f
<1>10. f[{}] = StartOf(from)
  BY <1>9
<1>11. ASSUME NEW t \in SUBSET (1 .. Len(TurnNumbers)), t # {}, f[t \ {Greatest(t)}] \in T
       PROVE  f[t] = by[<<f[t \ {Greatest(t)}], TurnNumbers[Greatest(t)]>>]
  <2>1. TurnNumbers[Greatest(t)] \in E
    BY <1>3, <1>11, GreatestPlace
  <2>2. f[t] = Saved!Turn(f[t \ {Greatest(t)}], target)
    BY <1>6, <1>9, <1>11
  <2> QED
    BY <1>1, <1>11, <2>1, <2>2
<1>12. Following(f, T, by, StartOf(from), TurnNumbers)
  BY <1>10, <1>11 DEF Following
<1>13. Folded(f[1 .. Len(TurnNumbers)], T, by, StartOf(from), TurnNumbers)
  BY <1>2, <1>3, <1>4, <1>12, FoldPasses
<1>14. PICK h : Passing(h, T, by, StartOf(from), TurnNumbers, Len(TurnNumbers)) /\ h[Len(TurnNumbers)] = f[1 .. Len(TurnNumbers)]
  BY <1>13 DEF Folded
<1>15. ASSUME NEW k \in 1 .. Len(TurnNumbers)
       PROVE  h[k] = Saved!Turn(h[k - 1], target)
  <2>1. k - 1 \in 0 .. Len(TurnNumbers) /\ TurnNumbers[k] \in E
    BY <1>3, ElementOfSeq
  <2>2. h[k - 1] \in T /\ h[k] = by[<<h[k - 1], TurnNumbers[k]>>]
    BY <1>14, <2>1 DEF Passing
  <2> QED
    BY <1>1, <2>1, <2>2
<1>16. h \in [0 .. Len(TurnNumbers) -> T] /\ h[0] = StartOf(from) /\ h[Len(TurnNumbers)] = Saved!Search(from, target)
  BY <1>5, <1>14 DEF Passing
<1> QED
  BY <1>15, <1>16 DEF T, Searching

\* The search ends: with the target seen, or all that can be reached.
LEMMA SearchEnds ==
    ASSUME steps \in Seq(Migrations), NEW from \in Schemas, NEW target
    PROVE  /\ Breadth(Saved!Search(from, target), from, target)
           /\ Ended(Saved!Search(from, target), target)
<1> DEFINE N == Cardinality(Schemas)
           s == Saved!Search(from, target)
<1>1. PICK h : Searching(h, from, target)
  BY SearchPasses
<1>2. Len(TurnNumbers) = N /\ N \in Nat
  BY SchemasFinite, TurnNumbersTyped
<1>3. \A k \in 0 .. N : h[k] \in Searches /\ Breadth(h[k], from, target)
  BY <1>1, <1>2 DEF Searching
<1>4. \A k \in 1 .. N : h[k] = Saved!Turn(h[k - 1], target)
  BY <1>1, <1>2 DEF Searching
<1>5. h[N] = s
  BY <1>1, <1>2 DEF Searching
<1> HIDE DEF s, N
<1> DEFINE Good(k) == Ended(h[k], target) \/ Cardinality(Done(h[k])) >= k
           G == {k \in 0 .. N : Good(k)}
<1>6. \A k \in 0 .. N : IsFiniteSet(Done(h[k])) /\ Cardinality(Done(h[k])) \in Nat
  <2> TAKE k \in 0 .. N
  <2>1. Done(h[k]) \in SUBSET Schemas
    BY <1>3 DEF Done, Searches
  <2> QED
    BY <2>1, SchemasFinite, FS_Subset, FS_CardinalityType
<1>7. 0 \in G
  <2>1. 0 \in 0 .. N
    BY <1>2
  <2>2. Cardinality(Done(h[0])) \in Nat
    BY <1>6, <2>1
  <2> QED
    BY <2>1, <2>2
<1>8. ASSUME NEW k \in 1 .. N, k - 1 \in G PROVE k \in G
  <2>1. k - 1 \in 0 .. N /\ k \in 0 .. N /\ h[k] = Saved!Turn(h[k - 1], target)
    BY <1>2, <1>4
  <2>2. CASE Ended(h[k - 1], target)
    <3>1. h[k] = h[k - 1]
      BY <2>1, <2>2 DEF Saved!Turn, Ended
    <3>2. Ended(h[k], target)
      BY <2>2, <3>1
    <3> QED
      BY <2>1, <3>2
  <2>3. CASE ~Ended(h[k - 1], target)
    <3>1. Breadth(h[k - 1], from, target)
      BY <1>3, <2>1
    <3>2. /\ Cardinality(Done(h[k - 1])) \in Nat /\ Cardinality(Done(h[k])) \in Nat
          /\ Cardinality(Done(h[k])) >= Cardinality(Done(h[k - 1])) + 1
      BY <2>1, <2>3, <3>1, TurnDone
    <3>3. Cardinality(Done(h[k - 1])) >= k - 1
      BY <1>8, <2>3
    <3>4. Cardinality(Done(h[k])) >= k
      BY <3>2, <3>3
    <3> QED
      BY <2>1, <3>2, <3>4
  <2> QED
    BY <2>2, <2>3
<1>9. Good(N)
  <2>1. \A k \in 0 .. N : k \in G
    <3> HIDE DEF G
    <3> QED
      BY <1>2, <1>7, <1>8, Upward
  <2> HIDE DEF Good
  <2> QED
    BY <1>2, <2>1
<1>10. N \in 0 .. N
  BY <1>2
<1>11. CASE Cardinality(Done(h[N])) >= N
  <2>1. Done(h[N]) \in SUBSET Schemas
    BY <1>3, <1>10 DEF Done, Searches
  <2>2. Cardinality(Done(h[N])) <= N
    BY <2>1, SchemasFinite, FS_Subset DEF N
  <2>3. Cardinality(Done(h[N])) = N
    BY <1>2, <1>6, <1>10, <1>11, <2>2
  <2>4. Done(h[N]) = Schemas
    BY <2>1, <2>3, SchemasFinite, FS_Subset DEF N
  <2>5. h[N].queue \in Seq(Nodes) /\ Len(h[N].queue) \in Nat
    BY <1>3, <1>10, LenProperties DEF Searches
  <2>6. Len(h[N].queue) = 0
    <3> SUFFICES ASSUME Len(h[N].queue) # 0 PROVE FALSE
      OBVIOUS
    <3>1. 1 \in 1 .. Len(h[N].queue)
      BY <2>5
    <3>2. h[N].queue[1] \in Nodes
      BY <2>5, <3>1, ElementOfSeq
    <3>3. h[N].queue[1].at \in Schemas
      BY <3>2 DEF Nodes
    <3> QED
      BY <2>4, <3>1, <3>3 DEF Done
  <2>7. h[N].queue = <<>>
    BY <2>5, <2>6, EmptySeq
  <2> QED
    BY <1>3, <1>5, <1>10, <2>7 DEF Ended, s
<1>12. CASE Ended(h[N], target)
  BY <1>3, <1>5, <1>10, <1>12 DEF s
<1> QED
  BY <1>9, <1>11, <1>12

\* A search that ends with nothing queued has seen all that any number of steps reaches.
LEMMA NothingBeyond ==
    ASSUME steps \in Seq(Migrations), NEW from \in Schemas, NEW s, NEW target,
           Breadth(s, from, target), s.queue = <<>>, NEW k \in Nat
    PROVE  Saved!Within(from, k) \subseteq s.seen
<1> DEFINE G == {n \in 0 .. k : Saved!Within(from, n) \subseteq s.seen}
<1>1. DOMAIN steps = 1 .. Len(steps) /\ Len(s.queue) = 0
  BY LenProperties
<1>2. \A v \in s.seen : \A m \in 1 .. Len(steps) : steps[m].from = v => steps[m].to \in s.seen
  BY <1>1 DEF Breadth, Followed
<1>3. 0 \in G
  BY WithinSteps DEF Breadth
<1>4. ASSUME NEW n \in 1 .. k, n - 1 \in G PROVE n \in G
  <2>1. n - 1 \in Nat /\ (n - 1) + 1 = n
    OBVIOUS
  <2>2. Saved!Within(from, n) = Grown(Saved!Within(from, n - 1))
    BY <2>1, WithinSteps
  <2>3. \A u, t : u \in s.seen /\ Saved!Edge(u, t) => t \in s.seen
    BY <1>1, <1>2 DEF Saved!Edge
  <2>4. Saved!Within(from, n - 1) \subseteq s.seen
    BY <1>4
  <2> QED
    BY <2>2, <2>3, <2>4 DEF Grown
<1>5. \A n \in 0 .. k : n \in G
  <2> HIDE DEF G
  <2> QED
    BY <1>3, <1>4, Upward
<1> QED
  BY <1>5

\* The path that is found, if one is: a chain of registered steps, and there is no shorter one.
LEMMA PathFound ==
    ASSUME steps \in Seq(Migrations), NEW from \in Schemas, NEW to \in Schemas, from # to
    PROVE  \/ /\ Saved!FindPath(from, to) = Saved!NoPath
              /\ \A k \in Nat : to \notin Saved!Within(from, k)
           \/ \E q \in Nodes :
                 /\ Chain(from, q) /\ q.at = to /\ Len(q.path) # 0
                 /\ Saved!FindPath(from, to) = q.path /\ q.path # Saved!NoPath
                 /\ to \notin Saved!Within(from, Len(q.path) - 1)
<1> DEFINE s == Saved!Search(from, to)
           hit == {n \in DOMAIN s.queue : s.queue[n].at = to}
<1>1. Breadth(s, from, to) /\ Ended(s, to)
  BY SearchEnds
<1> HIDE DEF s
<1>2. s.queue \in Seq(Nodes) /\ DOMAIN s.queue = 1 .. Len(s.queue)
  BY <1>1, LenProperties DEF Breadth, Searches
<1>3. CASE hit = {}
  <2>1. Saved!FindPath(from, to) = Saved!NoPath
    BY <1>3 DEF Saved!FindPath, s
  <2>2. to \notin s.seen
    BY <1>1, <1>2, <1>3 DEF Breadth, Hit
  <2>3. s.queue = <<>>
    BY <1>1, <2>2 DEF Ended
  <2>4. \A k \in Nat : to \notin Saved!Within(from, k)
    BY <1>1, <2>2, <2>3, NothingBeyond
  <2> QED
    BY <2>1, <2>4
<1>4. CASE hit # {}
  <2> DEFINE n == CHOOSE x \in hit : TRUE
             q == s.queue[n]
  <2>1. Saved!FindPath(from, to) = q.path
    BY <1>4 DEF Saved!FindPath, s
  <2>2. n \in hit
    BY <1>4
  <2> HIDE DEF n
  <2>3. n \in 1 .. Len(s.queue) /\ q.at = to
    BY <1>2, <2>2
  <2>4. q \in Nodes
    BY <1>2, <2>3, ElementOfSeq
  <2>5. /\ Chain(from, q)
        /\ Len(q.path) # 0 => q.at \notin Saved!Within(from, Len(q.path) - 1)
    BY <1>1, <2>3 DEF Breadth, Queued, Depth
  <2>6. Len(q.path) # 0
    BY <2>3, <2>5 DEF Chain
  <2>7. q.path[1].from = from
    BY <2>5, <2>6 DEF Chain
  <2>8. Saved!NoPath[1].from = 0
    BY DEF Saved!NoPath
  <2>9. q.path # Saved!NoPath
    BY <2>7, <2>8, SchemasFinite
  <2> HIDE DEF q
  <2> QED
    BY <2>1, <2>3, <2>4, <2>5, <2>6, <2>9
<1> QED
  BY <1>3, <1>4

\* From a version to itself, no migration is needed.
LEMMA PathHere == \A from : Saved!FindPath(from, from) = <<>>
BY DEF Saved!FindPath

\* find_path finds a shortest chain of steps, whatever the order of their registration.
LEMMA PathsShortest ==
    ASSUME steps \in Seq(Migrations)
    PROVE  Saved!PathsAreShortest
<1> SUFFICES ASSUME NEW from \in Schemas, NEW to \in Schemas
             PROVE  LET path == Saved!FindPath(from, to)
                    IN IF path = Saved!NoPath
                       THEN to \notin Saved!Within(from, Saved!Cardinality(Schemas))
                       ELSE /\ Saved!Range(path) \subseteq Saved!Range(steps)
                            /\ \A n \in 2 .. Len(path) : path[n].from = path[n - 1].to
                            /\ path = <<>> => from = to
                            /\ path # <<>> => /\ path[1].from = from /\ path[Len(path)].to = to
                                              /\ to \notin Saved!Within(from, Len(path) - 1)
  BY DEF Saved!PathsAreShortest
<1>1. CASE from = to
  <2>1. Saved!FindPath(from, to) = <<>>
    BY <1>1, PathHere
  <2>2. <<>> # Saved!NoPath /\ Saved!Range(<<>>) = {} /\ \A n \in 2 .. Len(<<>>) : FALSE
    BY DEF Saved!NoPath, Saved!Range
  <2> QED
    BY <1>1, <2>1, <2>2
<1>2. CASE /\ Saved!FindPath(from, to) = Saved!NoPath
           /\ \A k \in Nat : to \notin Saved!Within(from, k)
  <2>1. Saved!Cardinality(Schemas) \in Nat
    BY SchemasFinite
  <2> QED
    BY <1>2, <2>1
<1>3. CASE \E q \in Nodes :
              /\ Chain(from, q) /\ q.at = to /\ Len(q.path) # 0
              /\ Saved!FindPath(from, to) = q.path /\ q.path # Saved!NoPath
              /\ to \notin Saved!Within(from, Len(q.path) - 1)
  <2>1. PICK q \in Nodes :
              /\ Chain(from, q) /\ q.at = to /\ Len(q.path) # 0
              /\ Saved!FindPath(from, to) = q.path /\ q.path # Saved!NoPath
              /\ to \notin Saved!Within(from, Len(q.path) - 1)
    BY <1>3
  <2>2. DOMAIN q.path = 1 .. Len(q.path) /\ DOMAIN steps = 1 .. Len(steps)
    BY LenProperties DEF Nodes
  <2>3. Saved!Range(q.path) \subseteq Saved!Range(steps)
    BY <2>1, <2>2 DEF Saved!Range, Chain
  <2>4. q.path # <<>>
    BY <2>1
  <2> QED
    BY <2>1, <2>3, <2>4 DEF Chain
<1> QED
  BY <1>1, <1>2, <1>3, PathFound

------------------------------------------------------------------------------
(* The saved state: what was saved is loaded *)

\* The versions that a saved state can have: 0 if it has none.
Versions == Schemas \cup {0}

\* A migration of a state is by registered steps.
LEMMA MigratedBySteps ==
    ASSUME steps \in Seq(Migrations), current \in Schemas, NEW state, state.schema \in Versions,
           Saved!Fails(state)
    PROVE  \E n \in DOMAIN steps : steps[n].fails
<1> DEFINE p == Saved!Path(state)
<1>1. PICK n \in DOMAIN p : p[n].fails
  BY DEF Saved!Fails
<1>2. DOMAIN p # {}
  BY <1>1
<1>3. /\ state.schema # 0 /\ state.schema # current /\ Saved!CanMigrate(state.schema, current)
      /\ p = Saved!FindPath(state.schema, current)
  BY <1>2 DEF Saved!Path
<1> HIDE DEF p
<1>4. PICK q \in Nodes : Chain(state.schema, q) /\ Saved!FindPath(state.schema, current) = q.path
  <2>1. state.schema \in Schemas /\ Saved!FindPath(state.schema, current) # Saved!NoPath
    BY <1>3 DEF Versions, Saved!CanMigrate
  <2> QED
    BY <1>3, <2>1, PathFound
<1>5. DOMAIN q.path = 1 .. Len(q.path) /\ DOMAIN steps = 1 .. Len(steps)
  BY LenProperties DEF Nodes
<1>6. n \in 1 .. Len(q.path) /\ q.path[n].fails
  BY <1>1, <1>3, <1>4, <1>5
<1> QED
  BY <1>4, <1>5, <1>6 DEF Chain

\* What can have happened to an entry of the saved summary.
Damages == {"none", "alien", "broken", "partial"}

\* An entry of the summary.
Entries == [content : Contents, version : Nat, damage : Damages]

\* What is stored is what was saved, but for the damage.
SameBut(stored, saved) ==
    /\ stored \in Seq(Entries) /\ saved \in Seq(Entries) /\ Len(stored) = Len(saved)
    /\ \A n \in 1 .. Len(saved) :
          stored[n].content = saved[n].content /\ stored[n].version = saved[n].version

\* What is saved of the summary, the workspace and the session is what was written there last.
StoreInv(st, w, k) ==
    /\ DOMAIN st = Saved!Namespaces /\ DOMAIN w = {"summary", "workspace"}
    /\ \A ns \in Saved!Namespaces :
          st[ns].saved => DOMAIN st[ns] = {"saved", "schema", "body"} /\ st[ns].schema \in Versions
    /\ st["summary"].saved => /\ DOMAIN st["summary"].body = {"entries", "version"}
                              /\ SameBut(st["summary"].body.entries, w.summary)
    /\ st["workspace"].saved => st["workspace"].body.task = w.workspace
    /\ st["session"].saved => st["session"].body.started = k

\* The summary and the migrations that are registered.
LayersTyped ==
    /\ steps \in Seq(Migrations) /\ current \in Schemas
    /\ entries \in Seq(Entries) /\ version \in Nat

\* The inductive invariant of the saved state.
SavedInv ==
    /\ LayersTyped
    /\ StoreInv(store, written, kept)
    /\ Saved!RestoredIsSaved

\* The entries that a load keeps are entries that were saved, in their order.
LEMMA KeptPlaces ==
    ASSUME NEW stored \in Seq(Entries)
    PROVE  /\ Saved!Kept(stored) \in SUBSET (1 .. Len(stored))
           /\ Saved!Cardinality(Saved!Kept(stored)) \in Nat
           /\ \A n \in 1 .. Saved!Cardinality(Saved!Kept(stored)) :
                 Saved!Nth(Saved!Kept(stored), n) \in 1 .. Len(stored)
<1> DEFINE P == Saved!Kept(stored)
<1>0. \A S : Saved!Cardinality(S) = Cardinality(S)
  BY DEF Cardinality, Saved!Cardinality
<1>1. Len(stored) \in Nat /\ DOMAIN stored = 1 .. Len(stored)
  BY LenProperties
<1>2. P \in SUBSET (1 .. Len(stored))
  BY <1>1 DEF Saved!Kept
<1> HIDE DEF P
<1>3. Cardinality(P) \in Nat
  BY <1>1, <1>2, PlacesFinite
<1>4. ASSUME NEW n \in 1 .. Cardinality(P) PROVE Saved!Nth(P, n) \in P
  <2>1. \E k \in P : Cardinality({m \in P : m <= k}) = n
    BY <1>1, <1>2, NthExists
  <2>2. \E k \in P : Saved!Cardinality({m \in P : m <= k}) = n
    BY <1>0, <2>1
  <2> QED
    BY <2>2 DEF Saved!Nth
<1>5. \A n \in 1 .. Saved!Cardinality(P) : Saved!Nth(P, n) \in 1 .. Len(stored)
  BY <1>0, <1>2, <1>4
<1> QED
  BY <1>0, <1>2, <1>3, <1>5 DEF P

\* What can be read of the stored entries is what was saved, at the places that can be read.
LEMMA ReadableIsKept ==
    ASSUME NEW stored, NEW saved, SameBut(stored, saved)
    PROVE  LET got == Saved!Valid(stored)
           IN /\ got \in Seq(Entries)
              /\ [n \in DOMAIN got |-> <<got[n].content, got[n].version>>]
                    = Saved!Readable(saved, stored)
<1> DEFINE P == Saved!Kept(stored)
           c == Saved!Cardinality(P)
           got == Saved!Valid(stored)
           keep == Saved!AtPlaces(saved, P)
<1>1. stored \in Seq(Entries) /\ saved \in Seq(Entries) /\ Len(stored) = Len(saved)
  BY DEF SameBut
<1>2. c \in Nat /\ \A n \in 1 .. c : Saved!Nth(P, n) \in 1 .. Len(stored)
  BY <1>1, KeptPlaces
<1>3. got = [n \in 1 .. c |-> stored[Saved!Nth(P, n)]]
  BY DEF Saved!Valid, Saved!AtPlaces
<1>4. keep = [n \in 1 .. c |-> saved[Saved!Nth(P, n)]]
  BY DEF Saved!AtPlaces
<1>5. Saved!Readable(saved, stored) = [k \in DOMAIN keep |-> <<keep[k].content, keep[k].version>>]
  BY DEF Saved!Readable
<1> HIDE DEF P, c, got, keep
<1>6. got \in Seq(Entries)
  <2>1. \A n \in 1 .. c : stored[Saved!Nth(P, n)] \in Entries
    BY <1>1, <1>2, ElementOfSeq
  <2>2. got \in [1 .. c -> Entries]
    BY <1>3, <2>1
  <2> QED
    BY <1>2, <2>2
<1>7. DOMAIN got = 1 .. c /\ DOMAIN keep = 1 .. c
  BY <1>3, <1>4
<1>8. ASSUME NEW n \in 1 .. c
      PROVE  <<got[n].content, got[n].version>> = <<keep[n].content, keep[n].version>>
  <2>1. got[n] = stored[Saved!Nth(P, n)] /\ keep[n] = saved[Saved!Nth(P, n)]
    BY <1>3, <1>4
  <2>2. Saved!Nth(P, n) \in 1 .. Len(saved)
    BY <1>1, <1>2
  <2>3. got[n].content = keep[n].content /\ got[n].version = keep[n].version
    BY <2>1, <2>2 DEF SameBut
  <2> QED
    BY <2>3
<1>9. [n \in DOMAIN got |-> <<got[n].content, got[n].version>>]
         = [k \in DOMAIN keep |-> <<keep[k].content, keep[k].version>>]
  BY <1>7, <1>8
<1> QED
  BY <1>5, <1>6, <1>9 DEF got

\* The version of a layer that entries were added to.
Newest(v0, got) ==
    Saved!FoldLeft(LAMBDA v, e : IF e.version > v THEN e.version ELSE v, v0, got)

\* It is a number.
LEMMA NewestTyped ==
    ASSUME NEW v0 \in Nat, NEW got \in Seq(Entries)
    PROVE  Newest(v0, got) \in Nat
<1> DEFINE T == Nat
           E == Entries
           by == [p \in T \X E |-> (IF p[2].version > p[1] THEN p[2].version ELSE p[1])]
           Eq(i) == i = [t \in SUBSET DOMAIN got |->
                           IF t = {} THEN v0
                           ELSE (IF got[Greatest(t)].version > i[t \ {Greatest(t)}] THEN got[Greatest(t)].version ELSE i[t \ {Greatest(t)}])]
           f == CHOOSE i : Eq(i)
<1>0. ASSUME NEW v \in T, NEW e \in E
      PROVE  (IF e.version > v THEN e.version ELSE v) \in T
  BY DEF Entries
<1>1. \A v \in T, e \in E : by[<<v, e>>] = (IF e.version > v THEN e.version ELSE v)
  OBVIOUS
<1>2. by \in [T \X E -> T]
  BY <1>0
<1>3. got \in Seq(E)
  OBVIOUS
<1>4. v0 \in T
  OBVIOUS
<1>5. Newest(v0, got) = f[1 .. Len(got)]
  <2>1. DOMAIN got = 1 .. Len(got)
    BY <1>3
  <2> QED
    BY <2>1 DEF Newest, Saved!FoldLeft, Saved!MapThenFoldSet, Saved!Max, Greatest
<1> HIDE DEF T, E, by
<1>6. Len(got) \in Nat /\ DOMAIN got = 1 .. Len(got)
  BY <1>3
<1>7. PICK g : Folding(g, T, by, v0, got, Len(got))
  BY <1>2, <1>3, <1>4, FoldingExists
<1>8. Eq(g)
  <2>1. ASSUME NEW t \in SUBSET (1 .. Len(got)), t # {}
        PROVE  by[<<g[t \ {Greatest(t)}], got[Greatest(t)]>>]
                 = (IF got[Greatest(t)].version > g[t \ {Greatest(t)}] THEN got[Greatest(t)].version ELSE g[t \ {Greatest(t)}])
    <3>1. got[Greatest(t)] \in E /\ t \ {Greatest(t)} \in SUBSET (1 .. Len(got))
      BY <1>3, <2>1, GreatestPlace
    <3>2. g[t \ {Greatest(t)}] \in T
      BY <1>7, <3>1 DEF Folding
    <3> QED
      BY <1>1, <3>1, <3>2
  <2> QED
    BY <1>6, <1>7, <2>1 DEF Folding
<1>9. Eq(f)
  <2> HIDE DEF Eq
  <2> QED
    BY <1>8
<1> HIDE DEF f
<1>10. f[{}] = v0
  BY <1>9
<1>11. ASSUME NEW t \in SUBSET (1 .. Len(got)), t # {}, f[t \ {Greatest(t)}] \in T
       PROVE  f[t] = by[<<f[t \ {Greatest(t)}], got[Greatest(t)]>>]
  <2>1. got[Greatest(t)] \in E
    BY <1>3, <1>11, GreatestPlace
  <2>2. f[t] = (IF got[Greatest(t)].version > f[t \ {Greatest(t)}] THEN got[Greatest(t)].version ELSE f[t \ {Greatest(t)}])
    BY <1>6, <1>9, <1>11
  <2> QED
    BY <1>1, <1>11, <2>1, <2>2
<1>12. Following(f, T, by, v0, got)
  BY <1>10, <1>11 DEF Following
<1>13. Folded(f[1 .. Len(got)], T, by, v0, got)
  BY <1>2, <1>3, <1>4, <1>12, FoldPasses
<1>14. PICK h : Passing(h, T, by, v0, got, Len(got)) /\ h[Len(got)] = f[1 .. Len(got)]
  BY <1>13 DEF Folded
<1>15. ASSUME NEW k \in 1 .. Len(got)
       PROVE  h[k] = (IF got[k].version > h[k - 1] THEN got[k].version ELSE h[k - 1])
  <2>1. k - 1 \in 0 .. Len(got) /\ got[k] \in E
    BY <1>3, ElementOfSeq
  <2>2. h[k - 1] \in T /\ h[k] = by[<<h[k - 1], got[k]>>]
    BY <1>14, <2>1 DEF Passing
  <2> QED
    BY <1>1, <2>1, <2>2
<1>16. h \in [0 .. Len(got) -> T] /\ h[0] = v0 /\ h[Len(got)] = Newest(v0, got)
  BY <1>5, <1>14 DEF Passing
<1> QED
  BY <1>6, <1>16 DEF T

\* A load that has not been, and one that is over, say nothing.
LEMMA QuietRestored ==
    ASSUME Saved!Quiet
    PROVE  Saved!RestoredIsSaved'
<1>1. loaded' = [saved |-> FALSE]
  BY DEF Saved!Quiet, Saved!Nothing
<1>2. ~loaded'.saved
  BY <1>1
<1> QED
  BY <1>2 DEF Saved!RestoredIsSaved

\* The layers change, the Store does not.
LEMMA LayersStep ==
    ASSUME SavedInv,
           \/ \E c \in Contents : Saved!Update(c)
           \/ Saved!ClearLayers \/ Saved!SetTask \/ Saved!Restart \/ Saved!Tick
           \/ \E f, t \in Schemas, x \in Failing : Saved!Register(f, t, x)
    PROVE  SavedInv'
<1>1. Saved!Quiet /\ UNCHANGED <<store, written, kept>>
  BY DEF Saved!Update, Saved!ClearLayers, Saved!SetTask, Saved!Restart, Saved!Tick,
         Saved!Register, Saved!layers
<1>2. StoreInv(store, written, kept)'
  BY <1>1 DEF SavedInv, LayersTyped
<1>3. Saved!RestoredIsSaved'
  BY <1>1, QuietRestored
<1>4. LayersTyped'
  <2>1. ASSUME NEW c \in Contents, Saved!Update(c)
        PROVE  LayersTyped'
    <3>1. version' \in Nat /\ current' = current /\ steps' = steps
      BY <2>1 DEF Saved!Update, SavedInv, LayersTyped
    <3>2. [content |-> c, version |-> version', damage |-> "none"] \in Entries
      BY <3>1 DEF Entries, Damages
    <3>3. entries' \in Seq(Entries)
      BY <2>1, <3>2 DEF Saved!Update
    <3> QED
      BY <3>1, <3>3 DEF SavedInv, LayersTyped
  <2>2. CASE Saved!ClearLayers \/ Saved!Restart
    <3>1. entries' = <<>> /\ version' = 0 /\ current' \in Schemas /\ (steps' = steps \/ steps' = <<>>)
      BY <2>2 DEF Saved!ClearLayers, Saved!Restart, SavedInv, LayersTyped
    <3>2. <<>> \in Seq(Entries) /\ <<>> \in Seq(Migrations)
      BY EmptySeq
    <3> QED
      BY <3>1, <3>2 DEF SavedInv, LayersTyped
  <2>3. CASE Saved!SetTask \/ Saved!Tick
    BY <2>3 DEF Saved!SetTask, Saved!Tick, Saved!layers, SavedInv, LayersTyped
  <2>4. ASSUME NEW f \in Schemas, NEW t \in Schemas, NEW x \in Failing, Saved!Register(f, t, x)
        PROVE  LayersTyped'
    <3>1. [from |-> f, to |-> t, fails |-> x] \in Migrations
      BY SavedConstants DEF Migrations, Saved!SchemasAreNumbers
    <3>2. steps' = Append(steps, [from |-> f, to |-> t, fails |-> x])
      BY <2>4 DEF Saved!Register
    <3>3. steps' \in Seq(Migrations)
      BY <3>1, <3>2, AppendProperties DEF SavedInv, LayersTyped
    <3> QED
      BY <2>4, <3>3 DEF Saved!Register, Saved!layers, SavedInv, LayersTyped
  <2> QED
    BY <2>1, <2>2, <2>3, <2>4
<1> QED
  BY <1>2, <1>3, <1>4 DEF SavedInv, LayersTyped

\* What is saved has the version of its writer.
LEMMA StateFacts ==
    ASSUME NEW body
    PROVE  LET s == Saved!State(body)
           IN /\ s.saved /\ DOMAIN s = {"saved", "schema", "body"}
              /\ s.schema \in Versions /\ s.body = body
BY DEF Saved!State, Versions

\* A save puts the state into its namespace, and touches the metadata.
LEMMA SavedStore ==
    ASSUME DOMAIN store = Saved!Namespaces, NEW ns \in {"summary", "workspace", "session"},
           NEW body, Saved!Saved(ns, body)
    PROVE  /\ DOMAIN store' = Saved!Namespaces
           /\ store'[ns] = Saved!State(body)
           /\ \E b : store'["metadata"] = Saved!State(b)
           /\ \A other \in Saved!Namespaces \ {ns, "metadata"} : store'[other] = store[other]
<1>1. store' = [store EXCEPT ![ns] = Saved!State(body), !["metadata"] = Saved!UpdatedMetadata]
  BY DEF Saved!Saved
<1>2. ns \in Saved!Namespaces /\ "metadata" \in Saved!Namespaces /\ ns # "metadata"
  BY DEF Saved!Namespaces
<1>3. \E b : Saved!UpdatedMetadata = Saved!State(b)
  BY DEF Saved!UpdatedMetadata
<1> QED
  BY <1>1, <1>2, <1>3

\* The Store after a save, for what was written and when the session began.
LEMMA StoreSaves ==
    ASSUME StoreInv(store, written, kept), NEW ns \in {"summary", "workspace", "session"},
           NEW body, Saved!Saved(ns, body), NEW w, NEW k,
           DOMAIN w = {"summary", "workspace"},
           ns # "summary" => w.summary = written.summary,
           ns # "workspace" => w.workspace = written.workspace,
           ns # "session" => k = kept,
           ns = "summary" => /\ DOMAIN body = {"entries", "version"}
                             /\ SameBut(body.entries, w.summary),
           ns = "workspace" => body.task = w.workspace,
           ns = "session" => body.started = k
    PROVE  StoreInv(store', w, k)
<1>1. /\ DOMAIN store' = Saved!Namespaces
      /\ store'[ns] = Saved!State(body)
      /\ \E b : store'["metadata"] = Saved!State(b)
      /\ \A other \in Saved!Namespaces \ {ns, "metadata"} : store'[other] = store[other]
  BY SavedStore DEF StoreInv
<1>2. Saved!Namespaces = {"summary", "workspace", "session", "metadata"}
  BY DEF Saved!Namespaces
<1>3. ASSUME NEW n \in Saved!Namespaces, store'[n].saved
      PROVE  DOMAIN store'[n] = {"saved", "schema", "body"} /\ store'[n].schema \in Versions
  <2>1. CASE n = ns
    BY <1>1, <2>1, StateFacts
  <2>2. CASE n = "metadata"
    BY <1>1, <2>2, StateFacts
  <2>3. CASE n # ns /\ n # "metadata"
    BY <1>1, <1>3, <2>3 DEF StoreInv
  <2> QED
    BY <2>1, <2>2, <2>3
<1>4. store'["summary"].saved => /\ DOMAIN store'["summary"].body = {"entries", "version"}
                                 /\ SameBut(store'["summary"].body.entries, w.summary)
  <2>1. CASE ns = "summary"
    BY <1>1, <2>1, StateFacts
  <2>2. CASE ns # "summary"
    BY <1>1, <1>2, <2>2 DEF StoreInv
  <2> QED
    BY <2>1, <2>2
<1>5. store'["workspace"].saved => store'["workspace"].body.task = w.workspace
  <2>1. CASE ns = "workspace"
    BY <1>1, <2>1, StateFacts
  <2>2. CASE ns # "workspace"
    BY <1>1, <1>2, <2>2 DEF StoreInv
  <2> QED
    BY <2>1, <2>2
<1>6. store'["session"].saved => store'["session"].body.started = k
  <2>1. CASE ns = "session"
    BY <1>1, <2>1, StateFacts
  <2>2. CASE ns # "session"
    BY <1>1, <1>2, <2>2 DEF StoreInv
  <2> QED
    BY <2>1, <2>2
<1> QED
  BY <1>1, <1>3, <1>4, <1>5, <1>6 DEF StoreInv

\* Saving the summary, the workspace or a session keeps the invariant.
LEMMA SavesStep ==
    ASSUME SavedInv,
           \/ Saved!SaveSummary \/ Saved!SaveWorkspace
           \/ \E keys \in SUBSET Metadata : Saved!SaveSession(keys)
    PROVE  SavedInv'
<1>1. Saved!Quiet /\ UNCHANGED <<steps, current, entries, version>>
  BY DEF Saved!SaveSummary, Saved!SaveWorkspace, Saved!SaveSession, Saved!layers
<1>2. Saved!RestoredIsSaved'
  BY <1>1, QuietRestored
<1>3. StoreInv(store, written, kept) /\ DOMAIN written = {"summary", "workspace"}
  BY DEF SavedInv, LayersTyped, StoreInv
<1>4. StoreInv(store', written', kept')
  <2>1. CASE Saved!SaveSummary
    <3>1. /\ Saved!Saved("summary", [entries |-> entries, version |-> version])
          /\ written' = [written EXCEPT !["summary"] = entries] /\ kept' = kept
      BY <2>1 DEF Saved!SaveSummary
    <3>2. SameBut(entries, entries)
      BY DEF SavedInv, LayersTyped, SameBut
    <3>3. /\ DOMAIN written' = {"summary", "workspace"} /\ written'.summary = entries
          /\ written'.workspace = written.workspace
      BY <1>3, <3>1
    <3> DEFINE body == [entries |-> entries, version |-> version]
    <3>4. DOMAIN body = {"entries", "version"} /\ body.entries = entries
      OBVIOUS
    <3> HIDE DEF body
    <3>5. Saved!Saved("summary", body)
      BY <3>1 DEF body
    <3> QED
      BY <1>3, <3>1, <3>2, <3>3, <3>4, <3>5, StoreSaves
  <2>2. CASE Saved!SaveWorkspace
    <3>1. /\ Saved!Saved("workspace", [task |-> task])
          /\ written' = [written EXCEPT !["workspace"] = task] /\ kept' = kept
      BY <2>2 DEF Saved!SaveWorkspace
    <3>2. /\ DOMAIN written' = {"summary", "workspace"} /\ written'.summary = written.summary
          /\ written'.workspace = task
      BY <1>3, <3>1
    <3> DEFINE body == [task |-> task]
    <3>3. body.task = task
      OBVIOUS
    <3> HIDE DEF body
    <3>4. Saved!Saved("workspace", body)
      BY <3>1 DEF body
    <3> QED
      BY <1>3, <3>1, <3>2, <3>3, <3>4, StoreSaves
  <2>3. CASE \E keys \in SUBSET Metadata : Saved!SaveSession(keys)
    <3>1. PICK keys \in SUBSET Metadata : Saved!SaveSession(keys)
      BY <2>3
    <3> DEFINE old == store["session"].body
               start == IF Saved!Loadable("session") THEN old.started ELSE now
               body == [started |-> start, active |-> now,
                        keys |-> keys \cup (IF Saved!Loadable("session") THEN old.keys ELSE {})]
    <3>2. /\ Saved!Saved("session", body) /\ written' = written
          /\ kept' = IF Saved!Loadable("session") THEN kept ELSE now
      BY <3>1 DEF Saved!SaveSession
    <3>3. Saved!Loadable("session") => old.started = kept
      BY <1>3 DEF Saved!Loadable, StoreInv
    <3>4. body.started = kept'
      BY <3>2, <3>3
    <3> HIDE DEF body
    <3> QED
      BY <1>3, <3>2, <3>4, StoreSaves
  <2> QED
    BY <2>1, <2>2, <2>3
<1>5. StoreInv(store, written, kept)'
  BY <1>4
<1> QED
  BY <1>1, <1>2, <1>5 DEF SavedInv, LayersTyped

\* So do an envelope written over them, damage to an entry and the removal of namespaces.
LEMMA ClientStep ==
    ASSUME SavedInv,
           \/ \E ns \in {"summary", "session"} : Saved!SaveEnveloped(ns)
           \/ \E n \in 1 .. MaxRestored, how \in {"alien", "broken", "partial"} : Saved!Damage(n, how)
           \/ \E nss \in {{ns} : ns \in Saved!Namespaces} \cup {Saved!Namespaces} : Saved!ClearSaved(nss)
    PROVE  SavedInv'
<1>1. Saved!Quiet /\ UNCHANGED <<steps, current, entries, version, written, kept>>
  BY DEF Saved!SaveEnveloped, Saved!Damage, Saved!ClearSaved, Saved!layers
<1>2. Saved!RestoredIsSaved'
  BY <1>1, QuietRestored
<1>3. StoreInv(store, written, kept) /\ DOMAIN store = Saved!Namespaces
  BY DEF SavedInv, LayersTyped, StoreInv
<1>4. Saved!Namespaces = {"summary", "workspace", "session", "metadata"}
  BY DEF Saved!Namespaces
<1>5. StoreInv(store', written, kept)
  <2>1. CASE \E ns \in {"summary", "session"} : Saved!SaveEnveloped(ns)
    <3>1. PICK ns \in {"summary", "session"} : Saved!SaveEnveloped(ns)
      BY <2>1
    <3>2. /\ store[ns].saved
          /\ store' = [store EXCEPT ![ns] = [store[ns] EXCEPT !["schema"] = current]]
      BY <3>1 DEF Saved!SaveEnveloped
    <3>3. ns \in Saved!Namespaces
      BY <1>4
    <3>4. DOMAIN store[ns] = {"saved", "schema", "body"}
      BY <1>3, <3>2, <3>3 DEF StoreInv
    <3>5. /\ DOMAIN store' = Saved!Namespaces
          /\ \A n \in Saved!Namespaces \ {ns} : store'[n] = store[n]
          /\ DOMAIN store'[ns] = {"saved", "schema", "body"} /\ store'[ns].schema = current
          /\ store'[ns].saved = store[ns].saved /\ store'[ns].body = store[ns].body
      BY <1>3, <3>2, <3>3, <3>4
    <3>6. current \in Versions
      BY DEF SavedInv, LayersTyped, Versions
    <3>7. \A n \in Saved!Namespaces :
             store'[n].saved =>
                DOMAIN store'[n] = {"saved", "schema", "body"} /\ store'[n].schema \in Versions
      BY <1>3, <3>5, <3>6 DEF StoreInv
    <3>8. \A n \in Saved!Namespaces :
             \/ store'[n].saved = store[n].saved /\ store'[n].body = store[n].body
             \/ store'[n] = store[n]
      BY <3>5
    <3> QED
      BY <1>3, <1>4, <3>5, <3>7, <3>8 DEF StoreInv
  <2>2. CASE \E n \in 1 .. MaxRestored, how \in {"alien", "broken", "partial"} : Saved!Damage(n, how)
    <3>1. PICK n \in 1 .. MaxRestored, how \in {"alien", "broken", "partial"} : Saved!Damage(n, how)
      BY <2>2
    <3> DEFINE state == store["summary"]
               stored == state.body.entries
               hurt == [stored EXCEPT ![n] = [stored[n] EXCEPT !["damage"] = how]]
    <3>2. /\ state.saved /\ n \in DOMAIN stored
          /\ store' = [store EXCEPT !["summary"] =
                         [state EXCEPT !["body"] = [state.body EXCEPT !["entries"] = hurt]]]
      BY <3>1 DEF Saved!Damage
    <3>3. /\ DOMAIN state = {"saved", "schema", "body"} /\ DOMAIN state.body = {"entries", "version"}
          /\ SameBut(stored, written.summary) /\ state.schema \in Versions
      BY <1>3, <1>4, <3>2 DEF StoreInv
    <3>4. SameBut(hurt, written.summary)
      <4>1. /\ stored \in Seq(Entries) /\ DOMAIN stored = 1 .. Len(stored) /\ Len(stored) \in Nat
            /\ Len(stored) = Len(written.summary)
        BY <3>3, LenProperties DEF SameBut
      <4>2. \A m \in 1 .. Len(stored) : stored[m] \in Entries
        BY <4>1, ElementOfSeq
      <4>3. how \in Damages /\ n \in 1 .. Len(stored)
        BY <3>2, <4>1 DEF Damages
      <4>4. \A m \in 1 .. Len(stored) :
               /\ hurt[m] \in Entries
               /\ hurt[m].content = stored[m].content /\ hurt[m].version = stored[m].version
        BY <4>1, <4>2, <4>3 DEF Entries
      <4>5. DOMAIN hurt = 1 .. Len(stored)
        BY <4>1
      <4>6. hurt \in [1 .. Len(stored) -> Entries]
        BY <4>4, <4>5
      <4> HIDE DEF hurt
      <4>7. hurt \in Seq(Entries) /\ Len(hurt) = Len(stored)
        BY <4>1, <4>6
      <4> QED
        BY <3>3, <4>1, <4>4, <4>7 DEF SameBut
    <3> HIDE DEF hurt
    <3>5. /\ DOMAIN store' = Saved!Namespaces
          /\ \A m \in Saved!Namespaces \ {"summary"} : store'[m] = store[m]
          /\ store'["summary"] = [state EXCEPT !["body"] = [state.body EXCEPT !["entries"] = hurt]]
      BY <1>3, <1>4, <3>2
    <3>6. /\ DOMAIN store'["summary"] = {"saved", "schema", "body"}
          /\ store'["summary"].schema = state.schema
          /\ store'["summary"].body = [state.body EXCEPT !["entries"] = hurt]
      BY <3>3, <3>5
    <3>7. /\ DOMAIN store'["summary"].body = {"entries", "version"}
          /\ store'["summary"].body.entries = hurt
      BY <3>3, <3>6
    <3>8. \A m \in Saved!Namespaces :
             store'[m].saved =>
                DOMAIN store'[m] = {"saved", "schema", "body"} /\ store'[m].schema \in Versions
      BY <1>3, <3>3, <3>5, <3>6 DEF StoreInv
    <3>9. store'["workspace"] = store["workspace"] /\ store'["session"] = store["session"]
      BY <1>4, <3>5
    <3> QED
      BY <1>3, <3>4, <3>5, <3>7, <3>8, <3>9 DEF StoreInv
  <2>3. CASE \E nss \in {{ns} : ns \in Saved!Namespaces} \cup {Saved!Namespaces} : Saved!ClearSaved(nss)
    <3>1. PICK nss : store' = [ns \in Saved!Namespaces |-> IF ns \in nss THEN Saved!Nothing ELSE store[ns]]
      BY <2>3 DEF Saved!ClearSaved
    <3>2. ~Saved!Nothing.saved
      BY DEF Saved!Nothing
    <3>3. DOMAIN store' = Saved!Namespaces
          /\ \A ns \in Saved!Namespaces : ~store'[ns].saved \/ store'[ns] = store[ns]
      BY <3>1, <3>2
    <3> QED
      BY <1>3, <1>4, <3>3 DEF StoreInv
  <2> QED
    BY <2>1, <2>2, <2>3
<1>6. StoreInv(store, written, kept)'
  BY <1>1, <1>5
<1> QED
  BY <1>1, <1>2, <1>6 DEF SavedInv, LayersTyped

\* What is loaded is what was saved.
LEMMA LoadStep ==
    ASSUME SavedInv, Saved!Load("workspace") \/ Saved!Load("session") \/ Saved!Restore
    PROVE  SavedInv'
<1>1. UNCHANGED <<steps, current, store, written, kept>>
  BY DEF Saved!Load, Saved!Restore, Saved!layers
<1>2. StoreInv(store, written, kept)'
  BY <1>1 DEF SavedInv, LayersTyped
<1>3. StoreInv(store, written, kept) /\ Saved!Namespaces = {"summary", "workspace", "session", "metadata"}
  BY DEF SavedInv, LayersTyped, Saved!Namespaces
<1>4. CASE Saved!Load("workspace") \/ Saved!Load("session")
  <2>1. PICK ns \in {"workspace", "session"} :
           /\ store[ns].saved
           /\ loaded' = [saved |-> TRUE, of |-> ns, failed |-> Saved!Fails(store[ns]),
                         body |-> store[ns].body, state |-> store[ns]]
           /\ entries' = entries /\ version' = version
    BY <1>4 DEF Saved!Load, Saved!layers
  <2>2. /\ loaded'.of = ns /\ loaded'.failed = Saved!Fails(store[ns])
        /\ loaded'.body = store[ns].body
    BY <2>1
  <2>3. store[ns].schema \in Versions
    BY <1>3, <2>1 DEF StoreInv
  <2>4. loaded'.failed => \E n \in DOMAIN steps : steps[n].fails
    BY <2>2, <2>3, MigratedBySteps DEF SavedInv, LayersTyped
  <2>5. ns = "workspace" => loaded'.body.task = written.workspace
    BY <1>3, <2>1, <2>2 DEF StoreInv
  <2>6. ns = "session" => loaded'.body.started = kept
    BY <1>3, <2>1, <2>2 DEF StoreInv
  <2>7. loaded'.of # "summary"
    BY <2>2
  <2>8. Saved!RestoredIsSaved'
    BY <1>1, <2>2, <2>4, <2>5, <2>6, <2>7 DEF Saved!RestoredIsSaved
  <2> QED
    BY <1>1, <1>2, <2>1, <2>8 DEF SavedInv, LayersTyped
<1>5. CASE Saved!Restore
  <2> DEFINE state == store["summary"]
             stored == state.body.entries
             got == IF Saved!Fails(state) THEN <<>> ELSE Saved!Valid(stored)
  <2>1. /\ state.saved /\ entries' = entries \o got
        /\ loaded' = [saved |-> TRUE, of |-> "summary", failed |-> Saved!Fails(state),
                      body |-> got, state |-> state]
    BY <1>5 DEF Saved!Restore
  <2>2. version' = Newest(version, got)
    BY <1>5 DEF Saved!Restore, Newest
  <2>3. SameBut(stored, written.summary) /\ state.schema \in Versions
    BY <1>3, <2>1 DEF StoreInv
  <2>4. got \in Seq(Entries)
    BY <2>3, ReadableIsKept
  <2>5. ~Saved!Fails(state) =>
           [n \in DOMAIN got |-> <<got[n].content, got[n].version>>]
              = Saved!Readable(written.summary, stored)
    BY <2>3, ReadableIsKept
  <2> HIDE DEF got
  <2>6. entries' \in Seq(Entries) /\ version' \in Nat
    BY <2>1, <2>2, <2>4, NewestTyped, ConcatProperties DEF SavedInv, LayersTyped
  <2>7. Saved!Fails(state) => \E n \in DOMAIN steps : steps[n].fails
    BY <2>3, MigratedBySteps DEF SavedInv, LayersTyped
  <2>8. /\ loaded'.of = "summary" /\ loaded'.failed = Saved!Fails(state)
        /\ loaded'.body = got /\ loaded'.state = state
    BY <2>1
  <2>9. Saved!RestoredIsSaved'
    <3>1. loaded'.state.body.entries = stored /\ written'.summary = written.summary
      BY <1>1, <2>8
    <3>2. ~loaded'.failed =>
            [n \in DOMAIN loaded.body |-> <<loaded.body[n].content, loaded.body[n].version>>]'
              = Saved!Readable(written.summary, loaded.state.body.entries)'
      BY <2>5, <2>8, <3>1 DEF Saved!Readable, Saved!AtPlaces, Saved!Kept
    <3> QED
      BY <1>1, <2>7, <2>8, <3>2 DEF Saved!RestoredIsSaved
  <2> QED
    BY <1>1, <1>2, <2>6, <2>9 DEF SavedInv, LayersTyped
<1> QED
  BY <1>4, <1>5

\* Every step of Recovery keeps it.
LEMMA SavedStepInv ==
    ASSUME SavedInv, Saved!Next
    PROVE  SavedInv'
<1>1. CASE \/ \E c \in Contents : Saved!Update(c)
           \/ Saved!ClearLayers \/ Saved!SetTask \/ Saved!Restart \/ Saved!Tick
           \/ \E f, t \in Schemas, x \in Failing : Saved!Register(f, t, x)
  BY <1>1, LayersStep
<1>2. CASE \/ Saved!SaveSummary \/ Saved!SaveWorkspace
           \/ \E keys \in SUBSET Metadata : Saved!SaveSession(keys)
  BY <1>2, SavesStep
<1>3. CASE \/ \E ns \in {"summary", "session"} : Saved!SaveEnveloped(ns)
           \/ \E n \in 1 .. MaxRestored, how \in {"alien", "broken", "partial"} : Saved!Damage(n, how)
           \/ \E nss \in {{ns} : ns \in Saved!Namespaces} \cup {Saved!Namespaces} : Saved!ClearSaved(nss)
  BY <1>3, ClientStep
<1>4. CASE Saved!Load("workspace") \/ Saved!Load("session") \/ Saved!Restore
  BY <1>4, LoadStep
<1> QED
  BY <1>1, <1>2, <1>3, <1>4
  DEF Saved!Next, Saved!OfSummary, Saved!OfWorkspace, Saved!OfSession, Saved!OfMigrations,
      Saved!OfDamage, Saved!OfProgram

\* It holds before anything is saved.
LEMMA SavedStart ==
    ASSUME Saved!Init
    PROVE  SavedInv
<1>1. \A ns \in Saved!Namespaces : ~store[ns].saved
  BY DEF Saved!Init, Saved!Nothing
<1>2. ~loaded.saved
  BY DEF Saved!Init, Saved!Nothing
<1>3. DOMAIN store = Saved!Namespaces /\ DOMAIN written = {"summary", "workspace"}
  BY DEF Saved!Init
<1>4. StoreInv(store, written, kept)
  BY <1>1, <1>3 DEF StoreInv, Saved!Namespaces
<1>5. <<>> \in Seq(Entries) /\ <<>> \in Seq(Migrations)
  BY EmptySeq
<1>6. LayersTyped
  BY <1>5, SchemasFinite DEF Saved!Init, LayersTyped
<1> QED
  BY <1>2, <1>4, <1>6 DEF SavedInv, Saved!RestoredIsSaved

\* And it is of the saved state alone.
LEMMA SavedSame ==
    ASSUME SavedInv, UNCHANGED savedVars
    PROVE  SavedInv'
<1>1. UNCHANGED <<store, current, entries, version, steps, loaded, written, kept>>
  BY DEF savedVars
<1>2. LayersTyped' /\ StoreInv(store, written, kept)'
  BY <1>1 DEF SavedInv, LayersTyped
<1>3. Saved!Readable(written.summary, loaded.state.body.entries)'
        = Saved!Readable(written.summary, loaded.state.body.entries)
  BY <1>1 DEF Saved!Readable, Saved!AtPlaces, Saved!Kept
<1>4. [n \in DOMAIN loaded.body |-> <<loaded.body[n].content, loaded.body[n].version>>]'
        = [n \in DOMAIN loaded.body |-> <<loaded.body[n].content, loaded.body[n].version>>]
  BY <1>1
<1>5. Saved!RestoredIsSaved'
  BY <1>1, <1>3, <1>4 DEF SavedInv, Saved!RestoredIsSaved
<1> QED
  BY <1>2, <1>5 DEF SavedInv

\* What is known of every state: its setting, and the invariant if it is about the saved state.
SavedAlways == setting \in Settings /\ (ofSaved => SavedInv)

\* So every state of a behaviour about the saved state has it.
LEMMA SavedAlwaysHolds == MCSpec => []SavedAlways
<1>1. ASSUME MCInit PROVE SavedAlways
  BY <1>1, SavedStart DEF MCInit, SavedAlways
<1>2. ASSUME SavedAlways, [MCNext]_MCVars PROVE SavedAlways'
  <2>1. ASSUME UNCHANGED <<setting, savedVars>> PROVE SavedAlways'
    BY <1>2, <2>1, SavedSame DEF SavedAlways, savedVars, ofSaved
  <2>2. CASE UNCHANGED MCVars
    BY <2>1, <2>2 DEF MCVars
  <2>3. CASE MCNext
    <3>1. CASE ofSaved /\ SavedStep
      <4>1. Saved!Next
        BY <3>1 DEF SavedStep, Saved!Next
      <4> QED
        BY <1>2, <2>3, <3>1, <4>1, SavedStepInv DEF MCNext, ofSaved, SavedAlways
    <3>2. CASE ~(ofSaved /\ SavedStep)
      BY <2>1, <2>3, <3>2 DEF MCNext
    <3> QED
      BY <3>1, <3>2
  <2> QED
    BY <1>2, <2>2, <2>3
<1> QED
  BY <1>1, <1>2, PTL DEF MCSpec

\* A load gives what was saved last, after restarts, releases, migrations, damage and
\* clears: the readable entries of the summary, in their order, the workspace, and a
\* session that began with its first save. It fails only when a migration step does.
THEOREM LoadsWhatWasSaved == MCSpec => []LoadedIsSaved
<1>1. SavedAlways => LoadedIsSaved
  BY DEF SavedAlways, SavedInv, LoadedIsSaved
<1> QED
  BY <1>1, SavedAlwaysHolds, PTL

\* find_path finds a chain of registered steps whenever there is one, and none is shorter,
\* in whatever order any number of steps between any schema versions were registered.
THEOREM FindsShortestPaths == MCSpec => []ShortestPaths
<1>1. SavedAlways => ShortestPaths
  BY PathsShortest DEF SavedAlways, SavedInv, LayersTyped, ShortestPaths, ofSaved
<1> QED
  BY <1>1, SavedAlwaysHolds, PTL

------------------------------------------------------------------------------
(* Without settings: every behaviour of PromptBuild, Recovery and Retrieval *)

\* Every behaviour of PromptBuild, whatever is read, written, said, cleared, compacted and
\* audited in whatever order, shows the loop's own writes, keeps to the budgets and uses
\* them, and can be replayed.
THEOREM PromptsBySpec ==
    Prompt!Spec => [](Prompt!OwnWritesSeen /\ Prompt!RoomUsed /\ Prompt!ReplayedAsBuilt)
<1>1. ASSUME PromptInv, [Prompt!Next]_(Prompt!vars) PROVE PromptInv'
  <2>1. CASE UNCHANGED Prompt!vars
    <3>1. UNCHANGED promptVars
      BY <2>1 DEF Prompt!vars, Prompt!files, Prompt!talk, Prompt!workspace, Prompt!audit,
                  promptVars
    <3> QED
      BY <1>1, <3>1 DEF promptVars, PromptInv, TalkTyped, FilesTyped, LogTyped, LastTyped,
                        Right, Fresh, Prompt!Flattened
  <2>2. CASE Prompt!Next
    BY <1>1, <2>2, TalkStep, FilesStep, LogStep, LastStep DEF PromptInv
  <2> QED
    BY <1>1, <2>1, <2>2
<1> QED
  BY <1>1, PromptInit, PromptInvHolds, PTL DEF Prompt!Spec

\* Every behaviour of Recovery loads what was saved, by shortest chains of migrations,
\* whatever is saved, damaged, cleared, registered and restarted in whatever order.
THEOREM LoadsBySpec ==
    Saved!Spec => [](Saved!RestoredIsSaved /\ Saved!PathsAreShortest)
<1>1. ASSUME SavedInv, [Saved!Next]_(Saved!vars) PROVE SavedInv'
  <2>1. CASE UNCHANGED Saved!vars
    <3>1. UNCHANGED savedVars
      BY <2>1 DEF Saved!vars, Saved!layers, savedVars
    <3> QED
      BY <1>1, <3>1, SavedSame
  <2>2. CASE Saved!Next
    BY <1>1, <2>2, SavedStepInv
  <2> QED
    BY <1>1, <2>1, <2>2
<1>2. SavedInv => Saved!RestoredIsSaved /\ Saved!PathsAreShortest
  BY PathsShortest DEF SavedInv, LayersTyped
<1> QED
  BY <1>1, <1>2, SavedStart, PTL DEF Saved!Spec

\* Every behaviour of Retrieval, with any scores and any number of queries, during each of
\* which other threads move, put back, purge and change memories, keeps to the kinds asked
\* for and to the order of the scores.
THEOREM FindsBySpec ==
    Search!Spec => [](Search!ResultsOfKind /\ Search!BetterIsBefore)
<1>1. ASSUME OrderInv, [Search!Next]_(Search!vars) PROVE OrderInv'
  <2>1. CASE UNCHANGED Search!vars
    BY <1>1, <2>1 DEF Search!vars, Search!memories, Search!scores, Search!history, OrderInv,
                 KindInv, Asked, ScoresTyped, FoundOrdered, RankedOrdered, ResultsOrdered,
                 Better, Before, Final, Search!Passes
  <2>2. CASE Search!Next
    BY <1>1, <2>2, OrderStep
  <2> QED
    BY <1>1, <2>1, <2>2
<1>2. OrderInv => Search!ResultsOfKind /\ Search!BetterIsBefore
  BY KindFound, OrderFound DEF OrderInv
<1> QED
  BY <1>1, <1>2, OrderInit, PTL DEF Search!Spec

==============================================================================
