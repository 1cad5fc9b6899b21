-------------------------- MODULE MemoryStoreProofs --------------------------
(***************************************************************************)
(* Theorems about MemoryStore for any sets of memories, texts, clients,    *)
(* keepers and operations, and about Admission (the instance Rules of      *)
(* MCMemoryTools) for any entries, rules and stages that keep their order. *)
(***************************************************************************)

EXTENDS MCMemoryTools, Sequences, FiniteSetTheorems, TLAPS

\* The pools only hold known ids and a thread at work has an entry in hand.
THEOREM TypeCorrect == Spec => []TypeOK
<1> USE ConstantsOK DEF TypeOK, Threads, States, Labels, Adding, Holding,
                        ToArchive, ToActive
<1>1. Init => TypeOK
  BY DEF Init
<1>2. TypeOK /\ [Next]_vars => TypeOK'
  <2> SUFFICES ASSUME TypeOK, [Next]_vars PROVE TypeOK'
    OBVIOUS
  <2> USE DEF GoTo, Finish, entryVars
  <2>1. ASSUME NEW c \in Clients, ClientStep(c) PROVE TypeOK'
    <3>1. ASSUME NEW i \in Ids, NEW x \in Texts, AddBegin(c, i, x) PROVE TypeOK'
      BY <3>1 DEF AddBegin, Call
    <3>2. ASSUME NEW i \in Ids, NEW x \in Texts, Update(c, i, x) PROVE TypeOK'
      BY <3>2 DEF Update, Call
    <3>3. CASE AddDedup(c)  BY <3>3 DEF AddDedup
    <3>4. CASE AddPolicy(c) BY <3>4 DEF AddPolicy
    <3>5. CASE Create(c)    BY <3>5 DEF Create
    <3>6. CASE NotifyIndex(c) BY <3>6 DEF NotifyIndex
    <3>7. CASE NotifyUnindex(c) BY <3>7 DEF NotifyUnindex
    <3>8. ASSUME NEW i \in Ids,
                 Delete(c, i) \/ Archive(c, i) \/ EngineArchive(c, i)
          PROVE  TypeOK'
      BY <3>8 DEF Delete, Archive, EngineArchive, TakeActive
    <3>9. ASSUME NEW i \in Ids, Recover(c, i) \/ EngineRestore(c, i) PROVE TypeOK'
      BY <3>9 DEF Recover, EngineRestore, TakeInactive
    <3>10. ASSUME NEW i \in Ids, Purge(c, i) PROVE TypeOK'
      BY <3>10 DEF Purge
    <3>11. CASE FinishDelete(c)  BY <3>11 DEF FinishDelete
    <3>12. CASE FinishArchive(c) BY <3>12 DEF FinishArchive
    <3>13. CASE FinishRecover(c) BY <3>13 DEF FinishRecover
    <3>14. CASE Reindex(c)       BY <3>14 DEF Reindex
    <3> QED
      BY <2>1, <3>1, <3>2, <3>3, <3>4, <3>5, <3>6, <3>7, <3>8, <3>9, <3>10,
         <3>11, <3>12, <3>13, <3>14 DEF ClientStep
  <2>2. ASSUME NEW k \in Keepers, KeeperStep(k) PROVE TypeOK'
    <3>1. CASE Scan(k) BY <3>1 DEF Scan
    <3>2. CASE Cool(k) BY <3>2 DEF Cool
    <3>3. CASE Drop(k) BY <3>3 DEF Drop, TakeActive
    <3>4. CASE FinishArchive(k) BY <3>4 DEF FinishArchive
    <3>5. CASE EndScan(k) BY <3>5 DEF EndScan
    <3>6. ASSUME NEW i \in Ids, Evaluate(k, i) PROVE TypeOK'
      BY <3>6 DEF Evaluate
    <3> QED
      BY <2>2, <3>1, <3>2, <3>3, <3>4, <3>5, <3>6 DEF KeeperStep
  <2>3. CASE UNCHANGED vars
    BY <2>3 DEF vars
  <2> QED
    BY <2>1, <2>2, <2>3 DEF Next
<1> QED
  BY <1>1, <1>2, PTL DEF Spec

------------------------------------------------------------------------------
\* However pops and inserts of several threads interleave, a memory that was
\* created and not purged is in a pool or in the hands of a thread.
THEOREM NothingLostAlways == Spec => []NothingLost
<1> USE ConstantsOK DEF NothingLost, Held, Holding, ToArchive, ToActive, Threads
<1>1. Init => NothingLost
  BY DEF Init
<1>2. TypeOK /\ NothingLost /\ [Next]_vars => NothingLost'
  <2> SUFFICES ASSUME TypeOK, NothingLost, [Next]_vars PROVE NothingLost'
    OBVIOUS
  <2> USE DEF TypeOK, GoTo, Finish, entryVars, Adding
  <2>1. ASSUME NEW c \in Clients, ClientStep(c) PROVE NothingLost'
    <3>1. ASSUME NEW i \in Ids, NEW x \in Texts, AddBegin(c, i, x) PROVE NothingLost'
      BY <3>1 DEF AddBegin, Call
    <3>2. ASSUME NEW i \in Ids, NEW x \in Texts, Update(c, i, x) PROVE NothingLost'
      BY <3>2 DEF Update, Call
    <3>3. CASE AddDedup(c)  BY <3>3 DEF AddDedup
    <3>4. CASE AddPolicy(c) BY <3>4 DEF AddPolicy
    <3>5. CASE Create(c)    BY <3>5 DEF Create
    <3>6. CASE NotifyIndex(c) BY <3>6 DEF NotifyIndex
    <3>7. CASE NotifyUnindex(c) BY <3>7 DEF NotifyUnindex
    <3>8. ASSUME NEW i \in Ids,
                 Delete(c, i) \/ Archive(c, i) \/ EngineArchive(c, i)
          PROVE  NothingLost'
      BY <3>8 DEF Delete, Archive, EngineArchive, TakeActive, Call
    <3>9. ASSUME NEW i \in Ids, Recover(c, i) \/ EngineRestore(c, i)
          PROVE  NothingLost'
      BY <3>9 DEF Recover, EngineRestore, TakeInactive, Call
    <3>10. ASSUME NEW i \in Ids, Purge(c, i) PROVE NothingLost'
      BY <3>10 DEF Purge, Call
    <3>11. CASE FinishDelete(c)  BY <3>11 DEF FinishDelete
    <3>12. CASE FinishArchive(c) BY <3>12 DEF FinishArchive
    <3>13. CASE FinishRecover(c) BY <3>13 DEF FinishRecover
    <3>14. CASE Reindex(c)       BY <3>14 DEF Reindex
    <3> QED
      BY <2>1, <3>1, <3>2, <3>3, <3>4, <3>5, <3>6, <3>7, <3>8, <3>9, <3>10,
         <3>11, <3>12, <3>13, <3>14 DEF ClientStep
  <2>2. ASSUME NEW k \in Keepers, KeeperStep(k) PROVE NothingLost'
    <3>1. CASE Scan(k) BY <3>1 DEF Scan
    <3>2. CASE Cool(k) BY <3>2 DEF Cool
    <3>3. CASE Drop(k) BY <3>3 DEF Drop, TakeActive
    <3>4. CASE FinishArchive(k) BY <3>4 DEF FinishArchive
    <3>5. CASE EndScan(k) BY <3>5 DEF EndScan
    <3>6. ASSUME NEW i \in Ids, Evaluate(k, i) PROVE NothingLost'
      BY <3>6 DEF Evaluate
    <3> QED
      BY <2>2, <3>1, <3>2, <3>3, <3>4, <3>5, <3>6 DEF KeeperStep
  <2>3. CASE UNCHANGED vars
    BY <2>3 DEF vars
  <2> QED
    BY <2>1, <2>2, <2>3 DEF Next
<1> QED
  BY <1>1, <1>2, TypeCorrect, PTL DEF Spec

------------------------------------------------------------------------------
(* Distinct texts: one place per memory, and the transition table. *)

\* What OnePlace needs to be preserved by every step: a text is written before
\* anything else happens to an entry, it is one that callers may give to that
\* entry only, and an entry in the pipeline has not been created yet.
Ownership ==
    /\ OnePlace
    /\ \A i \in Ids : text[i] = None =>
          /\ fate[i] = "unborn"
          /\ i \notin active \cup archived \cup deleted \cup Held(Holding \cup Adding)
    /\ \A i \in Ids : text[i] # None => text[i] \in Writable[i]
    /\ \A i \in Held(Adding) : fate[i] = "unborn"

\* Two different memories never have the same text, so DeduplicateStage never
\* finds an existing entry to merge with.
LEMMA NoMatch ==
    ASSUME DistinctTexts, TypeOK, Ownership, NEW c \in Clients, pc[c] = "dedup"
    PROVE  {e \in active : text[e] = text[arg[c]]} = {}
<1>1. /\ arg[c] \in Ids
      /\ arg[c] \in Held(Holding \cup Adding)
  BY DEF TypeOK, Held, Adding, Threads
<1>2. text[arg[c]] # None /\ arg[c] \notin active
  BY <1>1 DEF Ownership, OnePlace
<1> SUFFICES ASSUME NEW e \in active, text[e] = text[arg[c]] PROVE FALSE
  OBVIOUS
<1>3. e \in Ids /\ e # arg[c]
  BY <1>2 DEF TypeOK
<1>4. text[e] \in Writable[e] \cap Writable[arg[c]]
  BY <1>1, <1>2, <1>3 DEF Ownership
<1> QED
  BY <1>1, <1>3, <1>4 DEF DistinctTexts

\* Each step of a client or keeper, of which two never hold one entry.
LEMMA OwnershipStep ==
    ASSUME DistinctTexts, TypeOK, Ownership, [Next]_vars
    PROVE  Ownership'
<1> USE ConstantsOK DEF Ownership, OnePlace, Held, Holding, ToArchive, ToActive,
                        Adding, Threads, TypeOK, GoTo, Finish, entryVars
<1>1. ASSUME NEW c \in Clients, ClientStep(c) PROVE Ownership'
  <2>1. ASSUME NEW i \in Ids, NEW x \in Texts, AddBegin(c, i, x) PROVE Ownership'
    BY <2>1 DEF AddBegin, Call
  <2>2. ASSUME NEW i \in Ids, NEW x \in Texts, Update(c, i, x) PROVE Ownership'
    BY <2>2 DEF Update, Call
  <2>3. CASE AddDedup(c)
    <3>1. {e \in active : text[e] = text[arg[c]]} = {}
      BY <2>3, NoMatch DEF AddDedup
    <3> QED
      BY <2>3, <3>1 DEF AddDedup
  <2>4. CASE AddPolicy(c) BY <2>4 DEF AddPolicy
  <2>5. CASE Create(c)    BY <2>5 DEF Create
  <2>6. CASE NotifyIndex(c) BY <2>6 DEF NotifyIndex
  <2>7. CASE NotifyUnindex(c) BY <2>7 DEF NotifyUnindex
  <2>8. ASSUME NEW i \in Ids,
               Delete(c, i) \/ Archive(c, i) \/ EngineArchive(c, i)
        PROVE  Ownership'
    BY <2>8 DEF Delete, Archive, EngineArchive, TakeActive, Call
  <2>9. ASSUME NEW i \in Ids, Recover(c, i) \/ EngineRestore(c, i)
        PROVE  Ownership'
    BY <2>9 DEF Recover, EngineRestore, TakeInactive, Call
  <2>10. ASSUME NEW i \in Ids, Purge(c, i) PROVE Ownership'
    BY <2>10 DEF Purge, Call
  <2>11. CASE FinishDelete(c)  BY <2>11 DEF FinishDelete
  <2>12. CASE FinishArchive(c) BY <2>12 DEF FinishArchive
  <2>13. CASE FinishRecover(c) BY <2>13 DEF FinishRecover
  <2>14. CASE Reindex(c)       BY <2>14 DEF Reindex
  <2> QED
    BY <1>1, <2>1, <2>2, <2>3, <2>4, <2>5, <2>6, <2>7, <2>8, <2>9, <2>10,
       <2>11, <2>12, <2>13, <2>14 DEF ClientStep
<1>2. ASSUME NEW k \in Keepers, KeeperStep(k) PROVE Ownership'
  <2>1. CASE Scan(k) BY <2>1 DEF Scan
  <2>2. CASE Cool(k) BY <2>2 DEF Cool
  <2>3. CASE Drop(k) BY <2>3 DEF Drop, TakeActive
  <2>4. CASE FinishArchive(k) BY <2>4 DEF FinishArchive
  <2>5. CASE EndScan(k) BY <2>5 DEF EndScan
  <2>6. ASSUME NEW i \in Ids, Evaluate(k, i) PROVE Ownership'
    BY <2>6 DEF Evaluate
  <2> QED
    BY <1>2, <2>1, <2>2, <2>3, <2>4, <2>5, <2>6 DEF KeeperStep
<1>3. CASE UNCHANGED vars
  BY <1>3 DEF vars
<1> QED
  BY <1>1, <1>2, <1>3 DEF Next

\* Nothing is in a pool, in a thread's hands, or written at the start.
LEMMA OwnershipInit == Init => Ownership
BY ConstantsOK DEF Init, Ownership, OnePlace, Held, Holding, Adding, ToArchive,
                   ToActive, Threads

\* With distinct texts every memory is in one pool, in one thread's hands or in
\* one pipeline, never in two.
THEOREM OnePlaceAlways == ASSUME DistinctTexts PROVE Spec => []OnePlace
<1>1. Ownership /\ TypeOK /\ [Next]_vars => Ownership'
  BY OwnershipStep
<1>2. Ownership => OnePlace
  BY DEF Ownership
<1> QED
  BY <1>1, <1>2, OwnershipInit, TypeCorrect, PTL DEF Spec

\* A step that changes the place of entry i at most.
OnlyAt(i) == \A j \in Ids \ {i} :
    /\ j \in InActive' <=> j \in InActive
    /\ j \in InArchived' <=> j \in InArchived
    /\ j \in InDeleted' <=> j \in InDeleted
    /\ fate'[j] = fate[j]

\* placeOf reads nothing but these three sets and the fates.
LEMMA PlaceStays ==
    ASSUME InActive' = InActive, InArchived' = InArchived,
           InDeleted' = InDeleted, fate' = fate
    PROVE  placeOf' = placeOf
BY DEF placeOf, InActive, InArchived, InDeleted

\* What OnlyAt says of the sets, said of placeOf.
LEMMA PlaceMoves ==
    ASSUME NEW i \in Ids, OnlyAt(i)
    PROVE  placeOf' = [placeOf EXCEPT ![i] = placeOf'[i]]
<1>1. ASSUME NEW j \in Ids, j # i PROVE placeOf'[j] = placeOf[j]
  BY <1>1 DEF OnlyAt, placeOf, InActive, InArchived, InDeleted
<1>2. placeOf' = [j \in Ids |-> placeOf'[j]]
  BY DEF placeOf
<1>3. placeOf = [j \in Ids |-> placeOf[j]]
  BY DEF placeOf
<1> QED
  BY <1>1, <1>2, <1>3

\* Where an entry is, in a state in which OnePlace holds.
LEMMA PlaceReads ==
    ASSUME OnePlace, TypeOK, NEW i \in Ids
    PROVE  /\ i \in InActive => placeOf[i] = "active"
           /\ i \in InArchived => placeOf[i] = "archived"
           /\ i \in InDeleted => placeOf[i] = "deleted"
           /\ i \notin InActive \cup InArchived \cup InDeleted => placeOf[i] = fate[i]
<1> USE DEF InActive, InArchived, InDeleted
<1>1. /\ InActive \cap InArchived = {}
      /\ InActive \cap InDeleted = {}
      /\ InArchived \cap InDeleted = {}
  BY DEF OnePlace, Held, Holding, ToArchive, ToActive
<1> QED
  BY <1>1 DEF placeOf

\* The same in the state after a step.
LEMMA PlaceReadsNext ==
    ASSUME OnePlace', TypeOK', NEW i \in Ids
    PROVE  /\ i \in InActive' => placeOf'[i] = "active"
           /\ i \in InArchived' => placeOf'[i] = "archived"
           /\ i \in InDeleted' => placeOf'[i] = "deleted"
           /\ i \notin InActive' \cup InArchived' \cup InDeleted' => placeOf'[i] = fate'[i]
<1> USE DEF InActive, InArchived, InDeleted
<1>1. /\ InActive' \cap InArchived' = {}
      /\ InActive' \cap InDeleted' = {}
      /\ InArchived' \cap InDeleted' = {}
  BY DEF OnePlace, Held, Holding, ToArchive, ToActive
<1> QED
  BY <1>1 DEF placeOf

\* A pop or a creation is a move of the table, every other step a stutter.
LEMMA StepRefines ==
    ASSUME DistinctTexts, TypeOK, TypeOK', Ownership, Ownership', [Next]_vars
    PROVE  [Pools!Next]_placeOf
<1> USE ConstantsOK DEF TypeOK, GoTo, Finish, entryVars, Threads, Adding, Holding,
                        ToActive, ToArchive, Held, InActive, InArchived, InDeleted
<1> DEFINE stays == /\ InActive' = InActive /\ InArchived' = InArchived
                    /\ InDeleted' = InDeleted /\ fate' = fate
           moves(i, from, to) ==
               /\ i \in Ids /\ OnlyAt(i)
               /\ placeOf[i] = from /\ placeOf'[i] = to
<1>1. ASSUME stays PROVE [Pools!Next]_placeOf
  <2> HIDE DEF InActive, InArchived, InDeleted
  <2> QED BY <1>1, PlaceStays
<1>2. ASSUME NEW i \in Ids, NEW from, NEW to, moves(i, from, to)
      PROVE  Pools!Move(i, from, to)
  <2> HIDE DEF InActive, InArchived, InDeleted
  <2> QED BY <1>2, PlaceMoves DEF Pools!Move
<1>3. OnePlace /\ OnePlace'
  BY DEF Ownership
<1>4. ASSUME NEW t \in Threads, NEW i \in Ids, NEW label \in ToArchive,
             TakeActive(t, i, label), pc[t] \notin Holding
      PROVE  Pools!Archive(i)
  <2>1. OnlyAt(i) /\ i \in InActive /\ i \in InArchived'
    BY <1>4 DEF TakeActive, OnlyAt
  <2>2. moves(i, "active", "archived")
    BY <2>1, <1>3, PlaceReads, PlaceReadsNext
  <2> QED
    BY <2>2, <1>2 DEF Pools!Archive
<1>5. ASSUME NEW c \in Clients, ClientStep(c) PROVE [Pools!Next]_placeOf
  <2>1. ASSUME NEW i \in Ids, NEW x \in Texts,
               AddBegin(c, i, x) \/ Update(c, i, x)
        PROVE  stays
    BY <2>1 DEF AddBegin, Update, Call
  <2>2. ASSUME AddDedup(c) \/ AddPolicy(c) \/ NotifyIndex(c) \/ NotifyUnindex(c)
               \/ Reindex(c)
        PROVE  stays
    BY <2>2 DEF AddDedup, AddPolicy, NotifyIndex, NotifyUnindex, Reindex
  <2>3. ASSUME FinishDelete(c) \/ FinishArchive(c) \/ FinishRecover(c)
        PROVE  stays
    BY <2>3 DEF FinishDelete, FinishArchive, FinishRecover
  <2>4. CASE Create(c)
    <3>1. PICK i \in Ids : i = arg[c]
      BY <2>4 DEF Create
    <3>2. OnlyAt(i) /\ i \in InActive'
      BY <2>4, <3>1 DEF Create, OnlyAt
    <3>3. fate[i] = "unborn" /\ i \notin InActive \cup InArchived \cup InDeleted
      BY <2>4, <3>1, <1>3 DEF Create, Ownership, OnePlace
    <3>4. moves(i, "unborn", "active")
      BY <3>2, <3>3, <1>3, PlaceReads, PlaceReadsNext
    <3> QED
      BY <3>4, <1>2 DEF Pools!Next, Pools!Create
  <2>5. ASSUME NEW i \in Ids, Archive(c, i) \/ EngineArchive(c, i)
        PROVE  Pools!Archive(i)
    BY <2>5, <1>4 DEF Archive, EngineArchive, Call
  <2>6. ASSUME NEW i \in Ids, Delete(c, i) PROVE Pools!Delete(i)
    <3>1. OnlyAt(i) /\ i \in InActive /\ i \in InDeleted'
      BY <2>6 DEF Delete, TakeActive, Call, OnlyAt
    <3>2. moves(i, "active", "deleted")
      BY <3>1, <1>3, PlaceReads, PlaceReadsNext
    <3> QED
      BY <3>2, <1>2 DEF Pools!Delete
  <2>7. ASSUME NEW i \in Ids, Recover(c, i) \/ EngineRestore(c, i)
        PROVE  Pools!Recover(i)
    <3>1. OnlyAt(i) /\ i \in InArchived \cup InDeleted /\ i \in InActive'
      BY <2>7 DEF Recover, EngineRestore, TakeInactive, Call, OnlyAt
    <3>2. moves(i, "archived", "active") \/ moves(i, "deleted", "active")
      BY <3>1, <1>3, PlaceReads, PlaceReadsNext
    <3> QED
      BY <3>2, <1>2 DEF Pools!Recover
  <2>8. ASSUME NEW i \in Ids, Purge(c, i) PROVE Pools!Purge(i)
    <3>1. OnlyAt(i) /\ i \in InDeleted /\ fate'[i] = "purged"
      BY <2>8 DEF Purge, Call, OnlyAt
    <3>2. i \notin InActive' \cup InArchived' \cup InDeleted'
      BY <2>8, <1>3 DEF Purge, Call, OnePlace
    <3>3. moves(i, "deleted", "purged")
      BY <3>1, <3>2, <1>3, PlaceReads, PlaceReadsNext
    <3> QED
      BY <3>3, <1>2 DEF Pools!Purge
  <2> QED
    BY <1>1, <1>5, <2>1, <2>2, <2>3, <2>4, <2>5, <2>6, <2>7, <2>8
       DEF ClientStep, Pools!Next
<1>6. ASSUME NEW k \in Keepers, KeeperStep(k) PROVE [Pools!Next]_placeOf
  <2>1. CASE Drop(k)
    <3>1. CASE TakeActive(k, arg[k], "toArchivedDirect")
      BY <2>1, <3>1, <1>4 DEF Drop, Pools!Next
    <3>2. CASE ~TakeActive(k, arg[k], "toArchivedDirect")
      <4>1. stays
        BY <2>1, <3>2 DEF Drop
      <4> QED
        BY <4>1, <1>1
    <3> QED
      BY <3>1, <3>2
  <2>2. ASSUME \/ Scan(k) \/ Cool(k) \/ FinishArchive(k) \/ EndScan(k)
               \/ \E i \in Ids : Evaluate(k, i)
        PROVE  stays
    BY <2>2 DEF Scan, Cool, FinishArchive, EndScan, Evaluate
  <2> QED
    BY <1>1, <1>6, <2>1, <2>2 DEF KeeperStep
<1>7. CASE UNCHANGED vars
  <2>1. stays
    BY <1>7 DEF vars
  <2> QED
    BY <2>1, <1>1
<1> QED
  BY <1>5, <1>6, <1>7 DEF Next

\* With distinct texts the store implements the table of lifecycle/manager.py:
\* threads that interleave their pops and inserts are not observable in the
\* places of the memories.
THEOREM StoreImplementsPools == ASSUME DistinctTexts PROVE Spec => ImplementsPools
<1>1. Init => Pools!Init
  BY ConstantsOK DEF Init, Pools!Init, placeOf, InActive, InArchived, InDeleted, Held,
                     ToActive, ToArchive, Threads
<1>2. TypeOK /\ TypeOK' /\ Ownership /\ Ownership' /\ [Next]_vars
      => [Pools!Next]_placeOf
  BY StepRefines
<1>3. TypeOK /\ Ownership /\ [Next]_vars => Ownership'
  BY OwnershipStep
<1> QED
  BY <1>1, <1>2, <1>3, OwnershipInit, TypeCorrect, PTL
     DEF Spec, ImplementsPools, Pools!Spec

------------------------------------------------------------------------------
(* One client of the tools, and any keepers: the indexes miss no memory. *)

\* What ActiveAreIndexed needs: the client takes an entry out of the indexes
\* only while it is not active, and never restores through the engine.
IndexFollows(c) ==
    /\ ActiveAreIndexed
    /\ pc[c] = "unindex" => arg[c] \notin active
    /\ pc[c] # "toActiveDirect"

\* Each step of the only client, and of keepers that move entries meanwhile.
LEMMA IndexStep ==
    ASSUME DistinctTexts, NEW c, Clients = {c}, "engine_restore" \notin Ops,
           TypeOK, Ownership, IndexFollows(c), [Next]_vars
    PROVE  IndexFollows(c)'
<1> USE ConstantsOK DEF IndexFollows, ActiveAreIndexed, Ownership, OnePlace, Held, Holding,
                        ToArchive, ToActive, Adding, Threads, TypeOK, GoTo, Finish, entryVars
<1>1. CASE ClientStep(c)
  <2>1. ASSUME NEW i \in Ids, NEW x \in Texts, AddBegin(c, i, x) PROVE IndexFollows(c)'
    BY <2>1 DEF AddBegin, Call
  <2>2. ASSUME NEW i \in Ids, NEW x \in Texts, Update(c, i, x) PROVE IndexFollows(c)'
    BY <2>2 DEF Update, Call
  <2>3. CASE AddDedup(c) \/ AddPolicy(c)
    BY <2>3 DEF AddDedup, AddPolicy
  <2>4. CASE Create(c)
    BY <2>4 DEF Create
  <2>5. CASE NotifyIndex(c)
    BY <2>5 DEF NotifyIndex
  <2>6. CASE NotifyUnindex(c)
    BY <2>6 DEF NotifyUnindex
  <2>7. ASSUME NEW i \in Ids,
               Delete(c, i) \/ Archive(c, i) \/ EngineArchive(c, i)
        PROVE  IndexFollows(c)'
    BY <2>7 DEF Delete, Archive, EngineArchive, TakeActive, Call
  <2>8. ASSUME NEW i \in Ids, Recover(c, i) PROVE IndexFollows(c)'
    BY <2>8 DEF Recover, TakeInactive, Call
  <2>9. ASSUME NEW i \in Ids, EngineRestore(c, i) PROVE IndexFollows(c)'
    BY <2>9 DEF EngineRestore, Call
  <2>10. ASSUME NEW i \in Ids, Purge(c, i) PROVE IndexFollows(c)'
    BY <2>10 DEF Purge, Call
  <2>11. CASE FinishDelete(c)
    BY <2>11 DEF FinishDelete
  <2>12. CASE FinishArchive(c)
    BY <2>12 DEF FinishArchive
  <2>13. CASE FinishRecover(c)
    BY <2>13 DEF FinishRecover
  <2>14. CASE Reindex(c)
    BY <2>14 DEF Reindex
  <2> QED
    BY <1>1, <2>1, <2>2, <2>3, <2>4, <2>5, <2>6, <2>7, <2>8, <2>9, <2>10,
       <2>11, <2>12, <2>13, <2>14 DEF ClientStep
<1>2. ASSUME NEW k \in Keepers, KeeperStep(k) PROVE IndexFollows(c)'
  <2>1. CASE Scan(k) BY <2>1 DEF Scan
  <2>2. CASE Cool(k) BY <2>2 DEF Cool
  <2>3. CASE Drop(k) BY <2>3 DEF Drop, TakeActive
  <2>4. CASE FinishArchive(k) BY <2>4 DEF FinishArchive
  <2>5. CASE EndScan(k) BY <2>5 DEF EndScan
  <2>6. ASSUME NEW i \in Ids, Evaluate(k, i) PROVE IndexFollows(c)'
    BY <2>6 DEF Evaluate
  <2> QED
    BY <1>2, <2>1, <2>2, <2>3, <2>4, <2>5, <2>6 DEF KeeperStep
<1>3. CASE UNCHANGED vars
  BY <1>3 DEF vars
<1> QED
  BY <1>1, <1>2, <1>3 DEF Next

\* A memory that is active is in the indexes, or its only client is about to
\* put it there, whatever the keepers archive meanwhile (store.py, index.py).
THEOREM ActiveAreIndexedAlone ==
    ASSUME DistinctTexts, NEW c, Clients = {c}, "engine_restore" \notin Ops
    PROVE  Spec => []ActiveAreIndexed
<1>1. Init => IndexFollows(c)
  BY ConstantsOK DEF Init, IndexFollows, ActiveAreIndexed, Threads
<1>2. TypeOK /\ Ownership /\ IndexFollows(c) /\ [Next]_vars => IndexFollows(c)'
  BY IndexStep
<1>3. TypeOK /\ Ownership /\ [Next]_vars => Ownership'
  BY OwnershipStep
<1>4. IndexFollows(c) => ActiveAreIndexed
  BY DEF IndexFollows
<1> QED
  BY <1>1, <1>2, <1>3, <1>4, OwnershipInit, TypeCorrect, PTL DEF Spec


------------------------------------------------------------------------------
\* What NoDuplicateTexts needs: between DeduplicateStage and PersistStage no
\* other active entry has the text, since keepers only take entries away.
NoOtherHasText(c) ==
    /\ NoDuplicateTexts
    /\ \A i \in active : text[i] # None
    /\ pc[c] \in Adding => text[arg[c]] # None
    /\ pc[c] \in {"policy", "create"} =>
          \A e \in active : e # arg[c] => text[e] # text[arg[c]]
    /\ pc[c] \notin ToActive

\* Each step of a client that adds and removes, and of keepers.
LEMMA NoOtherStep ==
    ASSUME NEW c, Clients = {c}, Ops \cap {"update", "recover", "engine_restore"} = {},
           TypeOK, NoOtherHasText(c), [Next]_vars
    PROVE  NoOtherHasText(c)'
<1> USE ConstantsOK DEF NoOtherHasText, NoDuplicateTexts, ToArchive, ToActive, Adding, Threads,
                        TypeOK, GoTo, Finish, entryVars
<1>1. CASE ClientStep(c)
  <2>1. ASSUME NEW i \in Ids, NEW x \in Texts, AddBegin(c, i, x) PROVE NoOtherHasText(c)'
    BY <2>1 DEF AddBegin, Call
  <2>2. ASSUME NEW i \in Ids, NEW x \in Texts, Update(c, i, x) PROVE NoOtherHasText(c)'
    BY <2>2 DEF Update, Call
  <2>3. CASE AddDedup(c)
    BY <2>3 DEF AddDedup
  <2>4. CASE AddPolicy(c)
    BY <2>4 DEF AddPolicy
  <2>5. CASE Create(c)
    BY <2>5 DEF Create
  <2>6. CASE NotifyIndex(c) \/ NotifyUnindex(c)
    BY <2>6 DEF NotifyIndex, NotifyUnindex
  <2>7. ASSUME NEW i \in Ids,
               Delete(c, i) \/ Archive(c, i) \/ EngineArchive(c, i)
        PROVE  NoOtherHasText(c)'
    BY <2>7 DEF Delete, Archive, EngineArchive, TakeActive, Call
  <2>8. ASSUME NEW i \in Ids, Recover(c, i) \/ EngineRestore(c, i) PROVE NoOtherHasText(c)'
    BY <2>8 DEF Recover, EngineRestore, Call
  <2>9. ASSUME NEW i \in Ids, Purge(c, i) PROVE NoOtherHasText(c)'
    BY <2>9 DEF Purge, Call
  <2>10. CASE FinishDelete(c)
    BY <2>10 DEF FinishDelete
  <2>11. CASE FinishArchive(c)
    BY <2>11 DEF FinishArchive
  <2>12. CASE FinishRecover(c)
    BY <2>12 DEF FinishRecover
  <2>13. CASE Reindex(c)
    BY <2>13 DEF Reindex
  <2> QED
    BY <1>1, <2>1, <2>2, <2>3, <2>4, <2>5, <2>6, <2>7, <2>8, <2>9, <2>10,
       <2>11, <2>12, <2>13 DEF ClientStep
<1>2. ASSUME NEW k \in Keepers, KeeperStep(k) PROVE NoOtherHasText(c)'
  <2>1. CASE Scan(k) BY <2>1 DEF Scan
  <2>2. CASE Cool(k) BY <2>2 DEF Cool
  <2>3. CASE Drop(k) BY <2>3 DEF Drop, TakeActive
  <2>4. CASE FinishArchive(k) BY <2>4 DEF FinishArchive
  <2>5. CASE EndScan(k) BY <2>5 DEF EndScan
  <2>6. ASSUME NEW i \in Ids, Evaluate(k, i) PROVE NoOtherHasText(c)'
    BY <2>6 DEF Evaluate
  <2> QED
    BY <1>2, <2>1, <2>2, <2>3, <2>4, <2>5, <2>6 DEF KeeperStep
<1>3. CASE UNCHANGED vars
  BY <1>3 DEF vars
<1> QED
  BY <1>1, <1>2, <1>3 DEF Next

\* No two active memories have the same text, when one client adds and removes,
\* whatever the keepers take away between the stages of the pipeline
\* (DeduplicateStage, pipeline.py).
THEOREM NoDuplicatesAlone ==
    ASSUME NEW c, Clients = {c}, Ops \cap {"update", "recover", "engine_restore"} = {}
    PROVE  Spec => []NoDuplicateTexts
<1>1. Init => NoOtherHasText(c)
  BY ConstantsOK DEF Init, NoOtherHasText, NoDuplicateTexts, Threads, Adding, ToActive
<1>2. TypeOK /\ NoOtherHasText(c) /\ [Next]_vars => NoOtherHasText(c)'
  BY NoOtherStep
<1>3. NoOtherHasText(c) => NoDuplicateTexts
  BY DEF NoOtherHasText
<1> QED
  BY <1>1, <1>2, <1>3, TypeCorrect, PTL DEF Spec

------------------------------------------------------------------------------
(* Admission: one client, and a worker that cools and archives meanwhile. *)

\* What the tables have to say of memory i, whose entry is e.
ToldIn(T, e, i) ==
    /\ <<e.kind, i>> \in T["type"]
    /\ <<e.project, i>> \in T["project"]
    /\ <<"agent", i>> \in T["owner"]

Fields == {"kind", "tags", "project", "state"}

\* Values have their kinds, and the client has an entry in hand while it works.
AdmissionTypes(c) ==
    /\ place \in [Entries -> {"unborn", "active", "archived", "deleted"}]
    /\ DOMAIN data = Entries /\ DOMAIN tables = Rules!Tables
    /\ DOMAIN step = {c} /\ DOMAIN item = {c} /\ DOMAIN change = {c}
    /\ stages = Rules!Pipeline
    /\ IF step[c] = "idle" THEN item[c] = None ELSE item[c] \in Entries
    /\ \A i \in Entries : place[i] # "unborn" \/ item[c] = i => Fields \subseteq DOMAIN data[i]
    /\ step[c] = "removed" => place[item[c]] # "active"

\* Orderly stages are found where they stand, and followed by the next.
LEMMA StagesFollow ==
    ASSUME stages = Rules!Pipeline
    PROVE  /\ stages \in Seq(STRING) /\ Rules!Orderly(stages)
           /\ \A n \in DOMAIN stages :
                 /\ stages[n] \notin {"idle", "created", "updated", "removed", "recovered"}
                 /\ Rules!Following(stages[n]) = IF n = Len(stages) THEN "idle" ELSE stages[n + 1]
<1>1. Rules!Orderly(stages)
  BY StagesInOrder
<1>2. stages \in Seq(STRING) /\ \A m, n \in DOMAIN stages : stages[m] = stages[n] => m = n
  BY <1>1 DEF Rules!Orderly
<1>3. ASSUME NEW n \in DOMAIN stages
      PROVE  Rules!Position(stages, stages[n]) = n
  BY <1>2, <1>3 DEF Rules!Position
<1>4. \A n \in DOMAIN stages :
         Rules!Following(stages[n]) = IF n = Len(stages) THEN "idle" ELSE stages[n + 1]
  BY <1>3 DEF Rules!Following
<1> QED
  BY <1>1, <1>2, <1>4 DEF Rules!Orderly

\* An operation goes on with a stage or it ends.
LEMMA StageOrEnd ==
    ASSUME stages = Rules!Pipeline, NEW x, \E n \in DOMAIN stages : stages[n] = x
    PROVE  /\ Rules!Following(x) \notin {"created", "updated", "removed", "recovered"}
           /\ x \notin {"idle", "created", "updated", "removed", "recovered"}
<1>1. PICK n \in DOMAIN stages : stages[n] = x
  OBVIOUS
<1>2. stages \in Seq(STRING)
  BY StagesFollow
<1>3. n # Len(stages) => n + 1 \in DOMAIN stages
  BY <1>2
<1> QED
  BY <1>1, <1>3, StagesFollow

\* The built-in stages are there.
LEMMA BuiltInStages ==
    ASSUME stages = Rules!Pipeline
    PROVE  /\ \A x \in {"deduplicate", "policy_check", "persist"} :
                 \E n \in DOMAIN stages : stages[n] = x
           /\ 1 \in DOMAIN stages /\ Head(stages) = stages[1]
<1>1. Rules!Orderly(stages) /\ stages \in Seq(STRING)
  BY StagesFollow
<1> QED
  BY <1>1 DEF Rules!Orderly

\* What the three notifications make of the tables.
LEMMA TablesTell ==
    ASSUME DOMAIN tables = Rules!Tables, NEW i, NEW ch
    PROVE  /\ DOMAIN Rules!Entered(i) = Rules!Tables
           /\ DOMAIN Rules!Removed(i) = Rules!Tables
           /\ DOMAIN Rules!Updated(i, ch) = Rules!Tables
           /\ ToldIn(Rules!Entered(i), data[i], i)
           /\ ToldIn(Rules!Updated(i, ch), data[i], i)
           /\ \A e, j : ToldIn(tables, e, j) /\ j # i =>
                 /\ ToldIn(Rules!Entered(i), e, j)
                 /\ ToldIn(Rules!Removed(i), e, j)
                 /\ ToldIn(Rules!Updated(i, ch), e, j)
<1> DEFINE K(e, t) == Rules!Keys(e, t)
<1>1. \A e : K(e, "type") = {e.kind} /\ K(e, "project") = {e.project} /\ K(e, "owner") = {"agent"}
  BY DEF Rules!Keys
<1>2. {"type", "project", "owner"} \subseteq Rules!Tables
  BY DEF Rules!Tables
<1> HIDE DEF K
<1>3. /\ DOMAIN Rules!Entered(i) = Rules!Tables
      /\ \A t \in Rules!Tables : Rules!Entered(i)[t] = tables[t] \cup (K(data[i], t) \X {i})
  BY DEF Rules!Entered, K
<1>4. /\ DOMAIN Rules!Removed(i) = Rules!Tables
      /\ \A t \in Rules!Tables : Rules!Removed(i)[t] = {p \in tables[t] : p[2] # i}
  BY DEF Rules!Removed
<1>5. /\ DOMAIN Rules!Updated(i, ch) = Rules!Tables
      /\ \A t \in {"type", "project", "owner"} :
            Rules!Updated(i, ch)[t] =
              (tables[t] \ (Rules!OldKeys(t, ch) \X {i})) \cup (K(data[i], t) \X {i})
  BY <1>2 DEF Rules!Updated, K
<1> QED
  BY <1>1, <1>2, <1>3, <1>4, <1>5 DEF ToldIn

\* An input is an entry of all fields, and stays one.
LEMMA AdmissionTypesKept ==
    ASSUME NEW c, Clients = {c}, AdmissionTypes(c), Rules!Next
    PROVE  AdmissionTypes(c)'
<1> USE DEF AdmissionTypes, Rules!GoTo, Rules!Go, Rules!Without, Rules!Refuse, Rules!Active,
            Rules!clients
<1>0. None \notin Entries /\ \A e \in Inputs : Fields \subseteq DOMAIN e
  BY AdmissionConstants DEF Fields
<1>s. /\ 1 \in DOMAIN stages /\ Head(stages) = stages[1]
      /\ \A n \in DOMAIN stages :
            stages[n] \notin {"idle", "created", "updated", "removed", "recovered"}
  BY BuiltInStages, StagesFollow
<1>1. ASSUME NEW i \in Entries, NEW e \in Inputs, Rules!Submit(c, i, e)
      PROVE  AdmissionTypes(c)'
  BY <1>0, <1>1, <1>s DEF Rules!Submit
<1>2. ASSUME NEW i \in Entries, NEW p \in Paths, NEW v \in NewValues[p], Rules!Update(c, i, p, v)
      PROVE  AdmissionTypes(c)'
  <2>1. /\ DOMAIN data' = Entries
        /\ \A j \in Entries : DOMAIN data'[j] = DOMAIN data[j]
    BY <1>2 DEF Rules!Update
  <2> QED
    BY <1>0, <1>2, <2>1 DEF Rules!Update
<1>3. ASSUME NEW i \in Entries, Rules!Delete(c, i)
      PROVE  AdmissionTypes(c)'
  <2>1. /\ DOMAIN data' = Entries
        /\ \A j \in Entries : DOMAIN data'[j] = DOMAIN data[j]
    BY <1>3 DEF Rules!Delete
  <2> QED
    BY <1>0, <1>3, <2>1 DEF Rules!Delete
<1>4. ASSUME NEW i \in Entries, Rules!Recover(c, i)
      PROVE  AdmissionTypes(c)'
  <2>1. /\ DOMAIN data' = Entries
        /\ \A j \in Entries : DOMAIN data'[j] = DOMAIN data[j]
    BY <1>4 DEF Rules!Recover
  <2> QED
    BY <1>0, <1>4, <2>1 DEF Rules!Recover
<1>5. CASE Rules!Pass(c)
  <2>1. step[c] # "idle" /\ step[c] # "removed"
        /\ Rules!Following(step[c]) \notin {"created", "updated", "removed", "recovered"}
    <3>1. \E n \in DOMAIN stages : stages[n] = step[c]
      BY <1>5 DEF Rules!Pass, Rules!Range
    <3> QED
      BY <3>1, StageOrEnd
  <2> QED
    BY <1>0, <1>5, <2>1 DEF Rules!Pass
<1>6. CASE Rules!Deduplicate(c)
  <2>1. Rules!Following("deduplicate") \notin {"created", "updated", "removed", "recovered"}
    BY BuiltInStages, StageOrEnd
  <2>2. \/ UNCHANGED data /\ item'[c] \in {item[c], None}
        \/ \E e \in Entries : /\ place[e] = "active" /\ item'[c] \in {e, None}
                              /\ DOMAIN data' = Entries
                              /\ \A j \in Entries :
                                    place[j] # "unborn" => DOMAIN data'[j] = DOMAIN data[j]
    BY <1>6 DEF Rules!Deduplicate
  <2> QED
    BY <1>0, <1>6, <2>1, <2>2 DEF Rules!Deduplicate
<1>7. CASE Rules!PolicyCheck(c)
  <2>1. Rules!Following("policy_check") \notin {"created", "updated", "removed", "recovered"}
    BY BuiltInStages, StageOrEnd
  <2> QED
    BY <1>0, <1>7, <2>1 DEF Rules!PolicyCheck
<1>8. CASE Rules!Persist(c)
  <2>1. /\ DOMAIN data' = Entries
        /\ \A j \in Entries : DOMAIN data'[j] = DOMAIN data[j]
    BY <1>8 DEF Rules!Persist
  <2> QED
    BY <1>0, <1>8, <2>1 DEF Rules!Persist
<1>9. CASE Rules!Created(c)
  <2>1. Rules!Following("persist") \notin {"created", "updated", "removed", "recovered"}
    BY BuiltInStages, StageOrEnd
  <2> QED
    BY <1>0, <1>9, <2>1, TablesTell DEF Rules!Created
<1>10. CASE Rules!NotifyUpdate(c)
  BY <1>0, <1>10, TablesTell DEF Rules!NotifyUpdate
<1>11. CASE Rules!NotifyDelete(c)
  BY <1>0, <1>11, TablesTell DEF Rules!NotifyDelete
<1>12. CASE Rules!NotifyRecovered(c)
  BY <1>0, <1>12, TablesTell DEF Rules!NotifyRecovered
<1>13. ASSUME NEW i \in Entries, Rules!Cool(i) \/ Rules!Drop(i)
       PROVE  AdmissionTypes(c)'
  <2>1. /\ DOMAIN data' = Entries
        /\ \A j \in Entries : DOMAIN data'[j] = DOMAIN data[j]
    BY <1>13 DEF Rules!Cool, Rules!Drop
  <2> QED
    BY <1>13, <2>1 DEF Rules!Cool, Rules!Drop
<1>14. Rules!ClientStep(c) \/ \E i \in Entries : Rules!Cool(i) \/ Rules!Drop(i)
  BY Zenon DEF Rules!Next
<1>15. CASE Rules!ClientStep(c)
  BY <1>1, <1>2, <1>3, <1>4, <1>5, <1>6, <1>7, <1>8, <1>9, <1>10, <1>11, <1>12, <1>15
     DEF Rules!ClientStep
<1> QED
  BY <1>13, <1>14, <1>15

\* The inductive invariant for FoundUnderOwnKeys: the tables tell of an active
\* memory what it is, unless the client is about to tell them.
TablesFollow(c) ==
    \A i \in Entries : place[i] = "active" =>
       \/ ToldIn(tables, data[i], i)
       \/ item[c] = i /\ step[c] \in {"created", "updated", "recovered"}

\* A memory that stays active and what it is stays found.
LEMMA TablesStay ==
    ASSUME NEW c, TablesFollow(c), UNCHANGED tables,
           step[c] \notin {"created", "updated", "recovered"},
           NEW h, \A i \in Entries : place'[i] = "active" =>
              \/ /\ place[i] = "active"
                 /\ data'[i].kind = data[i].kind /\ data'[i].project = data[i].project
              \/ i = h /\ item'[c] = h /\ step'[c] \in {"created", "updated", "recovered"}
    PROVE  TablesFollow(c)'
  BY DEF TablesFollow, ToldIn

\* Each step of the client and of the worker.
LEMMA TablesFollowStep ==
    ASSUME NEW c, Clients = {c}, AdmissionTypes(c), TablesFollow(c), Rules!Next
    PROVE  TablesFollow(c)'
<1> USE DEF AdmissionTypes, Rules!GoTo, Rules!Go, Rules!Without, Rules!Refuse, Rules!Active,
            Rules!clients, Fields
<1>0. None \notin Entries
  BY AdmissionConstants
<1>1. ASSUME NEW i \in Entries, NEW e \in Inputs, Rules!Submit(c, i, e)
      PROVE  TablesFollow(c)'
  BY <1>1, TablesStay DEF Rules!Submit
<1>2. ASSUME NEW i \in Entries, NEW p \in Paths, NEW v \in NewValues[p], Rules!Update(c, i, p, v)
      PROVE  TablesFollow(c)'
  BY <1>2, TablesStay DEF Rules!Update
<1>3. ASSUME NEW i \in Entries, Rules!Delete(c, i)
      PROVE  TablesFollow(c)'
  BY <1>3, TablesStay DEF Rules!Delete
<1>4. ASSUME NEW i \in Entries, Rules!Recover(c, i)
      PROVE  TablesFollow(c)'
  BY <1>4, TablesStay DEF Rules!Recover
<1>5. CASE Rules!Pass(c)
  <2>1. step[c] \notin {"created", "updated", "recovered"}
    <3>1. \E n \in DOMAIN stages : stages[n] = step[c]
      BY <1>5 DEF Rules!Pass, Rules!Range
    <3> QED
      BY <3>1, StageOrEnd
  <2> QED
    BY <1>5, <2>1, TablesStay DEF Rules!Pass
<1>6. CASE Rules!Deduplicate(c)
  <2>1. UNCHANGED <<place, tables>> /\ step[c] = "deduplicate"
    BY <1>6 DEF Rules!Deduplicate
  <2>2. \A j \in Entries : place[j] = "active" =>
           data'[j].kind = data[j].kind /\ data'[j].project = data[j].project
    BY <1>6 DEF Rules!Deduplicate
  <2> QED
    BY <2>1, <2>2, TablesStay
<1>7. CASE Rules!PolicyCheck(c)
  BY <1>7, TablesStay DEF Rules!PolicyCheck
<1>8. CASE Rules!Persist(c)
  BY <1>8, TablesStay DEF Rules!Persist
<1>9. ASSUME NEW T, tables' = T, UNCHANGED <<place, data>>, step[c] # "idle",
             \A e, j : ToldIn(tables, e, j) /\ j # item[c] => ToldIn(T, e, j),
             place[item[c]] = "active" => ToldIn(T, data[item[c]], item[c])
      PROVE  TablesFollow(c)'
  BY <1>9 DEF TablesFollow
<1>10. CASE Rules!Created(c)
  BY <1>9, <1>10, TablesTell DEF Rules!Created
<1>11. CASE Rules!NotifyUpdate(c)
  BY <1>9, <1>11, TablesTell DEF Rules!NotifyUpdate
<1>12. CASE Rules!NotifyDelete(c)
  BY <1>9, <1>12, TablesTell DEF Rules!NotifyDelete
<1>13. CASE Rules!NotifyRecovered(c)
  BY <1>9, <1>13, TablesTell DEF Rules!NotifyRecovered
<1>14. ASSUME NEW i \in Entries, Rules!Cool(i) \/ Rules!Drop(i)
       PROVE  TablesFollow(c)'
  <2>1. /\ UNCHANGED <<tables, step, item>>
        /\ \A j \in Entries : place'[j] = "active" => place[j] = "active"
        /\ \A j \in Entries : place[j] = "active" =>
             data'[j].kind = data[j].kind /\ data'[j].project = data[j].project
    BY <1>14 DEF Rules!Cool, Rules!Drop
  <2> QED
    BY <2>1 DEF TablesFollow, ToldIn
<1>15. Rules!ClientStep(c) \/ \E i \in Entries : Rules!Cool(i) \/ Rules!Drop(i)
  BY Zenon DEF Rules!Next
<1>16. CASE Rules!ClientStep(c)
  BY <1>1, <1>2, <1>3, <1>4, <1>5, <1>6, <1>7, <1>8, <1>10, <1>11, <1>12, <1>13, <1>16
     DEF Rules!ClientStep
<1> QED
  BY <1>14, <1>15, <1>16

\* A memory that nobody works on is then found.
LEMMA TablesFind ==
    ASSUME NEW c, Clients = {c}, TablesFollow(c)
    PROVE  FoundUnderOwnKeys
<1>1. ASSUME NEW i \in Rules!Active \ Rules!Busy
      PROVE  ToldIn(tables, data[i], i)
  <2>1. i \in Entries /\ place[i] = "active" /\ ~(item[c] = i /\ step[c] # "idle")
    BY DEF Rules!Active, Rules!Busy
  <2> QED
    BY <2>1 DEF TablesFollow
<1>2. \A e : /\ Rules!Keys(e, "type") = {e.kind} /\ Rules!Keys(e, "project") = {e.project}
             /\ Rules!Keys(e, "owner") = {"agent"}
  BY DEF Rules!Keys
<1>3. ASSUME NEW i \in Rules!Active \ Rules!Busy
      PROVE  /\ Rules!Keys(data[i], "type") \X {i} \subseteq tables["type"]
             /\ Rules!Keys(data[i], "project") \X {i} \subseteq tables["project"]
             /\ Rules!Keys(data[i], "owner") \X {i} \subseteq tables["owner"]
  <2>1. \A x, T : <<x, i>> \in T => {x} \X {i} \subseteq T
    OBVIOUS
  <2>2. ToldIn(tables, data[i], i)
    BY <1>1
  <2> QED
    BY <1>2, <2>1, <2>2 DEF ToldIn
<1>4. \A t \in {"type", "project", "owner"} : Rules!FoundIn(t)
  BY <1>3, Zenon DEF Rules!FoundIn
<1> QED
  BY <1>4 DEF FoundUnderOwnKeys, Rules!FoundUnderOwnKeys

\* A step of admission is a step of one of its operations.
LEMMA AdmissionMoves ==
    ASSUME [MCNext]_<<vars, admission, setting>>
    PROVE  Rules!Next \/ UNCHANGED admission
  BY Zenon DEF MCNext

\* The first state.
LEMMA AdmissionBegins ==
    ASSUME NEW c, Clients = {c}, MCInit
    PROVE  AdmissionTypes(c) /\ TablesFollow(c)
<1> USE AdmissionConstants DEF MCInit, Rules!Init
<1>1. TablesFollow(c)
  BY DEF TablesFollow
<1>2. AdmissionTypes(c)
  BY DEF AdmissionTypes
<1> QED
  BY <1>1, <1>2

\* Any pipeline and any rules: an active memory that the client does not work on
\* is in the tables under the type, project and owner it has now, through updates
\* by either path, merges, removals, recoveries and what the worker does without
\* telling the indexes (index.py, store.py).
THEOREM FoundUnderOwnKeysAlone ==
    ASSUME NEW c, Clients = {c}
    PROVE  MCSpec => []FoundUnderOwnKeys
<1> DEFINE Inv == AdmissionTypes(c) /\ TablesFollow(c)
<1>1. MCInit => Inv
  BY AdmissionBegins
<1>2. Inv /\ [MCNext]_<<vars, admission, setting>> => Inv'
  <2> SUFFICES ASSUME Inv, Rules!Next \/ UNCHANGED admission
               PROVE  Inv'
    BY AdmissionMoves
  <2>1. CASE Rules!Next
    BY <2>1, AdmissionTypesKept, TablesFollowStep
  <2>2. CASE UNCHANGED admission
    BY <2>2 DEF admission, AdmissionTypes, TablesFollow, ToldIn
  <2> QED
    BY <2>1, <2>2
<1>3. Inv => FoundUnderOwnKeys
  BY TablesFind
<1> QED
  BY <1>1, <1>2, <1>3, PTL DEF MCSpec

\* Stage n stands behind the rules and not behind the storing.
Checked(n) ==
    \E m, p \in DOMAIN stages : /\ m < n /\ n <= p
                                /\ stages[m] = "policy_check" /\ stages[p] = "persist"

\* What AdditionsWithinLimits needs: an entry that the rules have let through may
\* still be added.
RulesHold(c) ==
    \A n \in DOMAIN stages : step[c] = stages[n] /\ Checked(n)
                                => Rules!TypeBelowLimit(data[item[c]])

\* The stage that follows the n-th is the next.
LEMMA NextStage ==
    ASSUME stages = Rules!Pipeline, NEW n \in DOMAIN stages, NEW m \in DOMAIN stages,
           stages[m] = Rules!Following(stages[n])
    PROVE  m = n + 1
<1>1. stages \in Seq(STRING) /\ Rules!Orderly(stages)
  BY StagesFollow
<1>2. stages[m] = IF n = Len(stages) THEN "idle" ELSE stages[n + 1]
  BY StagesFollow
<1>3. stages[m] # "idle"
  BY StagesFollow
<1>4. stages[m] = stages[n + 1] /\ n + 1 \in DOMAIN stages
  BY <1>1, <1>2, <1>3
<1> QED
  BY <1>1, <1>4 DEF Rules!Orderly

\* Behind the rules, behind the duplicates, and not behind the storing.
LEMMA StagesBehind ==
    ASSUME stages = Rules!Pipeline, NEW n \in DOMAIN stages
    PROVE  /\ ~Checked(1)
           /\ stages[n] \in {"deduplicate", "persist"} => ~Checked(n + 1)
           /\ Checked(n + 1) => stages[n] = "policy_check" \/ Checked(n)
<1>1. stages \in Seq(STRING) /\ Rules!Orderly(stages)
  BY StagesFollow
<1>2. \A i, j \in DOMAIN stages : stages[i] = stages[j] => i = j
  BY <1>1 DEF Rules!Orderly
<1>3. DOMAIN stages \subseteq Int /\ \A i \in DOMAIN stages : i >= 1
  BY <1>1
<1>4. PICK d, k, p \in DOMAIN stages :
         d < k /\ k < p /\ stages[d] = "deduplicate" /\ stages[k] = "policy_check"
         /\ stages[p] = "persist"
  BY <1>1 DEF Rules!Orderly
<1>5. \A x : Checked(x) => k < x /\ x <= p
  BY <1>2, <1>4 DEF Checked
<1>6. ~Checked(1)
  BY <1>3, <1>5
<1>7. stages[n] \in {"deduplicate", "persist"} => ~Checked(n + 1)
  BY <1>2, <1>3, <1>4, <1>5
<1>8. Checked(n + 1) => stages[n] = "policy_check" \/ Checked(n)
  <2>1. ASSUME Checked(n + 1), n # k
        PROVE  k < n /\ n <= p
    BY <1>3, <1>4, <1>5, <2>1
  <2> QED
    BY <1>4, <2>1 DEF Checked
<1> QED
  BY <1>6, <1>7, <1>8

\* Admission counts as FiniteSets does.
LEMMA RulesCount == \A S : Rules!Cardinality(S) = Cardinality(S)
  BY DEF Rules!Cardinality, Cardinality

\* Fewer memories are below the limit too.
LEMMA LimitStays ==
    ASSUME \A i \in Entries : place'[i] = "active" =>
              place[i] = "active" /\ data'[i].kind = data[i].kind,
           NEW i \in Entries, data'[i].kind = data[i].kind, Rules!TypeBelowLimit(data[i])
    PROVE  Rules!TypeBelowLimit(data[i])'
<1> DEFINE k == data[i].kind
           A == Rules!OfKind(k)
           B == Rules!OfKind(k)'
<1>1. B \subseteq A /\ A \in SUBSET Entries
  BY DEF Rules!OfKind, Rules!Active
<1>2. IsFiniteSet(A)
  BY <1>1, FS_Subset, AdmissionConstants
<1>3. Cardinality(B) <= Cardinality(A) /\ Cardinality(A) \in Nat /\ Cardinality(B) \in Nat
  <2> HIDE DEF A, B
  <2> QED
    BY <1>1, <1>2, FS_Subset, FS_CardinalityType
<1>4. k \in DOMAIN KindLimit => Cardinality(A) < KindLimit[k] /\ KindLimit[k] \in Nat
  <2> HIDE DEF k
  <2>1. k \in DOMAIN KindLimit => KindLimit[k] \in Nat
    BY AdmissionConstants
  <2> QED
    BY <2>1, RulesCount DEF Rules!TypeBelowLimit, k
<1>5. k \in DOMAIN KindLimit => Cardinality(B) < KindLimit[k]
  <2> HIDE DEF A, B, k
  <2> QED
    BY <1>3, <1>4
<1>6. B = {j \in Entries : place'[j] = "active" /\ data'[j].kind = data'[i].kind}
  BY DEF Rules!OfKind, Rules!Active
<1>7. data'[i].kind \in DOMAIN KindLimit => Cardinality(B) < KindLimit[data'[i].kind]
  <2> HIDE DEF B
  <2> QED
    BY <1>5
<1> HIDE DEF B
<1> QED
  BY <1>6, <1>7, RulesCount DEF Rules!TypeBelowLimit, Rules!OfKind, Rules!Active

\* Each step of the client and of the worker.
LEMMA RulesHoldStep ==
    ASSUME NEW c, Clients = {c}, AdmissionTypes(c), RulesHold(c), Rules!Next
    PROVE  RulesHold(c)'
<1> USE DEF AdmissionTypes, Rules!GoTo, Rules!Go, Rules!clients
<1>s. \A n \in DOMAIN stages :
         stages[n] \notin {"idle", "created", "updated", "removed", "recovered"}
  BY StagesFollow
<1>1. ASSUME step'[c] \in {"idle", "created", "updated", "removed", "recovered"},
             UNCHANGED stages
      PROVE  RulesHold(c)'
  BY <1>1, <1>s DEF RulesHold, Checked
<1>2. ASSUME NEW n \in DOMAIN stages, step'[c] = Rules!Following(stages[n]), ~Checked(n + 1),
             UNCHANGED stages
      PROVE  RulesHold(c)'
  <2>1. \A m \in DOMAIN stages : step'[c] = stages[m] => ~Checked(m)
    <3> SUFFICES ASSUME NEW m \in DOMAIN stages, step'[c] = stages[m]
                 PROVE  m = n + 1
      BY <1>2
    <3> QED
      BY <1>2, NextStage
  <2> QED
    BY <1>2, <2>1 DEF RulesHold, Checked
<1>3. ASSUME NEW i \in Entries, NEW e \in Inputs, Rules!Submit(c, i, e)
      PROVE  RulesHold(c)'
  <2>1. 1 \in DOMAIN stages /\ step'[c] = stages[1] /\ UNCHANGED stages
    BY <1>3, BuiltInStages DEF Rules!Submit
  <2>2. ~Checked(1) /\ \A n \in DOMAIN stages : stages[n] = stages[1] => n = 1
    <3>1. Rules!Orderly(stages)
      BY StagesFollow
    <3> QED
      BY <2>1, <3>1, StagesBehind DEF Rules!Orderly
  <2> QED
    BY <2>1, <2>2 DEF RulesHold, Checked
<1>4. CASE Rules!Pass(c)
  <2>1. PICK n \in DOMAIN stages : stages[n] = step[c]
    BY <1>4 DEF Rules!Pass, Rules!Range
  <2>2. UNCHANGED <<place, stages>> /\ stages[n] # "policy_check"
    BY <1>4, <2>1 DEF Rules!Pass
  <2>3. \/ step'[c] = "idle"
        \/ /\ step'[c] = Rules!Following(stages[n])
           /\ UNCHANGED data /\ item'[c] = item[c]
    <3>1. CASE Rules!Refuse(c)
      BY <3>1 DEF Rules!Refuse
    <3>2. CASE Rules!Go(c, Rules!Following(step[c])) /\ UNCHANGED data
      BY <2>1, <3>2, StagesFollow
    <3> QED
      BY <1>4, <3>1, <3>2 DEF Rules!Pass
  <2>4. ASSUME step'[c] = Rules!Following(stages[n]), UNCHANGED data,
               item'[c] = item[c], Checked(n + 1)
        PROVE  RulesHold(c)'
    <3>1. Rules!TypeBelowLimit(data[item[c]])
      BY <2>1, <2>2, <2>4, StagesBehind DEF RulesHold
    <3>2. Rules!TypeBelowLimit(data[item[c]])'
      BY <2>2, <2>4, <3>1 DEF Rules!TypeBelowLimit, Rules!OfKind, Rules!Active
    <3> QED
      BY <3>2 DEF RulesHold
  <2> QED
    BY <1>1, <1>2, <2>2, <2>3, <2>4
<1>5. CASE Rules!Deduplicate(c)
  <2>1. PICK n \in DOMAIN stages : stages[n] = "deduplicate"
    BY BuiltInStages
  <2>2. step'[c] = Rules!Following(stages[n]) /\ UNCHANGED stages
    BY <1>5, <2>1 DEF Rules!Deduplicate
  <2> QED
    BY <1>2, <2>1, <2>2, StagesBehind
<1>6. CASE Rules!PolicyCheck(c)
  <2>1. \/ step'[c] = "idle"
        \/ Rules!TypeBelowLimit(data[item[c]]) /\ UNCHANGED data /\ item'[c] = item[c]
    <3>1. CASE Rules!Allowed(data[item[c]])
      <4>1. Rules!Go(c, Rules!Following("policy_check")) /\ UNCHANGED data
        BY <1>6, <3>1 DEF Rules!PolicyCheck
      <4>2. PICK n \in DOMAIN stages : stages[n] = "policy_check"
        BY BuiltInStages
      <4> QED
        BY <3>1, <4>1 DEF Rules!Allowed
    <3>2. CASE ~Rules!Allowed(data[item[c]])
      BY <1>6, <3>2 DEF Rules!PolicyCheck, Rules!Refuse
    <3> QED
      BY <3>1, <3>2
  <2>2. UNCHANGED <<place, stages>>
    BY <1>6 DEF Rules!PolicyCheck
  <2>3. ASSUME Rules!TypeBelowLimit(data[item[c]]), UNCHANGED data, item'[c] = item[c]
        PROVE  RulesHold(c)'
    <3>1. Rules!TypeBelowLimit(data[item[c]])'
      BY <2>2, <2>3 DEF Rules!TypeBelowLimit, Rules!OfKind, Rules!Active
    <3> QED
      BY <3>1 DEF RulesHold
  <2> QED
    BY <1>1, <2>1, <2>2, <2>3
<1>7. CASE Rules!Created(c)
  <2>1. PICK n \in DOMAIN stages : stages[n] = "persist"
    BY BuiltInStages
  <2>2. step'[c] = Rules!Following(stages[n]) /\ UNCHANGED stages
    BY <1>7, <2>1 DEF Rules!Created
  <2> QED
    BY <1>2, <2>1, <2>2, StagesBehind
<1>8. ASSUME \/ \E i \in Entries :
                   \/ \E p \in Paths : \E v \in NewValues[p] : Rules!Update(c, i, p, v)
                   \/ Rules!Delete(c, i) \/ Rules!Recover(c, i)
             \/ Rules!Persist(c) \/ Rules!NotifyUpdate(c) \/ Rules!NotifyDelete(c)
             \/ Rules!NotifyRecovered(c)
      PROVE  RulesHold(c)'
  <2>1. step'[c] \in {"idle", "created", "updated", "removed", "recovered"} /\ UNCHANGED stages
    BY <1>8 DEF Rules!Update, Rules!Delete, Rules!Recover, Rules!Persist, Rules!NotifyUpdate,
                Rules!NotifyDelete, Rules!NotifyRecovered
  <2> QED
    BY <1>1, <2>1
<1>9. ASSUME NEW i \in Entries, Rules!Cool(i) \/ Rules!Drop(i)
      PROVE  RulesHold(c)'
  <2>1. /\ UNCHANGED <<stages, step, item>>
        /\ \A j \in Entries : place'[j] = "active" => place[j] = "active"
        /\ \A j \in Entries : place[j] = "active" \/ item[c] = j => data'[j].kind = data[j].kind
    BY <1>9 DEF Rules!Cool, Rules!Drop, Rules!Active, Fields
  <2>2. ASSUME NEW n \in DOMAIN stages, step[c] = stages[n], Checked(n)
        PROVE  Rules!TypeBelowLimit(data[item[c]])'
    <3>1. PICK h \in Entries : h = item[c] /\ Rules!TypeBelowLimit(data[h])
      BY <1>s, <2>2 DEF RulesHold
    <3>2. data'[h].kind = data[h].kind
      BY <2>1, <3>1
    <3>3. \A j \in Entries : place'[j] = "active" =>
                place[j] = "active" /\ data'[j].kind = data[j].kind
      BY <2>1
    <3>4. Rules!TypeBelowLimit(data[h])'
      BY <3>1, <3>2, <3>3, LimitStays
    <3> QED
      BY <2>1, <3>1, <3>4
  <2> QED
    BY <2>1, <2>2 DEF RulesHold, Checked
<1>10. Rules!ClientStep(c) \/ \E i \in Entries : Rules!Cool(i) \/ Rules!Drop(i)
  BY Zenon DEF Rules!Next
<1>11. CASE Rules!ClientStep(c)
  BY <1>3, <1>4, <1>5, <1>6, <1>7, <1>8, <1>11, Zenon DEF Rules!ClientStep
<1> QED
  BY <1>9, <1>10, <1>11

\* Storing adds one to those of its kind, which the rules found below the limit.
LEMMA PersistWithin ==
    ASSUME NEW c, Clients = {c}, AdmissionTypes(c), RulesHold(c), Rules!Persist(c)
    PROVE  Rules!WithinLimit(c)
<1> SUFFICES ASSUME NEW k \in DOMAIN KindLimit, k = data[item[c]].kind
             PROVE  Cardinality(Rules!OfKind(k)') <= KindLimit[k]
  BY RulesCount DEF Rules!WithinLimit
<1> DEFINE A == Rules!OfKind(k)
           B == {j \in Entries : place'[j] = "active" /\ data'[j].kind = k}
<1>1. PICK i \in Entries : i = item[c]
  BY StagesFollow DEF AdmissionTypes, Rules!Persist
<1>2. Rules!TypeBelowLimit(data[i])
  <2>1. PICK d, n, p \in DOMAIN stages :
           d < n /\ n < p /\ stages[n] = "policy_check" /\ stages[p] = "persist"
    BY StagesFollow DEF AdmissionTypes, Rules!Orderly
  <2>2. Checked(p)
    BY <2>1, StagesFollow DEF AdmissionTypes, Checked
  <2> QED
    BY <1>1, <2>1, <2>2 DEF RulesHold, Rules!Persist
<1>3. B \subseteq A \cup {i} /\ A \in SUBSET Entries
  <2>1. /\ \A j \in Entries : j # i => place'[j] = place[j] /\ data'[j] = data[j]
        /\ Entries = DOMAIN place /\ Entries = DOMAIN data
    BY <1>1 DEF AdmissionTypes, Rules!Persist
  <2> QED
    BY <2>1 DEF Rules!OfKind, Rules!Active
<1>4. IsFiniteSet(A)
  BY <1>3, FS_Subset, AdmissionConstants
<1>5. Cardinality(A) < KindLimit[k] /\ KindLimit[k] \in Nat
  <2>1. KindLimit[k] \in Nat
    BY AdmissionConstants
  <2> QED
    BY <1>1, <1>2, <2>1, RulesCount DEF Rules!TypeBelowLimit
<1>6. B = Rules!OfKind(k)'
  BY DEF Rules!OfKind, Rules!Active
<1> HIDE DEF A, B
<1>7. /\ IsFiniteSet(A \cup {i}) /\ Cardinality(A) \in Nat
      /\ Cardinality(A \cup {i}) <= Cardinality(A) + 1
      /\ Cardinality(A \cup {i}) \in Nat
  <2>1. Cardinality(A) \in Nat
    BY <1>4, FS_CardinalityType
  <2>2. /\ IsFiniteSet(A \cup {i})
        /\ Cardinality(A \cup {i}) = IF i \in A THEN Cardinality(A) ELSE Cardinality(A) + 1
    BY <1>4, FS_AddElement
  <2> QED
    BY <2>1, <2>2
<1>8. Cardinality(B) <= Cardinality(A \cup {i}) /\ Cardinality(B) \in Nat
  BY <1>3, <1>7, FS_Subset, FS_CardinalityType
<1> QED
  BY <1>5, <1>6, <1>7, <1>8

\* Any pipeline and any limits: storing a memory never takes its kind over the
\* limit, although the rules were asked two steps before and a memory that was
\* merged with another may have been taken away by the worker since (policy.py,
\* pipeline.py).
THEOREM AdditionsWithinLimitsAlone ==
    ASSUME NEW a, Clients = {a}
    PROVE  MCSpec => AdditionsWithinLimits
<1> DEFINE Inv == AdmissionTypes(a) /\ RulesHold(a)
<1>1. MCInit => Inv
  <2> SUFFICES ASSUME MCInit
               PROVE  Inv
    OBVIOUS
  <2>1. AdmissionTypes(a) /\ step[a] = "idle"
    BY AdmissionBegins DEF MCInit, Rules!Init
  <2> QED
    BY <2>1, StagesFollow DEF AdmissionTypes, RulesHold
<1>2. Inv /\ [MCNext]_<<vars, admission, setting>> => Inv'
  <2> SUFFICES ASSUME Inv, Rules!Next \/ UNCHANGED admission
               PROVE  Inv'
    BY AdmissionMoves
  <2>1. CASE Rules!Next
    BY <2>1, AdmissionTypesKept, RulesHoldStep
  <2>2. CASE UNCHANGED admission
    BY <2>2 DEF admission, AdmissionTypes, RulesHold, Checked, Rules!TypeBelowLimit,
                Rules!OfKind, Rules!Active
  <2> QED
    BY <2>1, <2>2
<1>3. Inv /\ [MCNext]_<<vars, admission, setting>>
         => [\A c \in Clients : Rules!WithinLimit(c)]_admission
  <2> SUFFICES ASSUME Inv, Rules!Next, step[a] = "persist", step'[a] = "created"
               PROVE  Rules!WithinLimit(a)
    BY AdmissionMoves DEF Rules!WithinLimit
  <2>1. Rules!Persist(a)
    <3>1. Rules!ClientStep(a) \/ \E i \in Entries : Rules!Cool(i) \/ Rules!Drop(i)
      BY Zenon DEF Rules!Next
    <3>2. ASSUME NEW i \in Entries, Rules!Cool(i) \/ Rules!Drop(i)
          PROVE  FALSE
      BY <3>2 DEF Rules!Cool, Rules!Drop, Rules!clients
    <3>3. ASSUME NEW i \in Entries,
                 \/ \E e \in Inputs : Rules!Submit(a, i, e)
                 \/ \E p \in Paths : \E v \in NewValues[p] : Rules!Update(a, i, p, v)
                 \/ Rules!Delete(a, i) \/ Rules!Recover(a, i)
          PROVE  FALSE
      BY <3>3 DEF Rules!Submit, Rules!Update, Rules!Delete, Rules!Recover
    <3>4. ASSUME \/ Rules!Pass(a) \/ Rules!Deduplicate(a) \/ Rules!PolicyCheck(a)
                 \/ Rules!Created(a)
                 \/ Rules!NotifyUpdate(a) \/ Rules!NotifyDelete(a) \/ Rules!NotifyRecovered(a)
          PROVE  FALSE
      BY <3>4 DEF Rules!Pass, Rules!Deduplicate, Rules!PolicyCheck, Rules!Created,
                  Rules!NotifyUpdate, Rules!NotifyDelete, Rules!NotifyRecovered
    <3>5. CASE Rules!ClientStep(a)
      BY <3>3, <3>4, <3>5, Zenon DEF Rules!ClientStep
    <3> QED
      BY <3>1, <3>2, <3>5
  <2> QED
    BY <2>1, PersistWithin
<1>4. MCSpec => [][\A c \in Clients : Rules!WithinLimit(c)]_admission
  BY <1>1, <1>2, <1>3, PTL DEF MCSpec
<1> QED
  BY <1>4 DEF AdditionsWithinLimits
==============================================================================
