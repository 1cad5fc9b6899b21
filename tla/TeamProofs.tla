------------------------------ MODULE TeamProofs ------------------------------
(* What TLAPS proves of TaskBoard for an agent that has the board to itself,   *)
(* whatever the number of tasks and the order of its calls.  (Two agents lose  *)
(* tasks and blockers: they read and write files without a lock.)  And of      *)
(* McpClient, the instance Mcp of MCTeam, for any servers, tools and threads:  *)
(* a request returns the answer to itself, provided no server sends requests   *)
(* of its own.  (One with the same id is taken for the answer.)                *)

EXTENDS MCTeam, FiniteSetTheorems, WellFoundedInduction, TLAPS

------------------------------------------------------------------------------
(* TaskBoard *)

\* What a file says, and what an agent has in its hands.
Contents == [status : Statuses, owner : Agents \cup {NoAgent}, blockedBy : SUBSET Blockers]

Tasks    == [id : Int, status : Statuses, owner : Agents \cup {NoAgent},
             blockedBy : SUBSET Blockers]
Labels   == {"idle", "create", "unblock", "save"}

\* The types of what an agent is doing, and of the board.
ThreadTypes ==
    /\ pc \in [Agents -> Labels]
    /\ task \in [Agents -> Tasks]
    /\ visit \in [Agents -> SUBSET Ids]

BoardTypes ==
    /\ DOMAIN files \subseteq Ids
    /\ files \in [DOMAIN files -> Contents]
    /\ ThreadTypes
    /\ created \in Nat /\ deleted \in Nat
    /\ freed \subseteq Ids \X Ids

\* What lies between the halves of an operation: a new task has no file yet, a
\* task that was loaded has one.
InHand ==
    \A a \in Agents :
        /\ pc[a] = "create" => task[a].id \in Ids /\ task[a].id \notin DOMAIN files
        /\ pc[a] \in {"unblock", "save"} => task[a].id \in DOMAIN files
        /\ pc[a] = "unblock" => visit[a] \subseteq DOMAIN files

\* What a completion has done so far: a task that it has still to free has not
\* been visited, and what is going to be saved names no blocker that is gone.
Freeing ==
    /\ \A p \in freed :
          \/ p[2] \notin files[p[1]].blockedBy
          \/ \E a \in Agents : pc[a] = "unblock" /\ task[a].id = p[2] /\ p[1] \in visit[a]
    /\ \A a \in Agents, p \in freed :
          pc[a] \in {"unblock", "save"} /\ task[a].id = p[1] => p[2] \notin task[a].blockedBy
    /\ \A p \in freed : p[1] \in DOMAIN files

\* The inductive invariant for NoTaskReplaced.
BoardInv == BoardTypes /\ InHand /\ NoTaskReplaced

\* A bounded set that is not empty has a greatest element: its least bound.
LEMMA HasGreatest ==
    ASSUME NEW n \in Nat, NEW S \in SUBSET (0 .. n), S # {}
    PROVE  \E m \in S : \A k \in S : k <= m
<1> DEFINE Bounds == {u \in Nat : \A k \in S : k <= u}
           Less == {p \in Nat \X Nat : p[1] < p[2]}
<1>1. n \in Bounds /\ \A k \in S : k \in Nat
  OBVIOUS
<1>2. PICK m \in Bounds : \A u \in Bounds : <<u, m>> \notin Less
  <2>1. IsWellFoundedOn(Less, Nat)
    BY NatLessThanWellFounded DEF Less, OpToRel
  <2> HIDE DEF Less
  <2> QED
    BY <1>1, <2>1, WFMin
<1>3. m \in Nat /\ \A k \in S : k <= m
  BY <1>2
<1>4. m \in S
  <2> SUFFICES ASSUME m \notin S PROVE FALSE
    OBVIOUS
  <2>1. \A k \in S : k <= m - 1
    BY <1>1, <1>3
  <2>2. m - 1 \in Nat
    <3>1. PICK k \in S : TRUE
      OBVIOUS
    <3> QED
      BY <1>1, <1>3, <2>1, <3>1
  <2>3. m - 1 \in Bounds /\ <<m - 1, m>> \in Less
    BY <1>3, <2>1, <2>2
  <2> QED
    BY <1>2, <2>3
<1> QED
  BY <1>3, <1>4

\* task_manager.py, _next_id: one more than the highest id has no file.
LEMMA NextIdIsNew ==
    ASSUME DOMAIN files \subseteq Ids
    PROVE  NextId \notin DOMAIN files
<1> DEFINE S == DOMAIN files \cup {0}
<1>1. S \in SUBSET (0 .. MaxId) /\ S # {}
  BY BoardConstants DEF Ids
<1>2. \E m \in S : \A k \in S : k <= m
  <2> HIDE DEF S
  <2> QED
    BY <1>1, BoardConstants, HasGreatest
<1>3. Max(S) \in S /\ \A k \in S : Max(S) >= k
  <2>1. \E m \in S : \A k \in S : m >= k
    BY <1>1, <1>2
  <2> QED
    BY <2>1 DEF Max
<1>4. NextId = Max(S) + 1 /\ Max(S) \in Int
  BY <1>1, <1>3, BoardConstants DEF NextId
<1>5. ASSUME NextId \in DOMAIN files PROVE FALSE
  <2>1. Max(S) >= NextId
    BY <1>3, <1>5
  <2> HIDE DEF S
  <2> QED
    BY <1>4, <2>1
<1> QED
  BY <1>5

------------------------------------------------------------------------------
\* Types of what goes from a file to a thread, and back.
LEMMA GoToTypes ==
    ASSUME ThreadTypes, NEW a \in Agents, NEW label \in Labels, NEW t \in Tasks,
           NEW vs \in SUBSET Ids, GoTo(a, label, t, vs)
    PROVE  /\ ThreadTypes'
           /\ pc'[a] = label /\ task'[a] = t /\ visit'[a] = vs
  BY DEF ThreadTypes, GoTo

\* An agent without a task, one that loaded a file, and one that claims what it
\* loaded, have a task of the right type in their hands.
LEMMA NoTaskType == NoTask \in Tasks /\ NoTask.id = 0 /\ NoTask.blockedBy = {}
  BY DEF NoTask, Tasks, Statuses

LEMMA LoadedType ==
    ASSUME BoardTypes, NEW id \in DOMAIN files
    PROVE  /\ Loaded(id) \in Tasks
           /\ Loaded(id).id = id /\ Loaded(id).blockedBy = files[id].blockedBy
<1>1. files[id] \in Contents /\ id \in Int
  BY DEF BoardTypes, Ids
<1> QED
  BY <1>1 DEF Loaded, Contents, Tasks

LEMMA ClaimedType ==
    ASSUME NEW l \in Tasks, NEW a \in Agents
    PROVE  /\ [l EXCEPT !.owner = a, !.status = "in_progress"] \in Tasks
           /\ [l EXCEPT !.owner = a, !.status = "in_progress"].id = l.id
           /\ [l EXCEPT !.owner = a, !.status = "in_progress"].blockedBy = l.blockedBy
  BY DEF Tasks, Statuses

\* What update makes of a task.
Changed(l, status, add, remove) ==
    [l EXCEPT !.status = status, !.blockedBy = (@ \cup add) \ remove]

\* Saving a task writes its file, and no other.
LEMMA WithFileType ==
    ASSUME BoardTypes, NEW t \in Tasks, t.id \in Ids, files' = WithFile(t.id, Body(t))
    PROVE  /\ DOMAIN files' = DOMAIN files \cup {t.id}
           /\ files' \in [DOMAIN files' -> Contents]
           /\ DOMAIN files' \subseteq Ids
           /\ files'[t.id].blockedBy = t.blockedBy
           /\ \A i \in DOMAIN files : i # t.id => files'[i] = files[i]
<1>1. Body(t) \in Contents /\ Body(t).blockedBy = t.blockedBy
  BY DEF Body, Tasks, Contents
<1> HIDE DEF Contents, Tasks
<1> QED
  BY <1>1 DEF WithFile, BoardTypes

\* Visiting a file takes one blocker out of it, and out of no other.
LEMMA UnblockType ==
    ASSUME BoardTypes, NEW i \in DOMAIN files, NEW gone,
           files' = [files EXCEPT ![i].blockedBy = @ \ {gone}]
    PROVE  /\ DOMAIN files' = DOMAIN files
           /\ files' \in [DOMAIN files' -> Contents]
           /\ \A j \in DOMAIN files : files'[j].blockedBy \subseteq files[j].blockedBy
           /\ gone \notin files'[i].blockedBy
<1>1. files[i] \in Contents
  BY DEF BoardTypes
<1>2. [files[i] EXCEPT !.blockedBy = @ \ {gone}] \in Contents
  BY <1>1 DEF Contents
<1>3. files' = [files EXCEPT ![i] = [files[i] EXCEPT !.blockedBy = @ \ {gone}]]
  OBVIOUS
<1>4. files'[i].blockedBy = files[i].blockedBy \ {gone}
  BY <1>1 DEF Contents
<1> QED
  BY <1>2, <1>3, <1>4 DEF BoardTypes

------------------------------------------------------------------------------
\* An operation of one agent between two steps of another is what goes wrong on
\* a shared board; here there is no other.
LEMMA BoardStep ==
    ASSUME NEW ag, Agents = {ag}, BoardInv, [Next]_vars
    PROVE  BoardInv'
<1> USE DEF BoardInv
<1>0. IsFiniteSet(DOMAIN files)
  <2>1. Ids \in SUBSET Nat /\ IsFiniteSet(Ids)
    BY BoardConstants, FS_Interval DEF Ids
  <2> QED
    BY <2>1, FS_Subset DEF BoardTypes
<1> ag \in Agents
  OBVIOUS
<1>1. CASE Create(ag)
  <2> DEFINE t == [NoTask EXCEPT !.id = NextId]
  <2>1. NextId \notin DOMAIN files
    BY NextIdIsNew DEF BoardTypes
  <2>2. NextId \in Ids /\ NextId \in Int
    BY <1>1 DEF Create, Ids
  <2>3. t \in Tasks /\ t.id = NextId
    BY <2>2, NoTaskType DEF NoTask, Tasks, Statuses
  <2>4. ThreadTypes' /\ pc'[ag] = "create" /\ task'[ag] = t
    <3> HIDE DEF t
    <3>1. GoTo(ag, "create", t, {})
      BY <1>1 DEF Create, t
    <3> QED
      BY <2>3, <3>1, GoToTypes DEF Labels, BoardTypes
  <2> HIDE DEF t
  <2> QED
    BY <1>1, <2>1, <2>2, <2>3, <2>4 DEF Create, BoardTypes, InHand, NoTaskReplaced
<1>2. CASE SaveNew(ag)
  <2>1. task[ag] \in Tasks /\ task[ag].id \in Ids /\ task[ag].id \notin DOMAIN files
    BY <1>2 DEF SaveNew, InHand, BoardTypes, ThreadTypes
  <2>2. /\ DOMAIN files' = DOMAIN files \cup {task[ag].id} /\ DOMAIN files' \subseteq Ids
        /\ files' \in [DOMAIN files' -> Contents]
    BY <1>2, <2>1, WithFileType DEF SaveNew
  <2>3. Cardinality(DOMAIN files') = Cardinality(DOMAIN files) + 1
    BY <1>0, <2>1, <2>2, FS_AddElement
  <2>4. ThreadTypes' /\ pc'[ag] = "idle"
    BY <1>2, NoTaskType, GoToTypes DEF SaveNew, BoardTypes, Labels
  <2> QED
    BY <1>2, <2>2, <2>3, <2>4 DEF SaveNew, BoardTypes, InHand, NoTaskReplaced
<1>3. CASE Unblock(ag)
  <2>1. task[ag] \in Tasks /\ task[ag].id \in DOMAIN files /\ visit[ag] \in SUBSET Ids
    BY <1>3 DEF Unblock, InHand, BoardTypes, ThreadTypes
  <2>2. PICK i \in visit[ag] :
           IF i \in DOMAIN files
           THEN /\ files' = [files EXCEPT ![i].blockedBy = @ \ {task[ag].id}]
                /\ GoTo(ag, IF visit[ag] = {i} THEN "save" ELSE "unblock", task[ag], visit[ag] \ {i})
           ELSE /\ GoTo(ag, "idle", NoTask, {})
                /\ UNCHANGED files
    BY <1>3 DEF Unblock
  <2>3. DOMAIN files' = DOMAIN files /\ files' \in [DOMAIN files' -> Contents]
    BY <2>2, UnblockType DEF BoardTypes
  <2>4. /\ ThreadTypes'
        /\ pc'[ag] # "idle" => task'[ag] = task[ag] /\ pc'[ag] \in {"save", "unblock"}
        /\ pc'[ag] = "unblock" => visit'[ag] \subseteq visit[ag]
    <3>1. CASE i \in DOMAIN files
      BY <2>1, <2>2, <3>1, GoToTypes DEF BoardTypes, Labels
    <3>2. CASE i \notin DOMAIN files
      BY <2>2, <3>2, GoToTypes, NoTaskType DEF BoardTypes, Labels
    <3> QED
      BY <3>1, <3>2
  <2> QED
    BY <1>3, <2>1, <2>3, <2>4 DEF Unblock, BoardTypes, InHand, NoTaskReplaced
<1>4. CASE Save(ag)
  <2>1. task[ag] \in Tasks /\ task[ag].id \in Ids /\ task[ag].id \in DOMAIN files
    BY <1>4 DEF Save, InHand, BoardTypes, ThreadTypes
  <2>2. DOMAIN files' = DOMAIN files /\ files' \in [DOMAIN files' -> Contents]
    BY <1>4, <2>1, WithFileType DEF Save
  <2>3. ThreadTypes' /\ pc'[ag] = "idle"
    BY <1>4, NoTaskType, GoToTypes DEF Save, BoardTypes, Labels
  <2> QED
    BY <1>4, <2>2, <2>3 DEF Save, BoardTypes, InHand, NoTaskReplaced
<1>5. ASSUME NEW id \in Ids, Claim(ag, id) PROVE BoardInv'
  <2> DEFINE t == [Loaded(id) EXCEPT !.owner = ag, !.status = "in_progress"]
  <2>1. id \in DOMAIN files
    BY <1>5 DEF Claim, Load
  <2>2. t \in Tasks /\ t.id = id
    BY <2>1, LoadedType, ClaimedType
  <2>3. ThreadTypes' /\ pc'[ag] = "save" /\ task'[ag] = t
    <3>1. GoTo(ag, "save", t, {})
      BY <1>5 DEF Claim
    <3> HIDE DEF t
    <3> QED
      BY <2>2, <3>1, GoToTypes DEF BoardTypes, Labels
  <2> HIDE DEF t
  <2> QED
    BY <1>5, <2>1, <2>2, <2>3 DEF Claim, BoardTypes, InHand, NoTaskReplaced
<1>6. ASSUME NEW id \in Ids, Delete(ag, id) PROVE BoardInv'
  <2>1. DOMAIN files' = DOMAIN files \ {id} /\ id \in DOMAIN files
    BY <1>6 DEF Delete, Load
  <2>2. Cardinality(DOMAIN files') = Cardinality(DOMAIN files) - 1
    BY <1>0, <2>1, FS_RemoveElement
  <2>3. BoardTypes'
    BY <1>6, <2>1 DEF Delete, BoardTypes, ThreadTypes
  <2> QED
    BY <1>6, <2>2, <2>3 DEF Delete, Load, BoardTypes, InHand, NoTaskReplaced
<1>7. ASSUME NEW id \in Ids, NEW status \in {"pending", "completed"},
             NEW add \in SUBSET Blockers, NEW remove \in SUBSET Blockers,
             Update(ag, id, status, add, remove)
      PROVE  BoardInv'
  <2> DEFINE t == Changed(Loaded(id), status, add, remove)
  <2>1. id \in DOMAIN files /\ DOMAIN files \in SUBSET Ids
    BY <1>7 DEF Update, Load, BoardTypes
  <2>0. freed' \subseteq Ids \X Ids
    BY <1>7, <2>1 DEF Update, BlockedBy, BoardTypes
  <2>2. t \in Tasks /\ t.id = id
    <3>1. /\ Loaded(id) \in Tasks
          /\ Loaded(id).id = id /\ Loaded(id).blockedBy = files[id].blockedBy
      BY <2>1, LoadedType
    <3>2. status \in Statuses /\ add \in SUBSET Blockers /\ remove \in SUBSET Blockers
      BY <1>7 DEF Statuses
    <3> HIDE DEF BoardInv
    <3> QED
      BY <3>1, <3>2 DEF Changed, Tasks
  <2>3. /\ ThreadTypes' /\ pc'[ag] \in {"save", "unblock"} /\ task'[ag] = t
        /\ pc'[ag] = "unblock" => visit'[ag] = DOMAIN files
    <3>1. GoTo(ag, "unblock", t, DOMAIN files) \/ GoTo(ag, "save", t, {})
      BY <1>7 DEF Update, Changed
    <3> HIDE DEF t
    <3> QED
      BY <2>1, <2>2, <3>1, GoToTypes DEF BoardTypes, Labels
  <2> HIDE DEF t
  <2> QED
    <3>1. UNCHANGED <<files, created, deleted>>
      BY <1>7 DEF Update
    <3> QED
      BY <2>0, <2>1, <2>2, <2>3, <3>1 DEF BoardTypes, InHand, NoTaskReplaced
<1>8. ASSUME NEW items, WriteTodos(ag, items) PROVE BoardInv'
  BY <1>8 DEF WriteTodos, BoardTypes, ThreadTypes, InHand, NoTaskReplaced
<1>9. CASE UNCHANGED vars
  BY <1>9 DEF vars, BoardTypes, ThreadTypes, InHand, NoTaskReplaced
<1>10. \A b \in Blockers : {b} \in SUBSET Blockers
  OBVIOUS
<1>11. {} \in SUBSET Blockers
  OBVIOUS
<1> HIDE DEF BoardInv
<1> QED
  BY <1>1, <1>2, <1>3, <1>4, <1>5, <1>6, <1>7, <1>8, <1>9, <1>10, <1>11
     DEF Next, BoardAction, TodoAction

\* The board is empty at the start.
LEMMA InitBoard == Init => BoardInv
<1> SUFFICES ASSUME Init PROVE BoardInv
  OBVIOUS
<1>1. DOMAIN files = {} /\ files \in [DOMAIN files -> Contents]
  BY DEF Init
<1>2. ThreadTypes
  BY NoTaskType DEF Init, ThreadTypes, Labels
<1>3. Cardinality(DOMAIN files) = 0
  BY <1>1, FS_EmptySet
<1> QED
  BY <1>1, <1>2, <1>3 DEF Init, BoardInv, BoardTypes, InHand, NoTaskReplaced

\* Creating a task never replaces one, whatever was deleted before (TaskManager).
THEOREM NoTaskReplacedAlone ==
    ASSUME NEW ag, Agents = {ag}
    PROVE  Spec => []NoTaskReplaced
<1>1. Init => BoardInv
  BY InitBoard
<1>2. BoardInv /\ [Next]_vars => BoardInv'
  BY BoardStep
<1>3. BoardInv => NoTaskReplaced
  BY DEF BoardInv
<1> QED
  BY <1>1, <1>2, <1>3, PTL DEF Spec

------------------------------------------------------------------------------
\* What a completion frees stays free: what it has still to visit is known, and
\* what it saves at the end was read before, without the blockers.
LEMMA FreeingStep ==
    ASSUME NEW ag, Agents = {ag}, BoardInv, BoardInv', Freeing, [Next]_vars
    PROVE  Freeing'
<1> USE DEF BoardInv
<1> ag \in Agents
  OBVIOUS
<1>1. CASE Create(ag)
  <2>1. NextId \notin DOMAIN files
    BY NextIdIsNew DEF BoardTypes
  <2>2. task'[ag].id = NextId /\ pc'[ag] = "create" /\ pc[ag] = "idle"
    BY <1>1 DEF Create, GoTo, NoTask, BoardTypes, ThreadTypes, Tasks
  <2> QED
    BY <1>1, <2>1, <2>2 DEF Create, Freeing
<1>2. CASE SaveNew(ag)
  <2>1. /\ DOMAIN files' = DOMAIN files \cup {task[ag].id}
        /\ \A i \in DOMAIN files : files'[i] = files[i]
    <3>1. task[ag] \in Tasks /\ task[ag].id \in Ids /\ task[ag].id \notin DOMAIN files
      BY <1>2 DEF SaveNew, InHand, BoardTypes, ThreadTypes
    <3> QED
      BY <1>2, <3>1, WithFileType DEF SaveNew
  <2>2. pc[ag] = "create" /\ pc'[ag] = "idle"
    BY <1>2 DEF SaveNew, GoTo, BoardTypes, ThreadTypes
  <2> QED
    BY <1>2, <2>1, <2>2 DEF SaveNew, Freeing
<1>3. CASE Unblock(ag)
  <2>1. task[ag] \in Tasks /\ visit[ag] \in SUBSET Ids /\ pc[ag] = "unblock"
    BY <1>3 DEF Unblock, BoardTypes, ThreadTypes
  <2>2. PICK i \in visit[ag] :
           IF i \in DOMAIN files
           THEN /\ files' = [files EXCEPT ![i].blockedBy = @ \ {task[ag].id}]
                /\ GoTo(ag, IF visit[ag] = {i} THEN "save" ELSE "unblock", task[ag], visit[ag] \ {i})
           ELSE /\ GoTo(ag, "idle", NoTask, {})
                /\ UNCHANGED files
    BY <1>3 DEF Unblock
  <2>3. freed' = freed /\ i \in Ids
    BY <1>3, <2>1 DEF Unblock
  <2>4. CASE i \in DOMAIN files
    <3>1. /\ DOMAIN files' = DOMAIN files
          /\ \A j \in DOMAIN files : files'[j].blockedBy \subseteq files[j].blockedBy
          /\ task[ag].id \notin files'[i].blockedBy
      BY <2>2, <2>4, UnblockType
    <3>2. /\ task'[ag] = task[ag] /\ visit'[ag] = visit[ag] \ {i}
          /\ pc'[ag] = IF visit[ag] = {i} THEN "save" ELSE "unblock"
      BY <2>2, <2>4 DEF GoTo, BoardTypes, ThreadTypes
    <3> QED
      BY <2>1, <2>3, <3>1, <3>2 DEF Freeing
  <2>5. CASE i \notin DOMAIN files
    BY <2>1, <2>5 DEF InHand
  <2> QED
    BY <2>4, <2>5
<1>4. CASE Save(ag)
  <2>1. task[ag] \in Tasks /\ task[ag].id \in Ids /\ task[ag].id \in DOMAIN files
    BY <1>4 DEF Save, InHand, BoardTypes, ThreadTypes
  <2>2. /\ DOMAIN files' = DOMAIN files
        /\ files'[task[ag].id].blockedBy = task[ag].blockedBy
        /\ \A i \in DOMAIN files : i # task[ag].id => files'[i] = files[i]
    BY <1>4, <2>1, WithFileType DEF Save
  <2>3. pc[ag] = "save" /\ pc'[ag] = "idle"
    BY <1>4 DEF Save, GoTo, BoardTypes, ThreadTypes
  <2> QED
    BY <1>4, <2>1, <2>2, <2>3 DEF Save, Freeing
<1>5. ASSUME NEW id \in Ids, Claim(ag, id) PROVE Freeing'
  <2> DEFINE t == [Loaded(id) EXCEPT !.owner = ag, !.status = "in_progress"]
  <2>1. id \in DOMAIN files /\ pc[ag] = "idle"
    BY <1>5 DEF Claim, Load
  <2>2. t.id = id /\ t.blockedBy = files[id].blockedBy
    BY <2>1, LoadedType, ClaimedType
  <2>3. pc'[ag] = "save" /\ task'[ag] = t
    BY <1>5 DEF Claim, GoTo, BoardTypes, ThreadTypes
  <2> HIDE DEF t
  <2> QED
    BY <1>5, <2>1, <2>2, <2>3 DEF Claim, Freeing
<1>6. ASSUME NEW id \in Ids, Delete(ag, id) PROVE Freeing'
  <2>1. /\ DOMAIN files' = DOMAIN files \ {id} /\ pc[ag] = "idle"
        /\ \A i \in DOMAIN files' : files'[i] = files[i]
    BY <1>6 DEF Delete, Load
  <2> QED
    BY <1>6, <2>1 DEF Delete, Freeing
<1>7. ASSUME NEW id \in Ids, NEW status \in {"pending", "completed"},
             NEW add \in SUBSET Blockers, NEW remove \in SUBSET Blockers,
             Update(ag, id, status, add, remove)
      PROVE  Freeing'
  <2> DEFINE t == Changed(Loaded(id), status, add, remove)
  <2>1. id \in DOMAIN files /\ pc[ag] = "idle" /\ files' = files
    BY <1>7 DEF Update, Load
  <2>2. t.id = id /\ t.blockedBy = (files[id].blockedBy \cup add) \ remove
    <3>1. /\ Loaded(id) \in Tasks
          /\ Loaded(id).id = id /\ Loaded(id).blockedBy = files[id].blockedBy
      BY <2>1, LoadedType
    <3>2. status \in Statuses /\ add \in SUBSET Blockers /\ remove \in SUBSET Blockers
      BY <1>7 DEF Statuses
    <3> HIDE DEF BoardInv
    <3> QED
      BY <3>1, <3>2 DEF Changed, Tasks
  <2>3. /\ task'[ag] = t
        /\ IF status = "completed" THEN pc'[ag] = "unblock" /\ visit'[ag] = DOMAIN files
           ELSE pc'[ag] = "save"
    BY <1>7 DEF Update, Changed, GoTo, BoardTypes, ThreadTypes
  <2>4. \A p \in freed' :
           \/ p \in freed /\ ~(p[1] = id /\ p[2] \in add)
           \/ /\ status = "completed" /\ p[2] = id /\ p[1] \in DOMAIN files \ {id}
    <3>1. \A p \in freed : p = <<p[1], p[2]>>
      BY DEF BoardTypes
    <3>2. freed' = (freed \ {<<id, b>> : b \in add})
                   \cup {<<u, id>> : u \in IF status = "completed" THEN BlockedBy(id) ELSE {}}
      BY <1>7 DEF Update
    <3> QED
      BY <3>1, <3>2 DEF BlockedBy
  <2>5. \A p \in freed : p[2] \notin files[p[1]].blockedBy
    BY <2>1 DEF Freeing
  <2> HIDE DEF t
  <2> QED
    BY <2>1, <2>2, <2>3, <2>4, <2>5 DEF Freeing
<1>8. ASSUME NEW items, WriteTodos(ag, items) PROVE Freeing'
  BY <1>8 DEF WriteTodos, Freeing
<1>9. CASE UNCHANGED vars
  BY <1>9 DEF vars, Freeing
<1>10. \A b \in Blockers : {b} \in SUBSET Blockers
  OBVIOUS
<1>11. {} \in SUBSET Blockers
  OBVIOUS
<1> HIDE DEF BoardInv
<1> QED
  BY <1>1, <1>2, <1>3, <1>4, <1>5, <1>6, <1>7, <1>8, <1>9, <1>10, <1>11
     DEF Next, BoardAction, TodoAction

\* A task that was blocked by one that was completed is free of it from then on,
\* unless somebody says so again, whatever is claimed, updated, deleted and
\* created meanwhile (TaskManager.update).
THEOREM CompletionUnblocksAlone ==
    ASSUME NEW ag, Agents = {ag}
    PROVE  Spec => []CompletionUnblocks
<1>1. Init => BoardInv /\ Freeing
  BY InitBoard DEF Init, Freeing
<1>2. BoardInv /\ Freeing /\ [Next]_vars => BoardInv' /\ Freeing'
  BY BoardStep, FreeingStep
<1>3. Freeing => CompletionUnblocks
  BY DEF Freeing, CompletionUnblocks
<1> QED
  BY <1>1, <1>2, <1>3, PTL DEF Spec

------------------------------------------------------------------------------
(* McpClient *)

\* The lines of a server, and the steps of a request.
Kinds == {"answer", "empty", "error"} \cup Noise
Lines == [kind : Kinds, id : Int]
Steps == {"idle", "wait", "receive"}
Calls == [at : Steps, server : Mcp!Names \cup {Mcp!Nobody},
          method : {"none", "initialize", "tools/list", "tools/call"}, id : Int]

\* What the pipes and the threads hold.
PipeTypes ==
    /\ stdin \in [Mcp!Names -> Seq(Int)]
    /\ owed \in [Mcp!Names -> SUBSET Int]
    /\ stdout \in [Mcp!Names -> Seq(Lines)]

\* The types of requests, locks, handlers and results.
CallTypes ==
    /\ nextId \in [Mcp!Names -> Int]
    /\ lock \in [Mcp!Names -> Mcp!Threads \cup {Mcp!Nobody}]
    /\ call \in [Mcp!Threads -> Calls]
    /\ \A t \in Mcp!Threads : call[t].at # "idle" => call[t].server \in Mcp!Names
    /\ \A n \in DOMAIN handlers : handlers[n].server \in Mcp!Names
    /\ got \in [Mcp!Threads -> [how : {"none", "ok", "empty", "error", "raised"}, id : Int,
                            line : Lines \cup {Mcp!NoLine}]]

\* Who waits for an answer has the server's lock, and asked last.
LockHeld ==
    \A t \in Mcp!Threads : call[t].at = "receive" =>
        lock[call[t].server] = t /\ call[t].id = nextId[call[t].server]

\* The inductive invariant.
McpInv == PipeTypes /\ CallTypes /\ LockHeld /\ AnswersMatch

\* The assumptions: finitely many servers in a row, threads that are told apart,
\* and no server that sends requests of its own.
Sane ==
    /\ \E n \in Nat : DOMAIN Servers = 1 .. n
    /\ Main \notin Clients /\ Mcp!Nobody \notin Mcp!Threads
    /\ "request" \notin Noise

------------------------------------------------------------------------------
\* register_tools: a name's handler is of a server that is configured.
LEMMA RegisteredServers ==
    ASSUME Sane, Mcp!Register
    PROVE  \A n \in DOMAIN handlers' : handlers'[n].server \in Mcp!Names
<1> DEFINE Claims(n) == {c \in (DOMAIN Servers) \X UNION Mcp!Range(ToolsOf) :
                            /\ proc[Servers[c[1]]] = "up" /\ c[2] \in tools[Servers[c[1]]]
                            /\ AgentName(Servers[c[1]], c[2]) = n}
           Offered == {AgentName(s, t) : s \in Mcp!Names, t \in UNION Mcp!Range(ToolsOf)}
           Latest(n) == CHOOSE c \in Claims(n) : \A d \in Claims(n) : d[1] <= c[1]
<1>1. handlers' = [n \in {o \in Offered : Claims(o) # {}} |->
                       [server |-> Servers[Latest(n)[1]], tool |-> Latest(n)[2]]]
  BY DEF Mcp!Register
<1>2. ASSUME NEW n, Claims(n) # {} PROVE Latest(n)[1] \in DOMAIN Servers
  <2> DEFINE S == {c[1] : c \in Claims(n)}
  <2>1. PICK N \in Nat : DOMAIN Servers = 1 .. N
    BY DEF Sane
  <2>2. \A c \in Claims(n) : c[1] \in DOMAIN Servers
    OBVIOUS
  <2>3. S \in SUBSET (0 .. N) /\ S # {}
    BY <1>2, <2>1, <2>2
  <2>4. \E m \in S : \A k \in S : k <= m
    <3> HIDE DEF S
    <3> QED
      BY <2>3, HasGreatest
  <2>5. \E c \in Claims(n) : \A d \in Claims(n) : d[1] <= c[1]
    BY <2>4
  <2> HIDE DEF Claims
  <2> QED
    BY <2>2, <2>5
<1> HIDE DEF Claims, Latest, Offered
<1> QED
  BY <1>1, <1>2 DEF Mcp!Names

\* _request and start: a request that ends leaves its thread idle or, in start,
\* at its next request to the same server.
LEMMA EndsOwn ==
    ASSUME CallTypes, NEW t \in Mcp!Threads, call[t].at # "idle",
           NEW how, NEW line, Mcp!End(t, how, line)
    PROVE  /\ call' \in [Mcp!Threads -> Calls]
           /\ call'[t].at # "receive"
           /\ call'[t].at # "idle" => call'[t].server \in Mcp!Names
           /\ \A u \in Mcp!Threads \ {t} : call'[u] = call[u]
<1>1. call[t] \in Calls /\ call[t].server \in Mcp!Names /\ Main \in Mcp!Threads
  BY DEF CallTypes, Mcp!Threads
<1>2. /\ Mcp!Idle \in Calls /\ Mcp!Idle.at = "idle"
      /\ Mcp!Request(call[t].server, "tools/list") \in Calls
      /\ Mcp!Request(call[t].server, "tools/list").at = "wait"
      /\ Mcp!Request(call[t].server, "tools/list").server = call[t].server
  BY <1>1 DEF Mcp!Idle, Mcp!Request, Calls, Steps
<1>3. PICK c \in {Mcp!Idle, Mcp!Request(call[t].server, "tools/list")} :
         call' = [call EXCEPT ![t] = c]
  BY DEF Mcp!End, Mcp!Proceed
<1> QED
  BY <1>1, <1>2, <1>3 DEF CallTypes

------------------------------------------------------------------------------
\* A request takes a free lock and a new id, or ends at a server that is down.
LEMMA SendKeeps ==
    ASSUME Sane, McpInv, NEW t \in Mcp!Threads, Mcp!Send(t)
    PROVE  McpInv'
<1> DEFINE s  == call[t].server
           id == nextId[s] + 1
<1> USE DEF McpInv
<1>1. /\ call[t] \in Calls /\ s \in Mcp!Names /\ id \in Int
      /\ call[t].at = "wait" /\ lock[s] = Mcp!Nobody
  BY DEF Mcp!Send, CallTypes
<1>2. nextId' = [nextId EXCEPT ![s] = id] /\ UNCHANGED <<owed, stdout, handlers>>
  BY DEF Mcp!Send
<1>3. \A u \in Mcp!Threads : call[u].at = "receive" => call[u].server # s
  BY <1>1 DEF LockHeld, Sane
<1>4. CASE /\ lock' = [lock EXCEPT ![s] = t]
           /\ stdin' = [stdin EXCEPT ![s] = Append(@, id)]
           /\ call' = [call EXCEPT ![t].at = "receive", ![t].id = id]
           /\ got' = got
  <2>1. stdin' \in [Mcp!Names -> Seq(Int)]
    BY <1>1, <1>4 DEF PipeTypes
  <2>2. /\ call' \in [Mcp!Threads -> Calls]
        /\ call'[t].at = "receive" /\ call'[t].server = s /\ call'[t].id = id
        /\ \A u \in Mcp!Threads \ {t} : call'[u] = call[u]
    BY <1>1, <1>4 DEF CallTypes, Calls, Steps
  <2>3. PipeTypes'
    BY <1>2, <2>1 DEF PipeTypes
  <2>4. CallTypes'
    BY <1>1, <1>2, <1>4, <2>2 DEF CallTypes
  <2>5. LockHeld'
    BY <1>1, <1>2, <1>3, <1>4, <2>2 DEF LockHeld, CallTypes
  <2> QED
    BY <1>4, <2>3, <2>4, <2>5 DEF AnswersMatch, Mcp!AnswersMatch
<1>5. CASE Mcp!End(t, "error", Mcp!NoLine) /\ stdin' = stdin
  <2>1. /\ lock' = [lock EXCEPT ![s] = Mcp!Nobody]
        /\ got' = [got EXCEPT ![t] = [how |-> "error", id |-> nextId[s], line |-> Mcp!NoLine]]
    BY <1>5 DEF Mcp!End
  <2>2. /\ call' \in [Mcp!Threads -> Calls]
        /\ call'[t].at # "receive"
        /\ call'[t].at # "idle" => call'[t].server \in Mcp!Names
        /\ \A u \in Mcp!Threads \ {t} : call'[u] = call[u]
    BY <1>1, <1>5, EndsOwn
  <2>3. CallTypes'
    BY <1>1, <1>2, <2>1, <2>2 DEF CallTypes
  <2>4. LockHeld'
    BY <1>1, <1>2, <1>3, <2>1, <2>2 DEF LockHeld, CallTypes
  <2>5. AnswersMatch'
    BY <1>1, <2>1 DEF AnswersMatch, Mcp!AnswersMatch, CallTypes
  <2> QED
    BY <1>2, <1>5, <2>3, <2>4, <2>5 DEF PipeTypes
<1> QED
  BY <1>4, <1>5 DEF Mcp!Send

\* A line ends the request that holds the lock, or is passed over.
LEMMA ReceiveKeeps ==
    ASSUME Sane, McpInv, NEW t \in Mcp!Threads, Mcp!Receive(t)
    PROVE  McpInv'
<1> DEFINE s == call[t].server
<1> USE DEF McpInv
<1>1. /\ call[t] \in Calls /\ s \in Mcp!Names /\ call[t].at = "receive"
      /\ lock[s] = t /\ call[t].id = nextId[s]
  BY DEF Mcp!Receive, CallTypes, LockHeld
<1>2. UNCHANGED <<nextId, stdin, owed, handlers>>
  BY DEF Mcp!Receive
<1>3. \A u \in Mcp!Threads \ {t} : call[u].at = "receive" => call[u].server # s
  BY <1>1 DEF LockHeld
<1>4. ASSUME NEW how \in {"ok", "empty", "error", "raised"}, NEW line \in Lines \cup {Mcp!NoLine},
             Mcp!End(t, how, line), stdout' \in [Mcp!Names -> Seq(Lines)],
             how \in {"ok", "empty"} => line.kind # "request" /\ line.id = call[t].id
      PROVE  McpInv'
  <2>1. /\ lock' = [lock EXCEPT ![s] = Mcp!Nobody]
        /\ got' = [got EXCEPT ![t] = [how |-> how, id |-> nextId[s], line |-> line]]
    BY <1>4 DEF Mcp!End
  <2>2. /\ call' \in [Mcp!Threads -> Calls]
        /\ call'[t].at # "receive"
        /\ call'[t].at # "idle" => call'[t].server \in Mcp!Names
        /\ \A u \in Mcp!Threads \ {t} : call'[u] = call[u]
    BY <1>1, <1>4, EndsOwn
  <2>3. CallTypes'
    BY <1>1, <1>2, <1>4, <2>1, <2>2 DEF CallTypes
  <2>4. LockHeld'
    BY <1>1, <1>2, <1>3, <2>1, <2>2 DEF LockHeld, CallTypes
  <2>5. AnswersMatch'
    BY <1>1, <1>4, <2>1 DEF AnswersMatch, Mcp!AnswersMatch, CallTypes
  <2> QED
    BY <1>2, <1>4, <2>3, <2>4, <2>5 DEF PipeTypes
<1>5. CASE proc[s] = "dead"
  <2>1. Mcp!End(t, "error", Mcp!NoLine) /\ stdout' = stdout
    BY <1>5 DEF Mcp!Receive
  <2> QED
    BY <1>4, <2>1 DEF PipeTypes
<1>6. CASE proc[s] = "up"
  <2> DEFINE line == Head(stdout[s])
  <2>0. stdout[s] # <<>> /\ stdout' = [stdout EXCEPT ![s] = Tail(@)]
    BY <1>6 DEF Mcp!Receive
  <2>1. line \in Lines /\ stdout' \in [Mcp!Names -> Seq(Lines)]
    BY <1>1, <2>0 DEF PipeTypes
  <2>2. line.kind # "request"
    BY <2>1 DEF Lines, Kinds, Sane
  <2>3. \/ Mcp!End(t, "error", line)
        \/ Mcp!End(t, "raised", line)
        \/ Mcp!IsAnswer(t, line) /\ Mcp!End(t, Mcp!Outcome(line), line)
        \/ UNCHANGED <<lock, got, call>>
    BY <1>6 DEF Mcp!Receive
  <2> HIDE DEF line
  <2>4. CASE Mcp!End(t, "error", line) \/ Mcp!End(t, "raised", line)
    BY <1>4, <2>1, <2>4
  <2>5. CASE Mcp!IsAnswer(t, line) /\ Mcp!End(t, Mcp!Outcome(line), line)
    <3>1. Mcp!Outcome(line) \in {"ok", "error", "empty"} /\ line.id = call[t].id
      BY <2>5 DEF Mcp!Outcome, Mcp!IsAnswer
    <3> QED
      BY <1>4, <2>1, <2>2, <2>5, <3>1
  <2>6. CASE UNCHANGED <<lock, got, call>>
    BY <1>2, <2>1, <2>6 DEF PipeTypes, CallTypes, LockHeld, AnswersMatch, Mcp!AnswersMatch
  <2> QED
    BY <2>3, <2>4, <2>5, <2>6
<1> QED
  BY <1>5, <1>6 DEF Mcp!Receive

------------------------------------------------------------------------------
\* The start, the calls, and what the servers do leave the requests alone.
LEMMA McpStep ==
    ASSUME Sane, McpInv, [Mcp!Next]_Mcp!vars
    PROVE  McpInv'
<1> USE DEF McpInv
<1>1. CASE Mcp!Launch
  <2> DEFINE c == Mcp!Request(Servers[starting], "initialize")
  <2>1. c \in Calls /\ c.at = "wait" /\ c.server \in Mcp!Names /\ Main \in Mcp!Threads
    BY <1>1 DEF Mcp!Launch, Mcp!Request, Calls, Steps, Mcp!Names, Mcp!Threads
  <2>2. call' = [call EXCEPT ![Main] = c] \/ call' = call
    BY <1>1 DEF Mcp!Launch
  <2> HIDE DEF c
  <2>3. UNCHANGED <<nextId, lock, Mcp!pipes, handlers, got>>
    BY <1>1 DEF Mcp!Launch
  <2> QED
    BY <2>1, <2>2, <2>3 DEF Mcp!pipes, PipeTypes, CallTypes, LockHeld, AnswersMatch,
                                Mcp!AnswersMatch
<1>2. CASE Mcp!Register
  <2>1. UNCHANGED <<nextId, lock, Mcp!pipes, call, got>>
    BY <1>2 DEF Mcp!Register
  <2> QED
    BY <1>2, <2>1, RegisteredServers
       DEF Mcp!pipes, PipeTypes, CallTypes, LockHeld, AnswersMatch, Mcp!AnswersMatch
<1>3. CASE Mcp!StopAll
  BY <1>3 DEF Mcp!StopAll, Mcp!pipes, PipeTypes, CallTypes, LockHeld, AnswersMatch, Mcp!AnswersMatch
<1>4. ASSUME NEW c \in Clients, NEW name \in DOMAIN handlers, Mcp!CallTool(c, name) PROVE McpInv'
  <2> DEFINE r == Mcp!Request(handlers[name].server, "tools/call")
  <2>1. r \in Calls /\ r.at = "wait" /\ r.server \in Mcp!Names /\ c \in Mcp!Threads
    BY <1>4 DEF Mcp!Request, Calls, Steps, CallTypes, Mcp!Threads
  <2>2. call' = [call EXCEPT ![c] = r] /\ UNCHANGED <<nextId, lock, Mcp!pipes, handlers, got>>
    BY <1>4 DEF Mcp!CallTool
  <2> HIDE DEF r
  <2> QED
    BY <2>1, <2>2 DEF Mcp!pipes, PipeTypes, CallTypes, LockHeld, AnswersMatch, Mcp!AnswersMatch
<1>5. ASSUME NEW s \in Mcp!Names,
             Mcp!Read(s) \/ Mcp!Answer(s) \/ Mcp!Say(s) \/ Mcp!Complain(s) \/ Mcp!Die(s)
      PROVE  McpInv'
  <2>1. PipeTypes'
    <3>1. CASE Mcp!Read(s)
      BY <3>1 DEF Mcp!Read, PipeTypes
    <3>2. CASE Mcp!Answer(s)
      <4>1. PICK id \in owed[s], kind \in {"answer", "empty", "error"} :
               /\ owed' = [owed EXCEPT ![s] = @ \ {id}]
               /\ stdout' = [stdout EXCEPT ![s] = Append(@, [kind |-> kind, id |-> id])]
        BY <3>2 DEF Mcp!Answer
      <4>2. [kind |-> kind, id |-> id] \in Lines
        BY DEF Lines, Kinds, PipeTypes
      <4> QED
        BY <3>2, <4>1, <4>2 DEF Mcp!Answer, PipeTypes
    <3>3. CASE Mcp!Say(s)
      <4>1. PICK kind \in Noise :
               stdout' = [stdout EXCEPT ![s] =
                             Append(@, [kind |-> kind, id |-> IF kind = "request" THEN 1 ELSE 0])]
        BY <3>3 DEF Mcp!Say
      <4>2. [kind |-> kind, id |-> IF kind = "request" THEN 1 ELSE 0] \in Lines
        BY DEF Lines, Kinds
      <4> QED
        BY <3>3, <4>1, <4>2 DEF Mcp!Say, PipeTypes
    <3>4. CASE Mcp!Complain(s) \/ Mcp!Die(s)
      BY <3>4 DEF Mcp!Complain, Mcp!Die, Mcp!pipes, PipeTypes
    <3> QED
      BY <1>5, <3>1, <3>2, <3>3, <3>4
  <2>2. UNCHANGED <<nextId, lock, handlers, call, got>>
    BY <1>5 DEF Mcp!Read, Mcp!Answer, Mcp!Say, Mcp!Complain, Mcp!Die, Mcp!clientVars
  <2> QED
    BY <2>1, <2>2 DEF CallTypes, LockHeld, AnswersMatch, Mcp!AnswersMatch
<1>6. CASE UNCHANGED Mcp!vars
  BY <1>6 DEF Mcp!vars, Mcp!pipes, PipeTypes, CallTypes, LockHeld, AnswersMatch, Mcp!AnswersMatch
<1> HIDE DEF McpInv
<1> QED
  BY <1>1, <1>2, <1>3, <1>4, <1>5, <1>6, SendKeeps, ReceiveKeeps DEF Mcp!Next

\* What a request returns is the answer to it, whoever else asks, and whatever
\* was given up or answered late (MCPServerConnection._request).
THEOREM AnswersMatchAlways ==
    ASSUME Sane
    PROVE  MCSpec => []AnswersMatch
<1>1. MCInit => McpInv
  BY DEF MCInit, Mcp!Init, McpInv, PipeTypes, CallTypes, LockHeld, AnswersMatch,
         Mcp!AnswersMatch, Calls, Steps, Mcp!Idle, Mcp!NoLine
<1>2. McpInv /\ [MCNext]_MCVars => McpInv'
  <2> SUFFICES ASSUME McpInv, [MCNext]_MCVars
               PROVE  McpInv'
    OBVIOUS
  <2>1. Mcp!Next \/ UNCHANGED Mcp!vars
    BY DEF MCNext, MCVars, mcpVars, Mcp!vars, Mcp!pipes
  <2> QED
    BY <2>1, McpStep
<1>3. McpInv => AnswersMatch
  BY DEF McpInv
<1> QED
  BY <1>1, <1>2, <1>3, PTL DEF MCSpec
===============================================================================
