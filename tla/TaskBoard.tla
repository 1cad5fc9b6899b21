------------------------------ MODULE TaskBoard ------------------------------
(***************************************************************************)
(* The task board (src/tasks/task_manager.py): one file for each task, no  *)
(* lock.  Agents that share a working directory share the board.  Every    *)
(* operation reads files and writes them in later steps; a completion      *)
(* visits the other files one by one.  The todo list (src/tasks/todo.py)   *)
(* is a list of each agent's own.                                          *)
(***************************************************************************)

EXTENDS Integers, FiniteSets, FiniteSetsExt, Sequences, SequencesExt

CONSTANTS
    Agents,
    MaxId,       \* highest id of a task (bound)
    MaxCreated,  \* how often a task is created (bound)
    Blockers,    \* ids that tasks are said to be blocked by
    TodoLists,   \* lists of statuses that TodoWrite is called with
    NoAgent

ASSUME BoardConstants == MaxId \in Nat /\ MaxCreated \in Nat /\ NoAgent \notin Agents

VARIABLES
    files,    \* id -> [status, owner, blockedBy], for the ids that have a file
    pc,       \* agent -> what it is about to do
    task,     \* agent -> [id, status, owner, blockedBy], the task in its hands
    visit,    \* agent -> files that a completion has yet to look at
    todos,    \* agent -> TodoManager.items
    created,  \* history: tasks created so far
    deleted,  \* history: tasks deleted so far
    freed     \* history: <<t, b>> where b blocked t when it was completed

vars == <<files, pc, task, visit, todos, created, deleted, freed>>

Ids      == 1..MaxId
Statuses == {"pending", "in_progress", "completed"}
NoTask   == [id |-> 0, status |-> "pending", owner |-> NoAgent, blockedBy |-> {}]

Body(t)  == [status |-> t.status, owner |-> t.owner, blockedBy |-> t.blockedBy]

Init ==
    /\ files = <<>> /\ created = 0 /\ deleted = 0 /\ freed = {}
    /\ pc = [a \in Agents |-> "idle"]
    /\ task = [a \in Agents |-> NoTask]
    /\ visit = [a \in Agents |-> {}]
    /\ todos = [a \in Agents |-> <<>>]

GoTo(a, label, t, vs) ==
    /\ pc' = [pc EXCEPT ![a] = label]
    /\ task' = [task EXCEPT ![a] = t]
    /\ visit' = [visit EXCEPT ![a] = vs]

\* _save: the file is there afterwards, whether or not it was.
WithFile(id, body) == [i \in DOMAIN files \cup {id} |-> IF i = id THEN body ELSE files[i]]

\* _load raises where there is no file: the call ends.
Load(a, id) == pc[a] = "idle" /\ id \in DOMAIN files

Loaded(id) == [id |-> id, status |-> files[id].status, owner |-> files[id].owner,
               blockedBy |-> files[id].blockedBy]

------------------------------------------------------------------------------
\* Bug: ids are counted.
CountId == Cardinality(DOMAIN files) + 1

NextId == Max(DOMAIN files \cup {0}) + 1

Create(a) ==
    /\ pc[a] = "idle" /\ created < MaxCreated /\ NextId \in Ids
    /\ GoTo(a, "create", [NoTask EXCEPT !.id = NextId], {})
    /\ UNCHANGED <<files, todos, created, deleted, freed>>

SaveNew(a) ==
    /\ pc[a] = "create"
    /\ files' = WithFile(task[a].id, Body(task[a]))
    /\ created' = created + 1
    /\ GoTo(a, "idle", NoTask, {})
    /\ UNCHANGED <<todos, deleted, freed>>

Claim(a, id) ==
    /\ Load(a, id)
    /\ GoTo(a, "save", [Loaded(id) EXCEPT !.owner = a, !.status = "in_progress"], {})
    /\ UNCHANGED <<files, todos, created, deleted, freed>>

BlockedBy(id) == {t \in DOMAIN files \ {id} : id \in files[t].blockedBy}

\* update with a status other than "deleted": a completion goes through the
\* files first, and then the task as it was read is changed and saved.
Update(a, id, status, add, remove) ==
    /\ Load(a, id)
    /\ LET t == [Loaded(id) EXCEPT !.status = status,
                                   !.blockedBy = (@ \cup add) \ remove]
       IN  IF status = "completed" THEN GoTo(a, "unblock", t, DOMAIN files)
           ELSE GoTo(a, "save", t, {})
    /\ freed' = (freed \ {<<id, b>> : b \in add})
                \cup {<<t, id>> : t \in IF status = "completed" THEN BlockedBy(id) ELSE {}}
    /\ UNCHANGED <<files, todos, created, deleted>>

\* Bug: the search ends at the first task that was blocked.
UnblockFirst(a) ==
    /\ pc[a] = "unblock"
    /\ \E i \in visit[a] \cap DOMAIN files :
          LET last == task[a].id \in files[i].blockedBy \/ visit[a] = {i}
          IN  /\ files' = [files EXCEPT ![i].blockedBy = @ \ {task[a].id}]
              /\ GoTo(a, IF last THEN "save" ELSE "unblock", task[a], visit[a] \ {i})
    /\ UNCHANGED <<todos, created, deleted, freed>>

\* One file of the completion, in the order of the directory.  A file that
\* somebody removed meanwhile raises.
Unblock(a) ==
    /\ pc[a] = "unblock"
    /\ \E i \in visit[a] :
          IF i \in DOMAIN files
          THEN /\ files' = [files EXCEPT ![i].blockedBy = @ \ {task[a].id}]
               /\ GoTo(a, IF visit[a] = {i} THEN "save" ELSE "unblock", task[a], visit[a] \ {i})
          ELSE /\ GoTo(a, "idle", NoTask, {})
               /\ UNCHANGED files
    /\ UNCHANGED <<todos, created, deleted, freed>>

Save(a) ==
    /\ pc[a] = "save"
    /\ files' = WithFile(task[a].id, Body(task[a]))
    /\ GoTo(a, "idle", NoTask, {})
    /\ UNCHANGED <<todos, created, deleted, freed>>

\* update with the status "deleted": other tasks keep it among their blockers.
Delete(a, id) ==
    /\ Load(a, id)
    /\ files' = [i \in DOMAIN files \ {id} |-> files[i]]
    /\ deleted' = deleted + 1
    /\ freed' = {p \in freed : id \notin {p[1], p[2]}}
    /\ UNCHANGED <<pc, task, visit, todos, created>>

------------------------------------------------------------------------------
\* TodoManager.update raises, and keeps the list, unless every item is valid
\* and at most one is in progress.
WriteTodos(a, items) ==
    /\ pc[a] = "idle"
    /\ ToSet(items) \subseteq Statuses
    /\ Cardinality({n \in DOMAIN items : items[n] = "in_progress"}) <= 1
    /\ Len(items) <= 20
    /\ todos' = [todos EXCEPT ![a] = items]
    /\ UNCHANGED <<files, pc, task, visit, created, deleted, freed>>

------------------------------------------------------------------------------
BoardAction(a) ==
    \/ Create(a) \/ SaveNew(a) \/ Unblock(a) \/ Save(a)
    \/ \E id \in Ids : Claim(a, id) \/ Delete(a, id)
    \/ \E id \in Ids, status \in {"pending", "completed"} :
          \/ Update(a, id, status, {}, {})
          \/ \E b \in Blockers : Update(a, id, status, {b}, {}) \/ Update(a, id, status, {}, {b})

TodoAction(a) == \E items \in TodoLists : WriteTodos(a, items)

Next == \E a \in Agents : BoardAction(a) \/ TodoAction(a)

Spec == Init /\ [][Next]_vars

------------------------------------------------------------------------------
\* Every variable has values of its kind.
TypeOK ==
    /\ DOMAIN files \subseteq Ids
    /\ \A i \in DOMAIN files :
          /\ files[i].status \in Statuses /\ files[i].blockedBy \subseteq Ids
          /\ files[i].owner \in Agents \cup {NoAgent}
    /\ \A a \in Agents : pc[a] \in {"idle", "create", "unblock", "save"}

\* Creating a task never replaces one, whatever was deleted before, and no update
\* brings a deleted one back (TaskManager._next_id, update).
NoTaskReplaced == Cardinality(DOMAIN files) = created - deleted

\* A task that was blocked by one that was completed is not blocked by it any
\* more, until somebody says so again (TaskManager.update, "completed").
CompletionUnblocks ==
    \A p \in freed :
        \/ p[1] \notin DOMAIN files
        \/ \E a \in Agents : pc[a] = "unblock" /\ task[a].id = p[2]
        \/ p[2] \notin files[p[1]].blockedBy

\* A completed task is not its own blocker.
NotItsOwnBlocker ==
    \A i \in DOMAIN files : files[i].status = "completed" => i \notin files[i].blockedBy

==============================================================================
