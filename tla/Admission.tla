------------------------------ MODULE Admission -------------------------------
(* What MemoryStore leaves out of src/memory: which stages an addition runs    *)
(* through and in which order (pipeline.py), the rules that may refuse it      *)
(* (policy.py), and the tables in which the store's indexes keep the memories  *)
(* by type, tag, project, owner and state (index.py).                          *)
(*                                                                             *)
(* Clients and the lifecycle worker run in threads of their own; a move        *)
(* between two pools is one step here (MemoryStore splits it).                 *)

EXTENDS Naturals, FiniteSets, SequencesExt

CONSTANTS
    Ids,
    Inputs,         \* entries that are added: [text, kind, scope, project, source, tags, state]
    Clients,
    Ops,            \* operations of the clients: "add", "update", "delete", "recover"
    Paths,          \* fields that update is called with
    NewValues,      \* NewValues[p]: values that update writes to the field p
    Extra,          \* registrations of stages after the built-in ones
    AllowedKinds,   \* TypeAllowRule
    AllowedSources, \* SourceRule
    Forbidden,      \* texts that a pattern of ContentPatternRule matches
    Length,         \* Length[x]: the length of the text x
    MinLength, MaxLength, \* ContentLengthRule
    KindLimit,      \* TypeLimitRule, a function on the kinds that have a limit
    ScopeLimit,     \* ScopeLimitRule, likewise
    None

VARIABLES
    place,   \* place[i]: "unborn", "active", "archived" or "deleted"
    data,    \* data[i]: what the entry object says, or None
    tables,  \* tables[t]: pairs of a key and an id
    stages,  \* MemoryPipeline._stages: names
    step,    \* step[c]: the stage c is at, or what it has still to tell the indexes
    item,    \* item[c]: the entry c works on
    change   \* change[c]: the change of an update

clients == <<step, item, change>>
vars == <<place, data, tables, stages, clients>>

Tables == {"type", "tag", "project", "owner", "state"}

------------------------------------------------------------------------------
(* Registering stages *)

Priority(name) ==
    CASE name = "schema" -> 10
      [] name = "normalize" -> 20
      [] name = "deduplicate" -> 30
      [] name = "policy_check" -> 40
      [] name = "persist" -> 100
      [] OTHER -> 50

Stage(name, before, after) == [name |-> name, before |-> before, after |-> after]

Position(s, name) == CHOOSE n \in DOMAIN s : s[n] = name

\* list.sort is stable.
SortedByPriority(s) ==
    FoldLeft(LAMBDA done, x :
               InsertAt(done, 1 + Len(SelectSeq(done, LAMBDA y : Priority(y) <= Priority(x))), x),
             <<>>, s)

\* A stage goes where it is asked to; one that names no place, or a stage that
\* is not there, makes all of them sorted by priority again.
Registered(s, r) ==
    LET rest == SelectSeq(s, LAMBDA x : x # r.name)
    IN IF Contains(rest, r.before) THEN InsertAt(rest, Position(rest, r.before), r.name)
       ELSE IF Contains(rest, r.after) THEN InsertAt(rest, Position(rest, r.after) + 1, r.name)
       ELSE SortedByPriority(Append(rest, r.name))

BuiltIn == << Stage("schema", None, None), Stage("normalize", None, None),
              Stage("deduplicate", None, "normalize"),
              Stage("policy_check", None, "deduplicate"), Stage("persist", None, None) >>

\* The stages of the pipeline, when all are registered.
Pipeline == FoldLeft(Registered, <<>>, BuiltIn \o Extra)

\* No two stages share a name, the duplicate is looked for before the rules are
\* asked and these before the entry is stored (and no stage is called like
\* another state of an operation).
Orderly(s) ==
    /\ s \in Seq(STRING)
    /\ \A m, n \in DOMAIN s : s[m] = s[n] => m = n
    /\ \A n \in DOMAIN s : s[n] \notin {"idle", "created", "updated", "removed", "recovered"}
    /\ \E d, c, p \in DOMAIN s : /\ d < c /\ c < p
                               /\ s[d] = "deduplicate" /\ s[c] = "policy_check"
                               /\ s[p] = "persist"

Init ==
    /\ place = [i \in Ids |-> "unborn"]
    /\ data = [i \in Ids |-> None]
    /\ tables = [t \in Tables |-> {}]
    /\ stages = Pipeline
    /\ step = [c \in Clients |-> "idle"]
    /\ item = [c \in Clients |-> None]
    /\ change = [c \in Clients |-> None]

Active == {i \in Ids : place[i] = "active"}

GoTo(c, where, i) ==
    /\ step' = [step EXCEPT ![c] = where]
    /\ item' = [item EXCEPT ![c] = IF where = "idle" THEN None ELSE i]

Go(c, where) == GoTo(c, where, item[c])

\* The stage behind the given one; the call ends with the last.
Following(name) ==
    LET n == Position(stages, name) IN IF n = Len(stages) THEN "idle" ELSE stages[n + 1]

------------------------------------------------------------------------------
(* The rules of the policy engine *)

OfKind(k)  == {i \in Active : data[i].kind = k}
OfScope(s) == {i \in Active : data[i].scope = s}

TypeAllow(e)     == e.kind \in AllowedKinds
ContentPattern(e) == e.text \notin Forbidden
ContentLength(e) == Length[e.text] \in MinLength..MaxLength
SourceAllow(e)   == e.source \in AllowedSources

ScopeBelowLimit(e) ==
    e.scope \in DOMAIN ScopeLimit => Cardinality(OfScope(e.scope)) < ScopeLimit[e.scope]

\* Bug: the limit itself is let through.
TypeUpToLimit(e) ==
    e.kind \in DOMAIN KindLimit => Cardinality(OfKind(e.kind)) <= KindLimit[e.kind]

TypeBelowLimit(e) ==
    e.kind \in DOMAIN KindLimit => Cardinality(OfKind(e.kind)) < KindLimit[e.kind]

\* What PolicyCheckStage hands the rules has the counts, and no content hash:
\* DuplicateRule never objects.
ContentHash == None
Duplicate(e) == ContentHash = None \/ ContentHash # e.text

\* In whatever order the rules stand, the first that objects ends the check.
Allowed(e) ==
    /\ TypeAllow(e) /\ ContentPattern(e) /\ ContentLength(e) /\ Duplicate(e)
    /\ ScopeBelowLimit(e) /\ TypeBelowLimit(e) /\ SourceAllow(e)

------------------------------------------------------------------------------
(* The tables *)

Keys(e, t) ==
    CASE t = "type"    -> {e.kind}
      [] t = "tag"     -> e.tags
      [] t = "project" -> {e.project}
      [] t = "owner"   -> {"agent"}
      [] t = "state"   -> {e.state}

\* on_create
Entered(i) == [t \in Tables |-> tables[t] \cup (Keys(data[i], t) \X {i})]

\* on_delete
Removed(i) == [t \in Tables |-> {p \in tables[t] : p[2] # i}]

\* The tables look for a change by the name of their key: "tags", "type".
OldKeys(t, ch) ==
    CASE t = "tag" /\ ch.path = "tags"    -> ch.old
      [] t # "tag" /\ ch.path = t         -> {ch.old}
      [] OTHER                            -> {}

\* Bug: the table drops the old key only.
UpdatedOnlyOld(i, ch) ==
    [t \in Tables |-> tables[t] \ (OldKeys(t, ch) \X {i})]

\* on_update: every table but that of the tags enters the keys of now anyway.
Updated(i, ch) ==
    [t \in Tables |->
       (tables[t] \ (OldKeys(t, ch) \X {i}))
       \cup (IF t = "tag" /\ ch.path # "tags" THEN {} ELSE Keys(data[i], t) \X {i})]

------------------------------------------------------------------------------
(* An addition, stage by stage *)

Submit(c, i, e) ==
    /\ "add" \in Ops /\ step[c] = "idle"
    /\ place[i] = "unborn" /\ \A d \in Clients : item[d] # i
    /\ data' = [data EXCEPT ![i] = e]
    /\ GoTo(c, Head(stages), i)
    /\ UNCHANGED <<place, tables, stages, change>>

\* An entry object that was never created is garbage; its id may as well be the
\* next one's.
Without(i) == IF place[i] = "unborn" THEN [data EXCEPT ![i] = None] ELSE data

\* A stage that does not accept the entry ends the call.
Refuse(c) ==
    /\ Go(c, "idle")
    /\ data' = Without(item[c])

\* Schema and stages of others look at the new entry alone, and may refuse it.
Pass(c) ==
    /\ step[c] \in Range(stages) \ {"deduplicate", "policy_check", "persist"}
    /\ \/ Go(c, Following(step[c])) /\ UNCHANGED data
       \/ step[c] # "normalize" /\ Refuse(c)
    /\ UNCHANGED <<place, tables, stages, change>>

\* An existing active entry goes on in place of the new one, with the tags of both.
Deduplicate(c) ==
    LET same == {i \in Active : data[i].text = data[item[c]].text}
    IN /\ step[c] = "deduplicate"
       /\ \/ same = {} /\ Go(c, Following("deduplicate")) /\ UNCHANGED data
          \/ \E e \in same :
               /\ GoTo(c, Following("deduplicate"), e)
               /\ data' = [Without(item[c]) EXCEPT ![e].tags = @ \cup data[item[c]].tags]
       /\ UNCHANGED <<place, tables, stages, change>>

\* The counts are taken now, the entry is created two steps later.
PolicyCheck(c) ==
    /\ step[c] = "policy_check"
    /\ IF Allowed(data[item[c]])
       THEN Go(c, Following("policy_check")) /\ UNCHANGED data
       ELSE Refuse(c)
    /\ UNCHANGED <<place, tables, stages, change>>

Persist(c) ==
    /\ step[c] = "persist"
    /\ place' = [place EXCEPT ![item[c]] = "active"]
    /\ data' = [data EXCEPT ![item[c]].state = "active"]
    /\ Go(c, "created")
    /\ UNCHANGED <<tables, stages, change>>

Created(c) ==
    /\ step[c] = "created"
    /\ tables' = Entered(item[c])
    /\ Go(c, Following("persist"))
    /\ UNCHANGED <<place, data, stages, change>>

------------------------------------------------------------------------------
(* The other operations *)

FieldOf(p) ==
    CASE p \in {"type", "identity.type"} -> "kind"
      [] p \in {"tags", "content.tags"} -> "tags"
      [] p \in {"project", "ownership.project"} -> "project"
      [] p = "content.text" -> "text"

\* MemoryStore.update of one field: neither the pipeline nor a rule sees it.
Update(c, i, p, v) ==
    /\ "update" \in Ops /\ step[c] = "idle"
    /\ i \in Active
    /\ v # data[i][FieldOf(p)]
    /\ data' = [data EXCEPT ![i][FieldOf(p)] = v]
    /\ change' = [change EXCEPT ![c] = [path |-> p, old |-> data[i][FieldOf(p)]]]
    /\ GoTo(c, "updated", i)
    /\ UNCHANGED <<place, tables, stages>>

NotifyUpdate(c) ==
    /\ step[c] = "updated"
    /\ tables' = Updated(item[c], change[c])
    /\ Go(c, "idle")
    /\ change' = [change EXCEPT ![c] = None]
    /\ UNCHANGED <<place, data, stages>>

\* delete and archive.
Delete(c, i) ==
    /\ "delete" \in Ops /\ step[c] = "idle"
    /\ i \in Active
    /\ place' = [place EXCEPT ![i] = "deleted"]
    /\ data' = [data EXCEPT ![i].state = "deleted"]
    /\ GoTo(c, "removed", i)
    /\ UNCHANGED <<tables, stages, change>>

NotifyDelete(c) ==
    /\ step[c] = "removed"
    /\ tables' = Removed(item[c])
    /\ Go(c, "idle")
    /\ UNCHANGED <<place, data, stages, change>>

\* No rule is asked when a memory comes back.
Recover(c, i) ==
    /\ "recover" \in Ops /\ step[c] = "idle"
    /\ place[i] \in {"archived", "deleted"}
    /\ place' = [place EXCEPT ![i] = "active"]
    /\ data' = [data EXCEPT ![i].state = "active"]
    /\ GoTo(c, "recovered", i)
    /\ UNCHANGED <<tables, stages, change>>

\* The indexes are told if the entry is still active.
NotifyRecovered(c) ==
    /\ step[c] = "recovered"
    /\ tables' = IF item[c] \in Active THEN Entered(item[c]) ELSE tables
    /\ Go(c, "idle")
    /\ UNCHANGED <<place, data, stages, change>>

\* The lifecycle worker tells the indexes of nothing.
Cool(i) ==
    /\ i \in Active /\ data[i].state = "active"
    /\ data' = [data EXCEPT ![i].state = "warm"]
    /\ UNCHANGED <<place, tables, stages, clients>>

Drop(i) ==
    /\ i \in Active
    /\ place' = [place EXCEPT ![i] = "archived"]
    /\ data' = [data EXCEPT ![i].state = "archived"]
    /\ UNCHANGED <<tables, stages, clients>>

ClientStep(c) ==
    \/ \E i \in Ids : \/ \E e \in Inputs : Submit(c, i, e)
                      \/ \E p \in Paths : \E v \in NewValues[p] : Update(c, i, p, v)
                      \/ Delete(c, i) \/ Recover(c, i)
    \/ Pass(c) \/ Deduplicate(c) \/ PolicyCheck(c) \/ Persist(c) \/ Created(c)
    \/ NotifyUpdate(c) \/ NotifyDelete(c) \/ NotifyRecovered(c)

Next == (\E c \in Clients : ClientStep(c)) \/ (\E i \in Ids : Cool(i) \/ Drop(i))

Spec == Init /\ [][Next]_vars

------------------------------------------------------------------------------
(* Properties *)

\* Adding a memory never takes its kind over the limit, whatever happens to the
\* memory between the check and the creation: merged with one that the worker
\* takes away, changed in kind or recovered before (one client).
WithinLimit(c) ==
    (step[c] = "persist" /\ step'[c] = "created" /\ item[c] \notin Active)
      => \A k \in DOMAIN KindLimit \cap {data[item[c]].kind} :
            Cardinality(OfKind(k)') <= KindLimit[k]

AdditionsWithinLimits == [][\A c \in Clients : WithinLimit(c)]_vars

\* policy.py:12 "TypeLimitRule: max entries per MemoryType", however they came to
\* be active.
KindsLimited == \A k \in DOMAIN KindLimit : Cardinality(OfKind(k)) <= KindLimit[k]

Busy == {item[c] : c \in {d \in Clients : step[d] # "idle"}}

FoundIn(t) == \A i \in Active \ Busy : Keys(data[i], t) \X {i} \subseteq tables[t]

\* An active memory that nobody works on is in the tables under the type,
\* project and owner it has now, through updates, merges, removals, recoveries
\* and what the worker does without telling anybody (one client).
FoundUnderOwnKeys == \A t \in {"type", "project", "owner"} : FoundIn(t)

\* What the table of tags and the table of states find is there under the tags
\* and the state it has (index.py:8 "TagIndex: tag -> set[MemoryID]", index.py:11).
FoundUnderOwnTags  == FoundIn("tag")
FoundUnderOwnState == FoundIn("state")

\* A memory is under no type it does not have.
NoOldTypes == \A p \in tables["type"] : p[2] \in Active \ Busy => p[1] = data[p[2]].kind

\* A stage placed before another one stays there (pipeline.py:238, "Place BEFORE
\* the stage with this name").
PlacedStays ==
    \A n \in DOMAIN Extra :
      Contains(stages, Extra[n].before) =>
         Position(stages, Extra[n].name) < Position(stages, Extra[n].before)

===============================================================================
