------------------------------- MODULE Recovery -------------------------------
(* RecoveryEngine: the runtime state that is saved to the Store and loaded    *)
(* from it, the migrations a loaded state goes through, and the summary layer *)
(* that is restored. A restart makes new layers; the Store is what the host   *)
(* keeps over it. A later release of the program has a greater schema         *)
(* version; a state saved with an envelope says which release it is of.       *)

EXTENDS Naturals, FiniteSets, SequencesExt, Subsequences

CONSTANTS
    Schemas,      \* schema versions of the program's releases: numbers from 1
    Metadata,     \* keys of the session's metadata
    Contents,     \* texts of summaries
    MaxTime,      \* the clock (bound)
    MaxVersion,   \* versions of the summary (bound)
    MaxEntries,   \* entries of the summary layer (bound)
    MaxSteps,     \* registered migration steps (bound)
    Failing       \* whether a migration step may fail: a set of truth values

\* Assumed of the constants.
SchemasAreNumbers ==
    /\ Schemas \subseteq Nat \ {0} /\ IsFiniteSet(Schemas) /\ 1 \in Schemas
    /\ Failing \subseteq BOOLEAN

Namespaces == {"summary", "workspace", "session", "metadata"}
Nothing == [saved |-> FALSE]

VARIABLES
    store,     \* the four namespaces of the Store
    current,   \* SCHEMA_VERSION of the running release
    entries,   \* SummaryLayer._entries
    version,   \* SummaryLayer._version
    task,      \* WorkspaceLayer's state
    steps,     \* MigrationRegistry._steps, in the order of registration
    now,       \* the clock
    loaded,    \* what the load just done gave
    written,   \* entries and workspace of the last saves (history)
    since      \* when the saved session began (history)

layers == <<entries, version, task>>
vars == <<store, current, layers, steps, now, loaded, written, since>>

Init ==
    /\ store = [ns \in Namespaces |-> Nothing]
    /\ current = 1
    /\ entries = <<>> /\ version = 0 /\ task = 0
    /\ steps = <<>> /\ now = 1
    /\ loaded = Nothing
    /\ written = [summary |-> <<>>, workspace |-> 0]
    /\ since = 0

------------------------------------------------------------------------------
(* Migrations *)

NoPath == <<[from |-> 0, to |-> 0, fails |-> FALSE]>>

\* Bug: only the first step out of a version is followed.
ExpandFirst(head, seen, queue) ==
    LET out == SelectSeq(steps, LAMBDA step : step.from = head.at)
    IN IF out = <<>> \/ Head(out).to \in seen THEN [seen |-> seen, queue |-> queue]
       ELSE [seen |-> seen \cup {Head(out).to},
             queue |-> Append(queue, [at |-> Head(out).to,
                                      path |-> Append(head.path, Head(out))])]

\* The steps out of one version, in order: those to new versions are queued.
Expand(head, seen, queue) ==
    FoldLeft(LAMBDA acc, step :
               IF step.from = head.at /\ step.to \notin acc.seen
               THEN [seen |-> acc.seen \cup {step.to},
                     queue |-> Append(acc.queue, [at |-> step.to,
                                                  path |-> Append(head.path, step)])]
               ELSE acc,
             [seen |-> seen, queue |-> queue], steps)

\* The head of the queue is taken, until the target was seen or nothing is queued.
Turn(search, target) ==
    IF search.queue = <<>> \/ target \in search.seen THEN search
    ELSE Expand(Head(search.queue), search.seen, Tail(search.queue))

\* No version is queued twice, so there are no more turns than versions.
Search(from, target) ==
    FoldLeft(LAMBDA search, n : Turn(search, target),
             [seen |-> {from}, queue |-> <<[at |-> from, path |-> <<>>]>>],
             [n \in 1..Cardinality(Schemas) |-> n])

FindPath(from, to) ==
    LET queue == Search(from, to).queue
        hits == {n \in DOMAIN queue : queue[n].at = to}
    IN CASE from = to -> <<>>
         [] from # to /\ hits = {} -> NoPath
         [] OTHER -> queue[CHOOSE n \in hits : TRUE].path

CanMigrate(from, to) == FindPath(from, to) # NoPath

\* _apply_migration: a state without an envelope, or without a path, is taken
\* as it is.
Path(state) ==
    IF state.schema = 0 \/ state.schema = current \/ ~CanMigrate(state.schema, current)
    THEN <<>> ELSE FindPath(state.schema, current)

Fails(state) == \E n \in DOMAIN Path(state) : Path(state)[n].fails

------------------------------------------------------------------------------
(* The summary and workspace layers *)

Quiet == loaded' = Nothing

\* update: the rolling entry replaces what there was.
Update(c) ==
    /\ version < MaxVersion
    /\ Quiet
    /\ version' = version + 1
    /\ entries' = <<[content |-> c, version |-> version', damage |-> "none"]>>
    /\ UNCHANGED <<store, current, task, steps, now, written, since>>

SetTask ==
    /\ Quiet
    /\ task' = 1 - task
    /\ UNCHANGED <<store, current, entries, version, steps, now, written, since>>

ClearLayers ==
    /\ entries # <<>>
    /\ Quiet
    /\ entries' = <<>> /\ version' = 0 /\ task' = 0
    /\ UNCHANGED <<store, current, steps, now, written, since>>

\* The program starts again, of this release or a later one, and registers the
\* migrations of that release.
Restart ==
    /\ Quiet
    /\ current' \in {s \in Schemas : s >= current}
    /\ entries' = <<>> /\ version' = 0 /\ task' = 0
    /\ steps' = <<>>
    /\ UNCHANGED <<store, now, written, since>>

Tick ==
    /\ now < MaxTime
    /\ Quiet
    /\ now' = now + 1
    /\ UNCHANGED <<store, current, layers, steps, written, since>>

------------------------------------------------------------------------------
(* Saving *)

State(body) == [saved |-> TRUE, schema |-> 0, body |-> body]

\* _update_metadata
UpdatedMetadata ==
    LET old == store.metadata
    IN State([created |-> IF old.saved THEN old.body.created ELSE now, updated |-> now])

Saved(ns, body) ==
    store' = [store EXCEPT ![ns] = State(body), !.metadata = UpdatedMetadata]

SaveSummary ==
    /\ Quiet
    /\ Saved("summary", [entries |-> entries, version |-> version])
    /\ written' = [written EXCEPT !.summary = entries]
    /\ UNCHANGED <<current, layers, steps, now, since>>

SaveWorkspace ==
    /\ Quiet
    /\ Saved("workspace", [task |-> task])
    /\ written' = [written EXCEPT !.workspace = task]
    /\ UNCHANGED <<current, layers, steps, now, since>>

Loadable(ns) == store[ns].saved /\ ~Fails(store[ns])

\* Bug: the session begins when it is saved.
SaveSessionAnew(keys) ==
    /\ Quiet
    /\ Saved("session", [started |-> now, active |-> now, keys |-> keys])
    /\ since' = IF Loadable("session") THEN since ELSE now
    /\ UNCHANGED <<current, layers, steps, now, written>>

\* save_session keeps when the session began and the metadata it had; a session
\* that cannot be loaded begins anew.
SaveSession(keys) ==
    LET old == store.session.body
    IN /\ Quiet
       /\ Saved("session",
                [started |-> IF Loadable("session") THEN old.started ELSE now,
                 active |-> now,
                 keys |-> keys \cup (IF Loadable("session") THEN old.keys ELSE {})])
       /\ since' = IF Loadable("session") THEN since ELSE now
       /\ UNCHANGED <<current, layers, steps, now, written>>

\* The generic save: a client writes the state with an envelope.
SaveEnveloped(ns) ==
    /\ store[ns].saved /\ store[ns].schema = 0
    /\ Quiet
    /\ store' = [store EXCEPT ![ns].schema = current]
    /\ UNCHANGED <<current, layers, steps, now, written, since>>

\* The generic save with an entry that is no dictionary ("alien"), that cannot
\* be read ("broken") or that misses its content ("partial").
Damage(n, how) ==
    /\ store.summary.saved /\ n \in DOMAIN store.summary.body.entries
    /\ Quiet
    /\ store' = [store EXCEPT !.summary.body.entries[n].damage = how]
    /\ UNCHANGED <<current, layers, steps, now, written, since>>

\* clear, of one namespace or of all.
ClearSaved(nss) ==
    /\ \E ns \in nss : store[ns].saved
    /\ Quiet
    /\ store' = [ns \in Namespaces |-> IF ns \in nss THEN Nothing ELSE store[ns]]
    /\ UNCHANGED <<current, layers, steps, now, written, since>>

------------------------------------------------------------------------------
(* Loading *)

\* register refuses a second step between the same versions.
Register(from, to, fails) ==
    /\ Len(steps) < MaxSteps /\ from # to
    /\ \A n \in DOMAIN steps : <<steps[n].from, steps[n].to>> # <<from, to>>
    /\ Quiet
    /\ steps' = Append(steps, [from |-> from, to |-> to, fails |-> fails])
    /\ UNCHANGED <<store, current, layers, now, written, since>>

Kept(stored) == {n \in DOMAIN stored : stored[n].damage \notin {"alien", "broken"}}

Valid(saved) == AtPlaces(saved, Kept(saved))

\* load_summary, and add_entry for each entry it gives.
Restore ==
    /\ store.summary.saved
    /\ LET state == store.summary
           got == IF Fails(state) THEN <<>> ELSE Valid(state.body.entries)
       IN /\ Len(entries) + Len(got) <= MaxEntries
          /\ entries' = entries \o got
          /\ version' = FoldLeft(LAMBDA v, e : IF e.version > v THEN e.version ELSE v,
                                 version, got)
          /\ loaded' = [saved |-> TRUE, of |-> "summary", failed |-> Fails(state),
                        body |-> got, state |-> state]
    /\ UNCHANGED <<store, current, task, steps, now, written, since>>

\* load_workspace and load_session: the caller gets the state.
Load(ns) ==
    /\ store[ns].saved
    /\ loaded' = [saved |-> TRUE, of |-> ns, failed |-> Fails(store[ns]),
                  body |-> store[ns].body, state |-> store[ns]]
    /\ UNCHANGED <<store, current, layers, steps, now, written, since>>

OfSummary ==
    \/ \E c \in Contents : Update(c)
    \/ ClearLayers \/ SaveSummary \/ Restore

OfWorkspace == SetTask \/ SaveWorkspace \/ Load("workspace")

OfSession ==
    \/ \E keys \in SUBSET Metadata : SaveSession(keys)
    \/ Load("session") \/ Tick

OfMigrations ==
    \/ \E ns \in {"summary", "session"} : SaveEnveloped(ns)
    \/ \E f, t \in Schemas, x \in Failing : Register(f, t, x)

OfDamage ==
    \E n \in 1..MaxEntries, how \in {"alien", "broken", "partial"} : Damage(n, how)

OfProgram ==
    \/ Restart
    \/ \E nss \in {{ns} : ns \in Namespaces} \cup {Namespaces} : ClearSaved(nss)

Next == OfSummary \/ OfWorkspace \/ OfSession \/ OfMigrations \/ OfDamage \/ OfProgram

Spec == Init /\ [][Next]_vars

------------------------------------------------------------------------------
(* Properties *)

TypeOK ==
    /\ DOMAIN store = Namespaces
    /\ current \in Schemas /\ now \in 1..MaxTime /\ version \in 0..MaxVersion
    /\ \A n \in DOMAIN entries : entries[n].version \in 1..version
    /\ Len(entries) <= MaxEntries /\ Len(steps) <= MaxSteps

\* Damage keeps the place of an entry: what the last save wrote, without the
\* places that cannot be read.
Readable(saved, stored) ==
    LET keep == AtPlaces(saved, Kept(stored))
    IN [k \in DOMAIN keep |-> <<keep[k].content, keep[k].version>>]

\* A load gives what was saved last: all entries of the summary that can be
\* read, in their order, the workspace, and a session that began with the first
\* save - after restarts, releases, damage and clears. It fails only if a
\* migration step does (recovery.py: save_*, load_*).
RestoredIsSaved ==
    loaded.saved =>
      /\ loaded.failed => \E n \in DOMAIN steps : steps[n].fails
      /\ (loaded.of = "summary" /\ ~loaded.failed) =>
           [n \in DOMAIN loaded.body |-> <<loaded.body[n].content, loaded.body[n].version>>]
             = Readable(written.summary, loaded.state.body.entries)
      /\ loaded.of = "workspace" => loaded.body.task = written.workspace
      /\ (loaded.of = "session" /\ ~loaded.failed) => loaded.body.started = since

Edge(from, to) == \E n \in DOMAIN steps : steps[n].from = from /\ steps[n].to = to

\* The versions that k steps reach, or fewer.
Within(from, k) ==
    LET near[n \in 0..k] ==
          IF n = 0 THEN {from}
          ELSE LET nearer == near[n-1]
               IN nearer \cup {t \in Schemas : \E s \in nearer : Edge(s, t)}
    IN near[k]

\* find_path finds a chain of registered steps whenever there is one, and no
\* shorter one exists, in whatever order the steps were registered.
PathsAreShortest ==
    \A from, to \in Schemas :
      LET path == FindPath(from, to)
      IN IF path = NoPath THEN to \notin Within(from, Cardinality(Schemas))
         ELSE /\ Range(path) \subseteq Range(steps)
              /\ \A n \in 2..Len(path) : path[n].from = path[n-1].to
              /\ path = <<>> => from = to
              /\ path # <<>> => /\ path[1].from = from /\ path[Len(path)].to = to
                                /\ to \notin Within(from, Len(path) - 1)

\* schema.py:8 "Every serialized payload includes `_schema` and `_type` fields":
\* so a state of an older release is migrated when it is loaded.
EnvelopesKept == \A ns \in {"summary", "workspace", "session"} :
                    store[ns].saved => store[ns].schema # 0

\* One version names one content among the entries.
VersionNamesContent ==
    \A m, n \in DOMAIN entries :
      entries[m].version = entries[n].version => entries[m].content = entries[n].content

==============================================================================
