------------------------------ MODULE Importance ------------------------------
(***************************************************************************)
(* The importance engine (src/memory/importance): importance, freshness    *)
(* and frequency of memories, changed by the events of the memory bus and  *)
(* by feedback; and the vacuum policy, which looks for worthless memories. *)
(*                                                                         *)
(* Importance is a level: 0 below the threshold of the vacuum, 1 below the *)
(* default, 2 the default of 0.5 itself, 3 above it, 4 from the floor of   *)
(* critical memories on.  Freshness is a number of half-lives.  Confidence *)
(* and success rate move like importance and are left out.                 *)
(***************************************************************************)

EXTENDS Integers, Sequences, FiniteSets, FiniteSetsExt, SequencesExt

CONSTANTS
    Ids,
    Base,          \* id -> level that its type and source give, 1..3
    AutoArchive,   \* config.vacuum_auto_archive
    MinAge,        \* config.vacuum_min_age_days
    Throttle,      \* pause between two checks
    MaxStale,      \* half-lives down to config.freshness_min
    MaxTime, MaxFrequency, MaxStarts, \* bounds
    None

VARIABLES
    place,      \* id -> "none", "active", "inactive"
    importance, \* id -> level
    stale,      \* id -> half-lives that score.freshness has lost
    frequency,  \* id -> score.frequency
    born,       \* id -> when it was created
    lastAccess, \* id -> AccessTracker._last_access
    listeners,  \* component -> how often the list of its event names it
    handles,    \* components whose _unsubscribe is set
    started,    \* ImportanceEngine._started
    starts,     \* how often it was started
    lastVacuum, \* VacuumPolicy._last_vacuum_ts
    batch,      \* results of a retrieval whose events are still to be sent
    now,
    sent,       \* history: id -> accesses while the engine ran
    rated,      \* history: ids whose level somebody set
    vacuumed    \* history: what the last check found

scores == <<importance, stale, frequency>>
subs   == <<listeners, handles, started, starts>>
notes  == <<sent, rated>>
vars   == <<place, scores, born, lastAccess, subs, lastVacuum, batch, now, notes, vacuumed>>

\* Who listens to the memory bus: the engine to CREATED, the feedback to UPDATED,
\* the tracker and behind it, for they start in this order, the vacuum to ACCESSED.
Components == {"tracker", "feedback", "vacuum", "engine"}

Default == 2
Floor   == 4
Active  == {i \in Ids : place[i] = "active"}

Init ==
    /\ place \in [Ids -> {"none", "active"}]
    /\ importance \in [Ids -> {1, Default}]
    /\ stale = [i \in Ids |-> 0] /\ frequency = [i \in Ids |-> 0]
    /\ born = [i \in Ids |-> 0] /\ lastAccess = [i \in Ids |-> None]
    /\ listeners = [c \in Components |-> 0]
    /\ handles = {} /\ started = FALSE /\ starts = 0 /\ lastVacuum = -Throttle
    /\ batch = <<>> /\ now = 0
    /\ sent = [i \in Ids |-> 0] /\ rated = {} /\ vacuumed = {}

------------------------------------------------------------------------------
ShouldOverride(level) == level = Default

\* _score_existing.
ScoredExisting ==
    [i \in Ids |-> IF place[i] = "active" /\ ShouldOverride(importance[i]) THEN Base[i]
                   ELSE importance[i]]

\* start, of the engine and of its components: who has a handle is subscribed.
Start ==
    /\ ~started /\ batch = <<>> /\ starts < MaxStarts
    /\ listeners' = [c \in Components |-> listeners[c] + IF c \in handles THEN 0 ELSE 1]
    /\ handles' = Components
    /\ started' = TRUE /\ starts' = starts + 1
    /\ importance' = ScoredExisting
    /\ UNCHANGED <<place, stale, frequency, born, lastAccess, lastVacuum, batch, now, notes, vacuumed>>

\* Bug: the handle of the tracker is dropped without a call.
KeepingTracker == [c \in Components |-> IF c = "tracker" THEN listeners[c] ELSE 0]

\* list.remove takes one of them away, if there is one.
Unsubscribed ==
    [c \in Components |-> IF c \in handles /\ listeners[c] > 0 THEN listeners[c] - 1
                          ELSE listeners[c]]

Stop ==
    /\ started /\ batch = <<>>
    /\ listeners' = Unsubscribed
    /\ handles' = {} /\ started' = FALSE
    /\ UNCHANGED <<place, scores, starts, born, lastAccess, lastVacuum, batch, now, notes, vacuumed>>

------------------------------------------------------------------------------
\* The event CREATED: _on_created looks at the level that the memory came with.
Create(i, level) ==
    /\ place[i] = "none"
    /\ place' = [place EXCEPT ![i] = "active"]
    /\ born' = [born EXCEPT ![i] = now]
    /\ importance' = [importance EXCEPT ![i] =
                         IF listeners["engine"] > 0 /\ ShouldOverride(level) THEN Base[i] ELSE level]
    /\ UNCHANGED <<stale, frequency, lastAccess, subs, lastVacuum, batch, now, notes, vacuumed>>

\* store.update of "score.importance".
Update(i, level) ==
    /\ place[i] = "active" /\ level # importance[i]
    /\ importance' = [importance EXCEPT ![i] = level]
    /\ rated' = rated \cup {i}
    /\ UNCHANGED <<place, stale, frequency, born, lastAccess, subs, lastVacuum, batch, now, sent, vacuumed>>

\* Levels after a change by 0.1 downwards, and after a boost of at most 0.01.
Lowered(level) == CASE level = 4 -> {4, 3} [] level = 3 -> {3, 2, 1} [] level = 2 -> {1} [] OTHER -> {level, 0}
Boosted(level) == CASE level = 0 -> {0, 1} [] level = 1 -> {1, 2, 3} [] level = 2 -> {3} [] OTHER -> {level, 4}

\* FeedbackHandler.feedback, on a memory of any pool.
Feedback(i, rating) ==
    /\ place[i] # "none"
    /\ CASE rating = "not_useful" ->
              /\ \E level \in Lowered(importance[i]) : importance' = [importance EXCEPT ![i] = level]
              /\ rated' = rated \cup {i}
         [] rating = "critical" ->
              /\ importance' = [importance EXCEPT ![i] = Max({@, Floor})]
              /\ rated' = rated \cup {i}
         [] OTHER -> UNCHANGED <<importance, rated>>
    /\ UNCHANGED <<place, stale, frequency, born, lastAccess, subs, lastVacuum, batch, now, sent, vacuumed>>

\* RetrievalEngine.retrieve: one event for each result.
Retrieve(results) ==
    /\ batch = <<>>
    /\ batch' = results
    /\ UNCHANGED <<place, scores, born, lastAccess, subs, lastVacuum, now, notes, vacuumed>>

\* get_effective: what was lost by now, on top of what is stored.
Decayed(i) ==
    IF lastAccess[i] = None THEN stale[i]
    ELSE Min({MaxStale, stale[i] + now - lastAccess[i]})

\* Who is looked at by check, given the frequencies that the tracker left.
Worthless(freq) ==
    {i \in Active : importance[i] = 0 /\ freq[i] = 0 /\ now - born[i] >= MinAge}

\* One event.  The tracker counts and boosts; then the vacuum looks at all
\* memories, unless it did so lately.  With auto_archive the first one that is
\* archived breaks the loop, which goes through the pool itself.
Deliver ==
    /\ batch # <<>>
    /\ LET i == Head(batch)
           times == listeners["tracker"]
           freq == [frequency EXCEPT ![i] = @ + times]
           checks == listeners["vacuum"] > 0 /\ now - lastVacuum >= Throttle
           found == IF checks THEN Worthless(freq) ELSE {}
       IN  /\ frequency' = freq
           /\ IF times > 0
              THEN /\ \E level \in Boosted(importance[i]) : importance' = [importance EXCEPT ![i] = level]
                   /\ stale' = [stale EXCEPT ![i] = 0]
                   /\ lastAccess' = [lastAccess EXCEPT ![i] = now]
              ELSE UNCHANGED <<importance, stale, lastAccess>>
           /\ lastVacuum' = IF checks THEN now ELSE lastVacuum
           /\ IF AutoArchive /\ found # {}
              THEN \E v \in found : place' = [place EXCEPT ![v] = "inactive"] /\ vacuumed' = {v}
              ELSE UNCHANGED place /\ vacuumed' = IF checks THEN found ELSE vacuumed
           /\ sent' = [sent EXCEPT ![i] = @ + IF started THEN 1 ELSE 0]
    /\ batch' = Tail(batch)
    /\ UNCHANGED <<born, subs, now, rated>>

\* decay_all.
DecayAll ==
    /\ stale' = [i \in Ids |-> IF place[i] = "active" THEN Decayed(i) ELSE stale[i]]
    /\ UNCHANGED <<place, importance, frequency, born, lastAccess, subs, lastVacuum, batch, now, notes, vacuumed>>

\* Moves between the pools, by everybody else.
Pool(i, to) ==
    /\ place[i] \in {"active", "inactive"} \ {to}
    /\ place' = [place EXCEPT ![i] = to]
    /\ UNCHANGED <<scores, born, lastAccess, subs, lastVacuum, batch, now, notes, vacuumed>>

Tick ==
    /\ now < MaxTime /\ now' = now + 1
    /\ UNCHANGED <<place, scores, born, lastAccess, subs, lastVacuum, batch, notes, vacuumed>>

Next ==
    \/ Start \/ Stop \/ Deliver \/ DecayAll \/ Tick
    \/ \E i \in Ids, level \in {0, 2, 3} : Create(i, level) \/ Update(i, level)
    \/ \E i \in Ids, rating \in {"useful", "not_useful", "critical"} : Feedback(i, rating)
    \/ \E results \in {s \in SeqOf(Active, 2) : Cardinality(ToSet(s)) = Len(s)} :
          /\ \A i \in ToSet(results) : sent[i] < MaxFrequency
          /\ Retrieve(results)
    \/ \E i \in Ids, to \in {"active", "inactive"} : Pool(i, to)

Spec == Init /\ [][Next]_vars

------------------------------------------------------------------------------
\* Every variable has values of its kind.
TypeOK ==
    /\ \A i \in Ids : importance[i] \in 0..4 /\ stale[i] \in 0..MaxStale /\ frequency[i] \in Nat
    /\ handles \subseteq Components

\* Every retrieval while the engine runs counts once for each result, however
\* often the engine was stopped and started (start, stop of AccessTracker).
AccessesCounted == \A i \in Ids : frequency[i] = sent[i]

\* The check runs after the batch (vacuum.py:66): no result of a retrieval is
\* vacuumed while the events of that retrieval are still being sent.
BatchNotVacuumed == [][Deliver => vacuumed' \cap ToSet(batch) \subseteq vacuumed]_vars

\* What somebody rated keeps its level when the engine starts.
RatingsKept == [][~started /\ started' => \A i \in rated : importance'[i] = importance[i]]_vars

\* Freshness is the half-lives since the last access (decay.py:7).
FreshnessFollows == \A i \in Ids : lastAccess[i] # None => stale[i] <= now - lastAccess[i]
==============================================================================
