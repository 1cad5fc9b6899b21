------------------------------ MODULE Retrieval ------------------------------
(* One retrieval: three channels look for memories, their scores are fused,   *)
(* and the candidates are ranked, filtered and cut (src/memory/retrieval).    *)
(* Other threads move, purge and change memories between its steps; nothing   *)
(* is locked, and a stage that raises is skipped.                             *)
(*                                                                            *)
(* Scores are small numbers; what has the same score is in any order. The     *)
(* vector index holds every memory that is not gone: EmbeddingSync has the    *)
(* index itself.                                                              *)

EXTENDS Naturals, FiniteSets, FiniteSetsExt, Functions

CONSTANTS
    Ids,         \* memories, in the order of their creation
    Kinds,       \* values of the filters (type, tag, project)
    Weight,      \* RetrievalConfig.channel_weights, in tenths
    Scale,       \* a normalized score is in 0..Scale
    MaxScore,    \* scores of a memory in a channel (bound)
    MaxResults,  \* RetrievalQuery.max_results
    Worth,       \* what a memory may be worth (bound)
    MaxMoves,    \* memories that others move or change per retrieval (bound)
    MaxQueries   \* retrievals (bound)

Channels == {"keyword", "vector", "recent"}

\* Assumed of the constants.
ScoresAreNumbers ==
    /\ Ids \subseteq Nat /\ IsFiniteSet(Ids) /\ Worth \subseteq Nat
    /\ Weight \in [Channels -> Nat]
    /\ {Scale, MaxScore, MaxResults} \subseteq Nat

VARIABLES
    place,    \* pool of each memory; "moving" between two pools, or "gone"
    kind,     \* what the filters look at
    hits,     \* how well the texts match the query, word by word
    near,     \* and how near they are to it
    worth,    \* importance, freshness and frequency, as one factor
    at,       \* where the retrieval is
    asked,    \* the query: kinds (none: no filter) and whether it has a text
    found,    \* channel_results
    ranked,   \* candidates: their scores, and those the reranker has looked up
    results,  \* what the last retrieval returned
    changed,  \* memories of which the kind changed since the query (history)
    moved,    \* memories that moved since the query (history)
    queries   \* retrievals so far

memories == <<place, kind>>
scores == <<hits, near, worth>>
history == <<changed, moved, queries>>
vars == <<memories, scores, at, asked, found, ranked, results, history>>

NoneFound == [c \in Channels |-> <<>>]
NoCandidates == [score |-> <<>>, todo |-> {}, entry |-> {}]

Init ==
    /\ place \in [Ids -> {"active", "archived"}]
    /\ kind \in [Ids -> Kinds]
    /\ hits \in [Ids -> 0..MaxScore] /\ near \in [Ids -> 0..MaxScore]
    /\ worth \in [Ids -> Worth]
    /\ at = "idle" /\ asked = [kinds |-> {}, text |-> FALSE]
    /\ found = NoneFound /\ ranked = NoCandidates /\ results = <<>>
    /\ changed = {} /\ moved = {} /\ queries = 0

------------------------------------------------------------------------------
(* Other threads *)

Disturbed == Cardinality(moved) + Cardinality(changed)

\* A move takes a memory out of its pool and puts it into another.
TakeOut(i) ==
    /\ place[i] \in {"active", "archived"} /\ Disturbed < MaxMoves
    /\ place' = [place EXCEPT ![i] = "moving"]
    /\ moved' = moved \cup {i}
    /\ UNCHANGED <<kind, scores, at, asked, found, ranked, results, changed, queries>>

\* Into a pool, or, purged, into none.
PutIn(i) ==
    /\ place[i] = "moving"
    /\ \E p \in {"active", "archived", "gone"} : place' = [place EXCEPT ![i] = p]
    /\ moved' = moved \cup {i}
    /\ UNCHANGED <<kind, scores, at, asked, found, ranked, results, changed, queries>>

\* update changes the entry in place.
Change(i) ==
    /\ place[i] = "active" /\ Disturbed < MaxMoves
    /\ \E k \in Kinds \ {kind[i]} : kind' = [kind EXCEPT ![i] = k]
    /\ changed' = changed \cup {i}
    /\ UNCHANGED <<place, scores, at, asked, found, ranked, results, moved, queries>>

------------------------------------------------------------------------------
(* The channels *)

\* A query of a client, of memory_search, or the planner's: it reads the kinds
\* from the words of the task.
Ask(kinds, text) ==
    /\ at = "idle" /\ queries < MaxQueries
    /\ queries' = queries + 1
    /\ asked' = [kinds |-> kinds, text |-> text]
    /\ at' = "keyword"
    /\ results' = <<>>
    /\ changed' = {} /\ moved' = {}
    /\ UNCHANGED <<memories, scores, found, ranked>>

Passes(i) == asked.kinds = {} \/ kind[i] \in asked.kinds

\* The best n of the scored, any of those with the same score.
Best(score, n) ==
    LET size == IF Cardinality(DOMAIN score) < n THEN Cardinality(DOMAIN score) ELSE n
    IN {Restrict(score, s) : s \in {s \in kSubset(size, DOMAIN score) :
          \A i \in s, j \in DOMAIN score \ s : score[i] >= score[j]}}

Find(channel, score) ==
    \E best \in Best(score, 3 * MaxResults) : found' = [found EXCEPT ![channel] = best]

Goto(next) ==
    /\ at' = next
    /\ UNCHANGED <<memories, scores, asked, ranked, results, history>>

Keyword ==
    /\ at = "keyword"
    /\ LET matching == {i \in Ids : place[i] = "active" /\ hits[i] > 0 /\ Passes(i)}
       IN Find("keyword", IF asked.text THEN [i \in matching |-> hits[i]] ELSE <<>>)
    /\ Goto("vector")

\* Bug: what the index gives is not filtered.
VectorUnfiltered ==
    /\ at = "vector"
    /\ IF ~asked.text THEN found' = [found EXCEPT !.vector = <<>>]
       ELSE \E top \in Best([i \in {j \in Ids : place[j] # "gone"} |-> near[i]], 3 * MaxResults) :
              found' = [found EXCEPT !.vector = Restrict(top,
                          {i \in DOMAIN top : place[i] \in {"active", "archived"}})]
    /\ Goto("recent")

\* The vector index is asked first, the entries are read and filtered then.
Vector ==
    /\ at = "vector"
    /\ IF ~asked.text THEN found' = [found EXCEPT !.vector = <<>>]
       ELSE \E top \in Best([i \in {j \in Ids : place[j] # "gone"} |-> near[i]], 3 * MaxResults) :
              found' = [found EXCEPT !.vector = Restrict(top,
                          {i \in DOMAIN top : place[i] \in {"active", "archived"} /\ Passes(i)})]
    /\ Goto("recent")

\* The newest scores best, the others follow in equal steps.
Recent ==
    /\ at = "recent"
    /\ LET passing == {i \in Ids : place[i] = "active" /\ Passes(i)}
       IN Find("recent", [i \in passing |-> Cardinality({j \in passing : j <= i})])
    /\ Goto("fuse")

\* A pool that changes while it is walked, and an embedder or an index that
\* fails: the stage is skipped, and nothing was found in any channel.
Raise ==
    /\ at \in {"keyword", "vector", "recent"}
    /\ at' = "idle"
    /\ found' = NoneFound
    /\ UNCHANGED <<memories, scores, asked, ranked, results, history>>

------------------------------------------------------------------------------
(* Fusion and the stages after it *)

\* In each channel the worst has none of the weight and the best all of it.
Normalized(channel, i) ==
    LET all == Range(found[channel])
        low == Min(all)  spread == Max(all) - low
    IN IF spread = 0 THEN 0 ELSE ((found[channel][i] - low) * Scale) \div spread

In(i) == {c \in Channels : i \in DOMAIN found[c]}

\* Bug: it keeps the worst.
FusedWorst(i) == Min({Normalized(c, i) * Weight[c] : c \in In(i)})

\* WeightedSumFusion keeps the best weighted score of a memory.
Fused(i) == Max({Normalized(c, i) * Weight[c] : c \in In(i)})

Fuse ==
    /\ at = "fuse"
    /\ \E best \in Best([i \in {j \in Ids : In(j) # {}} |-> Fused(i)], 2 * MaxResults) :
         ranked' = [score |-> best, todo |-> DOMAIN best, entry |-> {}]
    /\ found' = NoneFound
    /\ at' = "rerank"
    /\ UNCHANGED <<memories, scores, asked, results, history>>

\* The reranker looks one candidate up; one in no pool keeps no score. What was
\* worst in its channels has almost none.
Rerank(i) ==
    /\ at = "rerank" /\ i \in ranked.todo
    /\ LET there == place[i] \in {"active", "archived"}
           relevance == IF ranked.score[i] = 0 THEN 1 ELSE 1000 * ranked.score[i]
       IN ranked' = [score |-> [ranked.score EXCEPT ![i] = IF there THEN relevance * worth[i] ELSE 0],
                     todo |-> ranked.todo \ {i},
                     entry |-> IF there THEN ranked.entry \cup {i} ELSE ranked.entry]
    /\ UNCHANGED <<memories, scores, at, asked, found, results, history>>

\* What the reranker did not find is let through.
Filter ==
    /\ at = "rerank" /\ ranked.todo = {}
    /\ ranked' = [ranked EXCEPT !.score = Restrict(@, {i \in DOMAIN @ :
                                             i \in ranked.entry => Passes(i)})]
    /\ at' = "format"
    /\ UNCHANGED <<memories, scores, asked, found, results, history>>

\* And looked up once more.
Format ==
    /\ at = "format"
    /\ \E best \in Best(ranked.score, MaxResults) :
         results' = [i \in DOMAIN best |->
                       [score |-> best[i],
                        known |-> i \in ranked.entry \/ place[i] \in {"active", "archived"}]]
    /\ ranked' = NoCandidates
    /\ at' = "idle"
    /\ UNCHANGED <<memories, scores, asked, found, history>>

Next ==
    \/ \E i \in Ids : TakeOut(i) \/ PutIn(i) \/ Change(i) \/ Rerank(i)
    \/ \E kinds \in SUBSET Kinds, text \in BOOLEAN : Ask(kinds, text)
    \/ Keyword \/ Vector \/ Recent \/ Raise \/ Fuse \/ Filter \/ Format

Spec == Init /\ [][Next]_vars

------------------------------------------------------------------------------
(* Properties *)

\* What comes back with its entry is of a kind the query asked for, unless an
\* update changed it meanwhile - also when it was between two pools while the
\* reranker looked for it, so that the filter let it through.
ResultsOfKind ==
    at = "idle" =>
      \A i \in DOMAIN results : results[i].known /\ i \notin changed => Passes(i)

AtLeastAsGood(i, j) == hits[i] >= hits[j] /\ near[i] >= near[j] /\ worth[i] >= worth[j]

\* A memory that is newer, matches at least as well in every channel and is worth
\* as much never comes after another, of those that stayed where they are
\* (hybrid.py and ranker.py: the scores are normalized, weighted and multiplied).
BetterIsBefore ==
    at = "idle" =>
      \A i, j \in DOMAIN results \ (moved \cup changed) :
        (i > j /\ place[i] = "active" /\ AtLeastAsGood(i, j))
          => results[i].score >= results[j].score

\* retriever.py:166 "recent context is never lost": an active
\* memory is found when there is room for all.
RecentNeverLost ==
    (at = "idle" /\ queries > 0 /\ moved = {} /\ Cardinality(Ids) <= MaxResults) =>
      \A i \in Ids : (place[i] = "active" /\ Passes(i) /\ i \notin changed) => i \in DOMAIN results

\* hybrid.py:32 "Normalize per-channel scores, apply weights, merge duplicates":
\* the only memory that has the word is before one that is only newer.
OnlyHitIsBefore ==
    (at = "idle" /\ moved \cup changed = {} /\ asked.text) =>
      \A i, j \in DOMAIN results :
        ({k \in Ids : hits[k] > 0} = {i} /\ place[i] = "active" /\ i # j
           /\ near[i] >= near[j] /\ worth[i] >= worth[j])
          => results[i].score >= results[j].score

\* A result is an active memory.
ResultsAreActive ==
    (at = "idle" /\ moved = {}) => \A i \in DOMAIN results : place[i] = "active"

==============================================================================
