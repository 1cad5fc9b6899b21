----------------------------- MODULE UpkeepProofs -----------------------------
(* What TLAPS proves of Upkeep for any number of memories, types, groups and   *)
(* cycles: the relations that the compressor makes survive the garbage         *)
(* collector, and parents and children go on agreeing, whatever the main       *)
(* thread moves, purges and creates between two steps of a cycle.  And of      *)
(* Importance, the instance Scores of MCUpkeep, that accesses count once.      *)

EXTENDS MCUpkeep, TLAPS

\* The types, and what is there or was there.
Born(i) == place[i] # "none"

GraphTypes ==
    /\ place \in [Ids -> {"none", "active", "archived", "deleted", "purged"}]
    /\ related \in [Ids -> SUBSET Ids]
    /\ parent \in [Ids -> Ids \cup {None}]
    /\ children \in [Ids -> SUBSET Ids]
    /\ derived \subseteq Ids \X Ids

\* What is not there yet has no relations, and no summary either.
UnbornAlone ==
    /\ \A i, j \in Ids : ~Born(i) =>
          parent[i] = None /\ children[i] = {} /\ parent[j] # i /\ i \notin children[j]
    /\ \A p \in derived : Born(p[1]) /\ Born(p[2])
    /\ at = "compress" /\ todo # {} => summary \in Ids /\ Born(summary)

\* The collector goes by a list it made at the beginning: what it does not know
\* was created since, and nobody's parent, child or original.
KnowsAll ==
    at = "clean" =>
        /\ \A p \in derived : place[p[1]] = "purged" \/ p[1] \in known
        /\ \A i \in Existing \ known : parent[i] = None /\ children[i] = {}

\* The inductive invariant.
GraphInv == GraphTypes /\ UnbornAlone /\ KnowsAll /\ SummariesCover /\ FamiliesAgree

------------------------------------------------------------------------------
\* A move from one pool to another touches no relation.
LEMMA MovesKeep ==
    ASSUME None \notin Ids, GraphInv, NEW i \in Ids, Born(i),
           NEW pool \in {"active", "archived", "deleted", "purged"},
           place' = [place EXCEPT ![i] = pool],
           place[i] # "purged",
           UNCHANGED <<graph, at, todo, summary, known, derived>>
    PROVE  GraphInv'
  BY DEF GraphInv, GraphTypes, UnbornAlone, KnowsAll, SummariesCover, FamiliesAgree, Existing,
         Born, graph

\* Neither does a step that leaves the pools alone.
LEMMA RestKeeps ==
    ASSUME None \notin Ids, GraphInv, UNCHANGED <<place, graph, derived>>,
           at' # "clean" \/ (at = "clean" /\ known' = known),
           at' # "compress" \/ todo' = {} \/ UNCHANGED <<at, todo, summary>>
    PROVE  GraphInv'
  BY DEF GraphInv, GraphTypes, UnbornAlone, KnowsAll, SummariesCover, FamiliesAgree, Existing,
         Born, graph

\* A relation that is added, to what is there.
LEMMA LinksKeep ==
    ASSUME None \notin Ids, GraphInv, NEW i \in Ids, NEW j \in Ids, Link(i, j)
    PROVE  GraphInv'
  BY DEF Link, Stay, worker, GraphInv, GraphTypes, UnbornAlone, KnowsAll, SummariesCover, FamiliesAgree, Existing,
         Born, graph

\* What the reflection makes is new: nobody knows it.
LEMMA LearnKeeps ==
    ASSUME None \notin Ids, GraphInv, NEW i \in Ids, NEW j \in Ids, Learn(i, j)
    PROVE  GraphInv'
  BY DEF Learn, worker, GraphInv, GraphTypes, UnbornAlone, KnowsAll, SummariesCover, FamiliesAgree, Existing,
         Born, graph

\* The summary is new too, and the next memories of the loop are its originals.
LEMMA CompressKeeps ==
    ASSUME None \notin Ids, GraphInv, Compress
    PROVE  GraphInv'
<1>1. PICK s \in New : place[s] = "none" /\ place' = [place EXCEPT ![s] = "active"] /\ summary' = s
  BY DEF Compress
<1>2. s \in Ids /\ at = "compress" /\ UNCHANGED <<graph, at, known, derived>>
  BY DEF Compress, Ids
<1> QED
  BY <1>1, <1>2 DEF GraphInv, GraphTypes, UnbornAlone, KnowsAll, SummariesCover, FamiliesAgree, Existing,
         Born, graph

\* memory/lifecycle/compressor.py: the relation is there before the original goes.
LEMMA ReplaceKeeps ==
    ASSUME None \notin Ids, GraphInv, NEW i \in Ids, Replace(i)
    PROVE  GraphInv'
<1>1. /\ at = "compress" /\ i \in todo /\ summary \in Ids /\ Born(summary)
      /\ related' = [related EXCEPT ![summary] = @ \cup {i}]
      /\ UNCHANGED <<parent, children, at, known>>
      /\ todo' = todo \ {i}
      /\ summary' = IF todo = {i} THEN None ELSE summary
  BY DEF Replace, GraphInv, UnbornAlone
<1>2. CASE place[i] = "active"
  <2>1. place' = [place EXCEPT ![i] = "archived"] /\ derived' = derived \cup {<<i, summary>>}
    BY <1>2 DEF Replace, Move
  <2> QED
    BY <1>1, <1>2, <2>1 DEF GraphInv, GraphTypes, UnbornAlone, KnowsAll, SummariesCover, FamiliesAgree, Existing,
         Born, graph
<1>3. CASE place[i] # "active"
  <2>1. UNCHANGED <<place, derived>>
    BY <1>3 DEF Replace, Stay
  <2> QED
    BY <1>1, <1>3, <2>1 DEF GraphInv, GraphTypes, UnbornAlone, KnowsAll, SummariesCover, FamiliesAgree, Existing,
         Born, graph
<1> QED
  BY <1>2, <1>3

\* memory/lifecycle/gc.py: what is dropped leads to what is not there, or to
\* nothing that anybody relates to.
LEMMA CleanKeeps ==
    ASSUME None \notin Ids, GraphInv, NEW i \in Ids, Clean(i)
    PROVE  GraphInv'
  BY DEF Clean, Stay, Rest, GraphInv, GraphTypes, UnbornAlone, KnowsAll, SummariesCover, FamiliesAgree, Existing,
         Born, graph

\* The second half of the collector: a parent that is archived or gone is given
\* up, on both sides.
LEMMA ValidateKeeps ==
    ASSUME None \notin Ids, GraphInv, NEW i \in Ids, Validate(i)
    PROVE  GraphInv'
<1> DEFINE p == parent[i]
<1>1. /\ parent' = [parent EXCEPT ![i] =
                      IF p # None /\ (p \notin Existing \/ state[p] = "archived") THEN None ELSE p]
      /\ children' = IF p \in Existing /\ state[p] = "archived"
                     THEN [children EXCEPT ![p] = @ \ {i}] ELSE children
      /\ at = "validate" /\ UNCHANGED <<place, related, at, derived>>
  BY DEF Validate, Stay
<1>2. p \in Ids \cup {None}
  BY DEF GraphInv, GraphTypes
<1> HIDE DEF p
<1>3. p = parent[i]
  BY DEF p
<1>4. CASE p \in Existing /\ state[p] = "archived"
  <2>1. parent' = [parent EXCEPT ![i] = None] /\ children' = [children EXCEPT ![p] = @ \ {i}] /\ p \in Ids
    BY <1>1, <1>4 DEF Existing
  <2> QED
    BY <1>1, <1>3, <2>1 DEF GraphInv, GraphTypes, UnbornAlone, KnowsAll, SummariesCover, FamiliesAgree, Existing,
         Born, graph
<1>5. CASE p # None /\ p \notin Existing
  <2>1. parent' = [parent EXCEPT ![i] = None] /\ children' = children
    BY <1>1, <1>5
  <2> QED
    BY <1>1, <1>3, <1>5, <2>1 DEF GraphInv, GraphTypes, UnbornAlone, KnowsAll, SummariesCover, FamiliesAgree, Existing,
         Born, graph
<1>6. CASE p = None \/ (p \in Existing /\ state[p] # "archived")
  <2>1. parent' = parent /\ children' = children
    BY <1>1, <1>3, <1>6 DEF Existing, GraphInv, GraphTypes
  <2> QED
    BY <1>1, <2>1 DEF GraphInv, GraphTypes, UnbornAlone, KnowsAll, SummariesCover, FamiliesAgree, Existing,
         Born, graph
<1> QED
  BY <1>2, <1>4, <1>5, <1>6

------------------------------------------------------------------------------
\* Every step of the worker and of the main thread.
LEMMA GraphStep ==
    ASSUME None \notin Ids, GraphInv, [Next]_vars
    PROVE  GraphInv'
<1>1. ASSUME NEW i \in Ids, Archive(i) \/ Delete(i) \/ Restore(i) \/ Purge(i) PROVE GraphInv'
  BY <1>1, MovesKeep DEF Archive, Delete, Restore, Purge, Move, ByClient, worker, Born
<1>2. ASSUME NEW i \in Ids, Aging(i) PROVE GraphInv'
  BY <1>2, RestKeeps DEF Aging, Stay, worker
<1>3. CASE Start \/ Stop \/ Wake \/ ArchiveBegin \/ Group \/ Noticed \/ ValidateBegin \/ EndCycle
  BY <1>3, RestKeeps DEF Start, Stop, Wake, ArchiveBegin, Group, Noticed, Fail, ValidateBegin,
                         EndCycle, Stay, Loop, worker, graph
<1>4. CASE CleanBegin
  <2>1. /\ known' = Existing /\ at' = "clean"
        /\ UNCHANGED <<place, graph, derived>>
    BY <1>4 DEF CleanBegin, Loop, Stay
  <2> QED
    BY <2>1 DEF GraphInv, GraphTypes, UnbornAlone, KnowsAll, SummariesCover, FamiliesAgree, Existing,
         Born, graph
<1>5. ASSUME NEW i \in Ids, Evaluate(i) PROVE GraphInv'
  <2>1. at = "evaluate" /\ UNCHANGED <<graph, at, summary, known, derived>>
    BY <1>5 DEF Evaluate
  <2>2. (place[i] = "active" /\ place' = [place EXCEPT ![i] = "archived"]) \/ UNCHANGED place
    BY <1>5 DEF Evaluate, Move, Stay
  <2> QED
    BY <2>1, <2>2 DEF GraphInv, GraphTypes, UnbornAlone, KnowsAll, SummariesCover, FamiliesAgree, Existing,
         Born, graph
<1>6. ASSUME NEW i \in Ids, ArchiveOld(i) PROVE GraphInv'
  <2>1. at' \in {"archive", "sleep"} /\ UNCHANGED <<graph, derived>>
    BY <1>6 DEF ArchiveOld, Fail
  <2>2. (place[i] = "active" /\ place' = [place EXCEPT ![i] = "archived"]) \/ UNCHANGED place
    BY <1>6 DEF ArchiveOld, Move, Stay
  <2> QED
    BY <2>1, <2>2 DEF GraphInv, GraphTypes, UnbornAlone, KnowsAll, SummariesCover, FamiliesAgree, Existing,
         Born, graph
<1>7. CASE UNCHANGED vars
  BY <1>7, RestKeeps DEF vars, worker
<1> QED
  BY <1>1, <1>2, <1>3, <1>4, <1>5, <1>6, <1>7, LinksKeep, LearnKeeps, CompressKeeps,
     ReplaceKeeps, CleanKeeps, ValidateKeeps DEF Next, WorkerStep, ClientStep

\* No relations at the start.
LEMMA GraphInit ==
    ASSUME None \notin Ids, Init
    PROVE  GraphInv
  BY DEF Init, Ids, GraphInv, GraphTypes, UnbornAlone, KnowsAll, SummariesCover, FamiliesAgree, Existing,
         Born, graph

\* A memory that a summary took the place of is named by the summary, as long as
\* both exist (MemoryCompressor, GarbageCollector).
THEOREM SummariesCoverAlways ==
    ASSUME None \notin Ids
    PROVE  Spec => []SummariesCover
<1>1. Init => GraphInv
  BY GraphInit
<1>2. GraphInv /\ [Next]_vars => GraphInv'
  BY GraphStep
<1>3. GraphInv => SummariesCover
  BY DEF GraphInv
<1> QED
  BY <1>1, <1>2, <1>3, PTL DEF Spec

\* Parents and children agree (GarbageCollector._validate_broken_refs).
THEOREM FamiliesAgreeAlways ==
    ASSUME None \notin Ids
    PROVE  Spec => []FamiliesAgree
<1>1. Init => GraphInv
  BY GraphInit
<1>2. GraphInv /\ [Next]_vars => GraphInv'
  BY GraphStep
<1>3. GraphInv => FamiliesAgree
  BY DEF GraphInv
<1> QED
  BY <1>1, <1>2, <1>3, PTL DEF Spec

------------------------------------------------------------------------------
\* The importance engine listens once with each component while it runs, and not
\* at all when it does not: then every access that is sent while it runs counts
\* once.
ScoresInv ==
    setting = "scores" =>
        /\ started \in BOOLEAN
        /\ handles = IF started THEN Scores!Components ELSE {}
        /\ listeners = [c \in Scores!Components |-> IF started THEN 1 ELSE 0]
        /\ DOMAIN frequency = Memories /\ DOMAIN sent = Memories
        /\ AccessesCounted

\* Starting adds a listener of each component that has none, stopping removes it.
LEMMA StartStopKeep ==
    ASSUME setting = "scores", setting' = setting, ScoresInv, Scores!Start \/ Scores!Stop
    PROVE  ScoresInv'
<1> USE DEF ScoresInv, AccessesCounted, Scores!AccessesCounted, Scores!notes
<1>1. CASE Scores!Start
  <2>1. handles = {} /\ listeners = [c \in Scores!Components |-> 0]
    BY <1>1 DEF Scores!Start
  <2>2. listeners' = [c \in Scores!Components |-> 1]
    BY <1>1, <2>1 DEF Scores!Start
  <2> QED
    BY <1>1, <2>2 DEF Scores!Start
<1>2. CASE Scores!Stop
  <2>1. handles = Scores!Components /\ listeners = [c \in Scores!Components |-> 1]
    BY <1>2 DEF Scores!Stop
  <2>2. listeners' = [c \in Scores!Components |-> 0]
    BY <1>2, <2>1 DEF Scores!Stop, Scores!Unsubscribed
  <2> QED
    BY <1>2, <2>2 DEF Scores!Stop, Scores!scores
<1> QED
  BY <1>1, <1>2

\* An event counts as often as the tracker listens.
LEMMA DeliverKeeps ==
    ASSUME setting = "scores", setting' = setting, ScoresInv, Scores!Deliver
    PROVE  ScoresInv'
<1> DEFINE i == Head(batch)
<1>1. /\ frequency' = [frequency EXCEPT ![i] = @ + listeners["tracker"]]
      /\ sent' = [sent EXCEPT ![i] = @ + IF started THEN 1 ELSE 0]
      /\ UNCHANGED <<listeners, handles, started>>
  BY DEF Scores!Deliver, Scores!subs
<1>2. listeners["tracker"] = IF started THEN 1 ELSE 0
  BY DEF ScoresInv, Scores!Components
<1> QED
  BY <1>1, <1>2 DEF ScoresInv, AccessesCounted, Scores!AccessesCounted

\* No other step touches the listeners or the counts.
LEMMA OthersKeep ==
    ASSUME setting = "scores", setting' = setting, ScoresInv,
           UNCHANGED <<listeners, handles, started, frequency, sent>>
    PROVE  ScoresInv'
  BY DEF ScoresInv, AccessesCounted, Scores!AccessesCounted

\* Each step of the importance engine.
LEMMA ScoresStep ==
    ASSUME setting = "scores", setting' = setting, ScoresInv, Scores!Next
    PROVE  ScoresInv'
<1> USE DEF Scores!subs, Scores!notes, Scores!scores
<1>1. ASSUME NEW i \in Memories, NEW level \in {0, 2, 3},
             Scores!Create(i, level) \/ Scores!Update(i, level)
      PROVE  ScoresInv'
  BY <1>1, OthersKeep DEF Scores!Create, Scores!Update
<1>2. ASSUME NEW i \in Memories, NEW rating, Scores!Feedback(i, rating)
      PROVE  ScoresInv'
  BY <1>2, OthersKeep DEF Scores!Feedback
<1>3. ASSUME NEW results, Scores!Retrieve(results)
      PROVE  ScoresInv'
  BY <1>3, OthersKeep DEF Scores!Retrieve
<1>4. ASSUME NEW i \in Memories, NEW to, Scores!Pool(i, to)
      PROVE  ScoresInv'
  BY <1>4, OthersKeep DEF Scores!Pool
<1>5. CASE Scores!DecayAll \/ Scores!Tick
  BY <1>5, OthersKeep DEF Scores!DecayAll, Scores!Tick
<1> QED
  BY <1>1, <1>2, <1>3, <1>4, <1>5, StartStopKeep, DeliverKeeps, Zenon DEF Scores!Next

\* Any memories, base levels, policies and times: an access counts once for each
\* retrieval that sends it while the engine runs, however often the engine was
\* stopped and started before (engine.py, tracking.py, events.py).
THEOREM AccessesCountedAlways == MCSpec => []AccessesCounted
<1>1. MCInit => ScoresInv
  BY DEF MCInit, ScoresInv, AccessesCounted, Scores!AccessesCounted, Scores!Init
<1>2. ScoresInv /\ [MCNext]_MCVars => ScoresInv'
  <2> SUFFICES ASSUME ScoresInv, [MCNext]_MCVars
               PROVE  ScoresInv'
    OBVIOUS
  <2>1. CASE setting = "scores" /\ setting' = setting /\ Scores!Next
    BY <2>1, ScoresStep
  <2>2. CASE setting' = setting /\ UNCHANGED scoreVars
    BY <2>2 DEF scoreVars, ScoresInv, AccessesCounted, Scores!AccessesCounted
  <2> QED
    BY <2>1, <2>2 DEF MCNext, MCVars
<1>3. ScoresInv => AccessesCounted
  BY DEF ScoresInv, AccessesCounted
<1> QED
  BY <1>1, <1>2, <1>3, PTL DEF MCSpec
===============================================================================
