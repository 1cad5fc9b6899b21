----------------------- MODULE ContextCompressionProofs -----------------------
(* What TLAPS proves of ContextCompression for every budget, window and       *)
(* length of conversation: when compression starts, what a fused circuit      *)
(* breaker prevents, and that cutting leaves results behind their calls.      *)

EXTENDS ContextCompression, FiniteSetTheorems, SequenceTheorems, WellFoundedInduction, TLAPS

------------------------------------------------------------------------------
(* The trigger *)

\* The counter of OverBudgetRule never falls behind the ticks spent waiting,
\* as long as the conversation's report is the only one.
CounterKeepsUp ==
    /\ waited \in Nat
    /\ counter \in Nat
    /\ waited <= counter
    /\ counter < MinConsecutive

\* The actions that are no tick leave the trigger alone.
LEMMA OnlyTicksCount ==
    ASSUME [Next]_vars, ~Tick
    PROVE  UNCHANGED <<waited, counter>>
<1>1. CASE Elapse
  BY <1>1 DEF Elapse, memoryVars, losses
<1>2. CASE Prompt
  BY <1>2 DEF Prompt
<1>3. CASE Compact
  BY <1>3 DEF Compact
<1>4. CASE Drain
  BY <1>4 DEF Drain
<1>5. CASE CallLLM
  BY <1>5 DEF CallLLM
<1>6. CASE Tier1
  BY <1>6 DEF Tier1
<1>7. CASE Tier2
  BY <1>7 DEF Tier2, SkipTier
<1>8. CASE Tier3
  BY <1>8 DEF Tier3, SkipTier
<1>9. CASE LegacyTick
  BY <1>9 DEF LegacyTick
<1>10. CASE UNCHANGED vars
  BY <1>10 DEF vars, losses
<1> QED
  BY <1>1, <1>2, <1>3, <1>4, <1>5, <1>6, <1>7, <1>8, <1>9, <1>10 DEF Next

\* policy.py, OverBudgetRule: a conversation over budget min_consecutive times
\* in a row is compressed - provided no other layer has a budget report before it.
THEOREM ActsWhenAlone ==
    ASSUME LayersBefore = 0
    PROVE  Spec => []ActsWhenOver
<1>1. Init => CounterKeepsUp
  BY CompressionConstants DEF Init, CounterKeepsUp
<1>2. CounterKeepsUp /\ [Next]_vars => CounterKeepsUp'
  <2> SUFFICES ASSUME CounterKeepsUp, [Next]_vars
               PROVE  CounterKeepsUp'
    OBVIOUS
  <2>1. CASE Tick
    <3>1. Counted = counter + 1
      BY DEF Counted, CounterKeepsUp
    <3>2. /\ counter' = IF Matches \/ ~OverBudget THEN 0 ELSE Counted
          /\ waited' = IF OverBudget /\ ~Matches THEN waited + 1 ELSE 0
      BY <2>1 DEF Tick, Evaluate
    <3> QED
      BY <3>1, <3>2, CompressionConstants DEF CounterKeepsUp, Matches
  <2>2. CASE ~Tick
    BY <2>2, OnlyTicksCount DEF CounterKeepsUp
  <2> QED
    BY <2>1, <2>2
<1>3. CounterKeepsUp => ActsWhenOver
  BY CompressionConstants DEF CounterKeepsUp, ActsWhenOver
<1> QED
  BY <1>1, <1>2, <1>3, PTL DEF Spec

\* The loop is in no tier, and not on the way back from one.
TiersUnreached == pc \notin {"tier1", "tier2", "tier3"} /\ back \in {"repl", "drain"}

\* As main.py wires it the rule asks for two reports in a row and the
\* instruction layer reports before the conversation: no tier is ever reached,
\* however large the conversation grows.
THEOREM NeverCompresses ==
    ASSUME LayersBefore > 0, MinConsecutive > 1
    PROVE  Spec => []TiersUnreached
<1>1. Init => TiersUnreached
  BY DEF Init, TiersUnreached
<1>2. TiersUnreached /\ [Next]_vars => TiersUnreached'
  <2> SUFFICES ASSUME TiersUnreached, [Next]_vars
               PROVE  TiersUnreached'
    OBVIOUS
  <2>1. CASE Elapse
    BY <2>1 DEF Elapse, TiersUnreached
  <2>2. CASE Prompt
    BY <2>2 DEF Prompt, TiersUnreached
  <2>3. CASE Compact
    BY <2>3 DEF Compact, TiersUnreached
  <2>4. CASE Drain
    BY <2>4 DEF Drain, TiersUnreached
  <2>5. CASE CallLLM
    BY <2>5 DEF CallLLM, TiersUnreached
  <2>6. CASE Tick
    <3>1. ~Matches
      BY CompressionConstants DEF Matches, Counted
    <3>2. pc' = back /\ back' = back
      BY <2>6, <3>1 DEF Tick
    <3> QED
      BY <3>2 DEF TiersUnreached
  <2>7. CASE LegacyTick
    BY <2>7 DEF LegacyTick, LegacyCollapse, LegacyCompact, TiersUnreached
  <2>8. CASE Tier1 \/ Tier2 \/ Tier3
    BY <2>8 DEF Tier1, Tier2, Tier3, TiersUnreached
  <2>9. CASE UNCHANGED vars
    BY <2>9 DEF vars, TiersUnreached
  <2> QED
    BY <2>1, <2>2, <2>3, <2>4, <2>5, <2>6, <2>7, <2>8, <2>9 DEF Next
<1> QED
  BY <1>1, <1>2, PTL DEF Spec

------------------------------------------------------------------------------
(* The circuit breaker *)

\* The part of the type invariant that says when the breaker fuses.
BreakerCounts ==
    /\ breaker \in {"closed", "open", "half"}
    /\ failures \in 0..MaxFailures
    /\ breaker = "closed" => failures < MaxFailures

\* Min of the community modules on two numbers.
LEMMA MinOfTwo ==
    ASSUME NEW a \in Int, NEW b \in Int
    PROVE  Min({a, b}) = IF a <= b THEN a ELSE b
<1> DEFINE m == IF a <= b THEN a ELSE b
           least(x) == x \in {a, b} /\ \A y \in {a, b} : x <= y
<1>1. least(m)
  OBVIOUS
<1>2. \A x : least(x) => x = m
  OBVIOUS
<1>3. Min({a, b}) = CHOOSE x : least(x)
  BY DEF Min
<1> HIDE DEF least, m
<1>4. least(CHOOSE x : least(x))
  BY <1>1
<1> QED
  BY <1>2, <1>3, <1>4 DEF m

\* However the tiers succeed and fail, a closed breaker has seen fewer than
\* max_failures failures in a row: record_failure opens it no later, and
\* record_success and reset never close it with failures left over.
THEOREM BreakerCountsAlways == Spec => []BreakerCounts
<1>1. Init => BreakerCounts
  BY CompressionConstants DEF Init, BreakerCounts
<1>2. ASSUME BreakerCounts, RecordFailure
      PROVE  BreakerCounts'
  <2>1. Min({failures + 1, MaxFailures}) =
          IF failures + 1 <= MaxFailures THEN failures + 1 ELSE MaxFailures
    BY <1>2, MinOfTwo, CompressionConstants DEF BreakerCounts
  <2>2. AfterCheck \in {"closed", "open", "half"} /\ (AfterCheck = "closed" => breaker = "closed")
    BY <1>2 DEF BreakerCounts, AfterCheck
  <2> QED
    BY <1>2, <2>1, <2>2, CompressionConstants DEF BreakerCounts, RecordFailure
<1>3. ASSUME BreakerCounts, RecordSuccess
      PROVE  BreakerCounts'
  BY <1>3, CompressionConstants DEF BreakerCounts, RecordSuccess
<1>4. ASSUME BreakerCounts, breaker' = AfterCheck, UNCHANGED failures
      PROVE  BreakerCounts'
  BY <1>4 DEF BreakerCounts, AfterCheck
<1>5. ASSUME BreakerCounts, UNCHANGED <<breaker, failures>>
      PROVE  BreakerCounts'
  BY <1>5 DEF BreakerCounts
<1>6. ASSUME BreakerCounts, breaker' = "closed", failures' = 0
      PROVE  BreakerCounts'
  BY <1>6, CompressionConstants DEF BreakerCounts
<1>7. ASSUME BreakerCounts, [Next]_vars
      PROVE  BreakerCounts'
  <2>1. CASE Elapse
    BY <1>5, <1>7, <2>1 DEF Elapse
  <2>2. CASE Prompt
    BY <1>5, <1>6, <1>7, <2>2, Zenon DEF Prompt
  <2>3. CASE Compact
    BY <1>6, <1>7, <2>3 DEF Compact
  <2>4. CASE Drain \/ CallLLM \/ Tick
    BY <1>5, <1>7, <2>4, Zenon DEF Drain, CallLLM, Tick, breakerVars
  <2>5. CASE Tier1
    BY <1>4, <1>7, <2>5 DEF Tier1
  <2>6. CASE Tier2
    BY <1>2, <1>3, <1>4, <1>7, <2>6, Zenon DEF Tier2, SkipTier
  <2>7. CASE Tier3
    BY <1>2, <1>3, <1>4, <1>7, <2>7, Zenon DEF Tier3, SkipTier
  <2>8. CASE LegacyTick
    BY <1>2, <1>3, <1>5, <1>7, <2>8, Zenon
       DEF LegacyTick, LegacyCollapse, LegacyCompact, breakerVars
  <2>9. CASE UNCHANGED vars
    BY <1>5, <1>7, <2>9 DEF vars, breakerVars
  <2> QED
    BY <1>7, <2>1, <2>2, <2>3, <2>4, <2>5, <2>6, <2>7, <2>8, <2>9 DEF Next
<1> QED
  BY <1>1, <1>7, PTL DEF Spec

\* Between a failure and the timeout the fused breaker keeps Tiers 2 and 3 from
\* touching the conversation and the summary (circuit_breaker.py, stages.py).
THEOREM FusedLeavesRoundsAlways == Spec => FusedLeavesRounds
<1>1. ASSUME [Next]_vars, breaker = "open", age < ResetTimeout, pc \in {"tier2", "tier3"}
      PROVE  UNCHANGED <<conv, summary>>
  <2>1. IsOpen
    <3>1. age # ResetTimeout
      BY <1>1, CompressionConstants
    <3> QED
      BY <1>1, <3>1 DEF IsOpen, TimedOut
  <2>2. CASE Tier2
    BY <2>1, <2>2, Zenon DEF Tier2, SkipTier, memoryVars, losses
  <2>3. CASE Tier3
    BY <2>1, <2>3, Zenon DEF Tier3, SkipTier, memoryVars, losses
  <2>4. CASE Elapse
    BY <2>4 DEF Elapse, memoryVars, losses
  <2>5. CASE Prompt \/ Compact \/ Drain \/ CallLLM \/ Tick \/ Tier1 \/ LegacyTick
    BY <1>1, <2>5 DEF Prompt, Compact, Drain, CallLLM, Tick, Tier1, LegacyTick
  <2>6. CASE UNCHANGED vars
    BY <2>6 DEF vars, memoryVars, losses
  <2> QED
    BY <1>1, <2>2, <2>3, <2>4, <2>5, <2>6 DEF Next
<1> QED
  BY <1>1, PTL DEF Spec, FusedLeavesRounds


------------------------------------------------------------------------------
(* Rounds *)

IsAnswer(m) == m.kind \in {"result", "cleared"}

\* Every answer of s stands behind its calls; one at the front only if c.
Whole(s, c) ==
    \A n \in DOMAIN s : IsAnswer(s[n]) =>
        IF n = 1 THEN c ELSE s[n - 1].kind = "call"

\* A message as the fields of Msg say it.
LEMMA MsgKind ==
    ASSUME NEW k, NEW w, NEW a
    PROVE  Msg(k, w, a).kind = k
  BY DEF Msg

\* Two whole pieces put together are whole, when the second starts with no answer.
LEMMA WholeConcat ==
    ASSUME NEW S, NEW s \in Seq(S), NEW t \in Seq(S), NEW c,
           Whole(s, c), Whole(t, FALSE)
    PROVE  s \o t \in Seq(S) /\ Whole(s \o t, c)
<1>1. /\ s \o t \in Seq(S)
      /\ Len(s \o t) = Len(s) + Len(t)
      /\ \A i \in 1 .. Len(s) + Len(t) :
            (s \o t)[i] = IF i <= Len(s) THEN s[i] ELSE t[i - Len(s)]
  BY ConcatProperties
<1>2. Len(s) \in Nat /\ Len(t) \in Nat /\ DOMAIN s = 1 .. Len(s) /\ DOMAIN t = 1 .. Len(t)
  OBVIOUS
<1>3. DOMAIN (s \o t) = 1 .. Len(s) + Len(t)
  BY <1>1
<1>4. SUFFICES ASSUME NEW n \in 1 .. Len(s) + Len(t), IsAnswer((s \o t)[n])
               PROVE  IF n = 1 THEN c ELSE (s \o t)[n - 1].kind = "call"
  BY <1>1, <1>3 DEF Whole
<1>5. CASE n <= Len(s)
  <2>1. n \in DOMAIN s /\ (s \o t)[n] = s[n]
    BY <1>1, <1>2, <1>5
  <2>2. IF n = 1 THEN c ELSE s[n - 1].kind = "call"
    BY <1>4, <2>1 DEF Whole
  <2>3. n # 1 => (s \o t)[n - 1] = s[n - 1]
    BY <1>1, <1>2, <1>5
  <2> QED
    BY <2>2, <2>3
<1>6. CASE n > Len(s)
  <2> DEFINE k == n - Len(s)
  <2>1. k \in DOMAIN t /\ (s \o t)[n] = t[k]
    BY <1>1, <1>2, <1>6
  <2>2. k # 1 /\ t[k - 1].kind = "call"
    BY <1>4, <2>1 DEF Whole
  <2>3. n # 1 /\ (s \o t)[n - 1] = t[k - 1]
    <3>1. n - 1 \in 1 .. Len(s) + Len(t) /\ ~(n - 1 <= Len(s)) /\ n - 1 - Len(s) = k - 1
      BY <1>2, <1>6, <2>1, <2>2
    <3> QED
      BY <1>1, <1>2, <3>1
  <2> QED
    BY <2>2, <2>3
<1> QED
  BY <1>2, <1>5, <1>6

\* A piece of a whole sequence is whole but for the answer it may start with.
LEMMA WholePiece ==
    ASSUME NEW S, NEW s \in Seq(S), NEW c, Whole(s, c),
           NEW a \in 1 .. Len(s) + 1, NEW b \in 0 .. Len(s), NEW d \in BOOLEAN,
           a = 1 /\ c => d,
           a > 1 /\ a <= b /\ IsAnswer(s[a]) => d
    PROVE  SubSeq(s, a, b) \in Seq(S) /\ Whole(SubSeq(s, a, b), d)
<1> DEFINE p == SubSeq(s, a, b)
<1>1. \A i \in a .. b : s[i] \in S
  OBVIOUS
<1>2. /\ p \in Seq(S)
      /\ Len(p) = IF a <= b THEN b - a + 1 ELSE 0
      /\ \A i \in 1 .. b - a + 1 : p[i] = s[a + i - 1]
  BY <1>1, SubSeqProperties
<1> HIDE DEF p
<1>3. Len(s) \in Nat /\ DOMAIN s = 1 .. Len(s) /\ a \in Int /\ b \in Int
  OBVIOUS
<1>4. SUFFICES ASSUME NEW n \in DOMAIN p, IsAnswer(p[n])
               PROVE  IF n = 1 THEN d ELSE p[n - 1].kind = "call"
  BY <1>2 DEF Whole, p
<1>5. n \in 1 .. b - a + 1
  BY <1>2, <1>3
<1>6. a + n - 1 \in DOMAIN s /\ p[n] = s[a + n - 1]
  BY <1>2, <1>3, <1>5
<1>7. IF a + n - 1 = 1 THEN c ELSE s[a + n - 2].kind = "call"
  <2>1. (a + n - 1) - 1 = a + n - 2
    BY <1>3, <1>5
  <2> QED
    BY <1>4, <1>6, <2>1 DEF Whole
<1>8. CASE n = 1
  <2>1. a + n - 1 = a /\ a <= b
    BY <1>3, <1>5, <1>8
  <2>2. a > 1 \/ a = 1
    OBVIOUS
  <2> QED
    BY <1>4, <1>6, <1>7, <1>8, <2>1, <2>2
<1>9. CASE n # 1
  <2>1. n - 1 \in 1 .. b - a + 1 /\ a + (n - 1) - 1 = a + n - 2 /\ a + n - 1 # 1
    BY <1>3, <1>5, <1>9
  <2>2. p[n - 1] = s[a + n - 2]
    BY <1>2, <2>1
  <2> QED
    BY <1>7, <1>9, <2>1, <2>2
<1> QED
  BY <1>8, <1>9

\* A longer list of kinds of messages is a sequence of them too.
LEMMA SeqGrows ==
    ASSUME NEW S, NEW T, S \subseteq T, NEW s \in Seq(S)
    PROVE  s \in Seq(T)
  OBVIOUS

\* Tier 1 makes of an answer an answer, and leaves the calls.
LEMMA WholeCleared ==
    ASSUME NEW S, NEW s \in Seq(S), NEW c, Whole(s, c)
    PROVE  (\E T : Cleared(s) \in Seq(T)) /\ Whole(Cleared(s), c)
<1> DEFINE results == {n \in DOMAIN s : s[n].kind \in {"result", "cleared"}}
           later(n) == Cardinality({m \in results : m > n})
           new(n) == IF n \in results /\ later(n) >= KeepRecent /\ s[n].w > 1
                     THEN Msg("cleared", 1, s[n].about) ELSE s[n]
<1>1. DOMAIN s = 1 .. Len(s) /\ Len(s) \in Nat
  OBVIOUS
<1>2. \A n : new(n) = s[n] \/ (n \in results /\ new(n).kind = "cleared")
  BY MsgKind
<1>3. Cleared(s) = [n \in 1 .. Len(s) |-> new(n)]
  BY <1>1 DEF Cleared
<1>4. \A n \in DOMAIN s : n \in results <=> IsAnswer(s[n])
  BY DEF IsAnswer
<1> HIDE DEF results, new
<1>5. /\ Cleared(s) \in Seq({new(n) : n \in 1 .. Len(s)})
      /\ DOMAIN Cleared(s) = 1 .. Len(s)
      /\ \A n \in 1 .. Len(s) : Cleared(s)[n] = new(n)
  BY <1>1, <1>3
<1>6. ASSUME NEW n \in DOMAIN Cleared(s), IsAnswer(Cleared(s)[n])
      PROVE  IF n = 1 THEN c ELSE Cleared(s)[n - 1].kind = "call"
  <2>1. n \in DOMAIN s /\ IsAnswer(s[n])
    BY <1>1, <1>2, <1>4, <1>5, <1>6
  <2>2. IF n = 1 THEN c ELSE s[n - 1].kind = "call"
    BY <2>1 DEF Whole
  <2>3. ASSUME n # 1
        PROVE  Cleared(s)[n - 1].kind = "call"
    <3>1. n - 1 \in DOMAIN s /\ s[n - 1].kind = "call"
      BY <1>1, <2>1, <2>2, <2>3
    <3>2. n - 1 \notin results
      BY <1>4, <3>1 DEF IsAnswer
    <3>3. Cleared(s)[n - 1] = s[n - 1]
      BY <1>1, <1>2, <1>5, <3>1, <3>2
    <3> QED
      BY <3>1, <3>3
  <2> QED
    BY <2>2, <2>3
<1>7. Whole(Cleared(s), c)
  BY <1>6 DEF Whole
<1> QED
  BY <1>5, <1>7

\* A bounded set that is not empty has a greatest element: its least bound.
LEMMA HasGreatest ==
    ASSUME NEW n \in Nat, NEW S \in SUBSET (0 .. n), S # {}
    PROVE  \E m \in S : \A k \in S : k <= m
<1> DEFINE Bounds == {u \in Nat : \A k \in S : k <= u}
           Less == {p \in Nat \X Nat : p[1] < p[2]}
<1>1. n \in Bounds /\ \A k \in S : k \in Nat
  OBVIOUS
<1>2. PICK m \in Bounds : \A u \in Bounds : <<u, m>> \notin Less
  <2>1. IsWellFoundedOn(Less, Nat)
    BY NatLessThanWellFounded DEF Less, OpToRel
  <2> HIDE DEF Less
  <2> QED
    BY <1>1, <2>1, WFMin
<1>3. m \in Nat /\ \A k \in S : k <= m
  BY <1>2
<1>4. m \in S
  <2> SUFFICES ASSUME m \notin S PROVE FALSE
    OBVIOUS
  <2>1. \A k \in S : k <= m - 1
    BY <1>1, <1>3
  <2>2. m - 1 \in Nat
    <3>1. PICK k \in S : TRUE
      OBVIOUS
    <3> QED
      BY <1>1, <1>3, <2>1, <3>1
  <2>3. m - 1 \in Bounds /\ <<m - 1, m>> \in Less
    BY <1>3, <2>1, <2>2
  <2> QED
    BY <1>2, <2>3
<1> QED
  BY <1>3, <1>4

\* The least element of a set of ids.
LEMMA HasLeast ==
    ASSUME NEW S \in SUBSET Nat, S # {}
    PROVE  \E m \in S : \A k \in S : m <= k
<1> DEFINE Less == {p \in Nat \X Nat : p[1] < p[2]}
<1>1. PICK m \in S : \A k \in S : <<k, m>> \notin Less
  <2> HIDE DEF Less
  <2>1. IsWellFoundedOn(Less, Nat)
    BY NatLessThanWellFounded DEF Less, OpToRel
  <2> QED
    BY <2>1, WFMin
<1>2. \A k \in S : ~(k < m)
  BY <1>1
<1> QED
  BY <1>2

\* The k-th element of a bounded set of indexes: as many elements as k are no
\* greater.
LEMMA HasRank ==
    ASSUME NEW N \in Nat, NEW S \in SUBSET (1 .. N), NEW k \in 1 .. Cardinality(S)
    PROVE  \E n \in S : Cardinality({m \in S : m <= n}) = k
<1> DEFINE upTo(n) == {m \in S : m <= n}
           High    == {n \in S : k <= Cardinality(upTo(n))}
<1>0. \A m \in S : m \in Nat /\ m \in 0 .. N
  OBVIOUS
<1>1. IsFiniteSet(S) /\ Cardinality(S) \in Nat
  <2>1. IsFiniteSet(1 .. N)
    BY FS_Interval
  <2> QED
    BY <2>1, FS_Subset, FS_CardinalityType
<1>2. \A n : IsFiniteSet(upTo(n)) /\ Cardinality(upTo(n)) \in Nat
  BY <1>1, FS_Subset, FS_CardinalityType
<1>3. S # {}
  BY FS_EmptySet
<1>4. PICK top \in S : \A m \in S : m <= top
  <2>1. S \in SUBSET (0 .. N)
    OBVIOUS
  <2> QED
    BY <1>3, <2>1, HasGreatest
<1>5. top \in High
  <2>1. upTo(top) = S
    BY <1>4
  <2> QED
    BY <1>1, <2>1
<1>6. PICK n \in High : \A m \in High : n <= m
  <2>1. High \in SUBSET Nat
    BY <1>0
  <2> HIDE DEF High
  <2> QED
    BY <1>5, <2>1, HasLeast
<1> DEFINE below == {m \in S : m < n}
<1>7. Cardinality(upTo(n)) = Cardinality(below) + 1 /\ IsFiniteSet(below)
  <2>1. upTo(n) = below \cup {n} /\ n \notin below
    <3>1. n \in S
      BY <1>6
    <3>2. ~(n < n) /\ \A m \in S : m <= n <=> (m < n \/ m = n)
      BY <1>0, <3>1
    <3> QED
      BY <3>1, <3>2
  <2>2. IsFiniteSet(below)
    BY <1>1, FS_Subset
  <2> HIDE DEF below, upTo
  <2> QED
    BY <2>1, <2>2, FS_AddElement
<1>8. Cardinality(below) < k
  <2> SUFFICES ASSUME ~(Cardinality(below) < k)
               PROVE  FALSE
    OBVIOUS
  <2>1. Cardinality(below) \in Nat
    BY <1>7, FS_CardinalityType
  <2>2. below # {}
    BY <2>1, FS_EmptySet
  <2>3. PICK p \in below : \A m \in below : m <= p
    <3>1. below \in SUBSET (0 .. N)
      BY <1>0
    <3> HIDE DEF below
    <3> QED
      BY <2>2, <3>1, HasGreatest
  <2>4. upTo(p) = below
    <3>1. n \in S /\ p \in S /\ p < n
      BY <1>6, <2>3
    <3>2. \A m \in S : m <= p => m < n
      BY <1>0, <3>1
    <3> QED
      BY <2>3, <3>1, <3>2
  <2>5. p \in High
    BY <2>1, <2>3, <2>4
  <2>6. p < n /\ n <= p
    BY <1>6, <2>3, <2>5
  <2> QED
    BY <1>6, <2>3, <2>6
<1>9. Cardinality(below) \in Nat /\ k <= Cardinality(upTo(n)) /\ n \in S
  BY <1>6, <1>7, FS_CardinalityType
<1> HIDE DEF below
<1>10. Cardinality(upTo(n)) = k
  BY <1>2, <1>7, <1>8, <1>9
<1> QED
  BY <1>9, <1>10

\* The g-th round starts at a message of the assistant, the first one aside.
LEMMA StartOfRound ==
    ASSUME NEW S, NEW s \in Seq(S), NEW g \in 1 .. Rounds(s)
    PROVE  /\ Start(s, g) \in 1 .. Len(s)
           /\ g > 1 => Start(s, g) > 1 /\ ~IsAnswer(s[Start(s, g)])
<1>1. Len(s) \in Nat /\ Starts(s) \in SUBSET (1 .. Len(s))
  BY DEF Starts
<1>2. \E n \in Starts(s) : Cardinality({m \in Starts(s) : m <= n}) = g
  BY <1>1, HasRank DEF Rounds
<1>3. /\ Start(s, g) \in Starts(s)
      /\ Cardinality({m \in Starts(s) : m <= Start(s, g)}) = g
  BY <1>2, Zenon DEF Start
<1>4. ASSUME Start(s, g) = 1
      PROVE  g = 1
  <2>1. {m \in Starts(s) : m <= Start(s, g)} = {1}
    <3>1. \A m \in Starts(s) : m <= 1 <=> m = 1
      BY <1>1
    <3> QED
      BY <1>3, <1>4, <3>1
  <2>2. Cardinality({1}) = 1
    BY FS_Singleton
  <2> QED
    BY <1>3, <2>1, <2>2
<1>5. Start(s, g) \in 1 .. Len(s)
  BY <1>1, <1>3
<1>6. ASSUME g > 1
      PROVE  Start(s, g) > 1 /\ ~IsAnswer(s[Start(s, g)])
  <2>1. Start(s, g) # 1
    BY <1>4, <1>6
  <2>2. FromAssistant(s[Start(s, g)])
    BY <1>3, <2>1 DEF Starts
  <2> QED
    BY <1>1, <1>5, <2>1, <2>2 DEF FromAssistant, IsAnswer
<1> QED
  BY <1>5, <1>6

\* Tier 2 cuts where a round starts, and its digests are no answers.
LEMMA WholeCollapse ==
    ASSUME NEW S, NEW s \in Seq(S), NEW c \in BOOLEAN, Whole(s, c),
           Collapsible(s), NEW a
    PROVE  (\E T : Collapse(s, a) \in Seq(T)) /\ Whole(Collapse(s, a), c)
<1> DEFINE first == Start(s, KeepHead + 1)
           last  == Start(s, Rounds(s) - KeepTail + 1)
           M     == Rounds(s) - KeepHead - KeepTail
           e(k)  == Digest(s, KeepHead + k, a)
           head  == SubSeq(s, 1, first - 1)
           mid   == [k \in 1 .. M |-> e(k)]
           tail  == SubSeq(s, last, Len(s))
           T     == S \cup {e(k) : k \in 1 .. M}
<1>1. Rounds(s) \in Nat /\ KeepHead \in Nat \ {0} /\ KeepTail \in Nat \ {0} /\ Len(s) \in Nat
  <2>1. Starts(s) \in SUBSET (1 .. Len(s)) /\ IsFiniteSet(1 .. Len(s))
    BY FS_Interval DEF Starts
  <2>2. IsFiniteSet(Starts(s))
    BY <2>1, FS_Subset
  <2> QED
    BY <2>2, FS_CardinalityType, CompressionConstants DEF Rounds
<1>2. Rounds(s) > KeepHead + KeepTail + 2
  BY DEF Collapsible
<1>3. first \in 1 .. Len(s)
  <2>1. KeepHead + 1 \in 1 .. Rounds(s)
    BY <1>1, <1>2
  <2> QED
    BY <2>1, StartOfRound
<1>4. last \in 1 .. Len(s) /\ last > 1 /\ ~IsAnswer(s[last])
  <2>1. Rounds(s) - KeepTail + 1 \in 1 .. Rounds(s) /\ Rounds(s) - KeepTail + 1 > 1
    BY <1>1, <1>2
  <2> QED
    BY <2>1, StartOfRound
<1>5. M \in Nat
  BY <1>1, <1>2
<1>6. \A k : ~IsAnswer(e(k))
  BY MsgKind DEF Digest, IsAnswer
<1>7. Collapse(s, a) = (head \o mid) \o tail
  BY DEF Collapse
<1> HIDE DEF first, last, M, e
<1>8. head \in Seq(S) /\ Whole(head, c)
  <2>1. 1 \in 1 .. Len(s) + 1 /\ first - 1 \in 0 .. Len(s)
    BY <1>1, <1>3
  <2> QED
    BY <2>1, WholePiece
<1>9. tail \in Seq(S) /\ Whole(tail, FALSE)
  <2>1. last \in 1 .. Len(s) + 1 /\ Len(s) \in 0 .. Len(s) /\ last # 1
    BY <1>1, <1>4
  <2> QED
    BY <1>4, <2>1, WholePiece
<1>10. mid \in Seq({e(k) : k \in 1 .. M}) /\ Whole(mid, FALSE)
  <2> DEFINE E == {e(k) : k \in 1 .. M}
  <2>0. \A k \in 1 .. M : e(k) \in E
    OBVIOUS
  <2> HIDE DEF E
  <2>1. /\ mid \in Seq(E)
        /\ DOMAIN mid = 1 .. M
        /\ \A k \in 1 .. M : mid[k] = e(k)
    BY <1>5, <2>0
  <2> USE DEF E
  <2> HIDE DEF mid
  <2> QED
    BY <1>6, <2>1 DEF Whole
<1> HIDE DEF head, mid, tail
<1>11. head \in Seq(T) /\ mid \in Seq(T) /\ tail \in Seq(T)
  <2>1. S \subseteq T /\ {e(k) : k \in 1 .. M} \subseteq T
    OBVIOUS
  <2> HIDE DEF T
  <2> QED
    BY <1>8, <1>9, <1>10, <2>1, SeqGrows
<1> HIDE DEF T
<1>12. head \o mid \in Seq(T) /\ Whole(head \o mid, c)
  BY <1>8, <1>10, <1>11, WholeConcat
<1>13. (head \o mid) \o tail \in Seq(T) /\ Whole((head \o mid) \o tail, c)
  BY <1>9, <1>11, <1>12, WholeConcat
<1> QED
  BY <1>7, <1>13

\* RoundsWhole, of a conversation that is a sequence of whatever messages.
RoundsInv ==
    /\ \E S : conv \in Seq(S)
    /\ cut \in BOOLEAN
    /\ Whole(conv, cut)

\* Messages added behind a whole conversation, none of them an answer without
\* its call, leave it whole.
LEMMA RoundsGrow ==
    ASSUME RoundsInv, NEW T, NEW t \in Seq(T), Whole(t, FALSE),
           conv' = conv \o t, UNCHANGED cut
    PROVE  RoundsInv'
<1>1. PICK S : conv \in Seq(S)
  BY DEF RoundsInv
<1>2. conv \in Seq(S \cup T) /\ t \in Seq(S \cup T)
  BY <1>1
<1>3. conv \o t \in Seq(S \cup T) /\ Whole(conv \o t, cut)
  BY <1>2, WholeConcat DEF RoundsInv
<1> QED
  BY <1>3 DEF RoundsInv, Whole

\* So does the step that leaves conversation and cut alone.
LEMMA RoundsStay ==
    ASSUME RoundsInv, UNCHANGED <<conv, cut>>
    PROVE  RoundsInv'
  BY DEF RoundsInv, Whole

\* A single message of the loop is whole.
LEMMA WholeOne ==
    ASSUME NEW m, ~IsAnswer(m)
    PROVE  <<m>> \in Seq({m}) /\ Whole(<<m>>, FALSE)
  BY DEF Whole

\* The messages the agent loop adds.
LEMMA RoundsAppend ==
    ASSUME RoundsInv, UNCHANGED cut,
           NEW k \in {"prompt", "text", "note"}, NEW w, NEW a, Append1(k, w, a)
    PROVE  RoundsInv'
<1> DEFINE m == Msg(k, w, a)
<1>1. ~IsAnswer(m)
  BY MsgKind DEF IsAnswer
<1>2. conv' = Append(conv, m)
  BY DEF Append1
<1> HIDE DEF m
<1>3. Append(conv, m) = conv \o <<m>>
  <2>1. PICK S : conv \in Seq(S)
    BY DEF RoundsInv
  <2>2. conv \in Seq(S \cup {m}) /\ m \in S \cup {m}
    BY <2>1
  <2> QED
    BY <2>2
<1> QED
  BY <1>1, <1>2, <1>3, WholeOne, RoundsGrow

\* Tiers and the legacy loop, as far as they cut at messages that stay whole.
LEMMA RoundsReplaced ==
    ASSUME NEW s, NEW c, \E T : s \in Seq(T), c \in BOOLEAN, Whole(s, c),
           conv' = s, cut' = c
    PROVE  RoundsInv'
  BY DEF RoundsInv, Whole

\* At the start there are no messages.
LEMMA RoundsBegin == Init => RoundsInv
<1> SUFFICES ASSUME Init
             PROVE  RoundsInv
  OBVIOUS
<1>1. <<>> \in Seq({})
  OBVIOUS
<1>2. conv \in Seq({}) /\ DOMAIN conv = {} /\ cut = FALSE
  BY <1>1 DEF Init
<1> QED
  BY <1>2, Zenon DEF RoundsInv, Whole

\* Every step leaves the rounds whole.
LEMMA RoundsKept ==
    ASSUME RoundsInv, [Next]_vars
    PROVE  RoundsInv'
<1>0. PICK S : conv \in Seq(S)
  BY DEF RoundsInv
<1>w. Whole(conv, cut) /\ cut \in BOOLEAN
  BY DEF RoundsInv
<1>1. CASE Elapse \/ Compact \/ Tick
  <2>1. UNCHANGED <<conv, cut>>
    BY <1>1, Zenon DEF Elapse, Compact, Tick, memoryVars, losses
  <2> QED
    BY <2>1, RoundsStay
<1>2. CASE Prompt
  <2>1. Append1("prompt", 1, {asked'}) /\ UNCHANGED cut
    BY <1>2 DEF Prompt, losses
  <2> QED
    BY <2>1, RoundsAppend
<1>3. CASE Drain
  <2>1. PICK n \in 0..2 : conv' = conv \o [k \in 1..n |-> Msg("note", 1, {})]
    BY <1>3 DEF Drain
  <2> DEFINE m == Msg("note", 1, {})
             t == [k \in 1..n |-> m]
  <2>2. ~IsAnswer(m)
    BY MsgKind DEF IsAnswer
  <2> HIDE DEF m
  <2>3. t \in Seq({m}) /\ DOMAIN t = 1..n /\ \A k \in 1..n : t[k] = m
    OBVIOUS
  <2>4. conv' = conv \o t
    BY <2>1 DEF m
  <2> HIDE DEF t
  <2>5. Whole(t, FALSE)
    BY <2>2, <2>3 DEF Whole
  <2>6. UNCHANGED cut
    BY <1>3 DEF Drain, losses
  <2> QED
    BY <2>3, <2>4, <2>5, <2>6, RoundsGrow
<1>4. CASE CallLLM
  <2>0. UNCHANGED cut
    BY <1>4 DEF CallLLM, losses
  <2>1. \/ Append1("note", 1, {}) \/ Append1("text", 1, {})
        \/ conv' = conv \o <<Msg("text", 1, {}), Msg("note", 1, {})>>
        \/ \E w \in {1, 3} : conv' = conv \o <<Msg("call", 1, {}), Msg("result", w, {})>>
    BY <1>4, Zenon DEF CallLLM
  <2>2. ASSUME NEW m, NEW r, ~IsAnswer(m), IsAnswer(r) => m.kind = "call",
               conv' = conv \o <<m, r>>
        PROVE  RoundsInv'
    <3>1. <<m, r>> \in Seq({m, r})
      OBVIOUS
    <3>2. Whole(<<m, r>>, FALSE)
      BY <2>2 DEF Whole
    <3> QED
      BY <2>0, <2>2, <3>1, <3>2, RoundsGrow
  <2>3. ASSUME Append1("note", 1, {}) \/ Append1("text", 1, {})
        PROVE  RoundsInv'
    BY <2>0, <2>3, RoundsAppend
  <2>4. ASSUME conv' = conv \o <<Msg("text", 1, {}), Msg("note", 1, {})>>
        PROVE  RoundsInv'
    <3>1. ~IsAnswer(Msg("text", 1, {})) /\ ~IsAnswer(Msg("note", 1, {}))
      BY MsgKind DEF IsAnswer
    <3> QED
      BY <2>2, <2>4, <3>1
  <2>5. ASSUME NEW w \in {1, 3}, conv' = conv \o <<Msg("call", 1, {}), Msg("result", w, {})>>
        PROVE  RoundsInv'
    <3>1. ~IsAnswer(Msg("call", 1, {})) /\ Msg("call", 1, {}).kind = "call"
      BY MsgKind DEF IsAnswer
    <3> QED
      BY <2>2, <2>5, <3>1
  <2> QED
    BY <2>1, <2>3, <2>4, <2>5
<1>5. CASE Tier1
  <2>1. conv' = Cleared(conv) /\ UNCHANGED cut
    BY <1>5 DEF Tier1, losses
  <2> QED
    BY <1>0, <1>w, <2>1, WholeCleared, RoundsReplaced
<1>6. CASE Tier2
  <2>1. \/ UNCHANGED <<conv, cut>>
        \/ UNCHANGED cut /\ Collapsible(conv) /\ \E a : conv' = Collapse(conv, a)
    BY <1>6, Zenon DEF Tier2, SkipTier, memoryVars, losses
  <2> QED
    BY <1>0, <1>w, <2>1, RoundsStay, WholeCollapse, RoundsReplaced
<1>7. CASE Tier3
  <2>1. \/ UNCHANGED <<conv, cut>>
        \/ conv' = LastN(conv, 2 * KeepRounds) /\ cut' = TRUE
    BY <1>7, Zenon DEF Tier3, SkipTier, memoryVars, losses
  <2>2. ASSUME conv' = LastN(conv, 2 * KeepRounds), cut' = TRUE
        PROVE  RoundsInv'
    <3> DEFINE a == (IF Len(conv) > 2 * KeepRounds THEN Len(conv) - 2 * KeepRounds ELSE 0) + 1
    <3>1. a \in 1 .. Len(conv) + 1 /\ Len(conv) \in 0 .. Len(conv)
      <4>1. Len(conv) \in Nat /\ KeepRounds \in Nat \ {0}
        BY <1>0, CompressionConstants
      <4>2. 2 * KeepRounds \in Nat
        BY <4>1
      <4> HIDE DEF a
      <4>3. a = IF Len(conv) > 2 * KeepRounds THEN Len(conv) - 2 * KeepRounds + 1 ELSE 1
        BY DEF a
      <4> QED
        BY <4>1, <4>2, <4>3
    <3>2. LastN(conv, 2 * KeepRounds) = SubSeq(conv, a, Len(conv))
      BY DEF LastN
    <3> HIDE DEF a
    <3>3. SubSeq(conv, a, Len(conv)) \in Seq(S) /\ Whole(SubSeq(conv, a, Len(conv)), TRUE)
      BY <1>0, <1>w, <3>1, WholePiece
    <3> QED
      BY <2>2, <3>2, <3>3, RoundsReplaced
  <2> QED
    BY <2>1, <2>2, RoundsStay
<1>8. CASE LegacyTick
  <2> DEFINE s == Cleared(conv)
  <2>0. (\E T : s \in Seq(T)) /\ Whole(s, cut)
    BY <1>0, <1>w, WholeCleared
  <2>1. PICK T : s \in Seq(T)
    BY <2>0
  <2>2. UNCHANGED cut
    BY <1>8 DEF LegacyTick
  <2>3. \/ conv' = s
        \/ Collapsible(s) /\ LegacyCollapse(s)
        \/ LegacyCompact(s)
    BY <1>8, Zenon DEF LegacyTick
  <2> HIDE DEF s
  <2>4. \/ conv' = s
        \/ Collapsible(s) /\ \E a : conv' = Collapse(s, a)
        \/ \E about : conv' = <<Msg("compacted", 1, about)>>
    BY <2>3, Zenon DEF LegacyCollapse, LegacyCompact
  <2>5. ASSUME Collapsible(s), NEW a, conv' = Collapse(s, a)
        PROVE  RoundsInv'
    BY <1>w, <2>0, <2>1, <2>2, <2>5, WholeCollapse, RoundsReplaced
  <2>6. ASSUME NEW about, conv' = <<Msg("compacted", 1, about)>>
        PROVE  RoundsInv'
    <3> DEFINE m == Msg("compacted", 1, about)
    <3>1. ~IsAnswer(m)
      BY MsgKind DEF IsAnswer
    <3> HIDE DEF m
    <3>2. <<m>> \in Seq({m}) /\ Whole(<<m>>, cut)
      BY <3>1 DEF Whole
    <3> QED
      BY <1>w, <2>2, <2>6, <3>2, RoundsReplaced DEF m
  <2>7. ASSUME conv' = s
        PROVE  RoundsInv'
    BY <1>w, <2>0, <2>2, <2>7, RoundsReplaced
  <2> QED
    BY <2>4, <2>5, <2>6, <2>7
<1>9. CASE UNCHANGED vars
  BY <1>9, RoundsStay DEF vars, memoryVars, losses
<1> QED
  BY <1>1, <1>2, <1>3, <1>4, <1>5, <1>6, <1>7, <1>8, <1>9 DEF Next

\* A message of tool results stands right behind its calls, for every budget,
\* every number of rounds kept and every answer of the LLM: Tiers 1 and 2 and
\* the legacy loop never part them, and after Tier 3 only the first message may
\* have lost its calls (stages.py, collapse.py, agent_loop).
THEOREM RoundsWholeAlways == Spec => []RoundsWhole
<1>1. RoundsInv => RoundsWhole
  BY DEF RoundsInv, Whole, IsAnswer, RoundsWhole
<1> QED
  BY <1>1, RoundsBegin, RoundsKept, PTL DEF Spec

------------------------------------------------------------------------------
(* Goals *)

\* What the fields of Msg say.
LEMMA MsgAbout ==
    ASSUME NEW k, NEW w, NEW a
    PROVE  Msg(k, w, a).about = a
  BY DEF Msg

\* A sequence tells what its messages tell, and nothing else.
LEMMA AboutOne ==
    ASSUME NEW s, NEW n \in DOMAIN s
    PROVE  s[n].about \subseteq About(s)
  BY DEF About

\* Two pieces put together tell what each of them tells.
LEMMA AboutConcat ==
    ASSUME NEW S, NEW s \in Seq(S), NEW t \in Seq(S)
    PROVE  About(s) \cup About(t) \subseteq About(s \o t)
<1>1. /\ Len(s \o t) = Len(s) + Len(t)
      /\ s \o t \in Seq(S)
      /\ \A i \in 1 .. Len(s) + Len(t) :
            (s \o t)[i] = IF i <= Len(s) THEN s[i] ELSE t[i - Len(s)]
  BY ConcatProperties
<1>2. Len(s) \in Nat /\ Len(t) \in Nat /\ DOMAIN s = 1 .. Len(s) /\ DOMAIN t = 1 .. Len(t)
  OBVIOUS
<1>3. DOMAIN (s \o t) = 1 .. Len(s) + Len(t)
  BY <1>1
<1>4. ASSUME NEW n \in DOMAIN s
      PROVE  s[n].about \subseteq About(s \o t)
  <2>1. n \in DOMAIN (s \o t) /\ (s \o t)[n] = s[n]
    BY <1>1, <1>2, <1>3
  <2> QED
    BY <2>1, AboutOne
<1>5. ASSUME NEW n \in DOMAIN t
      PROVE  t[n].about \subseteq About(s \o t)
  <2> DEFINE m == Len(s) + n
  <2>1. m \in 1 .. Len(s) + Len(t) /\ ~(m <= Len(s)) /\ m - Len(s) = n
    BY <1>2
  <2>2. m \in DOMAIN (s \o t) /\ (s \o t)[m] = t[n]
    BY <1>1, <1>3, <2>1
  <2> QED
    BY <2>2, AboutOne
<1> QED
  BY <1>4, <1>5 DEF About

\* A piece tells what its messages tell.
LEMMA AboutPiece ==
    ASSUME NEW S, NEW s \in Seq(S), NEW a \in 1 .. Len(s) + 1, NEW b \in 0 .. Len(s),
           NEW n \in a .. b
    PROVE  s[n].about \subseteq About(SubSeq(s, a, b))
<1> DEFINE p == SubSeq(s, a, b)
<1>1. \A i \in a .. b : s[i] \in S
  OBVIOUS
<1>2. /\ p \in Seq(S)
      /\ Len(p) = IF a <= b THEN b - a + 1 ELSE 0
      /\ \A i \in 1 .. b - a + 1 : p[i] = s[a + i - 1]
  BY <1>1, SubSeqProperties
<1>3. a \in Int /\ b \in Int /\ n \in Int
  OBVIOUS
<1>4. n - a + 1 \in 1 .. b - a + 1 /\ a + (n - a + 1) - 1 = n /\ a <= b
  BY <1>3
<1> HIDE DEF p
<1>5. n - a + 1 \in DOMAIN p /\ p[n - a + 1] = s[n]
  BY <1>2, <1>4
<1>6. p[n - a + 1].about \subseteq About(p)
  BY <1>5, AboutOne
<1> QED
  BY <1>5, <1>6 DEF p

\* Tier 1 clears contents, and still tells of the goals.
LEMMA AboutCleared ==
    ASSUME NEW S, NEW s \in Seq(S)
    PROVE  About(s) \subseteq About(Cleared(s))
<1> DEFINE results == {n \in DOMAIN s : s[n].kind \in {"result", "cleared"}}
           later(n) == Cardinality({m \in results : m > n})
           new(n) == IF n \in results /\ later(n) >= KeepRecent /\ s[n].w > 1
                     THEN Msg("cleared", 1, s[n].about) ELSE s[n]
<1>1. Cleared(s) = [n \in DOMAIN s |-> new(n)]
  BY DEF Cleared
<1>2. \A n : new(n).about = s[n].about
  BY MsgAbout
<1> HIDE DEF new
<1> QED
  BY <1>1, <1>2 DEF About

\* How many rounds have started up to message n.
Begun(s, n) == Cardinality({m \in Starts(s) : m <= n})

\* The g-th round starts up to message n if as many have.
LEMMA RoundsBegun ==
    ASSUME NEW S, NEW s \in Seq(S), NEW n \in DOMAIN s
    PROVE  /\ Rounds(s) \in Nat /\ Begun(s, n) \in Nat
           /\ \A g \in 1 .. Rounds(s) :
                 Start(s, g) \in 1 .. Len(s) /\ (Start(s, g) <= n <=> g <= Begun(s, n))
<1> DEFINE upTo(k) == {m \in Starts(s) : m <= k}
<1>1. Len(s) \in Nat /\ Starts(s) \in SUBSET (1 .. Len(s)) /\ n \in 1 .. Len(s)
  BY DEF Starts
<1>2. IsFiniteSet(Starts(s))
  <2>1. IsFiniteSet(1 .. Len(s))
    BY <1>1, FS_Interval
  <2> QED
    BY <1>1, <2>1, FS_Subset
<1>3. \A k : IsFiniteSet(upTo(k)) /\ Cardinality(upTo(k)) \in Nat
  BY <1>2, FS_Subset, FS_CardinalityType
<1>4. Rounds(s) \in Nat /\ Begun(s, n) \in Nat
  BY <1>2, <1>3, FS_CardinalityType DEF Rounds, Begun
<1>5. ASSUME NEW g \in 1 .. Rounds(s)
      PROVE  Start(s, g) \in 1 .. Len(s) /\ (Start(s, g) <= n <=> g <= Begun(s, n))
  <2> DEFINE x == Start(s, g)
  <2>1. \E k \in Starts(s) : Cardinality({m \in Starts(s) : m <= k}) = g
    BY <1>1, HasRank DEF Rounds
  <2>2. x \in Starts(s) /\ Cardinality(upTo(x)) = g
    BY <2>1, Zenon DEF Start
  <2>3. x \in 1 .. Len(s) /\ g \in Nat /\ \A m \in Starts(s) : m \in Nat
    BY <1>1, <1>4, <2>2
  <2> HIDE DEF x
  <2>4. CASE x <= n
    <3>1. upTo(x) \subseteq upTo(n)
      BY <1>1, <2>3, <2>4
    <3>2. Cardinality(upTo(x)) <= Cardinality(upTo(n))
      BY <1>3, <3>1, FS_Subset
    <3> QED
      BY <2>2, <2>3, <2>4, <3>2 DEF Begun, x
  <2>5. CASE ~(x <= n)
    <3>1. upTo(n) \subseteq upTo(x) /\ x \in upTo(x) /\ x \notin upTo(n)
      BY <1>1, <2>2, <2>3, <2>5
    <3>2. Cardinality(upTo(n)) <= Cardinality(upTo(x)) /\ Cardinality(upTo(n)) # Cardinality(upTo(x))
      BY <1>3, <3>1, FS_Subset
    <3>3. ~(g <= Cardinality(upTo(n)))
      <4> HIDE DEF upTo
      <4> QED
        BY <1>3, <2>2, <2>3, <3>2
    <3> QED
      BY <2>3, <2>5, <3>3 DEF Begun, x
  <2> QED
    BY <2>4, <2>5
<1> QED
  BY <1>4, <1>5

\* A message between head and tail is in a middle round.
LEMMA MiddleRound ==
    ASSUME NEW S, NEW s \in Seq(S), Collapsible(s),
           NEW n \in Start(s, KeepHead + 1) .. Start(s, Rounds(s) - KeepTail + 1) - 1,
           n \in DOMAIN s
    PROVE  \E g \in Middle(s) : s[n].about \subseteq About(Round(s, g))
<1> DEFINE g == Begun(s, n)
<1>1. /\ Rounds(s) \in Nat /\ g \in Nat
      /\ KeepHead \in Nat \ {0} /\ KeepTail \in Nat \ {0} /\ Len(s) \in Nat
      /\ Rounds(s) > KeepHead + KeepTail + 2
  <2>1. Rounds(s) \in Nat /\ g \in Nat
    BY RoundsBegun
  <2> QED
    BY <2>1, CompressionConstants DEF Collapsible
<1>2. KeepHead + 1 \in 1 .. Rounds(s) /\ Rounds(s) - KeepTail + 1 \in 1 .. Rounds(s)
  BY <1>1
<1> HIDE DEF g
<1>3. KeepHead + 1 <= g
  <2>1. Start(s, KeepHead + 1) <= n
    <3>1. Start(s, KeepHead + 1) \in 1 .. Len(s)
      BY <1>2, RoundsBegun
    <3> QED
      BY <3>1
  <2> QED
    BY <1>2, <2>1, RoundsBegun DEF g
<1>4. g < Rounds(s) - KeepTail + 1
  <2> DEFINE last == Start(s, Rounds(s) - KeepTail + 1)
  <2>1. last \in 1 .. Len(s)
    BY <1>2, RoundsBegun
  <2>2. ~(last <= n)
    <3> HIDE DEF last
    <3>1. n \in Start(s, KeepHead + 1) .. last - 1
      BY DEF last
    <3> QED
      BY <2>1, <3>1
  <2>3. ~(Rounds(s) - KeepTail + 1 <= g)
    BY <1>2, <2>2, RoundsBegun DEF g
  <2> QED
    BY <1>1, <2>3
<1>5. g \in Middle(s) /\ g \in 1 .. Rounds(s) /\ g + 1 \in 1 .. Rounds(s) /\ g # Rounds(s)
      /\ g + 1 > g
  BY <1>1, <1>3, <1>4 DEF Middle
<1>6. /\ Start(s, g) \in 1 .. Len(s) /\ Start(s, g) <= n
      /\ Start(s, g + 1) \in 1 .. Len(s) /\ ~(Start(s, g + 1) <= n)
  <2>1. g <= Begun(s, n) /\ ~(g + 1 <= Begun(s, n))
    BY <1>1 DEF g
  <2> QED
    BY <1>5, <2>1, RoundsBegun
<1>7. Round(s, g) = SubSeq(s, Start(s, g), Start(s, g + 1) - 1)
  BY <1>5 DEF Round
<1>8. /\ Start(s, g) \in 1 .. Len(s) + 1 /\ Start(s, g + 1) - 1 \in 0 .. Len(s)
      /\ n \in Start(s, g) .. Start(s, g + 1) - 1
  BY <1>1, <1>6
<1>9. s[n].about \subseteq About(Round(s, g))
  BY <1>7, <1>8, AboutPiece
<1> QED
  BY <1>5, <1>9

\* Tier 2 tells of everything, unless the LLM was down: head and tail as they
\* are, and a digest of every middle round.
LEMMA AboutCollapse ==
    ASSUME NEW S, NEW s \in Seq(S), Collapsible(s), NEW a, a.outcome # "down"
    PROVE  About(s) \subseteq About(Collapse(s, a))
<1> DEFINE first == Start(s, KeepHead + 1)
           last  == Start(s, Rounds(s) - KeepTail + 1)
           M     == Rounds(s) - KeepHead - KeepTail
           e(k)  == Digest(s, KeepHead + k, a)
           head  == SubSeq(s, 1, first - 1)
           mid   == [k \in 1 .. M |-> e(k)]
           tail  == SubSeq(s, last, Len(s))
           T     == S \cup {e(k) : k \in 1 .. M}
<1>1. /\ Rounds(s) \in Nat /\ KeepHead \in Nat \ {0} /\ KeepTail \in Nat \ {0} /\ Len(s) \in Nat
      /\ Rounds(s) > KeepHead + KeepTail + 2
  <2>1. Starts(s) \in SUBSET (1 .. Len(s)) /\ IsFiniteSet(1 .. Len(s))
    BY FS_Interval DEF Starts
  <2>2. IsFiniteSet(Starts(s))
    BY <2>1, FS_Subset
  <2> QED
    BY <2>2, FS_CardinalityType, CompressionConstants DEF Rounds, Collapsible
<1>2. first \in 1 .. Len(s) /\ last \in 1 .. Len(s)
  <2>1. KeepHead + 1 \in 1 .. Rounds(s) /\ Rounds(s) - KeepTail + 1 \in 1 .. Rounds(s)
    BY <1>1
  <2> QED
    BY <2>1, StartOfRound
<1>3. M \in Nat
  BY <1>1
<1>4. \A g : Digest(s, g, a).about = About(Round(s, g))
  BY MsgAbout DEF Digest
<1>5. Collapse(s, a) = (head \o mid) \o tail
  BY DEF Collapse
<1>6. /\ 1 \in 1 .. Len(s) + 1 /\ first - 1 \in 0 .. Len(s)
      /\ last \in 1 .. Len(s) + 1 /\ Len(s) \in 0 .. Len(s)
  BY <1>1, <1>2
<1>7. \A g \in Middle(s) : About(Round(s, g)) \subseteq About(mid)
  <2> SUFFICES ASSUME NEW g \in Middle(s)
               PROVE  About(Round(s, g)) \subseteq About(mid)
    OBVIOUS
  <2>1. g - KeepHead \in 1 .. M /\ KeepHead + (g - KeepHead) = g
    BY <1>1 DEF Middle
  <2>2. g - KeepHead \in DOMAIN mid /\ mid[g - KeepHead] = Digest(s, g, a)
    BY <2>1
  <2> HIDE DEF mid
  <2>3. mid[g - KeepHead].about \subseteq About(mid)
    BY <2>2, AboutOne
  <2> QED
    BY <1>4, <2>2, <2>3
<1>8. ASSUME NEW n \in DOMAIN s
      PROVE  s[n].about \subseteq About(head) \cup About(mid) \cup About(tail)
  <2>0. n \in 1 .. Len(s)
    OBVIOUS
  <2>1. CASE n < first
    <3>1. n \in 1 .. first - 1
      BY <1>2, <2>0, <2>1
    <3> QED
      BY <1>6, <3>1, AboutPiece
  <2>2. CASE n >= last
    <3>1. n \in last .. Len(s)
      BY <1>2, <2>0, <2>2
    <3> QED
      BY <1>6, <3>1, AboutPiece
  <2>3. CASE n >= first /\ n < last
    <3> HIDE DEF head, mid, tail
    <3>1. n \in first .. last - 1
      <4> HIDE DEF first, last
      <4> QED
        BY <1>2, <2>0, <2>3
    <3> QED
      BY <1>7, <3>1, MiddleRound
  <2>4. n < first \/ n >= last \/ (n >= first /\ n < last)
    <3> HIDE DEF first, last
    <3> QED
      BY <1>2, <2>0
  <2> QED
    BY <2>1, <2>2, <2>3, <2>4
<1> HIDE DEF first, last, M, e
<1>9. head \in Seq(S) /\ tail \in Seq(S)
  <2>1. \A i \in 1 .. first - 1 : s[i] \in S
    BY <1>1, <1>2
  <2>2. \A i \in last .. Len(s) : s[i] \in S
    BY <1>1, <1>2
  <2> QED
    BY <1>1, <1>2, <2>1, <2>2, SubSeqProperties
<1>10. mid \in Seq({e(k) : k \in 1 .. M})
  <2> DEFINE E == {e(k) : k \in 1 .. M}
  <2>0. \A k \in 1 .. M : e(k) \in E
    OBVIOUS
  <2> HIDE DEF E
  <2> QED
    BY <1>3, <2>0 DEF E
<1> HIDE DEF head, mid, tail
<1>11. head \in Seq(T) /\ mid \in Seq(T) /\ tail \in Seq(T)
  <2>1. S \subseteq T /\ {e(k) : k \in 1 .. M} \subseteq T
    OBVIOUS
  <2> HIDE DEF T
  <2> QED
    BY <1>9, <1>10, <2>1, SeqGrows
<1> HIDE DEF T
<1>12. head \o mid \in Seq(T) /\ About(head) \cup About(mid) \subseteq About(head \o mid)
  <2>1. head \o mid \in Seq(T)
    BY <1>11, ConcatProperties
  <2> QED
    BY <1>11, <2>1, AboutConcat
<1>13. About(head \o mid) \cup About(tail) \subseteq About(Collapse(s, a))
  BY <1>5, <1>11, <1>12, AboutConcat
<1>14. About(s) \subseteq About(head) \cup About(mid) \cup About(tail)
  BY <1>8 DEF About
<1> QED
  BY <1>12, <1>13, <1>14

\* The inductive invariant for GoalsSummarized.
GoalsInv ==
    /\ RoundsInv
    /\ unread \in BOOLEAN /\ asked \in Nat
    /\ GoalsSummarized

\* Nothing is forgotten where conversation and summary tell of as much as before.
LEMMA GoalsStay ==
    ASSUME GoalsInv, RoundsInv', unread' \in BOOLEAN, UNCHANGED asked,
           unread' \/ (~unread /\ About(conv) \cup summary \subseteq About(conv') \cup summary')
    PROVE  GoalsInv'
  BY DEF GoalsInv, GoalsSummarized, GoalsRemembered, About

\* Messages that are added take nothing away.
LEMMA GoalsGrow ==
    ASSUME GoalsInv, RoundsInv', UNCHANGED <<asked, unread, summary>>,
           NEW t, \E T : t \in Seq(T), conv' = conv \o t
    PROVE  GoalsInv'
<1>1. PICK S : conv \in Seq(S)
  BY DEF GoalsInv, RoundsInv
<1>2. PICK T : t \in Seq(T)
  OBVIOUS
<1>3. conv \in Seq(S \cup T) /\ t \in Seq(S \cup T)
  BY <1>1, <1>2, SeqGrows
<1>4. About(conv) \subseteq About(conv')
  BY <1>3, AboutConcat
<1> QED
  BY <1>4, GoalsStay DEF GoalsInv

\* A message of the user that asks for one more goal.
LEMMA PromptKeepsGoals ==
    ASSUME GoalsInv, RoundsInv', Prompt
    PROVE  GoalsInv'
<1> DEFINE m == Msg("prompt", 1, {asked'})
<1>1. asked' = asked + 1 /\ UNCHANGED <<unread, summary>> /\ conv' = Append(conv, m)
  BY DEF Prompt, Append1, losses
<1>2. m.about = {asked'}
  BY MsgAbout
<1> HIDE DEF m
<1>3. PICK S : conv \in Seq(S)
  BY DEF GoalsInv, RoundsInv
<1>4. conv \in Seq(S \cup {m}) /\ <<m>> \in Seq(S \cup {m})
  BY <1>3, SeqGrows
<1>5. conv' = conv \o <<m>> /\ About(<<m>>) = {asked'}
  BY <1>1, <1>2, <1>4 DEF About
<1>6. About(conv) \cup {asked'} \subseteq About(conv')
  BY <1>4, <1>5, AboutConcat
<1>7. asked \in Nat /\ 1 .. asked' = 1 .. asked \cup {asked'} /\ asked' \in Nat
  BY <1>1 DEF GoalsInv
<1>8. unread' \in BOOLEAN
  BY <1>1 DEF GoalsInv
<1>9. unread' \/ 1 .. asked \subseteq About(conv) \cup summary
  BY <1>1 DEF GoalsInv, GoalsSummarized, GoalsRemembered
<1>10. unread' \/ 1 .. asked' \subseteq About(conv') \cup summary'
  BY <1>1, <1>6, <1>7, <1>9
<1> QED
  BY <1>7, <1>8, <1>10 DEF GoalsInv, GoalsSummarized, GoalsRemembered, About

\* The messages of the loop, the LLM and its tools.
LEMMA LoopKeepsGoals ==
    ASSUME GoalsInv, RoundsInv', Drain \/ CallLLM
    PROVE  GoalsInv'
<1>1. UNCHANGED <<asked, unread, summary>>
  BY Zenon DEF Drain, CallLLM, losses
<1>2. \E t, T : t \in Seq(T) /\ conv' = conv \o t
  <2>1. CASE Drain
    <3>1. PICK n \in 0..2 : conv' = conv \o [k \in 1..n |-> Msg("note", 1, {})]
      BY <2>1 DEF Drain
    <3> DEFINE m == Msg("note", 1, {})
               t == [k \in 1..n |-> m]
    <3> HIDE DEF m
    <3>2. t \in Seq({m})
      OBVIOUS
    <3> QED
      BY <3>1, <3>2 DEF m
  <2>2. CASE CallLLM
    <3>1. \/ \E m : conv' = Append(conv, m)
          \/ \E m, r : conv' = conv \o <<m, r>>
      BY <2>2, Zenon DEF CallLLM, Append1
    <3>2. ASSUME NEW m, conv' = Append(conv, m)
          PROVE  <<m>> \in Seq({m}) /\ conv' = conv \o <<m>>
      <4>1. PICK S : conv \in Seq(S)
        BY DEF GoalsInv, RoundsInv
      <4>2. conv \in Seq(S \cup {m}) /\ m \in S \cup {m}
        BY <4>1, SeqGrows
      <4> QED
        BY <3>2, <4>2
    <3>3. \A m, r : <<m, r>> \in Seq({m, r})
      OBVIOUS
    <3> QED
      BY <3>1, <3>2, <3>3
  <2> QED
    BY <2>1, <2>2
<1> QED
  BY <1>1, <1>2, GoalsGrow

\* Tiers 1 to 3.
LEMMA TiersKeepGoals ==
    ASSUME GoalsInv, RoundsInv', Tier1 \/ Tier2 \/ Tier3
    PROVE  GoalsInv'
<1>0. PICK S : conv \in Seq(S)
  BY DEF GoalsInv, RoundsInv
<1>1. UNCHANGED asked
  BY Zenon DEF Tier1, Tier2, Tier3, SkipTier, memoryVars, losses
<1>2. unread \in BOOLEAN
  BY DEF GoalsInv
<1>3. CASE Tier1
  <2>1. conv' = Cleared(conv) /\ UNCHANGED <<summary, unread>>
    BY <1>3 DEF Tier1, losses
  <2> QED
    BY <1>0, <1>1, <1>2, <2>1, AboutCleared, GoalsStay
<1>4. CASE Tier2
  <2>1. /\ UNCHANGED summary
        /\ \/ UNCHANGED <<conv, unread>>
           \/ \E a : /\ Collapsible(conv) /\ unread' = (unread \/ a.outcome = "down")
                     /\ conv' = conv \/ conv' = Collapse(conv, a)
    BY <1>4, Zenon DEF Tier2, SkipTier, memoryVars, losses
  <2>2. CASE UNCHANGED <<conv, unread>>
    BY <1>1, <1>2, <2>1, <2>2, GoalsStay
  <2>3. ASSUME NEW a, Collapsible(conv), unread' = (unread \/ a.outcome = "down"),
               conv' = conv \/ conv' = Collapse(conv, a)
        PROVE  GoalsInv'
    <3>1. unread' \/ (~unread /\ a.outcome # "down")
      BY <2>3
    <3>2. a.outcome # "down" => About(conv) \subseteq About(conv')
      BY <1>0, <2>3, AboutCollapse
    <3> QED
      BY <1>1, <1>2, <2>1, <2>3, <3>1, <3>2, GoalsStay
  <2> QED
    BY <2>1, <2>2, <2>3
<1>5. CASE Tier3
  <2>1. \/ UNCHANGED <<conv, summary, unread>>
        \/ \E o : /\ unread' = (unread \/ o = "down" \/ Readable(conv) # conv)
                  /\ summary' = IF o = "down" THEN {} ELSE summary \cup About(Readable(conv))
    BY <1>5, Zenon DEF Tier3, SkipTier, memoryVars, losses, Loses
  <2>2. CASE UNCHANGED <<conv, summary, unread>>
    BY <1>1, <1>2, <2>2, GoalsStay
  <2>3. ASSUME NEW o, unread' = (unread \/ o = "down" \/ Readable(conv) # conv),
               summary' = IF o = "down" THEN {} ELSE summary \cup About(Readable(conv))
        PROVE  GoalsInv'
    <3>1. unread' \in BOOLEAN /\ (unread' \/ (~unread /\ o # "down" /\ Readable(conv) = conv))
      BY <2>3
    <3>2. unread' \/ (~unread /\ summary' = summary \cup About(conv))
      BY <2>3, <3>1
    <3> QED
      BY <1>1, <3>1, <3>2, GoalsStay
  <2> QED
    BY <2>1, <2>2, <2>3
<1> QED
  BY <1>3, <1>4, <1>5

\* The loop that compresses by itself.
LEMMA LegacyKeepsGoals ==
    ASSUME GoalsInv, RoundsInv', LegacyTick
    PROVE  GoalsInv'
<1> DEFINE s == Cleared(conv)
<1>0. PICK S : conv \in Seq(S)
  BY DEF GoalsInv, RoundsInv
<1>1. UNCHANGED <<asked, summary>> /\ unread \in BOOLEAN
  BY DEF LegacyTick, GoalsInv
<1>2. About(conv) \subseteq About(s) /\ \E T : s \in Seq(T)
  <2>1. Whole(conv, cut)
    BY DEF GoalsInv, RoundsInv
  <2> QED
    BY <1>0, <2>1, AboutCleared, WholeCleared
<1>3. \/ conv' = s /\ UNCHANGED unread
      \/ Collapsible(s) /\ LegacyCollapse(s)
      \/ LegacyCompact(s)
  BY Zenon DEF LegacyTick
<1> HIDE DEF s
<1>4. \/ conv' = s /\ UNCHANGED unread
      \/ \E a : /\ Collapsible(s) /\ unread' = (unread \/ a.outcome = "down")
                /\ conv' = s \/ conv' = Collapse(s, a)
      \/ \E o : /\ unread' = (unread \/ o = "down" \/ Readable(s) # s)
                /\ conv' = <<Msg("compacted", 1, IF o = "down" THEN {} ELSE About(Readable(s)))>>
  BY <1>3, Zenon DEF LegacyCollapse, LegacyCompact, Loses
<1>5. CASE conv' = s /\ UNCHANGED unread
  BY <1>1, <1>2, <1>5, GoalsStay
<1>6. ASSUME NEW a, Collapsible(s), unread' = (unread \/ a.outcome = "down"),
             conv' = s \/ conv' = Collapse(s, a)
      PROVE  GoalsInv'
  <2>1. unread' \in BOOLEAN /\ (unread' \/ (~unread /\ a.outcome # "down"))
    BY <1>6
  <2>2. a.outcome # "down" => About(s) \subseteq About(conv')
    BY <1>2, <1>6, AboutCollapse
  <2> QED
    BY <1>1, <1>2, <2>1, <2>2, GoalsStay
<1>7. ASSUME NEW o, unread' = (unread \/ o = "down" \/ Readable(s) # s),
             conv' = <<Msg("compacted", 1, IF o = "down" THEN {} ELSE About(Readable(s)))>>
      PROVE  GoalsInv'
  <2>1. unread' \in BOOLEAN /\ (unread' \/ (~unread /\ o # "down" /\ Readable(s) = s))
    BY <1>7
  <2>2. ASSUME o # "down", Readable(s) = s
        PROVE  About(conv') = About(s)
    <3> DEFINE m == Msg("compacted", 1, About(s))
    <3>1. conv' = <<m>> /\ m.about = About(s)
      BY <1>7, <2>2, MsgAbout
    <3> HIDE DEF m
    <3> QED
      BY <3>1 DEF About
  <2> QED
    BY <1>1, <1>2, <2>1, <2>2, GoalsStay
<1> QED
  BY <1>4, <1>5, <1>6, <1>7

\* What the user asked for is still told by the conversation or the summary,
\* through any number of collapses and summarizations, for every budget, window
\* and number of rounds kept, until the LLM is down or messages that do not fit
\* its window are cut away (collapse.py, stages.py, agent_loop).
THEOREM GoalsSummarizedAlways == Spec => []GoalsSummarized
<1>1. Init => GoalsInv
  <2> SUFFICES ASSUME Init
               PROVE  GoalsInv
    OBVIOUS
  <2>1. RoundsInv
    BY RoundsBegin
  <2>2. asked = 0 /\ unread = FALSE /\ 1 .. 0 = {}
    BY DEF Init
  <2> QED
    BY <2>1, <2>2 DEF GoalsInv, GoalsSummarized, GoalsRemembered
<1>2. ASSUME GoalsInv, [Next]_vars
      PROVE  GoalsInv'
  <2>1. RoundsInv'
    BY <1>2, RoundsKept DEF GoalsInv
  <2>2. CASE Elapse \/ Compact \/ Tick \/ UNCHANGED vars
    <3>1. UNCHANGED <<conv, summary, asked, unread>>
      BY <2>2, Zenon DEF Elapse, Compact, Tick, vars, memoryVars, losses
    <3> QED
      BY <1>2, <2>1, <3>1, GoalsStay DEF GoalsInv
  <2> QED
    BY <1>2, <2>1, <2>2, PromptKeepsGoals, LoopKeepsGoals, TiersKeepGoals, LegacyKeepsGoals
       DEF Next
<1>3. GoalsInv => GoalsSummarized
  BY DEF GoalsInv
<1> QED
  BY <1>1, <1>2, <1>3, PTL DEF Spec

------------------------------------------------------------------------------
(* Important events *)

Importants(s) == {n \in DOMAIN s : s[n].kind = "important"}
Count(s) == Cardinality(Importants(s))

\* No more numbers than those they are moved to.
LEMMA MovedAreNoMore ==
    ASSUME NEW A \in SUBSET Int, NEW B, IsFiniteSet(B), NEW d \in Int,
           \A n \in A : n + d \in B
    PROVE  IsFiniteSet(A) /\ Cardinality(A) <= Cardinality(B)
           /\ Cardinality(A) \in Nat /\ Cardinality(B) \in Nat
<1> DEFINE f == [n \in A |-> n + d]
<1>1. f \in [A -> B] /\ \A m, n \in A : f[m] = f[n] => m = n
  OBVIOUS
<1>2. f \in Injection(A, B)
  BY <1>1 DEF Injection, IsInjective
<1> HIDE DEF f
<1>3. IsFiniteSet(A) /\ Cardinality(A) <= Cardinality(B)
  BY <1>2, FS_Injection
<1> QED
  BY <1>3, FS_CardinalityType

\* Messages are counted.
LEMMA CountType ==
    ASSUME NEW S, NEW s \in Seq(S)
    PROVE  IsFiniteSet(Importants(s)) /\ Count(s) \in Nat /\ Importants(s) \in SUBSET Int
<1>1. IsFiniteSet(1 .. Len(s)) /\ Importants(s) \in SUBSET (1 .. Len(s))
  BY FS_Interval DEF Importants
<1> QED
  BY <1>1, FS_Subset, FS_CardinalityType DEF Count

\* The important messages of two pieces put together.
LEMMA CountConcat ==
    ASSUME NEW S, NEW s \in Seq(S), NEW t \in Seq(S)
    PROVE  Count(s \o t) <= Count(s) + Count(t)
<1>1. /\ Len(s \o t) = Len(s) + Len(t)
      /\ s \o t \in Seq(S)
      /\ \A i \in 1 .. Len(s) + Len(t) :
            (s \o t)[i] = IF i <= Len(s) THEN s[i] ELSE t[i - Len(s)]
  BY ConcatProperties
<1>2. Len(s) \in Nat /\ Len(t) \in Nat /\ DOMAIN s = 1 .. Len(s) /\ DOMAIN t = 1 .. Len(t)
  OBVIOUS
<1>3. DOMAIN (s \o t) = 1 .. Len(s) + Len(t)
  BY <1>1
<1> DEFINE I == Importants(s \o t)
           A == {n \in I : n <= Len(s)}
           B == {n \in I : ~(n <= Len(s))}
<1>4. I \in SUBSET Int /\ IsFiniteSet(I)
  BY <1>1, CountType
<1>5. A \subseteq Importants(s)
  BY <1>1, <1>2, <1>3 DEF Importants
<1>6. \A n \in B : n + (0 - Len(s)) \in Importants(t)
  <2> SUFFICES ASSUME NEW n \in B PROVE n + (0 - Len(s)) \in Importants(t)
    OBVIOUS
  <2>1. n \in 1 .. Len(s) + Len(t) /\ ~(n <= Len(s)) /\ (s \o t)[n].kind = "important"
    BY <1>3 DEF Importants
  <2>2. n - Len(s) \in 1 .. Len(t) /\ n + (0 - Len(s)) = n - Len(s)
    BY <1>2, <2>1
  <2>3. (s \o t)[n] = t[n - Len(s)]
    BY <1>1, <2>1
  <2> QED
    BY <1>2, <2>1, <2>2, <2>3 DEF Importants
<1> HIDE DEF I
<1>7. IsFiniteSet(A) /\ Cardinality(A) <= Count(s) /\ Cardinality(A) \in Nat /\ Count(s) \in Nat
  BY <1>5, CountType, FS_Subset, FS_CardinalityType DEF Count
<1>8. IsFiniteSet(B) /\ Cardinality(B) <= Count(t) /\ Cardinality(B) \in Nat /\ Count(t) \in Nat
  <2>1. IsFiniteSet(Importants(t))
    BY CountType
  <2>2. B \in SUBSET Int
    BY <1>4
  <2>3. 0 - Len(s) \in Int
    BY <1>2
  <2> HIDE DEF B
  <2> QED
    BY <1>6, <2>1, <2>2, <2>3, MovedAreNoMore DEF Count
<1>9. I = A \cup B /\ A \cap B = {}
  OBVIOUS
<1>10. Cardinality(I) = Cardinality(A) + Cardinality(B)
  <2> HIDE DEF A, B
  <2>1. Cardinality(A \cup B) = Cardinality(A) + Cardinality(B) - Cardinality(A \cap B)
    BY <1>7, <1>8, FS_Union
  <2>2. Cardinality(A \cap B) = 0
    BY <1>9, FS_EmptySet
  <2> QED
    BY <1>7, <1>8, <1>9, <2>1, <2>2
<1> HIDE DEF A, B
<1> QED
  BY <1>7, <1>8, <1>10 DEF Count, I

\* The important messages of a piece.
LEMMA CountPiece ==
    ASSUME NEW S, NEW s \in Seq(S), NEW a \in 1 .. Len(s) + 1, NEW b \in 0 .. Len(s)
    PROVE  /\ SubSeq(s, a, b) \in Seq(S)
           /\ Count(SubSeq(s, a, b)) <= Cardinality({n \in Importants(s) : a <= n /\ n <= b})
<1> DEFINE p == SubSeq(s, a, b)
           I == {n \in Importants(s) : a <= n /\ n <= b}
<1>1. \A i \in a .. b : s[i] \in S
  OBVIOUS
<1>2. /\ p \in Seq(S)
      /\ Len(p) = IF a <= b THEN b - a + 1 ELSE 0
      /\ \A i \in 1 .. b - a + 1 : p[i] = s[a + i - 1]
  BY <1>1, SubSeqProperties
<1>3. a \in Int /\ b \in Int /\ Len(s) \in Nat /\ DOMAIN s = 1 .. Len(s)
  OBVIOUS
<1> HIDE DEF p
<1>4. IsFiniteSet(I)
  BY CountType, FS_Subset
<1>5. \A n \in Importants(p) : n + (a - 1) \in I
  <2> SUFFICES ASSUME NEW n \in Importants(p) PROVE n + (a - 1) \in I
    OBVIOUS
  <2>1. n \in DOMAIN p /\ p[n].kind = "important"
    BY DEF Importants
  <2>2. n \in 1 .. b - a + 1
    BY <1>2, <1>3, <2>1
  <2>3. n + (a - 1) \in 1 .. Len(s) /\ n + (a - 1) = a + n - 1
        /\ a <= n + (a - 1) /\ n + (a - 1) <= b
    BY <1>3, <2>2
  <2>4. p[n] = s[n + (a - 1)]
    BY <1>2, <2>2, <2>3
  <2> QED
    BY <1>3, <2>1, <2>3, <2>4 DEF Importants
<1>6. Importants(p) \in SUBSET Int /\ a - 1 \in Int
  BY <1>2, <1>3, CountType
<1> HIDE DEF I
<1>7. Cardinality(Importants(p)) <= Cardinality(I)
  BY <1>4, <1>5, <1>6, MovedAreNoMore
<1> QED
  BY <1>2, <1>7 DEF Count, p, I

\* Tier 1 leaves the important messages.
LEMMA CountCleared ==
    ASSUME NEW S, NEW s \in Seq(S)
    PROVE  Count(Cleared(s)) = Count(s)
<1> DEFINE results == {n \in DOMAIN s : s[n].kind \in {"result", "cleared"}}
           later(n) == Cardinality({m \in results : m > n})
           new(n) == IF n \in results /\ later(n) >= KeepRecent /\ s[n].w > 1
                     THEN Msg("cleared", 1, s[n].about) ELSE s[n]
<1>1. Cleared(s) = [n \in DOMAIN s |-> new(n)]
  BY DEF Cleared
<1>2. \A n : new(n) = s[n] \/ (n \in results /\ new(n).kind = "cleared")
  BY MsgKind
<1>3. \A n \in results : s[n].kind # "important"
  OBVIOUS
<1> HIDE DEF new, results
<1> QED
  BY <1>1, <1>2, <1>3 DEF Count, Importants

\* Two parts of a set that share nothing.
LEMMA TwoParts ==
    ASSUME NEW C, IsFiniteSet(C), NEW A \in SUBSET C, NEW B \in SUBSET C, A \cap B = {}
    PROVE  /\ Cardinality(A) \in Nat /\ Cardinality(B) \in Nat /\ Cardinality(C) \in Nat
           /\ Cardinality(A) + Cardinality(B) <= Cardinality(C)
<1>1. IsFiniteSet(A) /\ IsFiniteSet(B) /\ IsFiniteSet(A \cup B)
  BY FS_Subset
<1>2. /\ Cardinality(A) \in Nat /\ Cardinality(B) \in Nat /\ Cardinality(C) \in Nat
      /\ Cardinality(A \cup B) \in Nat
  BY <1>1, FS_CardinalityType
<1>3. Cardinality(A \cup B) = Cardinality(A) + Cardinality(B) - Cardinality(A \cap B)
  BY <1>1, FS_Union
<1>4. Cardinality(A \cap B) = 0
  BY FS_EmptySet
<1>5. Cardinality(A \cup B) <= Cardinality(C)
  <2>1. A \cup B \subseteq C
    OBVIOUS
  <2> QED
    BY <2>1, FS_Subset
<1> QED
  BY <1>2, <1>3, <1>4, <1>5

\* The LLM marks rounds that it was given.
LEMMA AnswersMark ==
    ASSUME NEW s, NEW a \in Answers(s)
    PROVE  a.important \in SUBSET Big(s)
<1> DEFINE answer(o, i, k) == [outcome |-> o, important |-> i, kept |-> k]
           big == Big(s)
           all == {answer("ok", i, {}) : i \in SUBSET big}
                  \cup {answer("down", {}, k) : k \in SUBSET big}
                  \cup {answer("malformed", {}, {})}
<1>1. \A o, i, k : answer(o, i, k).important = i
  OBVIOUS
<1>2. a \in IF big = {} THEN {answer("none", {}, {})}
                        ELSE {b \in all : b.outcome \in Outcomes}
  BY DEF Answers
<1> HIDE DEF answer, big
<1> QED
  BY <1>1, <1>2 DEF big

\* Tier 2 adds an important message for each round that the LLM marked, at most.
LEMMA CountCollapse ==
    ASSUME NEW S, NEW s \in Seq(S), Collapsible(s), NEW a \in Answers(s)
    PROVE  /\ Count(Collapse(s, a)) \in Nat /\ Count(s) \in Nat
           /\ Cardinality(a.important) \in Nat
           /\ Count(Collapse(s, a)) <= Count(s) + Cardinality(a.important)
           /\ a.important = {} => Count(Collapse(s, a)) <= Count(s)
<1> DEFINE first == Start(s, KeepHead + 1)
           last  == Start(s, Rounds(s) - KeepTail + 1)
           M     == Rounds(s) - KeepHead - KeepTail
           e(k)  == Digest(s, KeepHead + k, a)
           head  == SubSeq(s, 1, first - 1)
           mid   == [k \in 1 .. M |-> e(k)]
           tail  == SubSeq(s, last, Len(s))
           T     == S \cup {e(k) : k \in 1 .. M}
           H     == {n \in Importants(s) : 1 <= n /\ n <= first - 1}
           L     == {n \in Importants(s) : last <= n /\ n <= Len(s)}
<1>1. /\ Rounds(s) \in Nat /\ KeepHead \in Nat \ {0} /\ KeepTail \in Nat \ {0} /\ Len(s) \in Nat
      /\ Rounds(s) > KeepHead + KeepTail + 2
  <2>1. Starts(s) \in SUBSET (1 .. Len(s)) /\ IsFiniteSet(1 .. Len(s))
    BY FS_Interval DEF Starts
  <2>2. IsFiniteSet(Starts(s))
    BY <2>1, FS_Subset
  <2> QED
    BY <2>2, FS_CardinalityType, CompressionConstants DEF Rounds, Collapsible
<1>2. first \in 1 .. Len(s) /\ last \in 1 .. Len(s) /\ first <= last
  <2>1. /\ KeepHead + 1 \in 1 .. Rounds(s) /\ Rounds(s) - KeepTail + 1 \in 1 .. Rounds(s)
        /\ KeepHead + 1 <= Rounds(s) - KeepTail + 1
    BY <1>1
  <2>2. first \in 1 .. Len(s) /\ last \in 1 .. Len(s)
    BY <2>1, StartOfRound
  <2> HIDE DEF first, last
  <2>3. last \in DOMAIN s /\ last <= last /\ Begun(s, last) \in Nat
    BY <2>2, RoundsBegun
  <2>4. Rounds(s) - KeepTail + 1 <= Begun(s, last)
    BY <2>1, <2>3, RoundsBegun DEF last
  <2>5. KeepHead + 1 <= Begun(s, last)
    BY <1>1, <2>1, <2>3, <2>4
  <2> QED
    BY <2>1, <2>2, <2>3, <2>5, RoundsBegun DEF first
<1>3. M \in Nat
  BY <1>1
<1>4. IsFiniteSet(a.important)
  <2>1. a.important \in SUBSET Big(s)
    BY AnswersMark
  <2>2. a.important \in SUBSET (KeepHead + 1 .. Rounds(s) - KeepTail)
    BY <2>1 DEF Big, Middle
  <2>3. IsFiniteSet(KeepHead + 1 .. Rounds(s) - KeepTail)
    BY <1>1, FS_Interval
  <2> QED
    BY <2>2, <2>3, FS_Subset
<1>5. \A g : Digest(s, g, a).kind = "important" => g \in a.important
  BY MsgKind DEF Digest
<1>6. Collapse(s, a) = (head \o mid) \o tail
  BY DEF Collapse
<1>7. head \in Seq(S) /\ Count(head) <= Cardinality(H)
  <2>1. 1 \in 1 .. Len(s) + 1 /\ first - 1 \in 0 .. Len(s)
    BY <1>1, <1>2
  <2> QED
    BY <2>1, CountPiece
<1>8. tail \in Seq(S) /\ Count(tail) <= Cardinality(L)
  <2>1. last \in 1 .. Len(s) + 1 /\ Len(s) \in 0 .. Len(s)
    BY <1>1, <1>2
  <2> QED
    BY <2>1, CountPiece
<1>9. /\ Cardinality(H) \in Nat /\ Cardinality(L) \in Nat /\ Count(s) \in Nat
      /\ Cardinality(H) + Cardinality(L) <= Count(s)
  <2>1. IsFiniteSet(Importants(s)) /\ Importants(s) \in SUBSET Int
    BY CountType
  <2>2. H \cap L = {}
    <3> HIDE DEF first, last
    <3>1. \A n \in Int : ~(n <= first - 1 /\ last <= n)
      BY <1>2
    <3> QED
      BY <2>1, <3>1
  <2>3. H \in SUBSET Importants(s) /\ L \in SUBSET Importants(s)
    OBVIOUS
  <2> HIDE DEF H, L
  <2> QED
    BY <2>1, <2>2, <2>3, TwoParts DEF Count
<1> HIDE DEF first, last, M, e, H, L
<1>10. mid \in Seq({e(k) : k \in 1 .. M}) /\ DOMAIN mid = 1 .. M /\ \A k \in 1 .. M : mid[k] = e(k)
  <2> DEFINE E == {e(k) : k \in 1 .. M}
  <2>0. \A k \in 1 .. M : e(k) \in E
    OBVIOUS
  <2> HIDE DEF E
  <2>1. mid \in Seq(E)
    BY <1>3, <2>0
  <2>2. DOMAIN mid = 1 .. M /\ \A k \in 1 .. M : mid[k] = e(k)
    OBVIOUS
  <2> HIDE DEF mid
  <2> QED
    BY <2>1, <2>2 DEF E
<1> HIDE DEF head, mid, tail
<1>11. Count(mid) <= Cardinality(a.important) /\ Cardinality(a.important) \in Nat
  <2>1. \A n \in Importants(mid) : n + KeepHead \in a.important
    <3> SUFFICES ASSUME NEW n \in Importants(mid)
                 PROVE  n + KeepHead \in a.important
      OBVIOUS
    <3>1. n \in 1 .. M /\ e(n).kind = "important"
      BY <1>10 DEF Importants
    <3>2. KeepHead + n \in a.important
      BY <1>5, <3>1 DEF e
    <3> QED
      BY <1>1, <1>3, <3>1, <3>2
  <2>2. Importants(mid) \in SUBSET Int /\ KeepHead \in Int
    BY <1>1, <1>10, CountType
  <2> QED
    BY <1>4, <2>1, <2>2, MovedAreNoMore DEF Count
<1>12. head \in Seq(T) /\ mid \in Seq(T) /\ tail \in Seq(T)
  <2>1. S \subseteq T /\ {e(k) : k \in 1 .. M} \subseteq T
    OBVIOUS
  <2> HIDE DEF T
  <2> QED
    BY <1>7, <1>8, <1>10, <2>1, SeqGrows
<1> HIDE DEF T
<1>13. head \o mid \in Seq(T) /\ Count(head \o mid) <= Count(head) + Count(mid)
  <2>1. head \o mid \in Seq(T)
    BY <1>12, ConcatProperties
  <2> QED
    BY <1>12, <2>1, CountConcat
<1>14. /\ Collapse(s, a) \in Seq(T)
       /\ Count(Collapse(s, a)) <= Count(head \o mid) + Count(tail)
  <2>1. (head \o mid) \o tail \in Seq(T)
    BY <1>12, <1>13, ConcatProperties
  <2> QED
    BY <1>6, <1>12, <1>13, <2>1, CountConcat
<1>15. /\ Count(head) \in Nat /\ Count(mid) \in Nat /\ Count(tail) \in Nat
       /\ Count(head \o mid) \in Nat /\ Count(Collapse(s, a)) \in Nat
  BY <1>12, <1>13, <1>14, CountType
<1>16. a.important = {} => Cardinality(a.important) = 0
  BY FS_EmptySet
<1>17. Count(Collapse(s, a)) <= Count(s) + Cardinality(a.important)
  BY <1>7, <1>8, <1>9, <1>11, <1>13, <1>14, <1>15
<1> QED
  BY <1>9, <1>11, <1>15, <1>16, <1>17

\* Messages of which none is important.
LEMMA CountNone ==
    ASSUME NEW S, NEW s \in Seq(S), \A n \in DOMAIN s : s[n].kind # "important"
    PROVE  Count(s) = 0
<1>1. Importants(s) = {}
  BY DEF Importants
<1> QED
  BY <1>1, FS_EmptySet DEF Count

\* The inductive invariant for ImportantPersistedByLoop.
EventsInv ==
    /\ RoundsInv
    /\ untold \in BOOLEAN /\ facts \in 0 .. MaxFacts
    /\ untold \/ Count(conv) <= facts \/ facts = MaxFacts

\* No fact is missing where the conversation has no more important messages.
LEMMA EventsStay ==
    ASSUME EventsInv, RoundsInv', UNCHANGED facts, untold' \in BOOLEAN, untold => untold',
           untold' \/ Count(conv') <= Count(conv)
    PROVE  EventsInv'
<1>1. PICK S : conv \in Seq(S)
  BY DEF EventsInv, RoundsInv
<1>2. PICK T : conv' \in Seq(T)
  BY DEF RoundsInv
<1>3. Count(conv) \in Nat /\ Count(conv') \in Nat
  BY <1>1, <1>2, CountType
<1>4. facts \in Nat /\ (untold \/ Count(conv) <= facts \/ facts = MaxFacts)
  BY CompressionConstants DEF EventsInv
<1>5. untold' \/ Count(conv') <= facts \/ facts = MaxFacts
  BY <1>3, <1>4
<1> QED
  BY <1>5 DEF EventsInv, Count, Importants

\* Messages that are added, none of them important.
LEMMA EventsGrow ==
    ASSUME EventsInv, RoundsInv', UNCHANGED <<facts, untold>>,
           NEW T, NEW t \in Seq(T), \A n \in DOMAIN t : t[n].kind # "important",
           conv' = conv \o t
    PROVE  EventsInv'
<1>1. PICK S : conv \in Seq(S)
  BY DEF EventsInv, RoundsInv
<1>2. conv \in Seq(S \cup T) /\ t \in Seq(S \cup T) /\ conv \o t \in Seq(S \cup T)
  BY <1>1, SeqGrows
<1>3. Count(conv \o t) <= Count(conv) + Count(t)
  BY <1>2, CountConcat
<1>4. Count(t) = 0 /\ Count(conv) \in Nat /\ Count(conv \o t) \in Nat
  BY <1>2, CountNone, CountType
<1>5. Count(conv') <= Count(conv)
  BY <1>3, <1>4
<1> QED
  BY <1>5, EventsStay DEF EventsInv

\* The messages of the user, of the loop, of the LLM and of its tools.
LEMMA LoopKeepsEvents ==
    ASSUME EventsInv, RoundsInv', Prompt \/ Drain \/ CallLLM
    PROVE  EventsInv'
<1>1. UNCHANGED <<facts, untold>>
  BY Zenon DEF Prompt, Drain, CallLLM, losses
<1>2. ASSUME NEW m, m.kind # "important", conv' = Append(conv, m)
      PROVE  EventsInv'
  <2>1. PICK S : conv \in Seq(S)
    BY DEF EventsInv, RoundsInv
  <2>2. conv \in Seq(S \cup {m}) /\ m \in S \cup {m}
    BY <2>1, SeqGrows
  <2>3. conv' = conv \o <<m>> /\ <<m>> \in Seq({m}) /\ \A n \in DOMAIN <<m>> : <<m>>[n] = m
    BY <1>2, <2>2
  <2> QED
    BY <1>1, <1>2, <2>3, EventsGrow
<1>3. ASSUME NEW m, NEW r, m.kind # "important", r.kind # "important",
             conv' = conv \o <<m, r>>
      PROVE  EventsInv'
  <2>1. <<m, r>> \in Seq({m, r}) /\ \A n \in DOMAIN <<m, r>> : <<m, r>>[n] \in {m, r}
    OBVIOUS
  <2> QED
    BY <1>1, <1>3, <2>1, EventsGrow
<1>4. CASE Prompt
  <2>1. conv' = Append(conv, Msg("prompt", 1, {asked'}))
    BY <1>4 DEF Prompt, Append1
  <2>2. Msg("prompt", 1, {asked'}).kind # "important"
    BY MsgKind
  <2> QED
    BY <1>2, <2>1, <2>2
<1>5. CASE Drain
  <2>1. PICK n \in 0..2 : conv' = conv \o [k \in 1..n |-> Msg("note", 1, {})]
    BY <1>5 DEF Drain
  <2> DEFINE m == Msg("note", 1, {})
             t == [k \in 1..n |-> m]
  <2>2. m.kind # "important"
    BY MsgKind
  <2> HIDE DEF m
  <2>3. t \in Seq({m}) /\ \A k \in DOMAIN t : t[k] = m
    OBVIOUS
  <2>4. conv' = conv \o t
    BY <2>1 DEF m
  <2> HIDE DEF t
  <2> QED
    BY <1>1, <2>2, <2>3, <2>4, EventsGrow
<1>6. CASE CallLLM
  <2>1. \/ \E k \in {"note", "text"} : conv' = Append(conv, Msg(k, 1, {}))
        \/ conv' = conv \o <<Msg("text", 1, {}), Msg("note", 1, {})>>
        \/ \E w \in {1, 3} : conv' = conv \o <<Msg("call", 1, {}), Msg("result", w, {})>>
    BY <1>6, Zenon DEF CallLLM, Append1
  <2>2. ASSUME NEW k \in {"note", "text"}, conv' = Append(conv, Msg(k, 1, {}))
        PROVE  EventsInv'
    <3>1. Msg(k, 1, {}).kind # "important"
      BY MsgKind
    <3> QED
      BY <1>2, <2>2, <3>1
  <2>3. ASSUME conv' = conv \o <<Msg("text", 1, {}), Msg("note", 1, {})>>
        PROVE  EventsInv'
    <3>1. Msg("text", 1, {}).kind # "important" /\ Msg("note", 1, {}).kind # "important"
      BY MsgKind
    <3> QED
      BY <1>3, <2>3, <3>1
  <2>4. ASSUME NEW w \in {1, 3}, conv' = conv \o <<Msg("call", 1, {}), Msg("result", w, {})>>
        PROVE  EventsInv'
    <3>1. Msg("call", 1, {}).kind # "important" /\ Msg("result", w, {}).kind # "important"
      BY MsgKind
    <3> QED
      BY <1>3, <2>4, <3>1
  <2> QED
    BY <2>1, <2>2, <2>3, <2>4
<1> QED
  BY <1>4, <1>5, <1>6

\* Tiers 1 to 3: what Tier 2 marks nobody is told of, and nothing else marks any.
LEMMA TiersKeepEvents ==
    ASSUME EventsInv, RoundsInv', Tier1 \/ Tier2 \/ Tier3
    PROVE  EventsInv'
<1>0. PICK S : conv \in Seq(S)
  BY DEF EventsInv, RoundsInv
<1>1. UNCHANGED facts /\ Count(conv) \in Nat
  BY <1>0, CountType, Zenon DEF Tier1, Tier2, Tier3, SkipTier, memoryVars
<1>2. untold \in BOOLEAN /\ Count(conv) <= Count(conv)
  BY <1>1 DEF EventsInv
<1>3. CASE Tier1
  <2>1. conv' = Cleared(conv) /\ UNCHANGED untold
    BY <1>3 DEF Tier1, losses
  <2> QED
    BY <1>0, <1>1, <1>2, <2>1, CountCleared, EventsStay
<1>4. CASE Tier2
  <2>1. \/ UNCHANGED <<conv, untold>>
        \/ \E a \in Answers(conv) :
              /\ Collapsible(conv)
              /\ conv' = conv \/ conv' = Collapse(conv, a)
              /\ untold' = (untold \/ a.important # {})
    BY <1>4, Zenon DEF Tier2, SkipTier, memoryVars, losses
  <2>2. CASE UNCHANGED <<conv, untold>>
    BY <1>1, <1>2, <2>2, EventsStay
  <2>3. ASSUME NEW a \in Answers(conv), Collapsible(conv),
               conv' = conv \/ conv' = Collapse(conv, a),
               untold' = (untold \/ a.important # {})
        PROVE  EventsInv'
    <3>1. a.important = {} => Count(Collapse(conv, a)) <= Count(conv)
      BY <1>0, <2>3, CountCollapse
    <3>2. untold' \in BOOLEAN /\ (untold => untold')
      BY <1>2, <2>3
    <3>3. untold' \/ Count(conv') <= Count(conv)
      BY <1>2, <2>3, <3>1
    <3> QED
      BY <1>1, <3>2, <3>3, EventsStay
  <2> QED
    BY <2>1, <2>2, <2>3
<1>5. CASE Tier3
  <2>1. UNCHANGED untold /\ (conv' = conv \/ conv' = LastN(conv, 2 * KeepRounds))
    BY <1>5, Zenon DEF Tier3, SkipTier, memoryVars, losses
  <2> DEFINE a == (IF Len(conv) > 2 * KeepRounds THEN Len(conv) - 2 * KeepRounds ELSE 0) + 1
  <2>2. a \in 1 .. Len(conv) + 1 /\ Len(conv) \in 0 .. Len(conv)
    <3>1. Len(conv) \in Nat /\ KeepRounds \in Nat \ {0}
      BY <1>0, CompressionConstants
    <3>2. 2 * KeepRounds \in Nat
      BY <3>1
    <3> HIDE DEF a
    <3>3. a = IF Len(conv) > 2 * KeepRounds THEN Len(conv) - 2 * KeepRounds + 1 ELSE 1
      BY DEF a
    <3> QED
      BY <3>1, <3>2, <3>3
  <2>3. LastN(conv, 2 * KeepRounds) = SubSeq(conv, a, Len(conv))
    BY DEF LastN
  <2> HIDE DEF a
  <2> DEFINE I == {n \in Importants(conv) : a <= n /\ n <= Len(conv)}
  <2>4. /\ SubSeq(conv, a, Len(conv)) \in Seq(S)
        /\ Count(SubSeq(conv, a, Len(conv))) <= Cardinality(I)
    BY <1>0, <2>2, CountPiece
  <2>5. Cardinality(I) <= Count(conv) /\ Cardinality(I) \in Nat
    <3>1. IsFiniteSet(Importants(conv)) /\ I \subseteq Importants(conv)
      BY <1>0, CountType
    <3> QED
      BY <3>1, FS_Subset, FS_CardinalityType DEF Count
  <2>6. Count(SubSeq(conv, a, Len(conv))) \in Nat
    BY <2>4, CountType
  <2>7. Count(conv') <= Count(conv)
    <3>1. CASE conv' = conv
      BY <1>2, <3>1
    <3>2. CASE conv' = SubSeq(conv, a, Len(conv))
      <4>1. Count(SubSeq(conv, a, Len(conv))) <= Count(conv)
        BY <1>1, <2>4, <2>5, <2>6
      <4> QED
        BY <3>2, <4>1
    <3> QED
      BY <2>1, <2>3, <3>1, <3>2
  <2> QED
    BY <1>1, <1>2, <2>1, <2>7, EventsStay
<1> QED
  BY <1>3, <1>4, <1>5

\* The loop that compresses by itself is told, and persists.
LEMMA LegacyKeepsEvents ==
    ASSUME EventsInv, RoundsInv', LegacyTick
    PROVE  EventsInv'
<1> DEFINE s == Cleared(conv)
<1>0. PICK S : conv \in Seq(S)
  BY DEF EventsInv, RoundsInv
<1>1. UNCHANGED untold /\ untold \in BOOLEAN
  BY DEF LegacyTick, EventsInv
<1>2. Count(s) = Count(conv) /\ Count(conv) \in Nat /\ \E T : s \in Seq(T)
  <2>1. Whole(conv, cut)
    BY DEF EventsInv, RoundsInv
  <2> QED
    BY <1>0, <2>1, CountCleared, CountType, WholeCleared
<1>3. \/ conv' = s /\ UNCHANGED facts
      \/ Collapsible(s) /\ LegacyCollapse(s)
      \/ LegacyCompact(s)
  BY Zenon DEF LegacyTick
<1> HIDE DEF s
<1>4. \/ conv' = s /\ UNCHANGED facts
      \/ \E a \in Answers(s) : /\ Collapsible(s) /\ conv' = Collapse(s, a)
                               /\ facts' = Min({MaxFacts, facts + Cardinality(a.important)})
      \/ \E about : conv' = <<Msg("compacted", 1, about)>> /\ UNCHANGED facts
  BY <1>3, Zenon DEF LegacyCollapse, LegacyCompact
<1>5. CASE conv' = s /\ UNCHANGED facts
  <2>1. Count(conv') <= Count(conv)
    BY <1>2, <1>5
  <2> QED
    BY <1>1, <1>5, <2>1, EventsStay
<1>6. ASSUME NEW a \in Answers(s), Collapsible(s), conv' = Collapse(s, a),
             facts' = Min({MaxFacts, facts + Cardinality(a.important)})
      PROVE  EventsInv'
  <2>1. /\ Count(conv') \in Nat /\ Cardinality(a.important) \in Nat
        /\ Count(conv') <= Count(conv) + Cardinality(a.important)
    BY <1>2, <1>6, CountCollapse
  <2>2. /\ MaxFacts \in Nat /\ facts \in 0 .. MaxFacts
        /\ untold \/ Count(conv) <= facts \/ facts = MaxFacts
    BY CompressionConstants DEF EventsInv
  <2> DEFINE c == Cardinality(a.important)
  <2> HIDE DEF c
  <2>3. c \in Nat /\ Count(conv') <= Count(conv) + c /\ facts' = Min({MaxFacts, facts + c})
    BY <1>6, <2>1 DEF c
  <2>4. facts' = IF MaxFacts <= facts + c THEN MaxFacts ELSE facts + c
    BY <2>2, <2>3, MinOfTwo
  <2>5. facts' \in 0 .. MaxFacts /\ (untold \/ Count(conv') <= facts' \/ facts' = MaxFacts)
    BY <1>2, <2>1, <2>2, <2>3, <2>4
  <2> QED
    BY <1>1, <2>5 DEF EventsInv, Count, Importants
<1>7. ASSUME NEW about, conv' = <<Msg("compacted", 1, about)>>, UNCHANGED facts
      PROVE  EventsInv'
  <2> DEFINE m == Msg("compacted", 1, about)
  <2>1. conv' = <<m>> /\ m.kind # "important"
    BY <1>7, MsgKind
  <2> HIDE DEF m
  <2>2. <<m>> \in Seq({m}) /\ \A n \in DOMAIN <<m>> : <<m>>[n] = m
    OBVIOUS
  <2>3. Count(<<m>>) = 0
    BY <2>1, <2>2, CountNone
  <2>4. Count(conv') <= Count(conv)
    BY <1>2, <2>1, <2>3
  <2> QED
    BY <1>1, <1>7, <2>4, EventsStay
<1> QED
  BY <1>4, <1>5, <1>6, <1>7

\* Every event that the conversation marks as important is among the persistent
\* facts, up to their cap, wherever the loop was told of it: for every budget and
\* every answer of the LLM, through collapses, cuts and full compactions (collapse.py
\* with agent_loop's callback; Tier 2 of the pipeline is given none).
THEOREM ImportantPersistedAlways == Spec => []ImportantPersistedByLoop
<1>1. Init => EventsInv
  <2> SUFFICES ASSUME Init
               PROVE  EventsInv
    OBVIOUS
  <2>1. RoundsInv
    BY RoundsBegin
  <2>2. conv = <<>> /\ facts = 0 /\ untold = FALSE /\ MaxFacts \in Nat
    BY CompressionConstants DEF Init
  <2>3. Count(conv) = 0
    <3>1. <<>> \in Seq({}) /\ DOMAIN <<>> = {}
      OBVIOUS
    <3> QED
      BY <2>2, <3>1, CountNone
  <2>4. Count(conv) <= facts
    BY <2>2, <2>3
  <2>5. facts \in 0 .. MaxFacts
    BY <2>2
  <2> QED
    BY <2>1, <2>2, <2>4, <2>5 DEF EventsInv
<1>2. ASSUME EventsInv, [Next]_vars
      PROVE  EventsInv'
  <2>1. RoundsInv'
    BY <1>2, RoundsKept DEF EventsInv
  <2>2. CASE Elapse \/ Compact \/ Tick \/ UNCHANGED vars
    <3>1. UNCHANGED <<conv, facts, untold>>
      BY <2>2, Zenon DEF Elapse, Compact, Tick, vars, memoryVars, losses
    <3> QED
      BY <1>2, <2>1, <3>1 DEF EventsInv, Count, Importants
  <2> QED
    BY <1>2, <2>1, <2>2, LoopKeepsEvents, TiersKeepEvents, LegacyKeepsEvents DEF Next
<1>3. EventsInv => ImportantPersistedByLoop
  BY DEF EventsInv, ImportantPersistedByLoop, ImportantPersisted, Count, Importants
<1> QED
  BY <1>1, <1>2, <1>3, PTL DEF Spec
===============================================================================
