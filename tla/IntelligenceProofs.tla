--------------------------- MODULE IntelligenceProofs ---------------------------
(* What TLAPS proves of Intelligence for every number of memories, messages   *)
(* and retries and every threshold: reflection loses no memory, and what the   *)
(* memory tools call extracts no message twice and forgets none, and merges no *)
(* memory twice.                                                               *)

EXTENDS MCIntelligence, FiniteSetTheorems, SequenceTheorems, TLAPS

------------------------------------------------------------------------------
(* Types *)

Deeds == {"count", "end_task", "created", "retire", "clear", "ask", "extract",
          "reflect", "reflectInline", "judge", "drain", "halt", "unsubscribe"}
AnyCall == [do : Deeds, of : SUBSET Nat]
Due == {"extract", "reflect"}

WorkTypes ==
    /\ work \in [Threads -> Seq(AnyCall)]
    /\ queue \in Seq(Due \cup {"end"})
    /\ batch \in [Threads -> Seq(Due)]
    /\ buffer \in SUBSET Nat /\ tracked \in Nat

\* Calls that touch no memory that exists.
Quiet(calls) == \A n \in DOMAIN calls : calls[n].do \notin {"retire", "judge"}

\* A call as the fields of Call say it.
LEMMA CallFields ==
    ASSUME NEW d, NEW S
    PROVE  /\ Call(d, S).do = d /\ Call(d, S).of = S
           /\ d \in Deeds /\ S \in SUBSET Nat => Call(d, S) \in AnyCall
  BY DEF Call, AnyCall

\* The pending calls of one event or two, and of none.
LEMMA FewCalls ==
    ASSUME NEW c \in AnyCall, NEW d \in AnyCall, NEW e \in AnyCall
    PROVE  /\ <<>> \in Seq(AnyCall) /\ <<c>> \in Seq(AnyCall)
           /\ <<c, d>> \in Seq(AnyCall) /\ <<c, d, e>> \in Seq(AnyCall)
  OBVIOUS

\* Calls of a list of events.
LEMMA CallsOfEvents ==
    ASSUME NEW events \in Seq(Due)
    PROVE  /\ Calls(events) \in Seq(AnyCall)
           /\ DOMAIN Calls(events) = DOMAIN events
           /\ \A n \in DOMAIN events : Calls(events)[n] = Call(events[n], {})
           /\ Quiet(Calls(events))
<1>1. DOMAIN events = 1 .. Len(events) /\ Len(events) \in Nat
  OBVIOUS
<1>2. \A n \in DOMAIN events : events[n] \in Due
  OBVIOUS
<1>3. \A n \in DOMAIN events : Call(events[n], {}) \in AnyCall
                               /\ Call(events[n], {}).do \notin {"retire", "judge"}
  BY <1>2, CallFields DEF Due, Deeds
<1>4. Calls(events) = [n \in 1 .. Len(events) |-> Call(events[n], {})]
  BY <1>1 DEF Calls
<1> QED
  BY <1>1, <1>3, <1>4 DEF Quiet

\* enqueue leaves further calls to make, none of which touches a memory, and
\* queues events.
LEMMA EnqueueIsQuiet ==
    ASSUME WorkTypes, NEW t \in Threads, NEW events \in Seq(Due), Enqueue(t, events)
    PROVE  /\ queue' \in Seq(Due \cup {"end"})
           /\ \E calls \in Seq(AnyCall) : Quiet(calls) /\ Then(t, calls)
<1> DEFINE heard == IF subscribed THEN events ELSE <<>>
           inline(e) == IF e = "reflect" THEN "reflectInline" ELSE e
           calls == [n \in DOMAIN heard |-> Call(inline(heard[n]), {})]
<1>0. <<>> \in Seq(Due) /\ <<>> \in Seq(AnyCall)
  OBVIOUS
<1>1. heard \in Seq(Due)
  BY <1>0
<1>2. IF Inline THEN Then(t, calls) /\ UNCHANGED queue
                ELSE Then(t, <<>>) /\ queue' = queue \o heard
  BY DEF Enqueue
<1> HIDE DEF heard
<1>3. \A n \in DOMAIN heard : inline(heard[n]) \in Deeds \ {"retire", "judge"}
  BY <1>1 DEF Due, Deeds
<1> HIDE DEF inline
<1>4. \A n \in DOMAIN heard : Call(inline(heard[n]), {}) \in AnyCall
                              /\ Call(inline(heard[n]), {}).do \notin {"retire", "judge"}
  BY <1>3, CallFields
<1>5. calls \in Seq(AnyCall) /\ Quiet(calls)
  <2>1. DOMAIN heard = 1 .. Len(heard) /\ Len(heard) \in Nat
    BY <1>1
  <2>2. calls = [n \in 1 .. Len(heard) |-> Call(inline(heard[n]), {})]
    BY <2>1
  <2> QED
    BY <1>4, <2>1, <2>2 DEF Quiet
<1>6. queue \o heard \in Seq(Due \cup {"end"})
  BY <1>1 DEF WorkTypes
<1>7. Quiet(<<>>)
  BY DEF Quiet
<1> HIDE DEF calls
<1> QED
  BY <1>0, <1>2, <1>5, <1>6, <1>7 DEF WorkTypes

------------------------------------------------------------------------------
(* Merging *)

Born == {i \in Ids : place[i] # "unborn"}

\* Memories that a thread is still going to archive.
Retiring ==
    {j \in Ids : \E t \in Threads : \E n \in DOMAIN work[t] :
                    work[t][n].do = "retire" /\ j \in work[t][n].of}

\* What is active and stays so.
Kept == Active \ Retiring

\* A call that touches memories names one or two of B.
Names(c, B) ==
    /\ c.do = "retire" => \E j \in B : c.of = {j}
    /\ c.do = "judge"  => \E a, b \in B : c.of = {a, b}

\* A new call does so too, and retires memories of D only.
Fits(c, B, D) == Names(c, B) /\ (c.do = "retire" => c.of \subseteq D)

\* The inductive invariant for AlwaysCovered: already before the pair is
\* archived the merged memory covers what the pair covers.
MergeInv ==
    /\ WorkTypes
    /\ place \in [Ids -> {"unborn", "active", "archived", "deleted"}]
    /\ covers \in [Ids -> SUBSET Ids]
    /\ \A t \in Threads : \A n \in DOMAIN work[t] : Names(work[t][n], Born)
    /\ \A i \in Ids : i \in covers[i]
    /\ \A i \in Born : i \in dropped \cup UNION {covers[j] : j \in Kept}

\* Calls that touch no memory fit.
LEMMA QuietFits ==
    ASSUME NEW calls, Quiet(calls), NEW B, NEW D
    PROVE  \A n \in DOMAIN calls : Fits(calls[n], B, D)
  BY DEF Quiet, Fits, Names

\* A thread whose new calls fit retires D at most, in addition.
LEMMA StackChanges ==
    ASSUME MergeInv, NEW t \in Threads, NEW s \in Seq(AnyCall), NEW D,
           work' = [work EXCEPT ![t] = s],
           \A n \in DOMAIN s : Fits(s[n], Born', D)
                               \/ (\E m \in DOMAIN work[t] : s[n] = work[t][m]),
           Born \subseteq Born'
    PROVE  /\ work' \in [Threads -> Seq(AnyCall)]
           /\ \A u \in Threads : \A n \in DOMAIN work'[u] : Names(work'[u][n], Born')
           /\ Retiring' \subseteq Retiring \cup D
<1>1. work \in [Threads -> Seq(AnyCall)]
  BY DEF MergeInv, WorkTypes
<1>2. work'[t] = s /\ \A u \in Threads \ {t} : work'[u] = work[u]
  BY <1>1
<1>3. ASSUME NEW c, Names(c, Born) PROVE Names(c, Born')
  BY <1>3 DEF Names
<1>4. ASSUME NEW c, Fits(c, Born', D) PROVE Names(c, Born')
  BY <1>4 DEF Fits
<1>5. ASSUME NEW u \in Threads, NEW n \in DOMAIN work'[u]
      PROVE  Names(work'[u][n], Born')
  <2>1. CASE u = t
    <3>1. n \in DOMAIN s /\ work'[u][n] = s[n]
      BY <1>2, <1>5, <2>1
    <3>2. ASSUME NEW m \in DOMAIN work[t], s[n] = work[t][m]
          PROVE  Names(s[n], Born)
      BY <3>2 DEF MergeInv
    <3> QED
      BY <1>3, <1>4, <3>1, <3>2
  <2>2. CASE u # t
    BY <1>2, <1>3, <1>5, <2>2 DEF MergeInv
  <2> QED
    BY <2>1, <2>2
<1>6. ASSUME NEW j \in Ids, NEW u \in Threads, NEW n \in DOMAIN work'[u],
             work'[u][n].do = "retire", j \in work'[u][n].of, j \notin D
      PROVE  \E v \in Threads : \E m \in DOMAIN work[v] :
                work[v][m].do = "retire" /\ j \in work[v][m].of
  <2>1. CASE u = t
    <3>0. n \in DOMAIN s /\ work'[u][n] = s[n] /\ ~Fits(s[n], Born', D)
      BY <1>2, <1>6, <2>1 DEF Fits
    <3>1. PICK m \in DOMAIN work[t] : s[n] = work[t][m]
      BY <3>0
    <3> QED
      BY <1>2, <1>6, <2>1, <3>1
  <2>2. CASE u # t
    BY <1>2, <1>6, <2>2
  <2> QED
    BY <2>1, <2>2
<1>7. Retiring' \subseteq Retiring \cup D
  BY <1>6 DEF Retiring
<1>8. work' \in [Threads -> Seq(AnyCall)]
  BY <1>1
<1> QED
  BY <1>5, <1>7, <1>8

\* The head is done and left calls that fit.
LEMMA HeadDone ==
    ASSUME MergeInv, NEW t \in Threads, work[t] # <<>>, NEW D,
           NEW calls \in Seq(AnyCall), Then(t, calls),
           \A n \in DOMAIN calls : Fits(calls[n], Born', D),
           Born \subseteq Born'
    PROVE  /\ work' \in [Threads -> Seq(AnyCall)]
           /\ \A u \in Threads : \A n \in DOMAIN work'[u] : Names(work'[u][n], Born')
           /\ Retiring' \subseteq Retiring \cup D
<1> DEFINE s == calls \o Tail(work[t])
<1>1. work[t] \in Seq(AnyCall) /\ work \in [Threads -> Seq(AnyCall)]
  BY DEF MergeInv, WorkTypes
<1>2. /\ Tail(work[t]) \in Seq(AnyCall)
      /\ Len(Tail(work[t])) = Len(work[t]) - 1
      /\ \A n \in 1 .. Len(work[t]) - 1 : Tail(work[t])[n] = work[t][n + 1]
  BY <1>1
<1>3. /\ s \in Seq(AnyCall)
      /\ Len(s) = Len(calls) + Len(Tail(work[t]))
      /\ \A i \in 1 .. Len(calls) + Len(Tail(work[t])) : s[i] =
            IF i <= Len(calls) THEN calls[i] ELSE Tail(work[t])[i - Len(calls)]
  BY <1>2, ConcatProperties
<1>4. work' = [work EXCEPT ![t] = s]
  BY DEF Then
<1> HIDE DEF s
<1>5. ASSUME NEW n \in DOMAIN s, ~Fits(s[n], Born', D)
      PROVE  \E m \in DOMAIN work[t] : s[n] = work[t][m]
  <2>0. /\ Len(calls) \in Nat /\ Len(work[t]) \in Nat
        /\ n \in 1 .. Len(calls) + Len(work[t]) - 1
        /\ DOMAIN calls = 1 .. Len(calls) /\ DOMAIN work[t] = 1 .. Len(work[t])
    BY <1>1, <1>2, <1>3, <1>5
  <2>1. ~(n <= Len(calls))
    <3> SUFFICES ASSUME n <= Len(calls) PROVE FALSE
      OBVIOUS
    <3>1. n \in DOMAIN calls /\ s[n] = calls[n]
      BY <1>2, <1>3, <2>0
    <3> QED
      BY <1>5, <3>1
  <2>2. n - Len(calls) \in 1 .. Len(work[t]) - 1
    BY <2>0, <2>1
  <2>3. s[n] = Tail(work[t])[n - Len(calls)]
    BY <1>2, <1>3, <2>0, <2>1
  <2>4. Tail(work[t])[n - Len(calls)] = work[t][n - Len(calls) + 1]
    BY <1>2, <2>2
  <2>5. n - Len(calls) + 1 \in DOMAIN work[t]
    BY <2>0, <2>2
  <2> QED
    BY <2>3, <2>4, <2>5
<1> QED
  <2>1. \A n \in DOMAIN s : Fits(s[n], Born', D) \/ (\E m \in DOMAIN work[t] : s[n] = work[t][m])
    BY <1>5
  <2>2. s \in Seq(AnyCall)
    BY <1>3
  <2> QED
    BY <1>4, <2>1, <2>2, StackChanges, Zenon

\* MergeInv survives what retires nothing more and takes nothing from the store.
LEMMA CoverStays ==
    ASSUME MergeInv, WorkTypes', UNCHANGED <<place, covers, dropped>>,
           \A u \in Threads : \A n \in DOMAIN work'[u] : Names(work'[u][n], Born'),
           Retiring' \subseteq Retiring
    PROVE  MergeInv'
<1>1. Born' = Born /\ Active' = Active
  BY DEF Born, Active
<1>2. Kept \subseteq Kept'
  BY <1>1 DEF Kept
<1>3. \A i \in Born : i \in dropped' \cup UNION {covers'[j] : j \in Kept'}
  BY <1>2 DEF MergeInv
<1> QED
  BY <1>1, <1>3 DEF MergeInv

\* A call that neither touches a memory nor changes the store keeps MergeInv.
LEMMA QuietStep ==
    ASSUME MergeInv, NEW t \in Threads, work[t] # <<>>,
           NEW calls \in Seq(AnyCall), Then(t, calls),
           \A n \in DOMAIN calls : Fits(calls[n], Born, {}),
           UNCHANGED <<place, covers, dropped>>,
           queue' \in Seq(Due \cup {"end"}), batch' \in [Threads -> Seq(Due)],
           buffer' \in SUBSET Nat, tracked' \in Nat
    PROVE  MergeInv'
<1>1. Born' = Born
  BY DEF Born
<1>2. /\ work' \in [Threads -> Seq(AnyCall)]
      /\ \A u \in Threads : \A n \in DOMAIN work'[u] : Names(work'[u][n], Born')
      /\ Retiring' \subseteq Retiring \cup {}
  <2>1. \A n \in DOMAIN calls : Fits(calls[n], Born', {})
    BY <1>1
  <2> QED
    BY <1>1, <2>1, HeadDone, Zenon
<1>3. WorkTypes'
  BY <1>2 DEF WorkTypes
<1> QED
  BY <1>2, <1>3, CoverStays

\* So does one that replaces the stack by quiet calls and some of its own.
LEMMA NewStack ==
    ASSUME MergeInv, NEW t \in Threads, NEW s \in Seq(AnyCall),
           work' = [work EXCEPT ![t] = s],
           \A n \in DOMAIN s : Fits(s[n], Born, {})
                               \/ (\E m \in DOMAIN work[t] : s[n] = work[t][m]),
           UNCHANGED <<place, covers, dropped>>,
           queue' \in Seq(Due \cup {"end"}), batch' \in [Threads -> Seq(Due)],
           buffer' \in SUBSET Nat, tracked' \in Nat
    PROVE  MergeInv'
<1>1. Born' = Born
  BY DEF Born
<1>2. /\ work' \in [Threads -> Seq(AnyCall)]
      /\ \A u \in Threads : \A n \in DOMAIN work'[u] : Names(work'[u][n], Born')
      /\ Retiring' \subseteq Retiring \cup {}
  <2>1. \A n \in DOMAIN s : Fits(s[n], Born', {})
                            \/ (\E m \in DOMAIN work[t] : s[n] = work[t][m])
    BY <1>1
  <2> QED
    BY <1>1, <2>1, StackChanges, Zenon
<1>3. WorkTypes'
  BY <1>2 DEF WorkTypes
<1> QED
  BY <1>2, <1>3, CoverStays

\* A step that leaves the stacks and the store keeps it.
LEMMA SameStacks ==
    ASSUME MergeInv, UNCHANGED <<work, place, covers, dropped>>,
           queue' \in Seq(Due \cup {"end"}), batch' \in [Threads -> Seq(Due)],
           buffer' \in SUBSET Nat, tracked' \in Nat
    PROVE  MergeInv'
<1>1. Born' = Born /\ Retiring' = Retiring
  BY DEF Born, Retiring
<1>2. WorkTypes'
  BY DEF MergeInv, WorkTypes
<1>3. \A u \in Threads : \A n \in DOMAIN work'[u] : Names(work'[u][n], Born')
  BY <1>1 DEF MergeInv
<1> QED
  BY <1>1, <1>2, <1>3, CoverStays

\* A new memory that covers what it replaces, and itself.
LEMMA AddCovers ==
    ASSUME MergeInv, WorkTypes', NEW i \in Fresh, NEW p, NEW important,
           Add(i, p, important), UNCHANGED dropped,
           NEW D \in SUBSET Born, NEW C \in SUBSET Ids,
           \A j \in D : covers[j] \subseteq C,
           covers' = [covers EXCEPT ![i] = @ \cup C],
           \A u \in Threads : \A n \in DOMAIN work'[u] : Names(work'[u][n], Born'),
           Retiring' \subseteq Retiring \cup D
    PROVE  MergeInv'
<1>1. i \in Ids /\ place[i] = "unborn" /\ place' = [place EXCEPT ![i] = "active"]
  BY DEF Fresh, Add
<1>2. place \in [Ids -> {"unborn", "active", "archived", "deleted"}]
      /\ covers \in [Ids -> SUBSET Ids]
  BY DEF MergeInv
<1>3. Born' = Born \cup {i} /\ Active' = Active \cup {i} /\ i \notin Born /\ i \notin Active
  BY <1>1, <1>2 DEF Born, Active
<1>4. i \notin Retiring
  <2> SUFFICES ASSUME i \in Retiring PROVE FALSE
    OBVIOUS
  <2>1. PICK t \in Threads : \E n \in DOMAIN work[t] :
            work[t][n].do = "retire" /\ i \in work[t][n].of
    BY DEF Retiring
  <2>2. PICK n \in DOMAIN work[t] : work[t][n].do = "retire" /\ i \in work[t][n].of
    BY <2>1
  <2>3. Names(work[t][n], Born)
    BY DEF MergeInv
  <2> QED
    BY <1>3, <2>2, <2>3 DEF Names
<1>5. i \in Kept' /\ Kept \ D \subseteq Kept'
  BY <1>3, <1>4 DEF Kept
<1>6. covers' \in [Ids -> SUBSET Ids]
      /\ covers'[i] = covers[i] \cup C
      /\ \A j \in Ids \ {i} : covers'[j] = covers[j]
  BY <1>1, <1>2
<1>7. \A j \in Ids : j \in covers'[j]
  BY <1>6 DEF MergeInv
<1>8. ASSUME NEW k \in Born'
      PROVE  k \in dropped' \cup UNION {covers'[j] : j \in Kept'}
  <2>1. CASE k = i
    BY <1>5, <1>7, <1>1, <2>1
  <2>2. CASE k \in Born
    <3>1. k \in dropped \cup UNION {covers[j] : j \in Kept}
      BY <2>2 DEF MergeInv
    <3>2. CASE k \in dropped
      BY <3>2
    <3>3. ASSUME NEW j \in Kept, k \in covers[j]
          PROVE  k \in UNION {covers'[m] : m \in Kept'}
      <4>1. CASE j \in D
        BY <1>5, <1>6, <3>3, <4>1
      <4>2. CASE j \notin D
        <5>1. j \in Kept' /\ j \in Ids /\ j # i
          BY <1>3, <1>5, <4>2 DEF Kept, Active
        <5> QED
          BY <1>6, <3>3, <5>1
      <4> QED
        BY <4>1, <4>2
    <3> QED
      BY <3>1, <3>2, <3>3
  <2> QED
    BY <1>3, <1>8, <2>1, <2>2
<1>9. place' \in [Ids -> {"unborn", "active", "archived", "deleted"}]
  BY <1>1, <1>2
<1> QED
  BY <1>6, <1>7, <1>8, <1>9 DEF MergeInv

\* What the types say of the call at the head of a stack.
LEMMA HeadCall ==
    ASSUME MergeInv, NEW t \in Threads, NEW d, Does(t, d)
    PROVE  /\ work[t] # <<>> /\ work[t] \in Seq(AnyCall)
           /\ Argument(t) \in SUBSET Nat
           /\ d = "retire" => \E j \in Born : Argument(t) = {j}
           /\ d = "judge"  => \E a, b \in Born : Argument(t) = {a, b}
<1>1. work[t] # <<>> /\ work[t] \in Seq(AnyCall) /\ Head(work[t]).do = d
  BY DEF MergeInv, WorkTypes, Does
<1>2. Head(work[t]) = work[t][1] /\ 1 \in DOMAIN work[t] /\ Head(work[t]) \in AnyCall
  BY <1>1
<1>3. Names(Head(work[t]), Born)
  BY <1>2 DEF MergeInv
<1> QED
  BY <1>1, <1>2, <1>3 DEF Argument, Names, AnyCall

\* The least and the greatest of a pair, by the community modules.
LEMMA OfPair ==
    ASSUME NEW a \in Int, NEW b \in Int
    PROVE  Min({a, b}) \in {a, b} /\ Max({a, b}) \in {a, b}
<1>1. \E x \in {a, b} : \A y \in {a, b} : x <= y
  OBVIOUS
<1>2. \E x \in {a, b} : \A y \in {a, b} : x >= y
  OBVIOUS
<1> QED
  BY <1>1, <1>2 DEF Min, Max

\* Whatever is left on the stack was there.
LEMMA BeneathIsOld ==
    ASSUME WorkTypes, NEW t \in Threads
    PROVE  /\ Beneath(t) \in Seq(AnyCall)
           /\ \A n \in DOMAIN Beneath(t) : \E m \in DOMAIN work[t] : Beneath(t)[n] = work[t][m]
<1> DEFINE stop == {n \in DOMAIN work[t] : work[t][n].do \in {"halt", "unsubscribe"}}
           a == Len(work[t]) - Cardinality(stop) + 1
<1>1. work[t] \in Seq(AnyCall) /\ Len(work[t]) \in Nat /\ DOMAIN work[t] = 1 .. Len(work[t])
  BY DEF WorkTypes
<1>2. Cardinality(stop) \in Nat /\ Cardinality(stop) <= Len(work[t])
  <2>1. IsFiniteSet(1 .. Len(work[t])) /\ Cardinality(1 .. Len(work[t])) = Len(work[t])
    BY <1>1, FS_Interval
  <2>2. stop \in SUBSET (1 .. Len(work[t]))
    BY <1>1
  <2> HIDE DEF stop
  <2> QED
    BY <2>1, <2>2, FS_Subset, FS_CardinalityType
<1>3. Beneath(t) = SubSeq(work[t], a, Len(work[t]))
  BY DEF Beneath
<1> HIDE DEF stop
<1>4. a \in Int /\ a >= 1
  BY <1>1, <1>2
<1> HIDE DEF a
<1>5. \A i \in a .. Len(work[t]) : i \in DOMAIN work[t] /\ work[t][i] \in AnyCall
  BY <1>1, <1>4
<1>6. /\ Beneath(t) \in Seq(AnyCall)
      /\ Len(Beneath(t)) = IF a <= Len(work[t]) THEN Len(work[t]) - a + 1 ELSE 0
      /\ \A i \in 1 .. Len(work[t]) - a + 1 : Beneath(t)[i] = work[t][a + i - 1]
  BY <1>1, <1>3, <1>4, <1>5, SubSeqProperties
<1>7. ASSUME NEW n \in DOMAIN Beneath(t)
      PROVE  \E m \in DOMAIN work[t] : Beneath(t)[n] = work[t][m]
  <2>1. n \in 1 .. Len(work[t]) - a + 1
    BY <1>1, <1>4, <1>6, <1>7
  <2>2. a + n - 1 \in DOMAIN work[t]
    BY <1>1, <1>4, <2>1
  <2> QED
    BY <1>6, <2>1, <2>2
<1> QED
  BY <1>6, <1>7

\* What reflection selects are different pairs of active memories, which are alike.
LEMMA SelectionsArePairs ==
    ASSUME NEW s \in Selections
    PROVE  /\ s \in Seq(SUBSET Ids)
           /\ \A n \in DOMAIN s : \E a, b \in Born : s[n] = {a, b}
           /\ \A n \in DOMAIN s : \E a, b \in Active :
                 a # b /\ topic[a] = topic[b] /\ s[n] = {a, b}
           /\ \A m, n \in DOMAIN s : s[m] = s[n] => m = n
<1>1. PICK q \in SetToSeqs(Pairs) : s = SubSeq(q, 1, Min({MaxPairs, Len(q)}))
  BY DEF Selections
<1>2. IsFiniteSet(Ids)
  BY FS_Interval, IntelligenceConstants DEF Ids
<1>3. IsFiniteSet(Active) /\ Active \subseteq Ids
  BY <1>2, FS_Subset DEF Active
<1>4. Pairs \subseteq SUBSET Active
  BY DEF Pairs, kSubset
<1>5. Cardinality(Pairs) \in Nat
  BY <1>3, <1>4, FS_SUBSET, FS_Subset, FS_CardinalityType
<1>6. q \in [1 .. Cardinality(Pairs) -> Pairs]
      /\ \A i, j \in 1 .. Cardinality(Pairs) : i # j => q[i] # q[j]
  BY <1>1 DEF SetToSeqs
<1>7. q \in Seq(Pairs) /\ Len(q) = Cardinality(Pairs)
  BY <1>5, <1>6
<1> DEFINE m == Min({MaxPairs, Len(q)})
<1>8. m \in Int /\ m <= Len(q)
  <2>1. MaxPairs \in Nat /\ Len(q) \in Nat
    BY <1>5, <1>7, IntelligenceConstants
  <2>2. \E x \in {MaxPairs, Len(q)} : \A y \in {MaxPairs, Len(q)} : x <= y
    BY <2>1
  <2>3. m \in {MaxPairs, Len(q)} /\ \A y \in {MaxPairs, Len(q)} : m <= y
    BY <2>2 DEF Min
  <2> HIDE DEF m
  <2> QED
    BY <2>1, <2>3
<1>9. s = SubSeq(q, 1, m)
  BY <1>1
<1> HIDE DEF m
<1>10. \A i \in 1 .. m : q[i] \in Pairs /\ i \in 1 .. Cardinality(Pairs)
  BY <1>5, <1>6, <1>7, <1>8
<1>11. s \in Seq(Pairs) /\ DOMAIN s = 1 .. m /\ \A i \in 1 .. m : s[i] = q[i]
  <2>1. /\ SubSeq(q, 1, m) \in Seq(Pairs)
        /\ Len(SubSeq(q, 1, m)) = IF 1 <= m THEN m - 1 + 1 ELSE 0
        /\ \A i \in 1 .. m - 1 + 1 : SubSeq(q, 1, m)[i] = q[1 + i - 1]
    BY <1>8, <1>10, SubSeqProperties
  <2>2. s \in Seq(Pairs) /\ Len(s) = IF 1 <= m THEN m ELSE 0
    BY <1>8, <1>9, <2>1
  <2>3. DOMAIN s = 1 .. m
    BY <1>8, <2>2
  <2> QED
    BY <1>8, <1>9, <2>1, <2>2, <2>3
<1>12. ASSUME NEW S \in Pairs
       PROVE  \E a, b \in Active : a # b /\ topic[a] = topic[b] /\ S = {a, b}
  <2>1. /\ S \subseteq Active /\ Cardinality(S) = 2
        /\ \A a, b \in S : topic[a] = topic[b]
    BY <1>12 DEF Pairs, kSubset
  <2>2. IsFiniteSet(S)
    BY <1>3, <2>1, FS_Subset
  <2>3. PICK a \in S : TRUE
    BY <2>1, <2>2, FS_EmptySet
  <2>4. IsFiniteSet(S \ {a}) /\ Cardinality(S \ {a}) = 1
    BY <2>1, <2>2, <2>3, FS_RemoveElement
  <2>5. PICK b : S \ {a} = {b}
    BY <2>4, FS_Singleton
  <2>6. S = {a, b} /\ a # b
    BY <2>3, <2>5
  <2> QED
    BY <2>1, <2>6
<1>13. s \in Seq(SUBSET Ids)
  BY <1>3, <1>4, <1>11
<1>14. Active \subseteq Born
  BY DEF Active, Born
<1> QED
  BY <1>6, <1>10, <1>11, <1>12, <1>13, <1>14

\* TriggerPolicy's handlers only enqueue.
LEMMA TriggerStep ==
    ASSUME MergeInv, NEW t \in Threads, NEW d, Does(t, d),
           NEW events \in Seq(Due), Enqueue(t, events),
           UNCHANGED <<place, covers, dropped, batch, buffer, tracked>>
    PROVE  MergeInv'
<1>1. WorkTypes
  BY DEF MergeInv
<1>2. queue' \in Seq(Due \cup {"end"})
  BY <1>1, EnqueueIsQuiet
<1>3. PICK calls \in Seq(AnyCall) : Quiet(calls) /\ Then(t, calls)
  BY <1>1, EnqueueIsQuiet
<1>4. work[t] # <<>>
  BY HeadCall
<1>5. \A n \in DOMAIN calls : Fits(calls[n], Born, {})
  BY <1>3, QuietFits
<1>6. batch' \in [Threads -> Seq(Due)] /\ buffer' \in SUBSET Nat /\ tracked' \in Nat
  BY <1>1 DEF WorkTypes
<1> QED
  BY <1>2, <1>3, <1>4, <1>5, <1>6, QuietStep

\* A call that ends with further calls, none of which touches a memory.
LEMMA PlainStep ==
    ASSUME MergeInv, NEW t \in Threads, NEW d, Does(t, d),
           NEW calls \in Seq(AnyCall), Quiet(calls), Then(t, calls),
           UNCHANGED <<place, covers, dropped, tracked>>,
           queue' = queue \/ queue' = Append(queue, "end"),
           UNCHANGED batch, buffer' = buffer \/ buffer' = {}
    PROVE  MergeInv'
<1>1. WorkTypes
  BY DEF MergeInv
<1>2. work[t] # <<>>
  BY HeadCall
<1>3. \A n \in DOMAIN calls : Fits(calls[n], Born, {})
  BY QuietFits
<1>4. batch' \in [Threads -> Seq(Due)] /\ buffer' \in SUBSET Nat /\ tracked' \in Nat
  BY <1>1 DEF WorkTypes
<1> DEFINE E == Due \cup {"end"}
<1>5. queue' \in Seq(E)
  <2>1. queue \in Seq(E) /\ "end" \in E
    BY <1>1 DEF WorkTypes
  <2> HIDE DEF E
  <2> QED
    BY <2>1
<1> QED
  BY <1>2, <1>3, <1>4, <1>5, QuietStep

\* A call of the client, who has finished the one before.
LEMMA ClientStarts ==
    ASSUME MergeInv, work["client"] = <<>>,
           NEW calls \in Seq(AnyCall), Quiet(calls),
           work' = [work EXCEPT !["client"] = calls],
           UNCHANGED <<place, covers, dropped, queue>>,
           batch' \in [Threads -> Seq(Due)],
           buffer' \in SUBSET Nat, tracked' \in Nat
    PROVE  MergeInv'
<1>1. "client" \in Threads /\ queue' \in Seq(Due \cup {"end"})
  BY DEF Threads, MergeInv, WorkTypes
<1>2. \A n \in DOMAIN calls : Fits(calls[n], Born, {})
  BY QuietFits
<1> QED
  BY <1>1, <1>2, NewStack

\* MemoryStore.archive of one memory that a merge has replaced, or not any more.
LEMMA RetireStep ==
    ASSUME MergeInv, NEW t \in Threads, Retire(t)
    PROVE  MergeInv'
<1>1. PICK j \in Born : Argument(t) = {j}
  BY HeadCall DEF Retire
<1>2. Single(Argument(t)) = j
  BY <1>1 DEF Single
<1>3. /\ Does(t, "retire") /\ Then(t, <<>>)
      /\ place' = IF j \in Active THEN [place EXCEPT ![j] = "archived"] ELSE place
      /\ UNCHANGED <<covers, dropped, queue, batch, buffer, tracked>>
  BY <1>2 DEF Retire, worker, talk
<1>4. place \in [Ids -> {"unborn", "active", "archived", "deleted"}] /\ WorkTypes
  BY DEF MergeInv
<1>5. Born' = Born /\ Active' = Active \ {j}
  BY <1>1, <1>3, <1>4 DEF Born, Active
<1>6. j \in Retiring
  <2>1. 1 \in DOMAIN work[t] /\ Head(work[t]) = work[t][1]
    BY <1>3, HeadCall
  <2>2. work[t][1].do = "retire" /\ j \in work[t][1].of
    BY <1>1, <1>3, <2>1 DEF Does, Argument
  <2> QED
    BY <1>1, <2>1, <2>2 DEF Retiring, Born
<1>7. /\ work' \in [Threads -> Seq(AnyCall)]
      /\ \A u \in Threads : \A n \in DOMAIN work'[u] : Names(work'[u][n], Born')
      /\ Retiring' \subseteq Retiring \cup {}
  <2>1. work[t] # <<>>
    BY <1>3, HeadCall
  <2>2. <<>> \in Seq(AnyCall) /\ \A n \in DOMAIN <<>> : Fits(<<>>[n], Born', {})
    OBVIOUS
  <2> QED
    BY <1>3, <1>5, <2>1, <2>2, HeadDone, Zenon
<1>8. Kept \subseteq Kept'
  BY <1>5, <1>6, <1>7 DEF Kept
<1>9. \A i \in Born : i \in dropped' \cup UNION {covers'[k] : k \in Kept'}
  BY <1>3, <1>8 DEF MergeInv
<1>10. WorkTypes'
  BY <1>3, <1>4, <1>7 DEF WorkTypes
<1>11. place' \in [Ids -> {"unborn", "active", "archived", "deleted"}]
  BY <1>3, <1>4
<1> QED
  BY <1>3, <1>5, <1>7, <1>9, <1>10, <1>11 DEF MergeInv

\* _apply_merge: the new memory is there before the pair is archived.
LEMMA JudgeStep ==
    ASSUME MergeInv, NEW t \in Threads, Judge(t)
    PROVE  MergeInv'
<1>0. Does(t, "judge") /\ work[t] # <<>> /\ WorkTypes
      /\ UNCHANGED <<dropped, queue, batch, buffer, tracked>>
  BY HeadCall DEF Judge, MergeInv, worker, talk
<1>1. PICK a \in Born, b \in Born : Argument(t) = {a, b}
  BY <1>0, HeadCall
<1>2. CASE Then(t, <<>>) /\ UNCHANGED memories
  <2>1. <<>> \in Seq(AnyCall) /\ Quiet(<<>>)
    BY DEF Quiet
  <2> QED
    BY <1>0, <1>2, <2>1, PlainStep DEF memories
<1>3. ASSUME NEW i \in Fresh,
             Add(i, topic[Min({a, b})], {a, b} \cap spikes # {}),
             covers' = [covers EXCEPT ![i] = @ \cup UNION {covers[j] : j \in {a, b}}],
             Then(t, <<Call("created", {i}),
                       Call("retire", {Min({a, b})}), Call("retire", {Max({a, b})})>>)
      PROVE  MergeInv'
  <2>1. Ids \subseteq Nat /\ Born \subseteq Ids /\ i \in Ids
    BY <1>3 DEF Ids, Born, Fresh
  <2>2. Min({a, b}) \in {a, b} /\ Max({a, b}) \in {a, b}
    BY <2>1, OfPair
  <2> DEFINE least == Min({a, b})
             most  == Max({a, b})
             c == Call("created", {i})
             d == Call("retire", {least})
             e == Call("retire", {most})
  <2> HIDE DEF least, most
  <2>3. c \in AnyCall /\ d \in AnyCall /\ e \in AnyCall
    <3>1. {i} \in SUBSET Nat /\ {least} \in SUBSET Nat /\ {most} \in SUBSET Nat
      BY <2>1, <2>2 DEF least, most
    <3> QED
      BY <3>1, CallFields DEF Deeds
  <2>4. place \in [Ids -> {"unborn", "active", "archived", "deleted"}]
        /\ covers \in [Ids -> SUBSET Ids]
    BY DEF MergeInv
  <2>5. Born \subseteq Born'
    BY <1>3, <2>1, <2>4 DEF Born, Add, Fresh
  <2>6. Fits(c, Born', {a, b}) /\ Fits(d, Born', {a, b}) /\ Fits(e, Born', {a, b})
    <3>1. least \in Born' /\ most \in Born' /\ {least} \subseteq {a, b} /\ {most} \subseteq {a, b}
      BY <2>2, <2>5 DEF least, most
    <3>2. /\ c.do = "created" /\ d.do = "retire" /\ e.do = "retire"
          /\ d.of = {least} /\ e.of = {most}
      BY CallFields
    <3> HIDE DEF c, d, e
    <3> QED
      BY <3>1, <3>2 DEF Fits, Names
  <2>7. Then(t, <<c, d, e>>)
    BY <1>3 DEF least, most
  <2> HIDE DEF c, d, e
  <2>8. <<c, d, e>> \in Seq(AnyCall) /\ \A n \in DOMAIN <<c, d, e>> : Fits(<<c, d, e>>[n], Born', {a, b})
    BY <2>3, <2>6
  <2>9. /\ work' \in [Threads -> Seq(AnyCall)]
        /\ \A u \in Threads : \A n \in DOMAIN work'[u] : Names(work'[u][n], Born')
        /\ Retiring' \subseteq Retiring \cup {a, b}
    BY <1>0, <2>5, <2>7, <2>8, HeadDone, Zenon
  <2>10. WorkTypes'
    BY <1>0, <2>9 DEF WorkTypes
  <2> DEFINE C == UNION {covers[j] : j \in {a, b}}
  <2>11. C \in SUBSET Ids /\ {a, b} \in SUBSET Born /\ \A j \in {a, b} : covers[j] \subseteq C
    BY <2>1, <2>4
  <2>12. covers' = [covers EXCEPT ![i] = @ \cup C]
    BY <1>3
  <2> HIDE DEF C
  <2> QED
    BY <1>0, <1>3, <2>9, <2>10, <2>11, <2>12, AddCovers, Zenon
<1> QED
  BY <1>1, <1>2, <1>3, Zenon DEF Judge

\* extract: the LLM's answer becomes a memory, or none.
LEMMA AskStep ==
    ASSUME MergeInv, NEW t \in Threads, Ask(t)
    PROVE  MergeInv'
<1>0. Does(t, "ask") /\ work[t] # <<>> /\ WorkTypes
      /\ UNCHANGED <<dropped, queue, batch, buffer, tracked>>
  BY HeadCall DEF Ask, MergeInv, worker
<1>1. CASE Then(t, <<>>) /\ UNCHANGED memories
  <2>1. <<>> \in Seq(AnyCall) /\ Quiet(<<>>)
    BY DEF Quiet
  <2> QED
    BY <1>0, <1>1, <2>1, PlainStep DEF memories
<1>2. ASSUME NEW i \in Fresh, NEW p, NEW important, Add(i, p, important),
             Then(t, <<Call("created", {i})>>), UNCHANGED covers
      PROVE  MergeInv'
  <2>1. i \in Ids /\ {i} \in SUBSET Nat
    BY DEF Fresh, Ids
  <2> DEFINE c == Call("created", {i})
  <2>2. c \in AnyCall /\ c.do = "created"
    BY <2>1, CallFields DEF Deeds
  <2>3. Then(t, <<c>>)
    BY <1>2
  <2> HIDE DEF c
  <2>4. <<c>> \in Seq(AnyCall) /\ \A n \in DOMAIN <<c>> : Fits(<<c>>[n], Born', {})
    BY <2>2 DEF Fits, Names
  <2>5. covers \in [Ids -> SUBSET Ids]
        /\ place \in [Ids -> {"unborn", "active", "archived", "deleted"}]
    BY DEF MergeInv
  <2>6. Born \subseteq Born'
    BY <1>2, <2>1, <2>5 DEF Born, Add
  <2>7. /\ work' \in [Threads -> Seq(AnyCall)]
        /\ \A u \in Threads : \A n \in DOMAIN work'[u] : Names(work'[u][n], Born')
        /\ Retiring' \subseteq Retiring \cup {}
    BY <1>0, <2>3, <2>4, <2>6, HeadDone, Zenon
  <2>8. WorkTypes'
    BY <1>0, <2>7 DEF WorkTypes
  <2>9. covers' = [covers EXCEPT ![i] = @ \cup {}]
    BY <1>2, <2>5
  <2>10. {} \in SUBSET Born /\ {} \in SUBSET Ids /\ \A j \in {} : covers[j] \subseteq {}
    OBVIOUS
  <2> QED
    BY <1>0, <1>2, <2>7, <2>8, <2>9, <2>10, AddCovers, Zenon
<1> QED
  BY <1>1, <1>2, Zenon DEF Ask

\* A memory tool adds a memory.
LEMMA AddMemoryStep ==
    ASSUME MergeInv, AddMemory
    PROVE  MergeInv'
<1>1. PICK i \in Fresh, p \in Topics, important \in BOOLEAN :
         /\ work' = [work EXCEPT !["client"] = <<Call("created", {i})>>]
         /\ Add(i, p, important)
         /\ UNCHANGED <<covers, dropped, queue, batch, buffer, tracked>>
  BY DEF AddMemory, Client, worker, talk
<1>2. i \in Ids /\ {i} \in SUBSET Nat /\ "client" \in Threads /\ WorkTypes
  BY DEF Fresh, Ids, Threads, MergeInv
<1> DEFINE c == Call("created", {i})
<1>3. c \in AnyCall /\ c.do = "created"
  BY <1>2, CallFields DEF Deeds
<1>4. work' = [work EXCEPT !["client"] = <<c>>]
  BY <1>1
<1> HIDE DEF c
<1>5. <<c>> \in Seq(AnyCall) /\ \A n \in DOMAIN <<c>> : Fits(<<c>>[n], Born', {})
  BY <1>3 DEF Fits, Names
<1>6. covers \in [Ids -> SUBSET Ids]
      /\ place \in [Ids -> {"unborn", "active", "archived", "deleted"}]
  BY DEF MergeInv
<1>7. Born \subseteq Born'
  BY <1>1, <1>2, <1>6 DEF Born, Add
<1>8. /\ work' \in [Threads -> Seq(AnyCall)]
      /\ \A u \in Threads : \A n \in DOMAIN work'[u] : Names(work'[u][n], Born')
      /\ Retiring' \subseteq Retiring \cup {}
  <2>1. \A n \in DOMAIN <<c>> : Fits(<<c>>[n], Born', {})
                                \/ (\E m \in DOMAIN work["client"] : <<c>>[n] = work["client"][m])
    BY <1>5
  <2>2. "client" \in Threads
    BY <1>2
  <2> QED
    BY <1>4, <1>5, <1>7, <2>1, <2>2, StackChanges, Zenon
<1>9. WorkTypes'
  BY <1>1, <1>2, <1>8 DEF WorkTypes
<1>10. covers' = [covers EXCEPT ![i] = @ \cup {}]
  BY <1>1, <1>6
<1>11. {} \in SUBSET Born /\ {} \in SUBSET Ids /\ \A j \in {} : covers[j] \subseteq {}
  OBVIOUS
<1> QED
  BY <1>1, <1>8, <1>9, <1>10, <1>11, AddCovers, Zenon

\* The user removes a memory, and with it all that it is made of.
LEMMA DeleteStep ==
    ASSUME MergeInv, Delete
    PROVE  MergeInv'
<1>1. PICK i \in Active :
         /\ work["client"] = <<>> /\ work' = [work EXCEPT !["client"] = <<>>]
         /\ place' = [place EXCEPT ![i] = "deleted"]
         /\ dropped' = dropped \cup covers[i]
         /\ UNCHANGED <<covers, queue, batch, buffer, tracked>>
  BY DEF Delete, Client, worker, talk
<1>2. place \in [Ids -> {"unborn", "active", "archived", "deleted"}] /\ WorkTypes /\ i \in Ids
  BY DEF MergeInv, Active
<1>3. work' = work
  BY <1>1, <1>2 DEF WorkTypes
<1>4. Born' = Born /\ Active' = Active \ {i}
  BY <1>1, <1>2 DEF Born, Active
<1>5. Retiring' = Retiring
  BY <1>3 DEF Retiring
<1>6. Kept' = Kept \ {i}
  BY <1>4, <1>5 DEF Kept
<1>7. \A k \in Born : k \in dropped' \cup UNION {covers'[j] : j \in Kept'}
  <2> SUFFICES ASSUME NEW k \in Born
               PROVE  k \in dropped' \cup UNION {covers'[j] : j \in Kept'}
    OBVIOUS
  <2>1. k \in dropped \cup UNION {covers[j] : j \in Kept}
    BY DEF MergeInv
  <2>2. CASE k \in dropped
    BY <1>1, <2>2
  <2>3. ASSUME NEW j \in Kept, k \in covers[j]
        PROVE  k \in dropped' \cup UNION {covers'[m] : m \in Kept'}
    BY <1>1, <1>6, <2>3
  <2> QED
    BY <2>1, <2>2, <2>3
<1>8. WorkTypes'
  BY <1>1, <1>2, <1>3 DEF WorkTypes
<1>9. \A u \in Threads : \A n \in DOMAIN work'[u] : Names(work'[u][n], Born')
  BY <1>3, <1>4 DEF MergeInv
<1>10. place' \in [Ids -> {"unborn", "active", "archived", "deleted"}]
  BY <1>1, <1>2
<1> QED
  BY <1>1, <1>4, <1>7, <1>8, <1>9, <1>10 DEF MergeInv

\* reflect, the selection, and a batch that is tried again or given up.
LEMMA ReflectStep ==
    ASSUME MergeInv, NEW t \in Threads, Reflect(t)
    PROVE  MergeInv'
<1>0. WorkTypes /\ UNCHANGED <<place, covers, dropped, queue, batch, buffer, tracked>>
  BY DEF Reflect, MergeInv, memories, talk
<1>1. work[t] # <<>>
  BY DEF Reflect, Does
<1>2. ASSUME NEW s \in Selections, Then(t, [n \in DOMAIN s |-> Call("judge", s[n])])
      PROVE  MergeInv'
  <2> DEFINE calls == [n \in DOMAIN s |-> Call("judge", s[n])]
  <2>1. s \in Seq(SUBSET Ids) /\ \A n \in DOMAIN s : \E a, b \in Born : s[n] = {a, b}
    BY SelectionsArePairs
  <2>2. \A n \in DOMAIN s : s[n] \in SUBSET Nat
    BY <2>1 DEF Ids
  <2>3. \A n \in DOMAIN s : Call("judge", s[n]) \in AnyCall /\ Fits(Call("judge", s[n]), Born, {})
    BY <2>1, <2>2, CallFields DEF Deeds, Fits, Names
  <2>4. calls = [n \in 1 .. Len(s) |-> Call("judge", s[n])] /\ Len(s) \in Nat
    BY <2>1
  <2>5. calls \in Seq(AnyCall) /\ \A n \in DOMAIN calls : Fits(calls[n], Born, {})
    BY <2>1, <2>3, <2>4
  <2>6. queue' \in Seq(Due \cup {"end"}) /\ batch' \in [Threads -> Seq(Due)]
        /\ buffer' \in SUBSET Nat /\ tracked' \in Nat
    BY <1>0 DEF WorkTypes
  <2> QED
    BY <1>0, <1>1, <1>2, <2>5, <2>6, QuietStep
<1>3. CASE Retry(t)
  <2>1. batch[t] \in Seq(Due)
    BY <1>0 DEF WorkTypes
  <2> DEFINE again == Calls(batch[t])
  <2>2. again \in Seq(AnyCall) /\ \A n \in DOMAIN again : Fits(again[n], Born, {})
    BY <2>1, CallsOfEvents, QuietFits
  <2>3. /\ Beneath(t) \in Seq(AnyCall)
        /\ \A n \in DOMAIN Beneath(t) : \E m \in DOMAIN work[t] : Beneath(t)[n] = work[t][m]
    BY <1>0, BeneathIsOld
  <2> HIDE DEF again
  <2>4. again \o Beneath(t) \in Seq(AnyCall)
        /\ \A n \in DOMAIN (again \o Beneath(t)) :
              \/ Fits((again \o Beneath(t))[n], Born, {})
              \/ \E m \in DOMAIN work[t] : (again \o Beneath(t))[n] = work[t][m]
    <3>1. /\ again \o Beneath(t) \in Seq(AnyCall)
          /\ Len(again \o Beneath(t)) = Len(again) + Len(Beneath(t))
          /\ \A i \in 1 .. Len(again) + Len(Beneath(t)) : (again \o Beneath(t))[i] =
                IF i <= Len(again) THEN again[i] ELSE Beneath(t)[i - Len(again)]
      BY <2>2, <2>3, ConcatProperties
    <3>2. ASSUME NEW n \in 1 .. Len(again) + Len(Beneath(t))
          PROVE  \/ n \in DOMAIN again /\ (again \o Beneath(t))[n] = again[n]
                 \/ n - Len(again) \in DOMAIN Beneath(t)
                    /\ (again \o Beneath(t))[n] = Beneath(t)[n - Len(again)]
      BY <2>2, <2>3, <3>1
    <3>3. DOMAIN (again \o Beneath(t)) = 1 .. Len(again) + Len(Beneath(t))
      BY <3>1
    <3> QED
      BY <2>2, <2>3, <3>1, <3>2, <3>3
  <2>5. \/ work' = [work EXCEPT ![t] = again \o Beneath(t)]
        \/ work' = [work EXCEPT ![t] = Beneath(t)]
    BY <1>3 DEF Retry, again
  <2>6. queue' \in Seq(Due \cup {"end"}) /\ batch' \in [Threads -> Seq(Due)]
        /\ buffer' \in SUBSET Nat /\ tracked' \in Nat
    BY <1>0 DEF WorkTypes
  <2>7. UNCHANGED <<place, covers, dropped>>
    BY <1>0
  <2>8. ASSUME NEW s \in Seq(AnyCall), work' = [work EXCEPT ![t] = s],
               \A n \in DOMAIN s : Fits(s[n], Born, {})
                                   \/ (\E m \in DOMAIN work[t] : s[n] = work[t][m])
        PROVE  MergeInv'
    BY <2>6, <2>7, <2>8, NewStack, Zenon
  <2>9. CASE work' = [work EXCEPT ![t] = again \o Beneath(t)]
    BY <2>4, <2>8, <2>9, Zenon
  <2>10. CASE work' = [work EXCEPT ![t] = Beneath(t)]
    BY <2>3, <2>8, <2>10
  <2> QED
    BY <2>5, <2>9, <2>10
<1>4. CASE Then(t, <<>>)
  <2>1. <<>> \in Seq(AnyCall) /\ \A n \in DOMAIN <<>> : Fits(<<>>[n], Born, {})
    OBVIOUS
  <2>2. queue' \in Seq(Due \cup {"end"}) /\ batch' \in [Threads -> Seq(Due)]
        /\ buffer' \in SUBSET Nat /\ tracked' \in Nat
    BY <1>0 DEF WorkTypes
  <2> QED
    BY <1>0, <1>1, <1>4, <2>1, <2>2, QuietStep
<1> QED
  BY <1>2, <1>3, <1>4, Zenon DEF Reflect

\* The calls a thread executes.
LEMMA ExecuteKeepsCover ==
    ASSUME MergeInv, NEW t \in Threads, Execute(t)
    PROVE  MergeInv'
<1>0. WorkTypes /\ <<>> \in Seq(AnyCall) /\ Quiet(<<>>)
      /\ <<>> \in Seq(Due) /\ <<"extract">> \in Seq(Due) /\ <<"reflect">> \in Seq(Due)
  BY DEF MergeInv, Quiet, Due
<1>1. CASE Count(t)
  <2>1. \E events \in Seq(Due) : Enqueue(t, events)
    BY <1>0, <1>1 DEF Count
  <2>2. Does(t, "count") /\ UNCHANGED <<place, covers, dropped, batch, buffer, tracked>>
    BY <1>1 DEF Count, memories, worker, talk
  <2> QED
    BY <2>1, <2>2, TriggerStep
<1>2. CASE EndTask(t)
  <2>1. Does(t, "end_task") /\ Enqueue(t, <<"extract">>)
        /\ UNCHANGED <<place, covers, dropped, batch, buffer, tracked>>
    BY <1>2 DEF EndTask, memories, worker, talk
  <2> QED
    BY <1>0, <2>1, TriggerStep
<1>3. CASE Created(t)
  <2>1. \E b1, b2 \in BOOLEAN :
           Enqueue(t, (IF b1 THEN <<"reflect">> ELSE <<>>) \o (IF b2 THEN <<"reflect">> ELSE <<>>))
    BY <1>3 DEF Created
  <2>2. \E events \in Seq(Due) : Enqueue(t, events)
    <3>1. PICK b1 \in BOOLEAN, b2 \in BOOLEAN :
             Enqueue(t, (IF b1 THEN <<"reflect">> ELSE <<>>) \o (IF b2 THEN <<"reflect">> ELSE <<>>))
      BY <2>1
    <3> DEFINE u == IF b1 THEN <<"reflect">> ELSE <<>>
               v == IF b2 THEN <<"reflect">> ELSE <<>>
    <3>2. u \in Seq(Due) /\ v \in Seq(Due)
      BY <1>0
    <3>3. Enqueue(t, u \o v)
      BY <3>1
    <3> HIDE DEF u, v
    <3>4. u \o v \in Seq(Due)
      BY <3>2
    <3> QED
      BY <3>3, <3>4
  <2>3. Does(t, "created") /\ UNCHANGED <<place, covers, dropped, batch, buffer, tracked>>
    BY <1>3 DEF Created, memories, worker, talk
  <2> QED
    BY <2>2, <2>3, TriggerStep
<1>4. CASE Extract(t)
  <2> DEFINE c == Call("clear", buffer)
             d == Call("ask", buffer)
  <2>1. c \in AnyCall /\ d \in AnyCall /\ c.do = "clear" /\ d.do = "ask"
    BY <1>0, CallFields DEF WorkTypes, Deeds
  <2>2. Then(t, <<>>) \/ Then(t, <<c, d>>)
    BY <1>4 DEF Extract
  <2>3. Does(t, "extract")
        /\ UNCHANGED <<place, covers, dropped, tracked, queue, batch, buffer>>
    BY <1>4 DEF Extract, memories, worker, talk
  <2> HIDE DEF c, d
  <2>4. <<c, d>> \in Seq(AnyCall) /\ Quiet(<<c, d>>)
    BY <2>1 DEF Quiet
  <2> QED
    BY <1>0, <2>2, <2>3, <2>4, PlainStep
<1>5. CASE Clear(t)
  <2>1. Does(t, "clear") /\ Then(t, <<>>) /\ buffer' = {}
        /\ UNCHANGED <<place, covers, dropped, tracked, queue, batch>>
    BY <1>5 DEF Clear, memories, worker
  <2> QED
    BY <1>0, <2>1, PlainStep
<1> QED
  BY <1>1, <1>2, <1>3, <1>4, <1>5, RetireStep, AskStep, ReflectStep, JudgeStep DEF Execute

\* The worker's loop hands the events of a batch to the handlers.
LEMMA BatchBegins ==
    ASSUME MergeInv, NEW events \in Seq(Due), BeginBatch("worker", events),
           UNCHANGED <<place, covers, dropped>>,
           queue' \in Seq(Due \cup {"end"}), batch' \in [Threads -> Seq(Due)],
           buffer' \in SUBSET Nat, tracked' \in Nat
    PROVE  MergeInv'
<1>1. Calls(events) \in Seq(AnyCall) /\ \A n \in DOMAIN Calls(events) : Fits(Calls(events)[n], Born, {})
  BY CallsOfEvents, QuietFits
<1>2. "worker" \in Threads /\ work' = [work EXCEPT !["worker"] = Calls(events)]
  BY DEF Threads, BeginBatch
<1> QED
  BY <1>1, <1>2, NewStack

\* What the worker does between two calls.
LEMMA LoopKeepsCover ==
    ASSUME MergeInv, Get \/ GetNothing \/ Done
    PROVE  MergeInv'
<1> DEFINE E == Due \cup {"end"}
<1>0. /\ queue \in Seq(E) /\ batch \in [Threads -> Seq(Due)] /\ "worker" \in Threads
      /\ UNCHANGED <<place, covers, dropped, buffer, tracked>>
      /\ buffer' \in SUBSET Nat /\ tracked' \in Nat
  BY DEF MergeInv, WorkTypes, Threads, Get, GetNothing, Done, memories, talk
<1>1. CASE Get
  <2> DEFINE collected == Append(batch["worker"], Head(queue))
  <2>1. queue # <<>> /\ queue' = Tail(queue)
    BY <1>1 DEF Get
  <2>2. queue' \in Seq(E) /\ Head(queue) \in E
    <3> HIDE DEF E
    <3> QED
      BY <1>0, <2>1
  <2>3. Head(queue) # "end" => collected \in Seq(Due)
    BY <1>0, <2>2
  <2>4. batch["worker"] \in Seq(Due)
    BY <1>0
  <2>5. batch' \in [Threads -> Seq(Due)]
    BY <1>0, <1>1, <2>3 DEF Get
  <2>6. \/ UNCHANGED work
        \/ BeginBatch("worker", batch["worker"])
        \/ Head(queue) # "end" /\ BeginBatch("worker", collected)
    BY <1>1 DEF Get, Leave
  <2> HIDE DEF collected
  <2> QED
    BY <1>0, <2>2, <2>3, <2>4, <2>5, <2>6, SameStacks, BatchBegins
<1>2. CASE GetNothing
  <2>1. UNCHANGED <<queue, batch>> /\ batch["worker"] \in Seq(Due) /\ <<>> \in Seq(Due)
    BY <1>0, <1>2 DEF GetNothing
  <2>2. UNCHANGED work \/ BeginBatch("worker", batch["worker"])
    BY <1>2 DEF GetNothing, Leave
  <2> QED
    BY <1>0, <2>1, <2>2, SameStacks, BatchBegins
<1>3. CASE Done
  <2>1. UNCHANGED <<queue, work>> /\ batch' = [batch EXCEPT !["worker"] = <<>>]
    BY <1>3 DEF Done
  <2>2. <<>> \in Seq(Due)
    OBVIOUS
  <2> QED
    BY <1>0, <2>1, <2>2, SameStacks
<1> QED
  BY <1>1, <1>2, <1>3

\* stop in the client's thread.
LEMMA StopKeepsCover ==
    ASSUME MergeInv, Collect \/ Drain \/ Halt \/ Unsubscribe
    PROVE  MergeInv'
<1> DEFINE E == Due \cup {"end"}
<1>0. /\ queue \in Seq(E) /\ batch \in [Threads -> Seq(Due)] /\ "client" \in Threads
      /\ UNCHANGED <<place, covers, dropped, buffer, tracked>>
      /\ buffer' \in SUBSET Nat /\ tracked' \in Nat
  BY DEF MergeInv, WorkTypes, Threads, Collect, Drain, Halt, Unsubscribe, memories, talk
<1>1. CASE Collect
  <2>1. queue # <<>> /\ queue' = Tail(queue) /\ UNCHANGED work
    BY <1>1 DEF Collect
  <2>2. queue' \in Seq(E) /\ Head(queue) \in E
    <3> HIDE DEF E
    <3> QED
      BY <1>0, <2>1
  <2>3. batch' \in [Threads -> Seq(Due)]
    BY <1>0, <1>1, <2>2 DEF Collect
  <2> QED
    BY <1>0, <2>1, <2>2, <2>3, SameStacks
<1>2. CASE Drain
  <2> DEFINE calls == Calls(batch["client"])
  <2>1. calls \in Seq(AnyCall) /\ \A n \in DOMAIN calls : Fits(calls[n], Born, {})
    <3>1. batch["client"] \in Seq(Due)
      BY <1>0
    <3> QED
      BY <3>1, CallsOfEvents, QuietFits
  <2>2. Does("client", "drain") /\ Then("client", calls) /\ UNCHANGED <<queue, batch>>
    BY <1>2 DEF Drain
  <2> HIDE DEF calls
  <2>3. work["client"] # <<>>
    BY <2>2 DEF Does
  <2>4. queue' \in Seq(E) /\ batch' \in [Threads -> Seq(Due)]
    BY <1>0, <2>2
  <2> QED
    BY <1>0, <2>1, <2>2, <2>3, <2>4, QuietStep
<1>3. CASE Halt \/ Unsubscribe
  <2>1. /\ Does("client", "halt") \/ Does("client", "unsubscribe")
        /\ Then("client", <<>>) /\ UNCHANGED batch
        /\ queue' = queue \/ queue' = Append(queue, "end")
    BY <1>3 DEF Halt, Unsubscribe, worker
  <2>2. <<>> \in Seq(AnyCall) /\ Quiet(<<>>)
    BY DEF Quiet
  <2> QED
    BY <1>0, <2>1, <2>2, PlainStep
<1> QED
  BY <1>1, <1>2, <1>3

\* What the client calls.
LEMMA ClientKeepsCover ==
    ASSUME MergeInv, ClientCall
    PROVE  MergeInv'
<1>0. /\ WorkTypes /\ <<>> \in Seq(AnyCall) /\ Quiet(<<>>) /\ <<>> \in Seq(Due)
      /\ \A d \in Deeds \ {"retire", "judge"}, S \in SUBSET Nat :
            <<Call(d, S)>> \in Seq(AnyCall) /\ Quiet(<<Call(d, S)>>)
  <2>1. \A d \in Deeds \ {"retire", "judge"}, S \in SUBSET Nat :
           Call(d, S) \in AnyCall /\ Call(d, S).do = d
    BY CallFields
  <2> QED
    BY <2>1 DEF MergeInv, Quiet
<1>1. CASE Track
  <2>1. /\ work["client"] = <<>> /\ work' = [work EXCEPT !["client"] = <<Call("count", {})>>]
        /\ UNCHANGED <<place, covers, dropped, queue, batch>>
        /\ tracked' = tracked + 1 /\ buffer' = buffer \cup {tracked'}
    BY <1>1 DEF Track, Client, memories, worker
  <2>2. batch' \in [Threads -> Seq(Due)] /\ buffer' \in SUBSET Nat /\ tracked' \in Nat
    BY <1>0, <2>1 DEF WorkTypes
  <2>3. <<Call("count", {})>> \in Seq(AnyCall) /\ Quiet(<<Call("count", {})>>)
    BY <1>0 DEF Deeds
  <2> QED
    BY <2>1, <2>2, <2>3, ClientStarts
<1>2. CASE TaskEnd
  <2>1. /\ work["client"] = <<>> /\ work' = [work EXCEPT !["client"] = <<Call("end_task", {})>>]
        /\ UNCHANGED <<place, covers, dropped, queue, batch, buffer, tracked>>
    BY <1>2 DEF TaskEnd, Client, memories, worker, talk
  <2>2. batch' \in [Threads -> Seq(Due)] /\ buffer' \in SUBSET Nat /\ tracked' \in Nat
    BY <1>0, <2>1 DEF WorkTypes
  <2>3. <<Call("end_task", {})>> \in Seq(AnyCall) /\ Quiet(<<Call("end_task", {})>>)
    BY <1>0 DEF Deeds
  <2> QED
    BY <2>1, <2>2, <2>3, ClientStarts
<1>3. CASE ExtractNow
  <2> DEFINE c == Call("clear", buffer)
             d == Call("ask", buffer)
  <2>1. /\ work["client"] = <<>> /\ work' = [work EXCEPT !["client"] = <<c, d>>]
        /\ UNCHANGED <<place, covers, dropped, queue, batch, buffer, tracked>>
    BY <1>3 DEF ExtractNow, Client, memories, worker, talk
  <2>2. c \in AnyCall /\ d \in AnyCall /\ c.do = "clear" /\ d.do = "ask"
    BY <1>0, CallFields DEF WorkTypes, Deeds
  <2> HIDE DEF c, d
  <2>3. <<c, d>> \in Seq(AnyCall) /\ Quiet(<<c, d>>)
    BY <2>2 DEF Quiet
  <2>4. batch' \in [Threads -> Seq(Due)] /\ buffer' \in SUBSET Nat /\ tracked' \in Nat
    BY <1>0, <2>1 DEF WorkTypes
  <2> QED
    BY <2>1, <2>3, <2>4, ClientStarts
<1>4. CASE Stop
  <2> DEFINE c == Call("drain", {})
             d == Call("halt", {})
             e == Call("unsubscribe", {})
             calls == IF running THEN <<c, d, e>> ELSE <<e>>
  <2>1. /\ work["client"] = <<>> /\ work' = [work EXCEPT !["client"] = calls]
        /\ UNCHANGED <<place, covers, dropped, queue, buffer, tracked>>
        /\ batch' = [batch EXCEPT !["client"] = <<>>]
    BY <1>4 DEF Stop, Client, memories, talk
  <2>2. /\ c \in AnyCall /\ d \in AnyCall /\ e \in AnyCall
        /\ c.do = "drain" /\ d.do = "halt" /\ e.do = "unsubscribe"
    BY CallFields DEF Deeds
  <2> HIDE DEF c, d, e
  <2>3. calls = <<c, d, e>> \/ calls = <<e>>
    OBVIOUS
  <2>4. calls \in Seq(AnyCall) /\ Quiet(calls)
    <3>1. <<c, d, e>> \in Seq(AnyCall) /\ Quiet(<<c, d, e>>)
      BY <2>2 DEF Quiet
    <3>2. <<e>> \in Seq(AnyCall) /\ Quiet(<<e>>)
      BY <2>2 DEF Quiet
    <3> QED
      BY <2>3, <3>1, <3>2
  <2>5. batch' \in [Threads -> Seq(Due)] /\ buffer' \in SUBSET Nat /\ tracked' \in Nat
    BY <1>0, <2>1 DEF WorkTypes
  <2> HIDE DEF calls
  <2> QED
    BY <2>1, <2>4, <2>5, ClientStarts
<1>5. CASE Start
  <2>1. /\ work["client"] = <<>> /\ work' = [work EXCEPT !["client"] = <<>>]
        /\ UNCHANGED <<place, covers, dropped, queue, batch, buffer, tracked>>
    BY <1>5 DEF Start, Client, memories, talk
  <2>2. batch' \in [Threads -> Seq(Due)] /\ buffer' \in SUBSET Nat /\ tracked' \in Nat
    BY <1>0, <2>1 DEF WorkTypes
  <2> QED
    BY <1>0, <2>1, <2>2, ClientStarts
<1> QED
  BY <1>1, <1>2, <1>3, <1>4, <1>5, AddMemoryStep, DeleteStep DEF ClientCall

\* The memories that were loaded are active and cover themselves.
LEMMA MergeInit ==
    ASSUME Init
    PROVE  MergeInv
<1>1. WorkTypes
  <2>1. <<>> \in Seq(AnyCall) /\ <<>> \in Seq(Due) /\ <<>> \in Seq(Due \cup {"end"})
    OBVIOUS
  <2> QED
    BY <2>1 DEF Init, WorkTypes
<1>2. \A t \in Threads : work[t] = <<>>
  BY DEF Init
<1>3. /\ Retiring = {} /\ Kept = Active
      /\ \A t \in Threads : \A n \in DOMAIN work[t] : Names(work[t][n], Born)
  <2>1. Retiring = {}
    BY <1>2 DEF Retiring
  <2> QED
    BY <1>2, <2>1 DEF Kept
<1>4. /\ place \in [Ids -> {"unborn", "active", "archived", "deleted"}]
      /\ covers \in [Ids -> SUBSET Ids]
      /\ \A i \in Ids : i \in covers[i]
  BY DEF Init
<1>5. Born \subseteq Active
  BY DEF Init, Born, Active
<1>6. \A i \in Born : i \in dropped \cup UNION {covers[j] : j \in Kept}
  BY <1>3, <1>4, <1>5 DEF Born
<1> QED
  BY <1>1, <1>3, <1>4, <1>6 DEF MergeInv

\* Every step keeps what is covered covered.
LEMMA MergeStep ==
    ASSUME MergeInv, [Next]_vars
    PROVE  MergeInv'
<1>1. CASE WorkerStep
  <2>1. "worker" \in Threads
    BY DEF Threads
  <2> QED
    BY <1>1, <2>1, LoopKeepsCover, ExecuteKeepsCover DEF WorkerStep
<1>2. CASE ClientStep
  <2>1. "client" \in Threads
    BY DEF Threads
  <2> QED
    BY <1>2, <2>1, StopKeepsCover, ExecuteKeepsCover DEF ClientStep
<1>3. CASE ClientCall
  BY <1>3, ClientKeepsCover
<1>4. CASE UNCHANGED vars
  <2>1. UNCHANGED <<work, place, covers, dropped, queue, batch, buffer, tracked>>
    BY <1>4 DEF vars, memories, worker, talk
  <2>2. /\ queue' \in Seq(Due \cup {"end"}) /\ batch' \in [Threads -> Seq(Due)]
        /\ buffer' \in SUBSET Nat /\ tracked' \in Nat
    BY <2>1 DEF MergeInv, WorkTypes
  <2> QED
    BY <2>1, <2>2, SameStacks
<1> QED
  BY <1>1, <1>2, <1>3, <1>4 DEF Next

\* Reflection loses nothing: whatever the user has not removed is, or is part of,
\* an active memory, whatever two threads merge at the same time, wherever a batch
\* fails and is tried again, and when the engine is stopped and started.
THEOREM AlwaysCoveredAlways == Spec => []AlwaysCovered
<1>1. Init => MergeInv
  BY MergeInit
<1>2. MergeInv /\ [Next]_vars => MergeInv'
  BY MergeStep
<1>3. MergeInv => AlwaysCovered
  BY DEF MergeInv, AlwaysCovered, Kept, Born
<1> QED
  BY <1>1, <1>2, <1>3, PTL DEF Spec

------------------------------------------------------------------------------
(* Extraction, where the memory tools call *)

\* The client only tracks messages, ends tasks and adds memories (the tools and
\* the agent loop; nobody calls extract_now, stop or start).
ByTools == Ops \subseteq {"track", "task_end", "add"}

ClientDeeds == {"count", "end_task", "created"}
PlainDeeds == {"created", "retire", "extract", "reflect", "judge"}

\* The buffer is cleared and its messages are asked about before anything else
\* the worker has to do.
WorkerStack(s) ==
    \A n \in DOMAIN s :
        /\ s[n].do \in PlainDeeds \cup {"clear", "ask"}
        /\ s[n].do = "clear" => n = 1
        /\ s[n].do = "ask" => (n = 1 \/ (n = 2 /\ s[1].do = "clear"))
Plain(s) == \A n \in DOMAIN s : s[n].do \in PlainDeeds

\* The inductive invariant for ExtractedOnce: a message is in the buffer, or in
\* the one question that is pending, or it has been asked about.
ExtractInv ==
    /\ WorkTypes
    /\ queue \in Seq(Due)
    /\ running = WorkerEnabled /\ subscribed = TRUE
    /\ Len(work["client"]) <= 1
    /\ \A n \in DOMAIN work["client"] : work["client"][n].do \in ClientDeeds
    /\ WorkerStack(work["worker"])
    /\ tracked <= MaxMessages /\ buffer \subseteq 1 .. tracked
    /\ asked \in [Messages -> {0, 1}]
    /\ \A m \in Messages : m > tracked \/ m \in buffer => asked[m] = 0
    /\ \A n \in DOMAIN work["worker"] : work["worker"][n].do = "ask" =>
          \A m \in work["worker"][n].of :
             m \in 1 .. tracked /\ asked[m] = 0 /\ (n = 1 => m \notin buffer)

\* The stack of a thread whose head is done.
LEMMA NextStack ==
    ASSUME WorkTypes, NEW t \in Threads, work[t] # <<>>,
           NEW calls \in Seq(AnyCall), Then(t, calls)
    PROVE  /\ work' \in [Threads -> Seq(AnyCall)]
           /\ Len(work'[t]) = Len(calls) + Len(work[t]) - 1
           /\ \A n \in 1 .. Len(calls) : work'[t][n] = calls[n]
           /\ \A n \in 2 .. Len(work[t]) : work'[t][Len(calls) + n - 1] = work[t][n]
           /\ \A u \in Threads \ {t} : work'[u] = work[u]
<1> DEFINE rest == Tail(work[t])
           s == calls \o rest
<1>1. work[t] \in Seq(AnyCall) /\ work \in [Threads -> Seq(AnyCall)]
  BY DEF WorkTypes
<1>2. /\ rest \in Seq(AnyCall)
      /\ Len(rest) = Len(work[t]) - 1
      /\ \A n \in 1 .. Len(work[t]) - 1 : rest[n] = work[t][n + 1]
  BY <1>1
<1> HIDE DEF rest
<1>3. /\ s \in Seq(AnyCall)
      /\ Len(s) = Len(calls) + Len(rest)
      /\ \A i \in 1 .. Len(calls) + Len(rest) : s[i] =
            IF i <= Len(calls) THEN calls[i] ELSE rest[i - Len(calls)]
  BY <1>2, ConcatProperties
<1>4. work' = [work EXCEPT ![t] = s]
  BY DEF Then, rest
<1> HIDE DEF s
<1>5. work'[t] = s /\ Len(calls) \in Nat /\ Len(work[t]) \in Nat /\ Len(work[t]) >= 1
  BY <1>1, <1>4
<1>6. \A n \in 1 .. Len(calls) : s[n] = calls[n]
  BY <1>2, <1>3, <1>5
<1>7. ASSUME NEW n \in 2 .. Len(work[t])
      PROVE  s[Len(calls) + n - 1] = work[t][n]
  <2>1. Len(calls) + n - 1 \in 1 .. Len(calls) + Len(rest) /\ ~(Len(calls) + n - 1 <= Len(calls))
    BY <1>2, <1>5
  <2>2. Len(calls) + n - 1 - Len(calls) = n - 1 /\ n - 1 \in 1 .. Len(work[t]) - 1
    BY <1>5
  <2>3. s[Len(calls) + n - 1] = rest[n - 1]
    BY <1>3, <2>1, <2>2
  <2> QED
    BY <1>2, <2>2, <2>3
<1>8. work' \in [Threads -> Seq(AnyCall)] /\ \A u \in Threads \ {t} : work'[u] = work[u]
  BY <1>1, <1>3, <1>4
<1> QED
  BY <1>2, <1>3, <1>5, <1>6, <1>7, <1>8

\* Whatever the worker's head is, unless it clears the buffer, only plain calls
\* are below it.
LEMMA BelowIsPlain ==
    ASSUME WorkerStack(work["worker"]), WorkTypes, work["worker"] # <<>>,
           Head(work["worker"]).do # "clear"
    PROVE  \A n \in 2 .. Len(work["worker"]) : work["worker"][n].do \in PlainDeeds
<1> DEFINE w == work["worker"]
<1>1. w \in Seq(AnyCall) /\ w # <<>>
  BY DEF WorkTypes, Threads
<1>2. Head(w) = w[1] /\ DOMAIN w = 1 .. Len(w) /\ Len(w) \in Nat
  BY <1>1
<1>3. WorkerStack(w) /\ Head(w).do # "clear"
  OBVIOUS
<1> HIDE DEF w
<1>4. ASSUME NEW n \in 2 .. Len(w) PROVE w[n].do \in PlainDeeds
  <2>1. n \in DOMAIN w /\ n # 1
    BY <1>2
  <2> QED
    BY <1>2, <1>3, <2>1 DEF WorkerStack
<1> QED
  BY <1>4 DEF w

\* A stack of plain calls is in order and asks nothing.
LEMMA PlainInOrder ==
    ASSUME NEW s, Plain(s)
    PROVE  WorkerStack(s) /\ \A n \in DOMAIN s : s[n].do # "ask"
  BY DEF Plain, WorkerStack, PlainDeeds

\* The worker goes on with plain calls only.
LEMMA WorkerPlain ==
    ASSUME ExtractInv, work["worker"] # <<>>, Head(work["worker"]).do # "clear",
           NEW calls \in Seq(AnyCall), Plain(calls), Then("worker", calls)
    PROVE  work' \in [Threads -> Seq(AnyCall)] /\ Plain(work'["worker"])
           /\ work'["client"] = work["client"]
<1>1. WorkTypes /\ WorkerStack(work["worker"]) /\ "worker" \in Threads /\ "client" \in Threads
      /\ Len(calls) \in Nat /\ Len(work["worker"]) \in Nat
  BY DEF ExtractInv, Threads, WorkTypes
<1>2. /\ work' \in [Threads -> Seq(AnyCall)]
      /\ Len(work'["worker"]) = Len(calls) + Len(work["worker"]) - 1
      /\ \A n \in 1 .. Len(calls) : work'["worker"][n] = calls[n]
      /\ \A n \in 2 .. Len(work["worker"]) : work'["worker"][Len(calls) + n - 1] = work["worker"][n]
      /\ work'["client"] = work["client"]
  BY <1>1, NextStack
<1>3. \A n \in 2 .. Len(work["worker"]) : work["worker"][n].do \in PlainDeeds
  BY <1>1, BelowIsPlain
<1>4. ASSUME NEW n \in DOMAIN work'["worker"] PROVE work'["worker"][n].do \in PlainDeeds
  <2>1. n \in 1 .. Len(calls) + Len(work["worker"]) - 1
    BY <1>1, <1>2
  <2>2. CASE n <= Len(calls)
    <3>1. n \in DOMAIN calls
      BY <1>1, <2>1, <2>2
    <3> QED
      BY <1>2, <3>1 DEF Plain
  <2>3. CASE n > Len(calls)
    <3> DEFINE k == n - Len(calls) + 1
    <3>1. k \in 2 .. Len(work["worker"]) /\ n = Len(calls) + k - 1
      BY <1>1, <2>1, <2>3
    <3> HIDE DEF k
    <3> QED
      BY <1>2, <1>3, <3>1
  <2> QED
    BY <1>1, <2>1, <2>2, <2>3
<1> QED
  BY <1>2, <1>4 DEF Plain

\* A step after which the worker has plain calls only.
LEMMA PlainWorker ==
    ASSUME ExtractInv, WorkTypes', Plain(work'["worker"]), work'["client"] = work["client"],
           queue' \in Seq(Due), UNCHANGED <<running, subscribed, buffer, tracked, asked>>
    PROVE  ExtractInv'
<1>1. WorkerStack(work'["worker"]) /\ \A n \in DOMAIN work'["worker"] : work'["worker"][n].do # "ask"
  BY PlainInOrder
<1> QED
  BY <1>1 DEF ExtractInv

\* A step of the client, who may have tracked a message.
LEMMA SameWorker ==
    ASSUME ExtractInv, WorkTypes', work'["worker"] = work["worker"],
           Len(work'["client"]) <= 1,
           \A n \in DOMAIN work'["client"] : work'["client"][n].do \in ClientDeeds,
           queue' \in Seq(Due), UNCHANGED <<running, subscribed, asked>>,
           \/ UNCHANGED <<buffer, tracked>>
           \/ tracked < MaxMessages /\ tracked' = tracked + 1 /\ buffer' = buffer \cup {tracked'}
    PROVE  ExtractInv'
<1>0. /\ tracked \in Nat /\ MaxMessages \in Nat /\ tracked <= MaxMessages
      /\ \A m \in buffer : m \in 1 .. tracked
  BY IntelligenceConstants DEF ExtractInv, WorkTypes
<1>1. tracked' <= MaxMessages /\ buffer' \subseteq 1 .. tracked' /\ tracked <= tracked'
  BY <1>0
<1>2. \A m \in Messages : m > tracked' \/ m \in buffer' => asked'[m] = 0
  BY <1>0 DEF ExtractInv, Messages
<1>3. ASSUME NEW n \in DOMAIN work'["worker"], work'["worker"][n].do = "ask",
             NEW m \in work'["worker"][n].of
      PROVE  m \in 1 .. tracked' /\ asked'[m] = 0 /\ (n = 1 => m \notin buffer')
  <2>1. m \in 1 .. tracked /\ asked[m] = 0 /\ (n = 1 => m \notin buffer)
    BY <1>3 DEF ExtractInv
  <2> QED
    BY <1>0, <2>1
<1> QED
  BY <1>1, <1>2, <1>3 DEF ExtractInv

\* While the engine runs, every event is queued.
LEMMA Queued ==
    ASSUME ExtractInv, NEW t \in Threads, NEW events \in Seq(Due), Enqueue(t, events)
    PROVE  Then(t, <<>>) /\ queue' = queue \o events /\ queue' \in Seq(Due)
<1>1. ~Inline /\ subscribed /\ queue \in Seq(Due)
  BY IntelligenceConstants DEF Inline, ExtractInv
<1>2. Then(t, <<>>) /\ queue' = queue \o events
  BY <1>1 DEF Enqueue
<1> QED
  BY <1>1, <1>2

\* The head of the worker's stack is one of its calls, that of the client's one
\* of the client's.
LEMMA HeadDeed ==
    ASSUME ExtractInv, NEW t \in Threads, NEW d, Does(t, d)
    PROVE  /\ work[t] # <<>> /\ 1 \in DOMAIN work[t] /\ work[t][1].do = d
           /\ Argument(t) = work[t][1].of
           /\ t = "client" => d \in ClientDeeds /\ Len(work[t]) = 1
           /\ t = "worker" => d \in PlainDeeds \cup {"clear", "ask"}
<1>1. work[t] \in Seq(AnyCall) /\ work[t] # <<>> /\ Head(work[t]).do = d
  BY DEF ExtractInv, WorkTypes, Does
<1>2. Head(work[t]) = work[t][1] /\ 1 \in DOMAIN work[t] /\ Len(work[t]) \in Nat \ {0}
  BY <1>1
<1>3. t = "client" => Len(work[t]) <= 1 /\ \A n \in DOMAIN work[t] : work[t][n].do \in ClientDeeds
  BY DEF ExtractInv
<1>4. t = "worker" => WorkerStack(work[t])
  BY DEF ExtractInv
<1>5. ASSUME t = "client" PROVE d \in ClientDeeds /\ Len(work[t]) = 1
  <2>1. Len(work[t]) <= 1 /\ Len(work[t]) \in Nat /\ Len(work[t]) # 0
    BY <1>2, <1>3, <1>5, Zenon
  <2>2. work[t][1].do \in ClientDeeds
    BY <1>2, <1>3, <1>5
  <2>3. \A k \in Nat : k <= 1 /\ k # 0 => k = 1
    OBVIOUS
  <2>4. d = work[t][1].do
    BY <1>1, <1>2, Zenon
  <2> QED
    BY <2>1, <2>2, <2>3, <2>4, Zenon
<1>6. t = "worker" => d \in PlainDeeds \cup {"clear", "ask"}
  BY <1>1, <1>2, <1>4 DEF WorkerStack
<1> QED
  BY <1>1, <1>2, <1>5, <1>6 DEF Argument

\* The worker's head is done and leaves plain calls.
LEMMA WorkerGoesOn ==
    ASSUME ExtractInv, WorkTypes', NEW d, Does("worker", d), d # "clear",
           NEW calls \in Seq(AnyCall), Plain(calls), Then("worker", calls),
           queue' \in Seq(Due), UNCHANGED <<running, subscribed, buffer, tracked, asked>>
    PROVE  ExtractInv'
<1>1. work["worker"] # <<>> /\ Head(work["worker"]).do # "clear"
  BY DEF Does
<1>2. Plain(work'["worker"]) /\ work'["client"] = work["client"]
  BY <1>1, WorkerPlain
<1> QED
  BY <1>2, PlainWorker

\* A counter event of the client is queued, and the client has finished.
LEMMA ClientGoesOn ==
    ASSUME ExtractInv, WorkTypes', NEW d, Does("client", d), Then("client", <<>>),
           queue' \in Seq(Due), UNCHANGED <<running, subscribed, buffer, tracked, asked>>
    PROVE  ExtractInv'
<1>1. "client" \in Threads /\ "worker" \in Threads \ {"client"} /\ WorkTypes
      /\ <<>> \in Seq(AnyCall) /\ Len(<<>>) = 0
  BY DEF Threads, ExtractInv
<1>2. work["client"] # <<>> /\ Len(work["client"]) = 1
  BY <1>1, HeadDeed
<1>3. Len(work'["client"]) = Len(<<>>) + Len(work["client"]) - 1
      /\ work'["worker"] = work["worker"]
      /\ work' \in [Threads -> Seq(AnyCall)]
  BY <1>1, <1>2, NextStack, Zenon
<1>4. work'["client"] \in Seq(AnyCall) /\ Len(work'["client"]) = 0
  BY <1>1, <1>2, <1>3
<1>5. DOMAIN work'["client"] = {}
  BY <1>4
<1> QED
  BY <1>3, <1>4, <1>5, SameWorker

\* on_trigger asks about the buffer, after clearing it.
LEMMA ExtractOnceStep ==
    ASSUME ExtractInv, WorkTypes', Extract("worker")
    PROVE  ExtractInv'
<1>1. Does("worker", "extract") /\ WorkTypes /\ "worker" \in Threads /\ "client" \in Threads
      /\ UNCHANGED <<queue, running, subscribed, buffer, tracked, asked>>
      /\ queue' \in Seq(Due)
  BY DEF Extract, ExtractInv, Threads, triggers, worker, talk
<1>2. CASE Then("worker", <<>>)
  <2>1. <<>> \in Seq(AnyCall) /\ Plain(<<>>)
    BY DEF Plain
  <2> QED
    BY <1>1, <1>2, <2>1, WorkerGoesOn
<1> DEFINE c == Call("clear", buffer)
           d == Call("ask", buffer)
<1>3. CASE Then("worker", <<c, d>>)
  <2>1. /\ c \in AnyCall /\ d \in AnyCall
        /\ c.do = "clear" /\ d.do = "ask" /\ d.of = buffer
    BY <1>1, CallFields DEF WorkTypes, Deeds
  <2>2. Then("worker", <<c, d>>)
    BY <1>3
  <2> HIDE DEF c, d
  <2>3. <<c, d>> \in Seq(AnyCall) /\ Len(<<c, d>>) = 2 /\ <<c, d>>[1] = c /\ <<c, d>>[2] = d
    BY <2>1
  <2>4. work["worker"] # <<>> /\ Head(work["worker"]).do # "clear"
    BY <1>1 DEF Does
  <2>5. /\ Len(work'["worker"]) = 2 + Len(work["worker"]) - 1
        /\ \A n \in 1 .. 2 : work'["worker"][n] = <<c, d>>[n]
        /\ \A n \in 2 .. Len(work["worker"]) : work'["worker"][2 + n - 1] = work["worker"][n]
        /\ work'["client"] = work["client"]
    BY <1>1, <2>2, <2>3, <2>4, NextStack, Zenon
  <2>6. \A n \in 2 .. Len(work["worker"]) : work["worker"][n].do \in PlainDeeds
    BY <1>1, <2>4, BelowIsPlain DEF ExtractInv
  <2>7. ASSUME NEW n \in DOMAIN work'["worker"]
        PROVE  IF n = 1 THEN work'["worker"][n] = c
               ELSE IF n = 2 THEN work'["worker"][n] = d
               ELSE work'["worker"][n].do \in PlainDeeds
    <3>1. work["worker"] \in Seq(AnyCall) /\ work'["worker"] \in Seq(AnyCall)
      BY <1>1 DEF WorkTypes
    <3>2. n \in 1 .. Len(work["worker"]) + 1 /\ Len(work["worker"]) \in Nat
      BY <2>5, <2>7, <3>1
    <3>3. CASE n > 2
      <4>1. n - 1 \in 2 .. Len(work["worker"]) /\ 2 + (n - 1) - 1 = n
        BY <3>2, <3>3
      <4>2. work'["worker"][n] = work["worker"][n - 1]
        BY <2>5, <4>1
      <4> QED
        BY <2>6, <3>3, <4>1, <4>2
    <3>4. CASE n = 1 \/ n = 2
      BY <2>3, <2>5, <3>4
    <3> QED
      BY <3>2, <3>3, <3>4
  <2>8. WorkerStack(work'["worker"])
    <3>1. "clear" \notin PlainDeeds /\ "ask" \notin PlainDeeds
      BY DEF PlainDeeds
    <3>2. 1 \in DOMAIN work'["worker"]
      <4>1. work["worker"] \in Seq(AnyCall) /\ work'["worker"] \in Seq(AnyCall)
        BY <1>1 DEF WorkTypes
      <4> QED
        BY <2>4, <2>5, <4>1
    <3> QED
      BY <2>1, <2>7, <3>1, <3>2 DEF WorkerStack
  <2>9. ASSUME NEW n \in DOMAIN work'["worker"], work'["worker"][n].do = "ask",
               NEW m \in work'["worker"][n].of
        PROVE  m \in 1 .. tracked' /\ asked'[m] = 0 /\ (n = 1 => m \notin buffer')
    <3>1. n = 2 /\ work'["worker"][n] = d
      BY <2>1, <2>7, <2>9 DEF PlainDeeds
    <3>2. m \in buffer /\ buffer \subseteq 1 .. tracked /\ tracked <= MaxMessages
          /\ tracked \in Nat /\ MaxMessages \in Nat
      BY <1>1, <2>1, <2>9, <3>1, IntelligenceConstants DEF ExtractInv, WorkTypes
    <3>3. m \in Messages
      BY <3>2 DEF Messages
    <3>4. asked[m] = 0
      BY <3>2, <3>3 DEF ExtractInv
    <3> QED
      BY <1>1, <3>1, <3>2, <3>4
  <2> QED
    BY <1>1, <2>5, <2>8, <2>9 DEF ExtractInv
<1> QED
  BY <1>2, <1>3 DEF Extract

\* Once the buffer is cleared the question is next.
LEMMA ClearOnceStep ==
    ASSUME ExtractInv, WorkTypes', Clear("worker")
    PROVE  ExtractInv'
<1>1. Does("worker", "clear") /\ Then("worker", <<>>) /\ buffer' = {} /\ queue' \in Seq(Due)
      /\ UNCHANGED <<running, subscribed, tracked, asked>>
      /\ WorkTypes /\ "worker" \in Threads /\ "client" \in Threads \ {"worker"}
      /\ <<>> \in Seq(AnyCall) /\ Len(<<>>) = 0
  BY DEF Clear, ExtractInv, Threads, triggers, worker
<1>2. work["worker"] # <<>>
  BY <1>1 DEF Does
<1> DEFINE w == work["worker"]
           v == work'["worker"]
<1>3. w \in Seq(AnyCall) /\ v \in Seq(AnyCall) /\ WorkerStack(w)
  BY <1>1 DEF WorkTypes, ExtractInv
<1>4. /\ Len(v) = Len(<<>>) + Len(w) - 1
      /\ \A n \in 2 .. Len(w) : v[Len(<<>>) + n - 1] = w[n]
      /\ work'["client"] = work["client"]
  BY <1>1, <1>2, NextStack, Zenon
<1> HIDE DEF w, v
<1>5. ASSUME NEW n \in DOMAIN v PROVE n + 1 \in DOMAIN w /\ v[n] = w[n + 1] /\ n \in Nat \ {0}
  <2>1. n \in 1 .. Len(w) - 1 /\ Len(w) \in Nat
    BY <1>1, <1>3, <1>4
  <2>2. n + 1 \in 2 .. Len(w) /\ 0 + (n + 1) - 1 = n
    BY <2>1
  <2> QED
    BY <1>1, <1>3, <1>4, <2>1, <2>2
<1>6. WorkerStack(v)
  <2>1. ASSUME NEW n \in DOMAIN v
        PROVE  /\ v[n].do \in PlainDeeds \cup {"clear", "ask"}
               /\ v[n].do # "clear" /\ (v[n].do = "ask" => n = 1)
    <3>1. n + 1 \in DOMAIN w /\ v[n] = w[n + 1] /\ n \in Nat \ {0}
      BY <1>5
    <3>2. n + 1 # 1 /\ (n + 1 = 2 => n = 1)
      BY <3>1
    <3> QED
      BY <1>3, <3>1, <3>2, Zenon DEF WorkerStack
  <2> QED
    BY <2>1 DEF WorkerStack
<1>7. ASSUME NEW n \in DOMAIN v, v[n].do = "ask", NEW m \in v[n].of
      PROVE  m \in 1 .. tracked' /\ asked'[m] = 0 /\ (n = 1 => m \notin buffer')
  <2>1. n + 1 \in DOMAIN w /\ w[n + 1].do = "ask" /\ m \in w[n + 1].of
    BY <1>5, <1>7
  <2>2. m \in 1 .. tracked /\ asked[m] = 0
    BY <2>1 DEF ExtractInv, w
  <2> QED
    BY <1>1, <2>2
<1> QED
  BY <1>1, <1>4, <1>6, <1>7 DEF ExtractInv, v

\* The messages of the question have been asked about once.
LEMMA AskOnceStep ==
    ASSUME ExtractInv, WorkTypes', Ask("worker")
    PROVE  ExtractInv'
<1>1. /\ Does("worker", "ask") /\ "worker" \in Threads
      /\ UNCHANGED <<queue, running, subscribed, buffer, tracked>>
      /\ asked' = [m \in Messages |-> IF m \in Argument("worker") /\ asked[m] < 2
                                      THEN asked[m] + 1 ELSE asked[m]]
  BY DEF Ask, Threads, triggers, worker
<1>2. work["worker"] # <<>> /\ Head(work["worker"]).do # "clear"
  BY <1>1 DEF Does
<1>3. \E calls \in Seq(AnyCall) : Plain(calls) /\ Then("worker", calls)
  <2>1. CASE Then("worker", <<>>)
    <3>1. <<>> \in Seq(AnyCall) /\ Plain(<<>>)
      BY DEF Plain
    <3> QED
      BY <2>1, <3>1
  <2>2. ASSUME NEW i \in Fresh, Then("worker", <<Call("created", {i})>>)
        PROVE  \E calls \in Seq(AnyCall) : Plain(calls) /\ Then("worker", calls)
    <3> DEFINE c == Call("created", {i})
    <3>1. {i} \in SUBSET Nat
      BY DEF Fresh, Ids
    <3>2. c \in AnyCall /\ c.do = "created"
      BY <3>1, CallFields DEF Deeds
    <3>3. Then("worker", <<c>>)
      BY <2>2
    <3> HIDE DEF c
    <3>4. <<c>> \in Seq(AnyCall) /\ Plain(<<c>>)
      BY <3>2 DEF Plain, PlainDeeds
    <3> QED
      BY <3>3, <3>4
  <2> QED
    BY <2>1, <2>2, Zenon DEF Ask
<1>4. Plain(work'["worker"]) /\ work'["client"] = work["client"]
  BY <1>2, <1>3, WorkerPlain
<1>5. WorkerStack(work'["worker"]) /\ \A n \in DOMAIN work'["worker"] : work'["worker"][n].do # "ask"
  BY <1>4, PlainInOrder
<1>6. \A m \in Argument("worker") : m \in 1 .. tracked /\ asked[m] = 0 /\ m \notin buffer
  <2>1. 1 \in DOMAIN work["worker"] /\ work["worker"][1].do = "ask"
        /\ Argument("worker") = work["worker"][1].of
    BY <1>1, HeadDeed
  <2> QED
    BY <2>1 DEF ExtractInv
<1>7. asked \in [Messages -> {0, 1}] /\ tracked \in Nat /\ queue \in Seq(Due)
  BY DEF ExtractInv, WorkTypes
<1>8. asked' \in [Messages -> {0, 1}]
  <2>1. \A m \in Messages : m \in Argument("worker") => asked[m] = 0
    BY <1>6
  <2>2. \A m \in Messages : asked'[m] \in {0, 1}
    BY <1>1, <1>7, <2>1
  <2> QED
    BY <1>1, <2>2
<1>9. \A m \in Messages : m > tracked' \/ m \in buffer' => asked'[m] = 0
  <2> SUFFICES ASSUME NEW m \in Messages, m > tracked \/ m \in buffer
               PROVE  asked'[m] = 0
    BY <1>1
  <2>1. asked[m] = 0
    BY DEF ExtractInv
  <2>2. m \notin Argument("worker")
    BY <1>6, <1>7 DEF Messages
  <2> QED
    BY <1>1, <2>1, <2>2
<1> QED
  BY <1>1, <1>4, <1>5, <1>7, <1>8, <1>9 DEF ExtractInv

\* A selection, and a batch that is tried again or given up, leave plain calls.
LEMMA ReflectPlainStep ==
    ASSUME ExtractInv, WorkTypes', Reflect("worker")
    PROVE  ExtractInv'
<1>0. /\ WorkTypes /\ "worker" \in Threads /\ "client" \in Threads \ {"worker"}
      /\ UNCHANGED <<queue, running, subscribed, buffer, tracked, asked>>
      /\ queue' \in Seq(Due)
  BY DEF Reflect, ExtractInv, Threads, triggers, talk
<1>1. Does("worker", "reflect")
  <2>1. Does("worker", "reflect") \/ Does("worker", "reflectInline")
    BY DEF Reflect
  <2>2. ~Does("worker", "reflectInline")
    <3> SUFFICES ASSUME Does("worker", "reflectInline") PROVE FALSE
      OBVIOUS
    <3> QED
      BY <1>0, HeadDeed DEF PlainDeeds
  <2> QED
    BY <2>1, <2>2
<1>2. ASSUME NEW s \in Selections, Then("worker", [n \in DOMAIN s |-> Call("judge", s[n])])
      PROVE  ExtractInv'
  <2> DEFINE calls == [n \in DOMAIN s |-> Call("judge", s[n])]
  <2>1. s \in Seq(SUBSET Ids)
    BY SelectionsArePairs
  <2>2. \A n \in DOMAIN s : s[n] \in SUBSET Nat
    BY <2>1 DEF Ids
  <2>3. \A n \in DOMAIN s : Call("judge", s[n]) \in AnyCall /\ Call("judge", s[n]).do = "judge"
    BY <2>2, CallFields DEF Deeds
  <2>4. calls = [n \in 1 .. Len(s) |-> Call("judge", s[n])] /\ Len(s) \in Nat
    BY <2>1
  <2>5. calls \in Seq(AnyCall) /\ \A n \in DOMAIN calls : calls[n].do = "judge"
    BY <2>1, <2>3, <2>4
  <2>6. Plain(calls)
    BY <2>5 DEF Plain, PlainDeeds
  <2> HIDE DEF calls
  <2> QED
    BY <1>0, <1>1, <1>2, <2>5, <2>6, WorkerGoesOn DEF calls
<1>3. CASE Retry("worker")
  <2> DEFINE w == work["worker"]
             again == Calls(batch["worker"])
             rest == Beneath("worker")
  <2>1. Plain(w)
    <3>1. 1 \in DOMAIN w /\ w[1].do = "reflect" /\ w # <<>> /\ Head(w).do # "clear"
      BY <1>0, <1>1, HeadDeed DEF Does
    <3>2. \A n \in 2 .. Len(w) : w[n].do \in PlainDeeds
      BY <1>0, <3>1, BelowIsPlain DEF ExtractInv
    <3>3. DOMAIN w = 1 .. Len(w) /\ Len(w) \in Nat
      BY <1>0 DEF WorkTypes
    <3> HIDE DEF w
    <3>4. \A n \in 1 .. Len(w) : n = 1 \/ n \in 2 .. Len(w)
      BY <3>3
    <3> QED
      BY <3>1, <3>2, <3>3, <3>4 DEF Plain, PlainDeeds
  <2>2. again \in Seq(AnyCall) /\ Plain(again)
    <3>1. batch["worker"] \in Seq(Due)
      BY <1>0 DEF WorkTypes
    <3>2. \A n \in DOMAIN batch["worker"] : batch["worker"][n] \in Due
      BY <3>1
    <3> QED
      BY <3>1, <3>2, CallsOfEvents, CallFields DEF Plain, PlainDeeds, Due
  <2>3. rest \in Seq(AnyCall) /\ \A n \in DOMAIN rest : \E m \in DOMAIN w : rest[n] = w[m]
    BY <1>0, BeneathIsOld
  <2>4. work' = [work EXCEPT !["worker"] = again \o rest] \/ work' = [work EXCEPT !["worker"] = rest]
    BY <1>3 DEF Retry
  <2> HIDE DEF w, again, rest
  <2>5. Plain(rest)
    BY <2>1, <2>3 DEF Plain
  <2>6. again \o rest \in Seq(AnyCall) /\ Plain(again \o rest)
    <3>1. /\ again \o rest \in Seq(AnyCall)
          /\ Len(again \o rest) = Len(again) + Len(rest)
          /\ \A i \in 1 .. Len(again) + Len(rest) : (again \o rest)[i] =
                IF i <= Len(again) THEN again[i] ELSE rest[i - Len(again)]
      BY <2>2, <2>3, ConcatProperties
    <3>2. ASSUME NEW n \in 1 .. Len(again) + Len(rest)
          PROVE  \/ n \in DOMAIN again /\ (again \o rest)[n] = again[n]
                 \/ n - Len(again) \in DOMAIN rest
                    /\ (again \o rest)[n] = rest[n - Len(again)]
      BY <2>2, <2>3, <3>1
    <3>3. DOMAIN (again \o rest) = 1 .. Len(again) + Len(rest)
      BY <3>1
    <3> QED
      BY <2>2, <2>5, <3>1, <3>2, <3>3 DEF Plain
  <2>7. work \in [Threads -> Seq(AnyCall)]
    BY <1>0 DEF WorkTypes
  <2>8. Plain(work'["worker"]) /\ work'["client"] = work["client"]
    BY <1>0, <2>4, <2>5, <2>6, <2>7
  <2> QED
    BY <1>0, <2>8, PlainWorker
<1>4. CASE Then("worker", <<>>)
  <2>1. <<>> \in Seq(AnyCall) /\ Plain(<<>>)
    BY DEF Plain
  <2> QED
    BY <1>0, <1>1, <1>4, <2>1, WorkerGoesOn
<1> QED
  BY <1>2, <1>3, <1>4, Zenon DEF Reflect

\* What is judged is a pair of numbers.
LEMMA JudgedPair ==
    ASSUME MergeInv, NEW t \in Threads, Does(t, "judge")
    PROVE  {Min(Argument(t))} \in SUBSET Nat /\ {Max(Argument(t))} \in SUBSET Nat
<1>1. PICK a \in Born, b \in Born : Argument(t) = {a, b}
  BY HeadCall
<1>2. a \in Int /\ b \in Int /\ {a, b} \subseteq Nat
  BY DEF Born, Ids
<1> QED
  BY <1>1, <1>2, OfPair

\* The verdict on a pair leaves plain calls.
LEMMA JudgePlainStep ==
    ASSUME ExtractInv, MergeInv, WorkTypes', Judge("worker")
    PROVE  ExtractInv'
<1>1. /\ Does("worker", "judge") /\ "worker" \in Threads
      /\ UNCHANGED <<queue, running, subscribed, buffer, tracked, asked>>
      /\ queue' \in Seq(Due)
  BY DEF Judge, ExtractInv, Threads, triggers, worker, talk
<1>2. CASE Then("worker", <<>>)
  <2>1. <<>> \in Seq(AnyCall) /\ Plain(<<>>)
    BY DEF Plain
  <2> QED
    BY <1>1, <1>2, <2>1, WorkerGoesOn
<1>3. ASSUME NEW i \in Fresh, NEW S \in SUBSET Nat, NEW T \in SUBSET Nat,
             Then("worker", <<Call("created", {i}), Call("retire", S), Call("retire", T)>>)
      PROVE  ExtractInv'
  <2> DEFINE c == Call("created", {i})
             d == Call("retire", S)
             e == Call("retire", T)
  <2>1. /\ c \in AnyCall /\ d \in AnyCall /\ e \in AnyCall
        /\ c.do = "created" /\ d.do = "retire" /\ e.do = "retire"
    <3>1. {i} \in SUBSET Nat
      BY DEF Fresh, Ids
    <3> QED
      BY <1>3, <3>1, CallFields DEF Deeds
  <2>2. Then("worker", <<c, d, e>>)
    BY <1>3
  <2> HIDE DEF c, d, e
  <2>3. <<c, d, e>> \in Seq(AnyCall) /\ Plain(<<c, d, e>>)
    BY <2>1 DEF Plain, PlainDeeds
  <2> QED
    BY <1>1, <2>2, <2>3, WorkerGoesOn
<1>4. {Min(Argument("worker"))} \in SUBSET Nat /\ {Max(Argument("worker"))} \in SUBSET Nat
  BY <1>1, JudgedPair
<1> QED
  BY <1>1, <1>2, <1>3, <1>4, Zenon DEF Judge

\* The calls the two threads execute.
LEMMA ExecuteOnce ==
    ASSUME ExtractInv, MergeInv, WorkTypes', NEW t \in Threads, Execute(t)
    PROVE  ExtractInv'
<1>0. /\ <<>> \in Seq(AnyCall) /\ Plain(<<>>) /\ queue \in Seq(Due)
      /\ <<>> \in Seq(Due) /\ <<"extract">> \in Seq(Due) /\ <<"reflect">> \in Seq(Due)
      /\ t = "client" \/ t = "worker"
  BY DEF ExtractInv, Plain, Due, Threads
<1>1. ASSUME NEW d, Does(t, d), NEW events \in Seq(Due), Enqueue(t, events),
             d \in {"count", "end_task", "created"},
             UNCHANGED <<running, subscribed, buffer, tracked, asked>>
      PROVE  ExtractInv'
  <2>1. Then(t, <<>>) /\ queue' \in Seq(Due)
    BY <1>1, Queued
  <2>2. CASE t = "client"
    BY <1>1, <2>1, <2>2, ClientGoesOn
  <2>3. CASE t = "worker"
    BY <1>0, <1>1, <2>1, <2>3, WorkerGoesOn
  <2> QED
    BY <1>0, <2>2, <2>3
<1>2. CASE Count(t)
  <2>1. \E events \in Seq(Due) : Enqueue(t, events)
    BY <1>0, <1>2 DEF Count
  <2>2. Does(t, "count") /\ UNCHANGED <<running, subscribed, buffer, tracked, asked>>
    BY <1>2 DEF Count, worker, talk
  <2> QED
    BY <1>1, <2>1, <2>2
<1>3. CASE EndTask(t)
  <2>1. Does(t, "end_task") /\ Enqueue(t, <<"extract">>)
        /\ UNCHANGED <<running, subscribed, buffer, tracked, asked>>
    BY <1>3 DEF EndTask, worker, talk
  <2> QED
    BY <1>0, <1>1, <2>1
<1>4. CASE Created(t)
  <2>1. PICK b1 \in BOOLEAN, b2 \in BOOLEAN :
           Enqueue(t, (IF b1 THEN <<"reflect">> ELSE <<>>) \o (IF b2 THEN <<"reflect">> ELSE <<>>))
    BY <1>4 DEF Created
  <2> DEFINE u == IF b1 THEN <<"reflect">> ELSE <<>>
             v == IF b2 THEN <<"reflect">> ELSE <<>>
  <2>2. u \in Seq(Due) /\ v \in Seq(Due) /\ Enqueue(t, u \o v)
    BY <1>0, <2>1
  <2> HIDE DEF u, v
  <2>3. u \o v \in Seq(Due)
    BY <2>2
  <2>4. Does(t, "created") /\ UNCHANGED <<running, subscribed, buffer, tracked, asked>>
    BY <1>4 DEF Created, worker, talk
  <2> QED
    BY <1>1, <2>2, <2>3, <2>4
<1>5. CASE t = "client"
  <2>1. ASSUME NEW d, Does(t, d) PROVE d \in ClientDeeds
    BY <1>5, <2>1, HeadDeed
  <2>2. ~(Retire(t) \/ Extract(t) \/ Clear(t) \/ Ask(t) \/ Reflect(t) \/ Judge(t))
    BY <2>1 DEF Retire, Extract, Clear, Ask, Reflect, Judge, ClientDeeds
  <2> QED
    BY <1>2, <1>3, <1>4, <2>2 DEF Execute
<1>6. CASE t = "worker"
  <2>1. CASE Retire(t)
    <3>1. Does("worker", "retire") /\ Then("worker", <<>>)
          /\ UNCHANGED <<queue, running, subscribed, buffer, tracked, asked>>
      BY <1>6, <2>1 DEF Retire, triggers, worker, talk
    <3> QED
      BY <1>0, <3>1, WorkerGoesOn
  <2> QED
    BY <1>2, <1>3, <1>4, <1>6, <2>1, ExtractOnceStep, ClearOnceStep, AskOnceStep,
       ReflectPlainStep, JudgePlainStep DEF Execute
<1> QED
  BY <1>0, <1>5, <1>6

\* The worker's loop hands over the events of a batch, which are plain calls.
LEMMA LoopOnce ==
    ASSUME ExtractInv, WorkTypes', Get \/ GetNothing \/ Done
    PROVE  ExtractInv'
<1>0. /\ queue \in Seq(Due) /\ batch \in [Threads -> Seq(Due)]
      /\ work \in [Threads -> Seq(AnyCall)]
      /\ "worker" \in Threads /\ "client" \in Threads \ {"worker"}
      /\ UNCHANGED <<running, subscribed, buffer, tracked, asked>>
  BY DEF ExtractInv, WorkTypes, Threads, Get, GetNothing, Done, triggers, talk
<1>1. queue' \in Seq(Due)
  <2>1. CASE Get
    <3>1. queue # <<>> /\ queue' = Tail(queue)
      BY <2>1 DEF Get
    <3> QED
      BY <1>0, <3>1
  <2>2. CASE GetNothing \/ Done
    BY <1>0, <2>2 DEF GetNothing, Done
  <2> QED
    BY <2>1, <2>2
<1>2. \/ UNCHANGED work
      \/ \E events \in Seq(Due) : BeginBatch("worker", events)
  <2>1. CASE Get
    <3> DEFINE collected == Append(batch["worker"], Head(queue))
    <3>1. queue # <<>>
      BY <2>1 DEF Get
    <3>2. batch["worker"] \in Seq(Due) /\ Head(queue) \in Due
      BY <1>0, <3>1
    <3>3. collected \in Seq(Due)
      BY <3>2
    <3>4. \/ UNCHANGED work
          \/ BeginBatch("worker", batch["worker"])
          \/ BeginBatch("worker", collected)
      BY <2>1 DEF Get, Leave
    <3> HIDE DEF collected
    <3> QED
      BY <3>2, <3>3, <3>4
  <2>2. CASE GetNothing
    <3>1. batch["worker"] \in Seq(Due)
      BY <1>0
    <3>2. UNCHANGED work \/ BeginBatch("worker", batch["worker"])
      BY <2>2 DEF GetNothing, Leave
    <3> QED
      BY <3>1, <3>2
  <2>3. CASE Done
    BY <2>3 DEF Done
  <2> QED
    BY <2>1, <2>2, <2>3
<1>3. CASE UNCHANGED work
  BY <1>0, <1>1, <1>3, SameWorker DEF ExtractInv
<1>4. ASSUME NEW events \in Seq(Due), BeginBatch("worker", events)
      PROVE  ExtractInv'
  <2>1. work'["worker"] = Calls(events) /\ work'["client"] = work["client"]
    BY <1>0, <1>4 DEF BeginBatch
  <2>2. \A n \in DOMAIN events : events[n] \in Due
    OBVIOUS
  <2>3. Plain(Calls(events))
    BY <2>2, CallsOfEvents, CallFields DEF Plain, PlainDeeds, Due
  <2> QED
    BY <1>0, <1>1, <2>1, <2>3, PlainWorker
<1> QED
  BY <1>2, <1>3, <1>4

\* The memory tools and the agent loop call.
LEMMA ClientCallsOnce ==
    ASSUME ByTools, ExtractInv, WorkTypes', ClientCall
    PROVE  ExtractInv'
<1>0. /\ "client" \in Threads /\ "worker" \in Threads \ {"client"}
      /\ work \in [Threads -> Seq(AnyCall)] /\ queue \in Seq(Due)
      /\ \A op \in Ops : op \in {"track", "task_end", "add"}
  BY DEF ExtractInv, WorkTypes, Threads, ByTools
<1>1. ASSUME NEW d \in ClientDeeds, NEW S, work' = [work EXCEPT !["client"] = <<Call(d, S)>>]
      PROVE  /\ Len(work'["client"]) <= 1 /\ work'["worker"] = work["worker"]
             /\ \A n \in DOMAIN work'["client"] : work'["client"][n].do \in ClientDeeds
  <2> DEFINE c == Call(d, S)
  <2>1. c.do = d
    BY CallFields
  <2>2. work'["client"] = <<c>> /\ work'["worker"] = work["worker"]
    BY <1>0, <1>1
  <2> HIDE DEF c
  <2> QED
    BY <2>1, <2>2
<1>2. CASE Track
  <2>1. /\ work' = [work EXCEPT !["client"] = <<Call("count", {})>>]
        /\ tracked < MaxMessages /\ tracked' = tracked + 1 /\ buffer' = buffer \cup {tracked'}
        /\ UNCHANGED <<queue, running, subscribed, asked>>
    BY <1>2 DEF Track, Client, triggers, worker
  <2>2. "count" \in ClientDeeds
    BY DEF ClientDeeds
  <2> QED
    BY <1>0, <1>1, <2>1, <2>2, SameWorker
<1>3. CASE TaskEnd
  <2>1. /\ work' = [work EXCEPT !["client"] = <<Call("end_task", {})>>]
        /\ UNCHANGED <<queue, running, subscribed, buffer, tracked, asked>>
    BY <1>3 DEF TaskEnd, Client, triggers, worker, talk
  <2>2. "end_task" \in ClientDeeds
    BY DEF ClientDeeds
  <2> QED
    BY <1>0, <1>1, <2>1, <2>2, SameWorker
<1>4. CASE AddMemory
  <2>1. PICK i \in Fresh : work' = [work EXCEPT !["client"] = <<Call("created", {i})>>]
    BY <1>4 DEF AddMemory, Client
  <2>2. "created" \in ClientDeeds /\ UNCHANGED <<queue, running, subscribed, buffer, tracked, asked>>
    BY <1>4 DEF AddMemory, ClientDeeds, triggers, worker, talk
  <2> QED
    BY <1>0, <1>1, <2>1, <2>2, SameWorker
<1>5. ~(Delete \/ ExtractNow \/ Stop \/ Start)
  BY <1>0 DEF Delete, ExtractNow, Stop, Start, Client
<1> QED
  BY <1>2, <1>3, <1>4, <1>5 DEF ClientCall

\* The two invariants hold at the start.
ExtractBase == MergeInv /\ ExtractInv
LEMMA ExtractInit ==
    ASSUME Init
    PROVE  ExtractBase
<1>1. MergeInv /\ WorkTypes
  BY MergeInit DEF MergeInv
<1>2. /\ work["client"] = <<>> /\ work["worker"] = <<>> /\ queue = <<>>
      /\ running = WorkerEnabled /\ subscribed = TRUE
      /\ tracked = 0 /\ buffer = {} /\ asked = [m \in Messages |-> 0]
  BY DEF Init, Threads
<1>3. MaxMessages \in Nat /\ <<>> \in Seq(Due) /\ Len(<<>>) = 0
  BY IntelligenceConstants
<1> QED
  BY <1>1, <1>2, <1>3 DEF ExtractBase, ExtractInv, WorkerStack

\* Nobody is in the middle of stop.
LEMMA NoStop ==
    ASSUME ExtractInv
    PROVE  ~(Collect \/ Drain \/ Halt \/ Unsubscribe)
<1>1. "client" \in Threads
  BY DEF Threads
<1>2. ASSUME NEW d, Does("client", d) PROVE d \in ClientDeeds
  BY <1>1, <1>2, HeadDeed
<1> QED
  BY <1>2 DEF Collect, Drain, Halt, Unsubscribe, ClientDeeds

\* Every step keeps them.
LEMMA ExtractKept ==
    ASSUME ByTools, ExtractBase, [Next]_vars
    PROVE  ExtractBase'
<1>1. MergeInv /\ ExtractInv
  BY DEF ExtractBase
<1>2. MergeInv'
  BY <1>1, MergeStep
<1>3. WorkTypes' /\ "worker" \in Threads /\ "client" \in Threads
  BY <1>2 DEF MergeInv, Threads
<1>4. CASE WorkerStep
  BY <1>1, <1>2, <1>3, <1>4, LoopOnce, ExecuteOnce DEF WorkerStep, ExtractBase
<1>5. CASE ClientStep
  BY <1>1, <1>2, <1>3, <1>5, NoStop, ExecuteOnce DEF ClientStep, ExtractBase
<1>6. CASE ClientCall
  BY <1>1, <1>2, <1>3, <1>6, ClientCallsOnce DEF ExtractBase
<1>7. CASE UNCHANGED vars
  BY <1>1, <1>2, <1>3, <1>7 DEF vars, triggers, worker, talk, ExtractInv, ExtractBase
<1> QED
  BY <1>4, <1>5, <1>6, <1>7 DEF Next

\* Where the memory tools and the agent loop call, no message is given to the LLM
\* twice: events, a batch that is tried again and messages that are tracked
\* meanwhile may interleave, whatever the thresholds are.
THEOREM ExtractedOnceAlways ==
    ASSUME ByTools PROVE Spec => []ExtractedOnce
<1>1. Init => ExtractBase
  BY ExtractInit
<1>2. ExtractBase /\ [Next]_vars => ExtractBase'
  BY ExtractKept
<1>3. ExtractBase => ExtractedOnce
  BY DEF ExtractBase, ExtractInv, ExtractedOnce
<1> QED
  BY <1>1, <1>2, <1>3, PTL DEF Spec

------------------------------------------------------------------------------
(* The counter and the buffer, where the memory tools call *)

Has(s, d) == \E n \in DOMAIN s : s[n].do = d
Extracts(events) == \E n \in DOMAIN events : events[n] = "extract"

\* The inductive invariant for BufferCounted, together with ExtractInv: the worker
\* has calls pending in a batch only, and extracts because the batch says so.
CountInv ==
    /\ wpc \in {"waiting", "working", "gone"}
    /\ wpc # "gone" => running
    /\ work["worker"] # <<>> => wpc = "working"
    /\ Has(work["worker"], "extract") => Extracts(batch["worker"])
    /\ msgs \in Nat
    /\ BufferCounted

\* The client never extracts, the worker never counts.
Split ==
    /\ ExtractDue <=> \/ Extracts(queue)
                      \/ wpc = "waiting" /\ Extracts(batch["worker"])
                      \/ Has(work["worker"], "extract") \/ Has(work["worker"], "clear")
    /\ Pending("count") <=> Has(work["client"], "count")
LEMMA DueSplit == ExtractInv => Split
<1> SUFFICES ASSUME ExtractInv PROVE Split
  OBVIOUS
<1>1. Threads = {"client", "worker"} /\ ~Has(work["client"], "extract")
      /\ ~Has(work["client"], "clear") /\ ~Has(work["worker"], "count")
  BY DEF Threads, ExtractInv, Has, ClientDeeds, WorkerStack, PlainDeeds
<1>2. \A d : Pending(d) <=> Has(work["client"], d) \/ Has(work["worker"], d)
  BY <1>1 DEF Pending, Has
<1> QED
  BY <1>1, <1>2 DEF ExtractDue, Extracts, Split

\* So after a step.
LEMMA DueSplitNext == ExtractInv' => Split'
  BY DueSplit, PTL

\* What was pending still is, and nothing else but what the head has left.
LEMMA StillPending ==
    ASSUME WorkTypes, NEW t \in Threads, NEW d, Does(t, d),
           NEW calls \in Seq(AnyCall), Then(t, calls), NEW x
    PROVE  /\ Has(work[t], x) /\ x # d => Has(work'[t], x)
           /\ Has(calls, x) => Has(work'[t], x)
           /\ Has(work'[t], x) => Has(calls, x) \/ Has(work[t], x)
<1> DEFINE w == work[t]
           v == work'[t]
<1>1. w \in Seq(AnyCall) /\ w # <<>> /\ Head(w).do = d
  BY DEF WorkTypes, Does
<1>2. /\ v \in Seq(AnyCall)
      /\ Len(v) = Len(calls) + Len(w) - 1
      /\ \A n \in 1 .. Len(calls) : v[n] = calls[n]
      /\ \A n \in 2 .. Len(w) : v[Len(calls) + n - 1] = w[n]
  <2>1. work' \in [Threads -> Seq(AnyCall)]
    BY <1>1, NextStack
  <2> QED
    BY <1>1, <2>1, NextStack
<1>3. w[1].do = d /\ Len(w) \in Nat \ {0} /\ Len(calls) \in Nat
      /\ DOMAIN w = 1 .. Len(w) /\ DOMAIN v = 1 .. Len(v) /\ DOMAIN calls = 1 .. Len(calls)
  BY <1>1, <1>2
<1> HIDE DEF w, v
<1>4. ASSUME NEW n \in DOMAIN w, w[n].do = x, x # d PROVE Has(v, x)
  <2>1. n \in 2 .. Len(w)
    BY <1>3, <1>4
  <2>2. Len(calls) + n - 1 \in DOMAIN v
    BY <1>2, <1>3, <2>1
  <2> QED
    BY <1>2, <1>4, <2>1, <2>2 DEF Has
<1>5. ASSUME NEW n \in DOMAIN calls, calls[n].do = x PROVE Has(v, x)
  <2>1. n \in DOMAIN v
    BY <1>2, <1>3
  <2> QED
    BY <1>2, <1>3, <1>5, <2>1 DEF Has
<1>6. ASSUME NEW n \in DOMAIN v, v[n].do = x PROVE Has(calls, x) \/ Has(w, x)
  <2>1. CASE n <= Len(calls)
    <3>1. n \in 1 .. Len(calls)
      BY <1>2, <1>3, <2>1
    <3> QED
      BY <1>2, <1>3, <1>6, <3>1 DEF Has
  <2>2. CASE n > Len(calls)
    <3> DEFINE k == n - Len(calls) + 1
    <3>1. k \in 2 .. Len(w) /\ n = Len(calls) + k - 1
      BY <1>2, <1>3, <2>2
    <3> HIDE DEF k
    <3> QED
      BY <1>2, <1>3, <1>6, <3>1 DEF Has
  <2> QED
    BY <1>2, <1>3, <2>1, <2>2
<1> QED
  BY <1>4, <1>5, <1>6 DEF Has, w, v

\* A step of the worker keeps the counter right: the buffer is left alone or
\* emptied, and an extraction that was due still is, unless the buffer is empty.
LEMMA WorkerCounts ==
    ASSUME ExtractInv, ExtractInv', CountInv,
           work'["client"] = work["client"], msgs' = msgs,
           buffer' = buffer \/ buffer' = {},
           ExtractDue => ExtractDue' \/ buffer' = {}
    PROVE  BufferCounted'
<1>1. Pending("count")' <=> Pending("count")
  <2>1. Pending("count") <=> Has(work["client"], "count")
    BY DueSplit DEF Split
  <2>2. Pending("count")' <=> Has(work'["client"], "count")
    BY DueSplitNext DEF Split
  <2> QED
    BY <2>1, <2>2
<1>2. Cardinality({}) = 0 /\ msgs \in Nat
  BY FS_EmptySet DEF CountInv
<1>3. CASE buffer' = {}
  BY <1>2, <1>3 DEF BufferCounted
<1>4. CASE ~ExtractDue' /\ buffer' = buffer /\ buffer' # {}
  <2>1. Cardinality(buffer) <= msgs + (IF Pending("count") THEN 1 ELSE 0)
    BY <1>4 DEF CountInv, BufferCounted
  <2> QED
    BY <1>1, <1>4, <2>1 DEF BufferCounted
<1> QED
  BY <1>3, <1>4 DEF BufferCounted

\* A call of the worker that does not clear the buffer: an extraction that finds
\* messages there clears it next.
LEMMA WorkerMoves ==
    ASSUME ExtractInv, ExtractInv', CountInv, NEW d, Does("worker", d), d # "clear",
           NEW calls \in Seq(AnyCall), ~Has(calls, "extract"), Then("worker", calls),
           d = "extract" => buffer = {} \/ Has(calls, "clear"),
           UNCHANGED <<running, wpc, batch, msgs, buffer>>,
           Extracts(queue) => Extracts(queue')
    PROVE  CountInv'
<1>1. WorkTypes /\ "worker" \in Threads /\ "client" \in Threads \ {"worker"}
  BY DEF ExtractInv, Threads
<1>2. work["worker"] # <<>> /\ wpc = "working"
  BY DEF Does, CountInv
<1>3. work'["client"] = work["client"]
  BY <1>1, <1>2, NextStack
<1>4. /\ d # "extract" /\ Has(work["worker"], "extract") => Has(work'["worker"], "extract")
      /\ Has(work["worker"], "clear") => Has(work'["worker"], "clear")
      /\ Has(calls, "clear") => Has(work'["worker"], "clear")
      /\ Has(work'["worker"], "extract") => Has(work["worker"], "extract")
  BY <1>1, StillPending
<1>5. Split /\ Split'
  BY DueSplit, DueSplitNext
<1>6. ExtractDue => ExtractDue' \/ buffer' = {}
  BY <1>2, <1>4, <1>5 DEF Split
<1>7. BufferCounted'
  BY <1>3, <1>6, WorkerCounts
<1> QED
  BY <1>2, <1>4, <1>7 DEF CountInv

\* In particular one that does not extract either.
LEMMA WorkerMovesOn ==
    ASSUME ExtractInv, ExtractInv', CountInv,
           NEW d \in PlainDeeds \cup {"ask"}, d # "extract", Does("worker", d),
           NEW calls \in Seq(AnyCall), ~Has(calls, "extract"), Then("worker", calls),
           UNCHANGED <<running, wpc, batch, msgs, buffer>>,
           Extracts(queue) => Extracts(queue')
    PROVE  CountInv'
<1>1. d # "clear"
  BY DEF PlainDeeds
<1> QED
  BY <1>1, WorkerMoves, Zenon

\* The buffer is cleared.
LEMMA ClearCounts ==
    ASSUME ExtractInv, ExtractInv', CountInv, Clear("worker")
    PROVE  CountInv'
<1>1. Does("worker", "clear") /\ Then("worker", <<>>) /\ buffer' = {}
      /\ UNCHANGED <<running, wpc, batch, msgs>>
  BY DEF Clear, triggers, worker
<1>2. WorkTypes /\ "worker" \in Threads /\ "client" \in Threads \ {"worker"} /\ <<>> \in Seq(AnyCall)
  BY DEF ExtractInv, Threads
<1>3. work["worker"] # <<>> /\ wpc = "working"
  BY <1>1 DEF Does, CountInv
<1>4. work'["client"] = work["client"]
  BY <1>1, <1>2, <1>3, NextStack
<1>5. Has(work'["worker"], "extract") => Has(<<>>, "extract") \/ Has(work["worker"], "extract")
  BY <1>1, <1>2, StillPending
<1>6. ~Has(<<>>, "extract")
  BY DEF Has
<1>7. BufferCounted'
  BY <1>1, <1>4, WorkerCounts
<1> QED
  BY <1>1, <1>3, <1>5, <1>6, <1>7 DEF CountInv

\* A batch is only given up when the handler raises at every try.
LEMMA ReflectCounts ==
    ASSUME ~Persistent, ExtractInv, ExtractInv', CountInv, Reflect("worker")
    PROVE  CountInv'
<1>0. /\ WorkTypes /\ "worker" \in Threads /\ "client" \in Threads \ {"worker"}
      /\ UNCHANGED <<queue, running, wpc, batch, msgs, buffer>>
      /\ <<>> \in Seq(AnyCall) /\ ~Has(<<>>, "extract")
  BY DEF Reflect, ExtractInv, Threads, triggers, talk, Has
<1>1. PICK d \in {"reflect", "reflectInline"} : Does("worker", d)
  BY DEF Reflect
<1>2. ASSUME NEW s \in Selections, Then("worker", [n \in DOMAIN s |-> Call("judge", s[n])])
      PROVE  CountInv'
  <2> DEFINE calls == [n \in DOMAIN s |-> Call("judge", s[n])]
  <2>1. s \in Seq(SUBSET Ids)
    BY SelectionsArePairs
  <2>2. \A n \in DOMAIN s : s[n] \in SUBSET Nat
    BY <2>1 DEF Ids
  <2>3. \A n \in DOMAIN s : Call("judge", s[n]) \in AnyCall /\ Call("judge", s[n]).do = "judge"
    BY <2>2, CallFields DEF Deeds
  <2>4. calls = [n \in 1 .. Len(s) |-> Call("judge", s[n])] /\ Len(s) \in Nat
    BY <2>1
  <2>5. calls \in Seq(AnyCall) /\ ~Has(calls, "extract")
    BY <2>1, <2>3, <2>4 DEF Has
  <2> HIDE DEF calls
  <2> QED
    BY <1>0, <1>1, <1>2, <2>5, WorkerMoves DEF calls
<1>3. CASE Then("worker", <<>>)
  BY <1>0, <1>1, <1>3, WorkerMoves
<1>4. CASE Does("worker", "reflect") /\ attempts["worker"] + 1 < MaxRetries /\ Retry("worker")
  <2> DEFINE w == work["worker"]
             again == Calls(batch["worker"])
             rest == Beneath("worker")
             v == again \o rest
  <2>1. work' = [work EXCEPT !["worker"] = v]
    BY <1>4 DEF Retry
  <2>2. batch["worker"] \in Seq(Due) /\ work \in [Threads -> Seq(AnyCall)]
    BY <1>0 DEF WorkTypes
  <2>3. /\ again \in Seq(AnyCall) /\ DOMAIN again = DOMAIN batch["worker"]
        /\ \A n \in DOMAIN again : again[n].do = batch["worker"][n]
    BY <2>2, CallsOfEvents, CallFields
  <2>4. rest \in Seq(AnyCall) /\ \A n \in DOMAIN rest : \E m \in DOMAIN w : rest[n] = w[m]
    BY <1>0, BeneathIsOld
  <2> HIDE DEF again, rest
  <2>5. /\ v \in Seq(AnyCall)
        /\ Len(v) = Len(again) + Len(rest)
        /\ \A i \in 1 .. Len(again) + Len(rest) : v[i] =
              IF i <= Len(again) THEN again[i] ELSE rest[i - Len(again)]
    BY <2>3, <2>4, ConcatProperties
  <2>6. work'["worker"] = v /\ work'["client"] = work["client"]
    BY <1>0, <2>1, <2>2
  <2> HIDE DEF v
  <2>7. Extracts(batch["worker"]) => Has(v, "extract")
    <3> SUFFICES ASSUME NEW n \in DOMAIN batch["worker"], batch["worker"][n] = "extract"
                 PROVE  Has(v, "extract")
      BY DEF Extracts
    <3>1. n \in DOMAIN again /\ again[n].do = "extract"
      BY <2>3
    <3>2. n \in 1 .. Len(again) /\ Len(again) \in Nat /\ Len(rest) \in Nat
      BY <2>3, <2>4, <3>1
    <3>3. n \in DOMAIN v /\ v[n] = again[n]
      BY <2>5, <3>2
    <3> QED
      BY <3>1, <3>3 DEF Has
  <2>8. Has(v, "extract") => Extracts(batch["worker"])
    <3> SUFFICES ASSUME NEW n \in DOMAIN v, v[n].do = "extract"
                 PROVE  Extracts(batch["worker"])
      BY DEF Has
    <3>1. n \in 1 .. Len(again) + Len(rest) /\ Len(again) \in Nat /\ Len(rest) \in Nat
      BY <2>3, <2>4, <2>5
    <3>2. CASE n <= Len(again)
      <4>1. n \in DOMAIN again /\ v[n] = again[n]
        BY <2>3, <2>5, <3>1, <3>2
      <4> QED
        BY <2>3, <4>1 DEF Extracts
    <3>3. CASE n > Len(again)
      <4>1. n - Len(again) \in DOMAIN rest /\ v[n] = rest[n - Len(again)]
        BY <2>4, <2>5, <3>1, <3>3
      <4>2. Has(w, "extract")
        BY <2>4, <4>1 DEF Has
      <4> QED
        BY <4>2 DEF CountInv
    <3> QED
      BY <3>1, <3>2, <3>3
  <2>9. ~Has(w, "clear")
    <3>1. 1 \in DOMAIN w /\ w[1].do = "reflect"
      BY <1>0, <1>4, HeadDeed
    <3>2. WorkerStack(w)
      BY DEF ExtractInv
    <3> HIDE DEF w
    <3> QED
      BY <3>1, <3>2 DEF WorkerStack, Has
  <2>10. wpc = "working" /\ work["worker"] # <<>>
    BY <1>4 DEF Does, CountInv
  <2>11. ExtractDue => ExtractDue'
    <3>1. Split /\ Split'
      BY DueSplit, DueSplitNext
    <3>2. Has(w, "extract") => Has(v, "extract")
      BY <2>7 DEF CountInv
    <3> QED
      BY <1>0, <2>6, <2>9, <2>10, <3>1, <3>2 DEF Split
  <2>12. BufferCounted'
    BY <1>0, <2>6, <2>11, WorkerCounts
  <2> QED
    BY <1>0, <2>6, <2>8, <2>10, <2>12 DEF CountInv
<1> QED
  BY <1>2, <1>3, <1>4, Zenon DEF Reflect

\* A queue that holds an extraction still does when events are added.
LEMMA LaterStays ==
    ASSUME NEW q \in Seq(Due), NEW events \in Seq(Due)
    PROVE  Extracts(q) \/ Extracts(events) => Extracts(q \o events)
<1>1. /\ q \o events \in Seq(Due)
      /\ Len(q \o events) = Len(q) + Len(events)
      /\ \A i \in 1 .. Len(q) + Len(events) : (q \o events)[i] =
            IF i <= Len(q) THEN q[i] ELSE events[i - Len(q)]
  BY ConcatProperties
<1>2. /\ Len(q) \in Nat /\ Len(events) \in Nat
      /\ DOMAIN q = 1 .. Len(q) /\ DOMAIN events = 1 .. Len(events)
      /\ DOMAIN (q \o events) = 1 .. Len(q) + Len(events)
  BY <1>1
<1>3. ASSUME NEW n \in DOMAIN q, q[n] = "extract" PROVE Extracts(q \o events)
  <2>1. n \in DOMAIN (q \o events) /\ (q \o events)[n] = q[n]
    BY <1>1, <1>2
  <2> QED
    BY <1>3, <2>1 DEF Extracts
<1>4. ASSUME NEW n \in DOMAIN events, events[n] = "extract" PROVE Extracts(q \o events)
  <2>1. Len(q) + n \in DOMAIN (q \o events) /\ ~(Len(q) + n <= Len(q)) /\ Len(q) + n - Len(q) = n
    BY <1>2
  <2>2. (q \o events)[Len(q) + n] = events[n]
    BY <1>1, <1>2, <2>1
  <2> QED
    BY <1>4, <2>1, <2>2 DEF Extracts
<1> QED
  BY <1>3, <1>4 DEF Extracts

\* The calls the worker executes.
LEMMA WorkerExecutes ==
    ASSUME ~Persistent, ExtractInv, ExtractInv', MergeInv, CountInv, Execute("worker")
    PROVE  CountInv'
<1>0. /\ <<>> \in Seq(AnyCall) /\ ~Has(<<>>, "extract") /\ ~Has(<<>>, "clear")
      /\ <<>> \in Seq(Due) /\ <<"reflect">> \in Seq(Due)
      /\ WorkTypes /\ "worker" \in Threads
  BY DEF ExtractInv, Has, Due, Threads
<1>1. ASSUME NEW d, Does("worker", d) PROVE d \in PlainDeeds \cup {"clear", "ask"}
  BY <1>0, <1>1, HeadDeed
<1>2. ~(Count("worker") \/ EndTask("worker"))
  BY <1>1 DEF Count, EndTask, PlainDeeds
<1>3. CASE Created("worker")
  <2>1. PICK b1 \in BOOLEAN, b2 \in BOOLEAN : Enqueue("worker",
           (IF b1 THEN <<"reflect">> ELSE <<>>) \o (IF b2 THEN <<"reflect">> ELSE <<>>))
    BY <1>3 DEF Created
  <2> DEFINE u == IF b1 THEN <<"reflect">> ELSE <<>>
             v == IF b2 THEN <<"reflect">> ELSE <<>>
             events == u \o v
  <2>2. u \in Seq(Due) /\ v \in Seq(Due) /\ Enqueue("worker", events)
    BY <1>0, <2>1
  <2> HIDE DEF u, v
  <2>3. events \in Seq(Due)
    BY <2>2
  <2> HIDE DEF events
  <2>4. Then("worker", <<>>) /\ queue' = queue \o events
    BY <1>0, <2>2, <2>3, Queued
  <2>5. Extracts(queue) => Extracts(queue')
    BY <2>3, <2>4, LaterStays DEF ExtractInv
  <2>6. Does("worker", "created") /\ UNCHANGED <<running, wpc, batch, msgs, buffer>>
    BY <1>3 DEF Created, worker, talk
  <2> QED
    BY <1>0, <2>4, <2>5, <2>6, WorkerMovesOn DEF PlainDeeds
<1>4. CASE Retire("worker")
  <2>1. Does("worker", "retire") /\ Then("worker", <<>>)
        /\ UNCHANGED <<queue, running, wpc, batch, msgs, buffer>>
    BY <1>4 DEF Retire, triggers, worker, talk
  <2> QED
    BY <1>0, <2>1, WorkerMovesOn DEF PlainDeeds
<1>5. CASE Extract("worker")
  <2> DEFINE c == Call("clear", buffer)
             d == Call("ask", buffer)
  <2>1. Does("worker", "extract") /\ UNCHANGED <<queue, running, wpc, batch, msgs, buffer>>
    BY <1>5 DEF Extract, triggers, worker, talk
  <2>2. (buffer = {} /\ Then("worker", <<>>)) \/ Then("worker", <<c, d>>)
    BY <1>5 DEF Extract
  <2>3. /\ c \in AnyCall /\ d \in AnyCall /\ c.do = "clear" /\ d.do = "ask"
    BY <1>0, CallFields DEF WorkTypes, Deeds
  <2> HIDE DEF c, d
  <2>4. <<c, d>> \in Seq(AnyCall) /\ <<c, d>>[1] = c /\ <<c, d>>[2] = d /\ DOMAIN <<c, d>> = {1, 2}
    BY <2>3
  <2>5. Has(<<c, d>>, "clear") /\ ~Has(<<c, d>>, "extract")
    BY <2>3, <2>4 DEF Has
  <2> QED
    BY <1>0, <2>1, <2>2, <2>4, <2>5, WorkerMoves
<1>6. CASE Ask("worker")
  <2>1. Does("worker", "ask") /\ UNCHANGED <<queue, running, wpc, batch, msgs, buffer>>
    BY <1>6 DEF Ask, triggers, worker
  <2>2. CASE Then("worker", <<>>)
    BY <1>0, <2>1, <2>2, WorkerMovesOn DEF PlainDeeds
  <2>3. ASSUME NEW i \in Fresh, Then("worker", <<Call("created", {i})>>)
        PROVE  CountInv'
    <3> DEFINE c == Call("created", {i})
    <3>1. c \in AnyCall /\ c.do = "created"
      BY CallFields DEF Deeds, Fresh, Ids
    <3>2. Then("worker", <<c>>)
      BY <2>3
    <3> HIDE DEF c
    <3>3. <<c>> \in Seq(AnyCall) /\ ~Has(<<c>>, "extract")
      BY <3>1 DEF Has
    <3> QED
      BY <2>1, <3>2, <3>3, WorkerMovesOn DEF PlainDeeds
  <2> QED
    BY <1>6, <2>2, <2>3, Zenon DEF Ask
<1>7. CASE Judge("worker")
  <2>1. Does("worker", "judge") /\ UNCHANGED <<queue, running, wpc, batch, msgs, buffer>>
    BY <1>7 DEF Judge, triggers, worker, talk
  <2>2. CASE Then("worker", <<>>)
    BY <1>0, <2>1, <2>2, WorkerMovesOn DEF PlainDeeds
  <2>3. ASSUME NEW i \in Fresh, NEW S \in SUBSET Nat, NEW T \in SUBSET Nat,
               Then("worker", <<Call("created", {i}), Call("retire", S), Call("retire", T)>>)
        PROVE  CountInv'
    <3> DEFINE c == Call("created", {i})
               d == Call("retire", S)
               e == Call("retire", T)
    <3>1. /\ c \in AnyCall /\ d \in AnyCall /\ e \in AnyCall
          /\ c.do = "created" /\ d.do = "retire" /\ e.do = "retire"
      <4>1. {i} \in SUBSET Nat
        BY DEF Fresh, Ids
      <4> QED
        BY <2>3, <4>1, CallFields DEF Deeds
    <3>2. Then("worker", <<c, d, e>>)
      BY <2>3
    <3> HIDE DEF c, d, e
    <3>3. <<c, d, e>> \in Seq(AnyCall) /\ ~Has(<<c, d, e>>, "extract")
      BY <3>1 DEF Has
    <3> QED
      BY <2>1, <3>2, <3>3, WorkerMovesOn DEF PlainDeeds
  <2>4. {Min(Argument("worker"))} \in SUBSET Nat /\ {Max(Argument("worker"))} \in SUBSET Nat
    BY <1>0, <2>1, JudgedPair
  <2> QED
    BY <1>7, <2>2, <2>3, <2>4, Zenon DEF Judge
<1> QED
  BY <1>2, <1>3, <1>4, <1>5, <1>6, <1>7, ClearCounts, ReflectCounts DEF Execute

\* A batch takes over what was due in the queue, and its calls what is due in it.
LEMMA LoopCounts ==
    ASSUME ExtractInv, ExtractInv', CountInv, Get \/ GetNothing \/ Done
    PROVE  CountInv'
<1>0. /\ queue \in Seq(Due) /\ batch \in [Threads -> Seq(Due)]
      /\ work \in [Threads -> Seq(AnyCall)]
      /\ "worker" \in Threads /\ "client" \in Threads \ {"worker"}
      /\ UNCHANGED <<running, msgs, buffer>>
  BY DEF ExtractInv, WorkTypes, Threads, Get, GetNothing, Done, triggers, talk
<1>1. Split /\ Split'
  BY DueSplit, DueSplitNext
<1>2. ASSUME NEW events \in Seq(Due), BeginBatch("worker", events)
      PROVE  /\ Has(work'["worker"], "extract") <=> Extracts(events)
             /\ work'["client"] = work["client"]
  <2>1. work'["worker"] = Calls(events) /\ work'["client"] = work["client"]
    BY <1>0, <1>2 DEF BeginBatch
  <2>2. DOMAIN Calls(events) = DOMAIN events
        /\ \A n \in DOMAIN events : Calls(events)[n].do = events[n]
    BY CallsOfEvents, CallFields
  <2> QED
    BY <2>1, <2>2 DEF Has, Extracts
<1>3. CASE Get
  <2> DEFINE b == batch["worker"]
             h == Head(queue)
             collected == Append(b, h)
  <2>1. queue # <<>> /\ queue' = Tail(queue) /\ wpc = "waiting" /\ running
    BY <1>3 DEF Get, CountInv
  <2>2. b \in Seq(Due) /\ h \in Due /\ h # "end"
    BY <1>0, <2>1 DEF Due
  <2>3. /\ batch' = [batch EXCEPT !["worker"] = collected]
        /\ \/ wpc' = "working" /\ BeginBatch("worker", collected)
           \/ UNCHANGED <<wpc, work>>
    BY <1>3, <2>1, <2>2, Zenon DEF Get
  <2> HIDE DEF b, h
  <2>4. collected \in Seq(Due) /\ batch'["worker"] = collected
    BY <1>0, <2>2, <2>3
  <2>5. Extracts(b) \/ h = "extract" => Extracts(collected)
    <3>1. Len(b) \in Nat /\ DOMAIN b = 1 .. Len(b) /\ DOMAIN collected = 1 .. Len(b) + 1
          /\ collected[Len(b) + 1] = h /\ \A n \in 1 .. Len(b) : collected[n] = b[n]
      BY <2>2
    <3> HIDE DEF collected
    <3>2. \A n \in 1 .. Len(b) : n \in 1 .. Len(b) + 1
      BY <3>1
    <3>3. Len(b) + 1 \in 1 .. Len(b) + 1
      BY <3>1
    <3> QED
      BY <3>1, <3>2, <3>3 DEF Extracts
  <2>6. Extracts(queue) => h = "extract" \/ Extracts(queue')
    <3> SUFFICES ASSUME NEW n \in DOMAIN queue, queue[n] = "extract", h # "extract"
                 PROVE  Extracts(queue')
      BY DEF Extracts
    <3>1. n \in 2 .. Len(queue) /\ Len(queue) \in Nat
      BY <1>0, <2>1 DEF h
    <3>2. n - 1 \in DOMAIN queue' /\ queue'[n - 1] = queue[n]
      BY <1>0, <2>1, <3>1
    <3> QED
      BY <3>2 DEF Extracts
  <2> HIDE DEF collected
  <2>7. work["worker"] = <<>>
    BY <2>1 DEF CountInv
  <2>8. ~Has(work["worker"], "extract") /\ ~Has(work["worker"], "clear")
    BY <2>7 DEF Has
  <2>9. ExtractDue => Extracts(collected) \/ Extracts(queue')
    BY <1>1, <2>5, <2>6, <2>8 DEF Split, b
  <2>10. CASE wpc' = "working" /\ BeginBatch("worker", collected)
    <3>1. /\ Has(work'["worker"], "extract") <=> Extracts(collected)
          /\ work'["client"] = work["client"]
      BY <1>2, <2>4, <2>10
    <3>2. BufferCounted'
      BY <1>0, <1>1, <2>9, <3>1, WorkerCounts DEF Split
    <3> QED
      BY <1>0, <2>1, <2>4, <2>10, <3>1, <3>2 DEF CountInv
  <2>11. CASE UNCHANGED <<wpc, work>>
    <3>1. BufferCounted'
      BY <1>0, <1>1, <2>1, <2>4, <2>9, <2>11, WorkerCounts DEF Split
    <3> QED
      BY <1>0, <2>1, <2>7, <2>8, <2>11, <3>1 DEF CountInv
  <2> QED
    BY <2>3, <2>10, <2>11
<1>4. CASE GetNothing
  <2>1. /\ queue = <<>> /\ queue' = queue /\ wpc = "waiting" /\ running /\ batch' = batch
    BY <1>4 DEF GetNothing, CountInv
  <2>2. wpc' = "working" /\ BeginBatch("worker", batch["worker"])
    BY <1>4, <2>1 DEF GetNothing
  <2>3. /\ Has(work'["worker"], "extract") <=> Extracts(batch["worker"])
        /\ work'["client"] = work["client"]
    BY <1>0, <1>2, <2>2
  <2>4. ~Has(work["worker"], "extract") /\ ~Has(work["worker"], "clear") /\ ~Extracts(queue)
    BY <2>1 DEF Has, CountInv, Extracts
  <2>5. BufferCounted'
    BY <1>0, <1>1, <2>3, <2>4, WorkerCounts DEF Split
  <2> QED
    BY <1>0, <2>1, <2>2, <2>3, <2>5 DEF CountInv
<1>5. CASE Done
  <2>1. /\ wpc \in {"working", "final"} /\ work["worker"] = <<>>
        /\ wpc' = IF wpc = "working" /\ running THEN "waiting" ELSE "gone"
        /\ UNCHANGED <<queue, work>>
    BY <1>5 DEF Done
  <2>2. wpc = "working" /\ running /\ wpc' = "waiting"
    BY <2>1 DEF CountInv
  <2>3. ~Has(work["worker"], "extract") /\ ~Has(work["worker"], "clear")
    BY <2>1 DEF Has
  <2>4. BufferCounted'
    BY <1>0, <1>1, <2>1, <2>2, <2>3, WorkerCounts DEF Split
  <2> QED
    BY <1>0, <2>1, <2>2, <2>3, <2>4 DEF CountInv
<1> QED
  BY <1>3, <1>4, <1>5

\* The client's counter events.
LEMMA ClientExecutes ==
    ASSUME ExtractInv, ExtractInv', CountInv, Execute("client")
    PROVE  CountInv'
<1>0. /\ <<>> \in Seq(AnyCall) /\ <<>> \in Seq(Due) /\ queue \in Seq(Due)
      /\ <<"extract">> \in Seq(Due) /\ <<"reflect">> \in Seq(Due)
      /\ WorkTypes /\ "client" \in Threads /\ "worker" \in Threads \ {"client"}
      /\ \A d : ~Has(<<>>, d)
      /\ Extracts(<<"extract">>)
  <2>1. <<"extract">>[1] = "extract" /\ 1 \in DOMAIN <<"extract">>
    OBVIOUS
  <2> QED
    BY <2>1 DEF ExtractInv, Due, Threads, Has, Extracts
<1>1. Split /\ Split' /\ msgs \in Nat
  BY DueSplit, DueSplitNext DEF CountInv
<1>2. ASSUME NEW d, Does("client", d), NEW events \in Seq(Due), Enqueue("client", events)
      PROVE  /\ d \in ClientDeeds
             /\ work'["worker"] = work["worker"]
             /\ Has(work["client"], "count") <=> d = "count"
             /\ ~Has(work'["client"], "count")
             /\ queue' = queue \o events
             /\ Extracts(queue) \/ Extracts(events) => Extracts(queue')
  <2>1. Then("client", <<>>) /\ queue' = queue \o events
    BY <1>0, <1>2, Queued
  <2>2. /\ d \in ClientDeeds /\ work["client"] # <<>> /\ Len(work["client"]) = 1
        /\ 1 \in DOMAIN work["client"] /\ work["client"][1].do = d
    BY <1>0, <1>2, HeadDeed
  <2>3. /\ work'["worker"] = work["worker"] /\ work' \in [Threads -> Seq(AnyCall)]
        /\ Len(work'["client"]) = Len(<<>>) + Len(work["client"]) - 1
    BY <1>0, <2>1, <2>2, NextStack
  <2>4. DOMAIN work["client"] = {1}
    <3>1. work["client"] \in Seq(AnyCall)
      BY <1>0 DEF WorkTypes
    <3> QED
      BY <2>2, <3>1
  <2>5. DOMAIN work'["client"] = {}
    <3>1. work'["client"] \in Seq(AnyCall)
      BY <1>0, <2>3
    <3>2. Len(work'["client"]) = 0
      BY <2>2, <2>3
    <3> QED
      BY <3>1, <3>2
  <2>6. Has(work["client"], "count") <=> d = "count"
    BY <2>2, <2>4 DEF Has
  <2>7. ~Has(work'["client"], "count")
    BY <2>5 DEF Has
  <2>8. Extracts(queue) \/ Extracts(events) => Extracts(queue')
    BY <1>0, <1>2, <2>1, LaterStays
  <2> QED
    BY <2>1, <2>2, <2>3, <2>6, <2>7, <2>8
<1>3. ASSUME work'["worker"] = work["worker"], UNCHANGED <<running, wpc, batch>>,
             msgs' \in Nat, BufferCounted'
      PROVE  CountInv'
  BY <1>3 DEF CountInv
<1>4. CASE Count("client")
  <2> DEFINE full == msgs + 1 >= MessageThreshold
             events == IF full THEN <<"extract">> ELSE <<>>
  <2>1. /\ Does("client", "count") /\ events \in Seq(Due) /\ Enqueue("client", events)
        /\ msgs' = IF full THEN 0 ELSE msgs + 1
        /\ UNCHANGED <<running, wpc, batch, buffer>>
    BY <1>0, <1>4 DEF Count, worker, talk
  <2>2. /\ work'["worker"] = work["worker"]
        /\ Has(work["client"], "count") /\ ~Has(work'["client"], "count")
        /\ Extracts(queue) \/ Extracts(events) => Extracts(queue')
    BY <1>2, <2>1
  <2>3. CASE full
    <3>1. ExtractDue'
      BY <1>0, <1>1, <2>2, <2>3 DEF Split
    <3> QED
      BY <1>3, <2>1, <2>2, <2>3, <3>1 DEF BufferCounted
  <2>4. CASE ~full
    <3>1. msgs' = msgs + 1
      BY <2>1, <2>4
    <3>2. ExtractDue => ExtractDue'
      BY <1>1, <2>1, <2>2 DEF Split
    <3>3. Pending("count") /\ ~Pending("count")'
      BY <1>1, <2>2 DEF Split
    <3>4. ~ExtractDue' => Cardinality(buffer') <= msgs' + 0
      BY <2>1, <3>1, <3>2, <3>3 DEF CountInv, BufferCounted
    <3>5. BufferCounted'
      BY <3>3, <3>4 DEF BufferCounted
    <3> QED
      BY <1>1, <1>3, <2>1, <2>2, <3>1, <3>5
  <2> QED
    BY <2>3, <2>4
<1>5. CASE EndTask("client")
  <2>1. /\ Does("client", "end_task") /\ Enqueue("client", <<"extract">>)
        /\ msgs' = 0 /\ UNCHANGED <<running, wpc, batch, buffer>>
    BY <1>5 DEF EndTask, worker, talk
  <2>2. work'["worker"] = work["worker"] /\ Extracts(queue')
    BY <1>0, <1>2, <2>1
  <2>3. ExtractDue'
    BY <1>1, <2>2 DEF Split
  <2> QED
    BY <1>3, <2>1, <2>2, <2>3 DEF BufferCounted
<1>6. CASE Created("client")
  <2>1. PICK b1 \in BOOLEAN, b2 \in BOOLEAN : Enqueue("client",
           (IF b1 THEN <<"reflect">> ELSE <<>>) \o (IF b2 THEN <<"reflect">> ELSE <<>>))
    BY <1>6 DEF Created
  <2> DEFINE u == IF b1 THEN <<"reflect">> ELSE <<>>
             v == IF b2 THEN <<"reflect">> ELSE <<>>
             events == u \o v
  <2>2. u \in Seq(Due) /\ v \in Seq(Due) /\ Enqueue("client", events)
    BY <1>0, <2>1
  <2> HIDE DEF u, v
  <2>3. events \in Seq(Due)
    BY <2>2
  <2> HIDE DEF events
  <2>4. Does("client", "created") /\ UNCHANGED <<running, wpc, batch, msgs, buffer>>
    BY <1>6 DEF Created, worker, talk
  <2>5. /\ work'["worker"] = work["worker"]
        /\ ~Has(work["client"], "count") /\ ~Has(work'["client"], "count")
        /\ Extracts(queue) => Extracts(queue')
    BY <1>2, <2>2, <2>3, <2>4
  <2>6. ExtractDue => ExtractDue'
    BY <1>1, <2>4, <2>5 DEF Split
  <2>7. ~Pending("count") /\ ~Pending("count")'
    BY <1>1, <2>5 DEF Split
  <2>8. BufferCounted'
    BY <2>4, <2>6, <2>7 DEF CountInv, BufferCounted
  <2> QED
    BY <1>1, <1>3, <2>4, <2>5, <2>8
<1>7. ~(\/ Retire("client") \/ Extract("client") \/ Clear("client")
        \/ Ask("client") \/ Reflect("client") \/ Judge("client"))
  <2>1. ASSUME NEW d, Does("client", d) PROVE d \in ClientDeeds
    BY <1>0, <2>1, HeadDeed
  <2> QED
    BY <2>1 DEF Retire, Extract, Clear, Ask, Reflect, Judge, ClientDeeds
<1> QED
  BY <1>4, <1>5, <1>6, <1>7 DEF Execute

\* A tracked message waits for its counter event.
LEMMA ClientCallCounts ==
    ASSUME ByTools, ExtractInv, ExtractInv', CountInv, ClientCall
    PROVE  CountInv'
<1>0. /\ "client" \in Threads /\ "worker" \in Threads \ {"client"}
      /\ work \in [Threads -> Seq(AnyCall)]
      /\ tracked \in Nat /\ buffer \subseteq 1 .. tracked
      /\ \A op \in Ops : op \in {"track", "task_end", "add"}
  BY DEF ExtractInv, WorkTypes, Threads, ByTools
<1>1. Split /\ Split' /\ msgs \in Nat
  BY DueSplit, DueSplitNext DEF CountInv
<1>2. ASSUME NEW d, NEW S, work["client"] = <<>>,
             work' = [work EXCEPT !["client"] = <<Call(d, S)>>],
             UNCHANGED <<running, wpc, batch, msgs, queue>>,
             \/ UNCHANGED buffer
             \/ d = "count" /\ buffer' = buffer \cup {tracked + 1}
      PROVE  CountInv'
  <2> DEFINE c == Call(d, S)
  <2>1. c.do = d
    BY CallFields
  <2>2. work'["client"] = <<c>> /\ work'["worker"] = work["worker"]
    BY <1>0, <1>2
  <2> HIDE DEF c
  <2>3. ~Pending("count") /\ (d = "count" => Pending("count")')
    <3>1. ~Has(work["client"], "count")
      BY <1>2 DEF Has
    <3>2. 1 \in DOMAIN <<c>> /\ <<c>>[1] = c
      OBVIOUS
    <3>3. d = "count" => Has(work'["client"], "count")
      BY <2>1, <2>2, <3>2 DEF Has
    <3> QED
      BY <1>1, <3>1, <3>3 DEF Split
  <2>4. ExtractDue <=> ExtractDue'
    BY <1>1, <1>2, <2>2 DEF Split
  <2>5. IsFiniteSet(buffer) /\ Cardinality(buffer) \in Nat
    <3>1. IsFiniteSet(1 .. tracked) /\ buffer \in SUBSET (1 .. tracked)
      BY <1>0, FS_Interval
    <3> QED
      BY <3>1, FS_Subset, FS_CardinalityType
  <2>6. BufferCounted'
    <3>1. CASE UNCHANGED buffer
      <4>1. ~ExtractDue' => Cardinality(buffer') <= msgs'
        BY <1>2, <2>3, <2>4, <3>1 DEF CountInv, BufferCounted
      <4>2. \A k, m \in Nat : k <= m => k <= m + 0 /\ k <= m + 1
        OBVIOUS
      <4>3. Cardinality(buffer') \in Nat /\ msgs' \in Nat
        BY <1>1, <1>2, <2>5, <3>1
      <4> QED
        BY <4>1, <4>2, <4>3 DEF BufferCounted
    <3>2. CASE d = "count" /\ buffer' = buffer \cup {tracked + 1}
      <4>1. tracked + 1 \notin buffer
        BY <1>0
      <4>2. Cardinality(buffer') = Cardinality(buffer) + 1
        BY <2>5, <3>2, <4>1, FS_AddElement
      <4>3. ~ExtractDue' => Cardinality(buffer) <= msgs + 0
        BY <2>3, <2>4 DEF CountInv, BufferCounted
      <4>4. ~ExtractDue' => Cardinality(buffer') <= msgs' + 1
        BY <1>1, <1>2, <2>5, <4>2, <4>3
      <4> QED
        BY <2>3, <3>2, <4>4 DEF BufferCounted
    <3> QED
      BY <1>2, <3>1, <3>2
  <2> QED
    BY <1>2, <2>2, <2>6 DEF CountInv
<1>3. CASE Track
  BY <1>2, <1>3 DEF Track, Client, triggers, worker
<1>4. CASE TaskEnd
  BY <1>2, <1>4 DEF TaskEnd, Client, triggers, worker, talk
<1>5. CASE AddMemory
  <2>1. PICK i \in Fresh : work["client"] = <<>> /\ work' = [work EXCEPT !["client"] = <<Call("created", {i})>>]
    BY <1>5 DEF AddMemory, Client
  <2>2. UNCHANGED <<running, wpc, batch, msgs, queue, buffer>>
    BY <1>5 DEF AddMemory, triggers, worker, talk
  <2> QED
    BY <1>2, <2>1, <2>2
<1>6. ~(Delete \/ ExtractNow \/ Stop \/ Start)
  BY <1>0 DEF Delete, ExtractNow, Stop, Start, Client
<1> QED
  BY <1>3, <1>4, <1>5, <1>6 DEF ClientCall

\* The invariants hold at the start.
LEMMA CountInit ==
    ASSUME Init
    PROVE  ExtractBase /\ CountInv
<1>1. /\ work["worker"] = <<>> /\ msgs = 0 /\ buffer = {} /\ running = WorkerEnabled
      /\ wpc = IF WorkerEnabled THEN "waiting" ELSE "gone"
  BY DEF Init, Threads
<1>2. BufferCounted
  BY <1>1, FS_EmptySet DEF BufferCounted
<1> QED
  BY <1>1, <1>2, ExtractInit, IntelligenceConstants DEF CountInv, Has

\* Every step keeps them, while no batch is given up.
LEMMA CountKept ==
    ASSUME ByTools, ~Persistent, ExtractBase, CountInv, [Next]_vars
    PROVE  ExtractBase' /\ CountInv'
<1>0. ExtractBase'
  BY ExtractKept
<1>1. ExtractInv /\ ExtractInv' /\ MergeInv
  BY <1>0 DEF ExtractBase
<1>2. CASE WorkerStep
  BY <1>0, <1>1, <1>2, LoopCounts, WorkerExecutes DEF WorkerStep
<1>3. CASE ClientStep
  BY <1>0, <1>1, <1>3, NoStop, ClientExecutes DEF ClientStep
<1>4. CASE ClientCall
  BY <1>0, <1>1, <1>4, ClientCallCounts
<1>5. CASE UNCHANGED vars
  <2>1. UNCHANGED <<wpc, running, work, batch, msgs, buffer, queue>>
    BY <1>5 DEF vars, triggers, worker, talk
  <2> QED
    BY <1>0, <2>1 DEF CountInv, BufferCounted, ExtractDue, Pending, Has, Extracts
<1> QED
  BY <1>2, <1>3, <1>4, <1>5 DEF Next

\* Where the memory tools and the agent loop call, and a batch that fails is not
\* given up, every message in the buffer is counted or an extraction is due: the
\* counter and the buffer, which two threads change in several steps, never drift
\* apart, so that no message waits for an extraction nobody will trigger.
THEOREM BufferCountedAlways ==
    ASSUME ByTools, ~Persistent PROVE Spec => []BufferCounted
<1>1. Init => ExtractBase /\ CountInv
  BY CountInit
<1>2. ExtractBase /\ CountInv /\ [Next]_vars => ExtractBase' /\ CountInv'
  BY CountKept
<1>3. CountInv => BufferCounted
  BY DEF CountInv
<1> QED
  BY <1>1, <1>2, <1>3, PTL DEF Spec

------------------------------------------------------------------------------
(* Merging once, where the memory tools call *)

Stack == work["worker"]

\* The memories that the calls of s will archive.
Out(s) == UNION {s[n].of : n \in {m \in DOMAIN s : s[m].do = "retire"}}

\* The active memories that stay so.
Staying == Active \ Out(Stack)

\* Events are below what the present one has left to do.
EventsBelow(s) ==
    \A m, n \in DOMAIN s : m < n /\ s[m].do \in Due => s[n].do \in Due

\* What is going to be judged are pairs of S that are alike, without a memory in
\* common.
Judges(s, S) ==
    /\ \A n \in DOMAIN s : s[n].do = "judge" =>
          \E a, b \in S : a # b /\ topic[a] = topic[b] /\ s[n].of = {a, b}
    /\ \A m, n \in DOMAIN s : m # n /\ s[m].do = "judge" /\ s[n].do = "judge" =>
          s[m].of \cap s[n].of = {}

\* No three memories of S are alike.
NoThree(S) ==
    \A a, b, c \in S : topic[a] = topic[b] /\ topic[b] = topic[c] =>
       a = b \/ b = c \/ a = c

\* A memory that was merged does not stay, and was merged once.
Parted ==
    \A i, j \in Ids : i \in parents[j] =>
       i \in Born \ Staying /\ (\A k \in Ids : i \in parents[k] => k = j)

\* The inductive invariant for MergedOnce, together with ExtractBase.
OnceInv ==
    /\ topic \in [Ids -> Topics] /\ parents \in [Ids -> SUBSET Ids]
    /\ wpc = "waiting" => Stack = <<>>
    /\ EventsBelow(Stack)
    /\ Judges(Stack, Staying)
    /\ NoThree(Staying)
    /\ Parted

\* Of two memories alike at most, one can be added where there is room.
LEMMA RoomForOne ==
    ASSUME MaxAlike <= 2, NEW p, Room(p), NEW a \in Active, NEW b \in Active,
           topic[a] = p, topic[b] = p
    PROVE  a = b
<1> DEFINE S == {i \in Active : topic[i] = p}
<1>1. IsFiniteSet(S)
  <2>1. IsFiniteSet(Ids) /\ S \in SUBSET Ids
    BY FS_Interval, IntelligenceConstants DEF Ids, Active
  <2> HIDE DEF S
  <2> QED
    BY <2>1, FS_Subset
<1>2. {a} \subseteq S /\ {b} \subseteq S
  OBVIOUS
<1>3. Cardinality(S) < MaxAlike /\ MaxAlike \in Nat
  BY IntelligenceConstants DEF Room
<1> HIDE DEF S
<1>4. Cardinality(S) = 0 \/ Cardinality(S) = 1
  BY <1>1, <1>3, FS_CardinalityType
<1>5. Cardinality(S) # 0
  BY <1>1, <1>2, FS_EmptySet
<1>6. PICK x : S = {x}
  BY <1>1, <1>4, <1>5, FS_Singleton
<1> QED
  BY <1>2, <1>6

\* The worker's head is done: its new calls, none of them an event, are above what
\* was below it.
LEMMA Above ==
    ASSUME WorkTypes, Stack # <<>>, EventsBelow(Stack),
           NEW calls \in Seq(AnyCall), Then("worker", calls),
           \A n \in DOMAIN calls : calls[n].do \notin Due
    PROVE  /\ EventsBelow(Stack') /\ work'["client"] = work["client"]
           /\ \A n \in DOMAIN Stack' :
                 \/ n \in DOMAIN calls /\ Stack'[n] = calls[n]
                 \/ /\ n \notin DOMAIN calls /\ n - Len(calls) + 1 \in DOMAIN Stack \ {1}
                    /\ Stack'[n] = Stack[n - Len(calls) + 1]
           /\ \A n \in DOMAIN calls : n \in DOMAIN Stack' /\ Stack'[n] = calls[n]
           /\ \A n \in DOMAIN Stack \ {1} : \E m \in DOMAIN Stack' : Stack'[m] = Stack[n]
<1> DEFINE w == Stack
           k == Len(calls)
<1>1. "worker" \in Threads /\ "client" \in Threads \ {"worker"} /\ work["worker"] # <<>>
  BY DEF Threads, Stack
<1>2. /\ work' \in [Threads -> Seq(AnyCall)]
      /\ Len(Stack') = k + Len(w) - 1
      /\ \A n \in 1 .. k : Stack'[n] = calls[n]
      /\ \A n \in 2 .. Len(w) : Stack'[k + n - 1] = w[n]
      /\ work'["client"] = work["client"]
  BY <1>1, NextStack DEF Stack
<1>3. w \in Seq(AnyCall) /\ Stack' \in Seq(AnyCall)
  BY <1>1, <1>2 DEF Stack, WorkTypes
<1>4. /\ k \in Nat /\ Len(w) \in Nat \ {0} /\ DOMAIN w = 1 .. Len(w)
      /\ DOMAIN calls = 1 .. k /\ DOMAIN Stack' = 1 .. k + Len(w) - 1
  BY <1>2, <1>3
<1>5. EventsBelow(w)
  OBVIOUS
<1> HIDE DEF w, k
<1>6. ASSUME NEW n \in DOMAIN Stack', n \notin DOMAIN calls
      PROVE  n - k + 1 \in DOMAIN w \ {1} /\ Stack'[n] = w[n - k + 1]
  <2>1. n - k + 1 \in 2 .. Len(w) /\ n = k + (n - k + 1) - 1
    BY <1>4, <1>6
  <2> QED
    BY <1>2, <1>4, <2>1
<1>7. ASSUME NEW n \in DOMAIN w \ {1} PROVE \E m \in DOMAIN Stack' : Stack'[m] = w[n]
  <2>1. n \in 2 .. Len(w) /\ k + n - 1 \in DOMAIN Stack'
    BY <1>4
  <2> QED
    BY <1>2, <2>1
<1>8. ASSUME NEW m \in DOMAIN Stack', NEW n \in DOMAIN Stack', m < n, Stack'[m].do \in Due
      PROVE  Stack'[n].do \in Due
  <2>1. m \notin DOMAIN calls
    BY <1>2, <1>4, <1>8
  <2>2. n \notin DOMAIN calls
    BY <1>4, <1>8, <2>1
  <2>3. m - k + 1 < n - k + 1
    BY <1>4, <1>8
  <2> QED
    BY <1>5, <1>6, <1>8, <2>1, <2>2, <2>3 DEF EventsBelow
<1> QED
  BY <1>2, <1>4, <1>6, <1>7, <1>8 DEF EventsBelow, w, k

\* The calls that archive, after such a step.
LEMMA OutAbove ==
    ASSUME WorkTypes, Stack # <<>>, EventsBelow(Stack),
           NEW calls \in Seq(AnyCall), Then("worker", calls),
           \A n \in DOMAIN calls : calls[n].do \notin Due
    PROVE  /\ Out(Stack') \subseteq Out(calls) \cup Out(Stack)
           /\ Out(calls) \subseteq Out(Stack')
           /\ Head(Stack).do # "retire" => Out(Stack) \subseteq Out(Stack')
           /\ Head(Stack).do = "retire" => Out(Stack) \ Head(Stack).of \subseteq Out(Stack')
<1>1. /\ \A n \in DOMAIN Stack' :
            \/ n \in DOMAIN calls /\ Stack'[n] = calls[n]
            \/ \E m \in DOMAIN Stack : Stack'[n] = Stack[m]
      /\ \A n \in DOMAIN calls : n \in DOMAIN Stack' /\ Stack'[n] = calls[n]
      /\ \A n \in DOMAIN Stack \ {1} : \E m \in DOMAIN Stack' : Stack'[m] = Stack[n]
  <2>1. \A n \in DOMAIN Stack' :
           \/ n \in DOMAIN calls /\ Stack'[n] = calls[n]
           \/ /\ n \notin DOMAIN calls /\ n - Len(calls) + 1 \in DOMAIN Stack \ {1}
              /\ Stack'[n] = Stack[n - Len(calls) + 1]
    BY Above, Zenon
  <2>2. /\ \A n \in DOMAIN calls : n \in DOMAIN Stack' /\ Stack'[n] = calls[n]
        /\ \A n \in DOMAIN Stack \ {1} : \E m \in DOMAIN Stack' : Stack'[m] = Stack[n]
    BY Above, Zenon
  <2> QED
    BY <2>1, <2>2
<1>2. Head(Stack) = Stack[1]
  BY DEF Stack, WorkTypes, Threads
<1>3. \A s, j : j \in Out(s) <=> \E n \in DOMAIN s : s[n].do = "retire" /\ j \in s[n].of
  BY DEF Out
<1>4. ASSUME NEW j \in Out(Stack') PROVE j \in Out(calls) \cup Out(Stack)
  BY <1>1, <1>3, <1>4
<1>5. ASSUME NEW j \in Out(calls) PROVE j \in Out(Stack')
  BY <1>1, <1>3, <1>5
<1>6. ASSUME NEW j \in Out(Stack), Head(Stack).do # "retire" \/ j \notin Head(Stack).of
      PROVE  j \in Out(Stack')
  <2>1. PICK n \in DOMAIN Stack : Stack[n].do = "retire" /\ j \in Stack[n].of
    BY <1>3
  <2>2. n # 1
    BY <1>2, <1>6, <2>1
  <2>3. PICK m \in DOMAIN Stack' : Stack'[m] = Stack[n]
    BY <1>1, <2>2
  <2> QED
    BY <1>3, <2>1, <2>3
<1> QED
  BY <1>4, <1>5, <1>6

\* What is still going to be judged, if the new calls judge nothing.
LEMMA JudgesAbove ==
    ASSUME WorkTypes, Stack # <<>>, EventsBelow(Stack), Judges(Stack, Staying),
           NEW calls \in Seq(AnyCall), Then("worker", calls),
           \A n \in DOMAIN calls : calls[n].do \notin Due \cup {"judge"},
           NEW S,
           \A n \in DOMAIN Stack \ {1} : Stack[n].do = "judge" => Stack[n].of \subseteq S,
           \A a \in Staying \cap S : topic'[a] = topic[a]
    PROVE  /\ \A n \in DOMAIN Stack' : Stack'[n].do = "judge" =>
                 \E a, b \in S : a # b /\ topic'[a] = topic'[b] /\ Stack'[n].of = {a, b}
           /\ \A m, n \in DOMAIN Stack' :
                 m # n /\ Stack'[m].do = "judge" /\ Stack'[n].do = "judge" =>
                    Stack'[m].of \cap Stack'[n].of = {}
<1> DEFINE at(n) == n - Len(calls) + 1
<1>1. ASSUME NEW n \in DOMAIN Stack', Stack'[n].do = "judge"
      PROVE  at(n) \in DOMAIN Stack \ {1} /\ Stack'[n] = Stack[at(n)]
  BY <1>1, Above
<1>2. DOMAIN Stack' \subseteq Int /\ Len(calls) \in Nat
  <2>1. "worker" \in Threads /\ work["worker"] # <<>>
    BY DEF Threads, Stack
  <2>2. Stack' \in Seq(AnyCall)
    BY <2>1, NextStack DEF Stack
  <2> QED
    BY <2>2
<1>3. ASSUME NEW m \in DOMAIN Stack', NEW n \in DOMAIN Stack', m # n PROVE at(m) # at(n)
  BY <1>2, <1>3
<1> HIDE DEF at
<1>4. ASSUME NEW n \in DOMAIN Stack', Stack'[n].do = "judge"
      PROVE  \E a, b \in S : a # b /\ topic'[a] = topic'[b] /\ Stack'[n].of = {a, b}
  <2>1. at(n) \in DOMAIN Stack \ {1} /\ Stack'[n] = Stack[at(n)] /\ Stack[at(n)].do = "judge"
    BY <1>1, <1>4
  <2>2. PICK a \in Staying, b \in Staying :
           a # b /\ topic[a] = topic[b] /\ Stack[at(n)].of = {a, b}
    BY <2>1 DEF Judges
  <2>3. a \in S /\ b \in S
    BY <2>1, <2>2
  <2> QED
    BY <2>1, <2>2, <2>3
<1>5. ASSUME NEW m \in DOMAIN Stack', NEW n \in DOMAIN Stack', m # n,
             Stack'[m].do = "judge", Stack'[n].do = "judge"
      PROVE  Stack'[m].of \cap Stack'[n].of = {}
  <2>1. at(n) \in DOMAIN Stack /\ Stack'[n] = Stack[at(n)]
        /\ at(m) \in DOMAIN Stack /\ Stack'[m] = Stack[at(m)] /\ at(m) # at(n)
    BY <1>1, <1>3, <1>5
  <2> QED
    BY <1>5, <2>1 DEF Judges
<1> QED
  BY <1>4, <1>5

\* The store stays as it is, or gets a memory where there is room.
NoneOrOne ==
    \/ UNCHANGED <<place, topic>>
    \/ \E i \in Fresh, p \in Topics, important \in BOOLEAN : Room(p) /\ Add(i, p, important)

\* What is archived exists.
LEMMA OutIsBorn ==
    ASSUME MergeInv
    PROVE  Out(Stack) \subseteq Born
<1>1. \A n \in DOMAIN Stack : Names(Stack[n], Born)
  BY DEF MergeInv, Stack, Threads
<1> QED
  BY <1>1 DEF Out, Names

\* A step that archives nothing and adds one memory at most.
LEMMA StoreKeeps ==
    ASSUME MaxAlike <= 2, MergeInv, OnceInv, NoneOrOne, UNCHANGED parents,
           Out(Stack') = Out(Stack)
    PROVE  /\ topic' \in [Ids -> Topics] /\ parents' \in [Ids -> SUBSET Ids]
           /\ NoThree(Staying)' /\ Parted'
           /\ Staying \subseteq Staying' /\ \A a \in Staying : topic'[a] = topic[a]
<1>1. /\ topic \in [Ids -> Topics] /\ parents \in [Ids -> SUBSET Ids]
      /\ place \in [Ids -> {"unborn", "active", "archived", "deleted"}]
      /\ NoThree(Staying) /\ Parted
  BY DEF OnceInv, MergeInv
<1>2. CASE UNCHANGED <<place, topic>>
  <2>1. Born' = Born /\ Active' = Active /\ Staying' = Staying
    BY <1>2 DEF Born, Active, Staying
  <2>2. NoThree(Staying)' /\ Parted'
    BY <1>1, <1>2, <2>1 DEF NoThree, Parted
  <2> QED
    BY <1>1, <1>2, <2>1, <2>2
<1>3. ASSUME NEW i \in Fresh, NEW p \in Topics, NEW important \in BOOLEAN, Room(p),
             Add(i, p, important)
      PROVE  /\ topic' \in [Ids -> Topics] /\ NoThree(Staying)' /\ Parted'
             /\ Staying \subseteq Staying' /\ \A a \in Staying : topic'[a] = topic[a]
  <2>1. /\ i \in Ids /\ place[i] = "unborn" /\ place' = [place EXCEPT ![i] = "active"]
        /\ topic' = [topic EXCEPT ![i] = p]
    BY <1>3 DEF Fresh, Add
  <2>2. Born' = Born \cup {i} /\ Active' = Active \cup {i} /\ i \notin Born /\ i \notin Active
    BY <1>1, <2>1 DEF Born, Active
  <2>3. i \notin Out(Stack)
    BY <2>2, OutIsBorn
  <2>4. Staying' = Staying \cup {i} /\ Staying \subseteq Active /\ i \notin Staying
        /\ Active \subseteq Ids
    BY <2>2, <2>3 DEF Staying, Active
  <2>5. topic' \in [Ids -> Topics] /\ topic'[i] = p /\ \A a \in Ids \ {i} : topic'[a] = topic[a]
    BY <1>1, <2>1
  <2>6. \A a \in Staying : a \in Active /\ topic'[a] = topic[a]
    BY <2>4, <2>5
  <2>7. ASSUME NEW a \in Staying, NEW b \in Staying, topic'[a] = p, topic'[b] = p
        PROVE  a = b
    BY <1>3, <2>6, <2>7, RoomForOne
  <2>8. ASSUME NEW a \in Staying', NEW b \in Staying', NEW c \in Staying',
               topic'[a] = topic'[b], topic'[b] = topic'[c]
        PROVE  a = b \/ b = c \/ a = c
    <3>1. CASE a \in Staying /\ b \in Staying /\ c \in Staying
      BY <1>1, <2>6, <2>8, <3>1 DEF NoThree
    <3>2. CASE a = i \/ b = i \/ c = i
      <4>1. topic'[a] = p /\ topic'[b] = p /\ topic'[c] = p
        BY <2>5, <2>8, <3>2
      <4> QED
        BY <2>4, <2>7, <2>8, <3>2, <4>1
    <3> QED
      BY <2>4, <2>8, <3>1, <3>2
  <2>9. Parted'
    BY <1>1, <2>2, <2>4 DEF Parted
  <2> QED
    BY <2>4, <2>5, <2>6, <2>8, <2>9 DEF NoThree
<1> QED
  BY <1>1, <1>2, <1>3 DEF NoneOrOne

\* A call that neither archives nor judges, and leaves none that does.
LEMMA QuietOnce ==
    ASSUME MaxAlike <= 2, MergeInv, OnceInv, NoneOrOne, UNCHANGED <<parents, wpc>>,
           NEW d, Does("worker", d), d # "retire",
           NEW calls \in Seq(AnyCall), Then("worker", calls),
           \A n \in DOMAIN calls : calls[n].do \notin Due \cup {"judge", "retire"}
    PROVE  OnceInv'
<1>1. /\ WorkTypes /\ Stack # <<>> /\ EventsBelow(Stack) /\ Judges(Stack, Staying)
      /\ Head(Stack).do # "retire" /\ wpc' # "waiting"
  BY DEF MergeInv, OnceInv, Does, Stack
<1>2. \A n \in DOMAIN calls : calls[n].do \notin Due
  OBVIOUS
<1>3. EventsBelow(Stack')
  BY <1>1, <1>2, Above
<1>4. Out(Stack') = Out(Stack)
  <2>1. Out(calls) = {}
    BY DEF Out
  <2>2. Out(Stack') \subseteq Out(calls) \cup Out(Stack) /\ Out(Stack) \subseteq Out(Stack')
    BY <1>1, <1>2, OutAbove
  <2> QED
    BY <2>1, <2>2
<1>5. /\ topic' \in [Ids -> Topics] /\ parents' \in [Ids -> SUBSET Ids]
      /\ NoThree(Staying)' /\ Parted'
      /\ Staying \subseteq Staying' /\ \A a \in Staying : topic'[a] = topic[a]
  BY <1>4, StoreKeeps
<1>6. \A n \in DOMAIN Stack \ {1} : Stack[n].do = "judge" => Stack[n].of \subseteq Staying'
  BY <1>1, <1>5 DEF Judges
<1>7. /\ \A n \in DOMAIN Stack' : Stack'[n].do = "judge" =>
            \E a, b \in Staying' : a # b /\ topic'[a] = topic'[b] /\ Stack'[n].of = {a, b}
      /\ \A m, n \in DOMAIN Stack' :
            m # n /\ Stack'[m].do = "judge" /\ Stack'[n].do = "judge" =>
               Stack'[m].of \cap Stack'[n].of = {}
  <2>1. \A n \in DOMAIN calls : calls[n].do \notin Due \cup {"judge"}
    OBVIOUS
  <2>2. \A a \in Staying \cap Staying' : topic'[a] = topic[a]
    BY <1>5
  <2> QED
    BY <1>1, <1>6, <2>1, <2>2, JudgesAbove
<1> QED
  BY <1>1, <1>3, <1>5, <1>7 DEF OnceInv, Judges

\* A step of the client, who may add a memory.
LEMMA ClientOnce ==
    ASSUME MaxAlike <= 2, MergeInv, OnceInv, NoneOrOne, UNCHANGED <<parents, wpc>>,
           Stack' = Stack
    PROVE  OnceInv'
<1>1. /\ topic' \in [Ids -> Topics] /\ parents' \in [Ids -> SUBSET Ids]
      /\ NoThree(Staying)' /\ Parted'
      /\ Staying \subseteq Staying' /\ \A a \in Staying : topic'[a] = topic[a]
  BY StoreKeeps
<1>2. Judges(Stack, Staying)'
  <2>1. ASSUME NEW n \in DOMAIN Stack, Stack[n].do = "judge"
        PROVE  \E a, b \in Staying' : a # b /\ topic'[a] = topic'[b] /\ Stack[n].of = {a, b}
    <3>1. PICK a \in Staying, b \in Staying :
             a # b /\ topic[a] = topic[b] /\ Stack[n].of = {a, b}
      BY <2>1 DEF OnceInv, Judges
    <3> QED
      BY <1>1, <3>1
  <2> QED
    BY <2>1 DEF OnceInv, Judges
<1> QED
  BY <1>1, <1>2 DEF OnceInv, EventsBelow

\* A stack of events only: nothing is archived or judged.
LEMMA EventsOnce ==
    ASSUME MaxAlike <= 2, MergeInv, OnceInv, UNCHANGED <<place, topic, parents>>,
           \A n \in DOMAIN Stack : Stack[n].do \in Due,
           \A n \in DOMAIN Stack' : Stack'[n].do \in Due,
           wpc' = "waiting" => Stack' = <<>>
    PROVE  OnceInv'
<1>1. Out(Stack) = {} /\ Out(Stack') = {}
  BY DEF Out, Due
<1>2. /\ topic' \in [Ids -> Topics] /\ parents' \in [Ids -> SUBSET Ids]
      /\ NoThree(Staying)' /\ Parted'
  BY <1>1, StoreKeeps DEF NoneOrOne
<1>3. Judges(Stack, Staying)' /\ EventsBelow(Stack')
  BY DEF Judges, EventsBelow, Due
<1> QED
  BY <1>2, <1>3 DEF OnceInv

\* What stays is the same when a memory has been archived.
LEMMA RetireOnce ==
    ASSUME MergeInv, OnceInv, Retire("worker")
    PROVE  OnceInv'
<1>1. "worker" \in Threads /\ Does("worker", "retire")
  BY DEF Threads, Retire
<1>2. PICK j \in Born : Argument("worker") = {j}
  BY <1>1, HeadCall
<1>3. Single(Argument("worker")) = j
  BY <1>2 DEF Single
<1>4. /\ Then("worker", <<>>)
      /\ place' = IF j \in Active THEN [place EXCEPT ![j] = "archived"] ELSE place
      /\ UNCHANGED <<topic, parents, wpc>>
  BY <1>3 DEF Retire, worker
<1>5. place \in [Ids -> {"unborn", "active", "archived", "deleted"}] /\ WorkTypes
  BY DEF MergeInv
<1>6. Born' = Born /\ Active' = Active \ {j}
  BY <1>2, <1>4, <1>5 DEF Born, Active
<1>7. /\ Stack # <<>> /\ Head(Stack).do = "retire" /\ Head(Stack).of = {j}
      /\ EventsBelow(Stack) /\ Judges(Stack, Staying) /\ wpc' # "waiting"
  BY <1>1, <1>2, <1>4 DEF Does, Argument, Stack, OnceInv
<1>8. <<>> \in Seq(AnyCall) /\ \A n \in DOMAIN <<>> : <<>>[n].do \notin Due \cup {"judge"}
  OBVIOUS
<1>9. EventsBelow(Stack')
  BY <1>4, <1>5, <1>7, <1>8, Above
<1>10. j \in Out(Stack)
  <2>1. Stack[1] = Head(Stack) /\ 1 \in DOMAIN Stack
    BY <1>5, <1>7, <1>1 DEF WorkTypes, Stack
  <2> QED
    BY <1>7, <2>1 DEF Out
<1>11. Out(Stack) \ {j} \subseteq Out(Stack') /\ Out(Stack') \subseteq Out(Stack)
  <2>1. Out(<<>>) = {}
    BY DEF Out
  <2>2. Out(Stack') \subseteq Out(<<>>) \cup Out(Stack) /\ Out(Stack) \ {j} \subseteq Out(Stack')
    BY <1>4, <1>5, <1>7, <1>8, OutAbove
  <2> QED
    BY <2>1, <2>2
<1>12. Staying' = Staying
  BY <1>6, <1>10, <1>11 DEF Staying
<1>13. \A n \in DOMAIN Stack \ {1} : Stack[n].do = "judge" => Stack[n].of \subseteq Staying
  BY <1>7 DEF Judges
<1>14. Judges(Stack, Staying)'
  <2>1. \A a \in Staying \cap Staying : topic'[a] = topic[a]
    BY <1>4
  <2>2. /\ \A n \in DOMAIN Stack' : Stack'[n].do = "judge" =>
              \E a, b \in Staying : a # b /\ topic'[a] = topic'[b] /\ Stack'[n].of = {a, b}
        /\ \A m, n \in DOMAIN Stack' :
              m # n /\ Stack'[m].do = "judge" /\ Stack'[n].do = "judge" =>
                 Stack'[m].of \cap Stack'[n].of = {}
    BY <1>4, <1>5, <1>7, <1>8, <1>13, <2>1, JudgesAbove
  <2> QED
    BY <1>12, <2>2 DEF Judges
<1>15. NoThree(Staying)' /\ Parted'
  BY <1>4, <1>6, <1>12 DEF OnceInv, NoThree, Parted
<1> QED
  BY <1>4, <1>7, <1>9, <1>14, <1>15 DEF OnceInv

\* A merge: the pair does not stay, and was in no merge before; the new memory has
\* no other like it.
LEMMA MergeOnce ==
    ASSUME MergeInv, OnceInv, Does("worker", "judge"), UNCHANGED wpc,
           NEW i \in Fresh,
           Add(i, topic[Min(Argument("worker"))], Argument("worker") \cap spikes # {}),
           parents' = [parents EXCEPT ![i] = Argument("worker")],
           Then("worker", <<Call("created", {i}),
                            Call("retire", {Min(Argument("worker"))}),
                            Call("retire", {Max(Argument("worker"))})>>)
    PROVE  OnceInv'
<1> DEFINE least == Min(Argument("worker"))
           most  == Max(Argument("worker"))
           c == Call("created", {i})
           d == Call("retire", {least})
           e == Call("retire", {most})
           calls == <<c, d, e>>
<1>1. "worker" \in Threads /\ WorkTypes /\ Stack # <<>> /\ EventsBelow(Stack)
      /\ Judges(Stack, Staying) /\ wpc' # "waiting"
  BY DEF Threads, MergeInv, OnceInv, Does, Stack
<1>2. Head(Stack) = Stack[1] /\ 1 \in DOMAIN Stack /\ Stack[1].do = "judge"
      /\ Argument("worker") = Stack[1].of
  BY <1>1 DEF WorkTypes, Stack, Does, Argument
<1>3. PICK a \in Staying, b \in Staying :
         a # b /\ topic[a] = topic[b] /\ Argument("worker") = {a, b}
  BY <1>1, <1>2 DEF Judges
<1>4. a \in Ids /\ b \in Ids /\ a \in Active /\ b \in Active /\ Ids \subseteq Nat
  BY DEF Staying, Active, Ids
<1>5. least \in {a, b} /\ most \in {a, b} /\ {least, most} = {a, b}
  <2>1. \E x \in {a, b} : \A y \in {a, b} : x <= y
    BY <1>4
  <2>2. \E x \in {a, b} : \A y \in {a, b} : x >= y
    BY <1>4
  <2>3. least \in {a, b} /\ \A y \in {a, b} : least <= y
    BY <1>3, <2>1 DEF Min
  <2>4. most \in {a, b} /\ \A y \in {a, b} : most >= y
    BY <1>3, <2>2 DEF Max
  <2> HIDE DEF least, most
  <2>5. least # most
    BY <1>3, <1>4, <2>3, <2>4
  <2> QED
    BY <2>3, <2>4, <2>5
<1>6. topic[least] = topic[a]
  BY <1>3, <1>5
<1>7. place \in [Ids -> {"unborn", "active", "archived", "deleted"}]
      /\ topic \in [Ids -> Topics] /\ parents \in [Ids -> SUBSET Ids]
      /\ NoThree(Staying) /\ Parted
  BY DEF MergeInv, OnceInv
<1>8. /\ i \in Ids /\ place[i] = "unborn" /\ place' = [place EXCEPT ![i] = "active"]
      /\ topic' = [topic EXCEPT ![i] = topic[a]]
      /\ parents' = [parents EXCEPT ![i] = {a, b}]
  BY <1>3, <1>6 DEF Fresh, Add
<1>9. c \in AnyCall /\ d \in AnyCall /\ e \in AnyCall
      /\ c.do = "created" /\ d.do = "retire" /\ e.do = "retire"
      /\ d.of = {least} /\ e.of = {most}
  <2>1. {i} \in SUBSET Nat /\ {least} \in SUBSET Nat /\ {most} \in SUBSET Nat
    BY <1>4, <1>5, <1>8
  <2> HIDE DEF least, most
  <2> QED
    BY <2>1, CallFields DEF Deeds
<1>10. Then("worker", calls)
  OBVIOUS
<1> HIDE DEF least, most, c, d, e
<1>11. calls \in Seq(AnyCall) /\ \A n \in DOMAIN calls : calls[n].do \notin Due \cup {"judge"}
  BY <1>9 DEF Due
<1>12. Out(calls) = {a, b}
  <2>1. DOMAIN calls = {1, 2, 3} /\ calls[1] = c /\ calls[2] = d /\ calls[3] = e
    OBVIOUS
  <2>2. {m \in DOMAIN calls : calls[m].do = "retire"} = {2, 3}
    BY <1>9, <2>1
  <2>3. Out(calls) = {least, most}
    BY <1>9, <2>1, <2>2 DEF Out
  <2> QED
    BY <1>5, <2>3
<1> HIDE DEF calls
<1>13. EventsBelow(Stack')
  BY <1>1, <1>10, <1>11, Above
<1>14. Out(Stack') = Out(Stack) \cup {a, b}
  <2>1. Head(Stack).do # "retire" /\ \A n \in DOMAIN calls : calls[n].do \notin Due
    BY <1>2, <1>11
  <2> QED
    BY <1>1, <1>10, <1>11, <1>12, <2>1, OutAbove
<1>15. Born' = Born \cup {i} /\ Active' = Active \cup {i} /\ i \notin Born /\ i \notin Active
       /\ Active \subseteq Born /\ Active \subseteq Ids
  BY <1>7, <1>8 DEF Born, Active
<1>16. Staying' = (Staying \ {a, b}) \cup {i} /\ i \notin Staying
  <2>1. i \notin Out(Stack)
    BY <1>15, OutIsBorn
  <2> QED
    BY <1>14, <1>15, <1>4, <2>1 DEF Staying
<1>17. topic' \in [Ids -> Topics] /\ topic'[i] = topic[a]
       /\ \A x \in Staying : topic'[x] = topic[x]
  BY <1>4, <1>7, <1>8, <1>15, <1>16 DEF Staying
<1>18. Judges(Stack, Staying)'
  <2>1. ASSUME NEW n \in DOMAIN Stack \ {1}, Stack[n].do = "judge"
        PROVE  Stack[n].of \subseteq Staying'
    <3>1. Stack[n].of \subseteq Staying
      BY <1>1, <2>1 DEF Judges
    <3>2. Stack[n].of \cap {a, b} = {}
      BY <1>1, <1>2, <1>3, <2>1 DEF Judges
    <3> QED
      BY <1>16, <3>1, <3>2
  <2>2. \A x \in Staying \cap Staying' : topic'[x] = topic[x]
    BY <1>17
  <2>3. /\ \A n \in DOMAIN Stack' : Stack'[n].do = "judge" =>
              \E x, y \in Staying' : x # y /\ topic'[x] = topic'[y] /\ Stack'[n].of = {x, y}
        /\ \A m, n \in DOMAIN Stack' :
              m # n /\ Stack'[m].do = "judge" /\ Stack'[n].do = "judge" =>
                 Stack'[m].of \cap Stack'[n].of = {}
    BY <1>1, <1>10, <1>11, <2>1, <2>2, JudgesAbove
  <2> QED
    BY <2>3 DEF Judges
<1>19. NoThree(Staying)'
  <2>1. ASSUME NEW x \in Staying \ {a, b} PROVE topic[x] # topic[a]
    BY <1>3, <1>7, <2>1 DEF NoThree
  <2>2. ASSUME NEW x \in Staying', NEW y \in Staying', NEW z \in Staying',
               topic'[x] = topic'[y], topic'[y] = topic'[z]
        PROVE  x = y \/ y = z \/ x = z
    <3>1. CASE x = i \/ y = i \/ z = i
      <4>1. topic'[x] = topic[a] /\ topic'[y] = topic[a] /\ topic'[z] = topic[a]
        BY <1>17, <2>2, <3>1
      <4>2. \A v \in Staying' : topic'[v] = topic[a] => v = i
        BY <1>16, <1>17, <2>1
      <4> QED
        BY <2>2, <4>1, <4>2
    <3>2. CASE x # i /\ y # i /\ z # i
      BY <1>7, <1>16, <1>17, <2>2, <3>2 DEF NoThree
    <3> QED
      BY <3>1, <3>2
  <2> QED
    BY <2>2 DEF NoThree
<1>20. parents' \in [Ids -> SUBSET Ids] /\ parents'[i] = {a, b}
       /\ \A k \in Ids \ {i} : parents'[k] = parents[k]
  BY <1>4, <1>7, <1>8
<1>21. Parted'
  <2> SUFFICES ASSUME NEW x \in Ids, NEW j \in Ids, x \in parents'[j]
               PROVE  x \in Born' \ Staying' /\ \A k \in Ids : x \in parents'[k] => k = j
    BY DEF Parted
  <2>1. CASE x \in {a, b}
    <3>1. \A k \in Ids : x \notin parents[k]
      BY <1>7, <2>1, <1>4 DEF Parted
    <3>2. x # i /\ x \in Born
      BY <1>4, <1>15, <2>1
    <3> QED
      BY <1>15, <1>16, <1>20, <2>1, <3>1, <3>2
  <2>2. CASE x \notin {a, b}
    <3>1. j # i /\ x \in parents[j]
      BY <1>20, <2>2
    <3>2. x \in Born \ Staying /\ \A k \in Ids : x \in parents[k] => k = j
      BY <1>7, <3>1 DEF Parted
    <3> QED
      BY <1>15, <1>16, <1>20, <2>2, <3>2
  <2> QED
    BY <2>1, <2>2
<1> QED
  BY <1>1, <1>13, <1>17, <1>18, <1>19, <1>20, <1>21 DEF OnceInv

\* When reflection begins, only events are pending.
LEMMA OnlyEvents ==
    ASSUME MergeInv, OnceInv, Does("worker", "reflect")
    PROVE  /\ Stack # <<>> /\ \A n \in DOMAIN Stack : Stack[n].do \in Due
           /\ Staying = Active
<1>1. "worker" \in Threads /\ Stack \in Seq(AnyCall) /\ Stack # <<>> /\ Head(Stack).do = "reflect"
  BY DEF MergeInv, WorkTypes, Threads, Stack, Does
<1>2. Stack[1].do \in Due /\ 1 \in DOMAIN Stack
      /\ \A n \in DOMAIN Stack : n = 1 \/ 1 < n
  BY <1>1 DEF Due
<1>3. \A n \in DOMAIN Stack : Stack[n].do \in Due
  BY <1>2 DEF OnceInv, EventsBelow
<1>4. Out(Stack) = {}
  BY <1>3 DEF Out, Due
<1> QED
  BY <1>1, <1>3, <1>4 DEF Staying

\* Different pairs of memories alike have none in common, as no three are alike.
LEMMA PairsApart ==
    ASSUME NoThree(Active),
           NEW a \in Active, NEW b \in Active, a # b, topic[a] = topic[b],
           NEW c \in Active, NEW d \in Active, c # d, topic[c] = topic[d],
           {a, b} # {c, d}
    PROVE  {a, b} \cap {c, d} = {}
<1> SUFFICES ASSUME topic[a] = topic[c] PROVE FALSE
  OBVIOUS
<1>1. c = a \/ c = b
  BY DEF NoThree
<1>2. d = a \/ d = b
  BY DEF NoThree
<1> QED
  BY <1>1, <1>2

\* The selection; and a batch that is tried again or given up.
LEMMA ReflectOnce ==
    ASSUME MaxAlike <= 2, MergeInv, ExtractInv, OnceInv, Reflect("worker")
    PROVE  OnceInv'
<1>1. /\ "worker" \in Threads /\ WorkTypes /\ UNCHANGED <<place, topic, parents, wpc>>
  BY DEF Reflect, Threads, MergeInv, memories
<1>2. Does("worker", "reflect") /\ ~Does("worker", "reflectInline")
  <2>1. Does("worker", "reflect") \/ Does("worker", "reflectInline")
    BY DEF Reflect
  <2>2. ~Does("worker", "reflectInline")
    <3> SUFFICES ASSUME Does("worker", "reflectInline") PROVE FALSE
      OBVIOUS
    <3> QED
      BY <1>1, HeadDeed DEF PlainDeeds
  <2> QED
    BY <2>1, <2>2
<1>3. /\ Stack # <<>> /\ \A n \in DOMAIN Stack : Stack[n].do \in Due
      /\ Staying = Active
  BY <1>2, OnlyEvents
<1>4. wpc' # "waiting" /\ EventsBelow(Stack)
  BY <1>1, <1>3 DEF OnceInv
<1>5. ASSUME NEW s \in Selections, Then("worker", [n \in DOMAIN s |-> Call("judge", s[n])])
      PROVE  OnceInv'
  <2> DEFINE calls == [n \in DOMAIN s |-> Call("judge", s[n])]
  <2>1. s \in Seq(SUBSET Ids)
    BY SelectionsArePairs
  <2>2. \A n \in DOMAIN s : s[n] \in SUBSET Nat
    BY <2>1 DEF Ids
  <2>3. \A n \in DOMAIN s : /\ Call("judge", s[n]) \in AnyCall
                            /\ Call("judge", s[n]).do = "judge" /\ Call("judge", s[n]).of = s[n]
    BY <2>2, CallFields DEF Deeds
  <2>4. calls = [n \in 1 .. Len(s) |-> Call("judge", s[n])] /\ Len(s) \in Nat
    BY <2>1
  <2>5. /\ calls \in Seq(AnyCall) /\ DOMAIN calls = DOMAIN s
        /\ \A n \in DOMAIN calls : calls[n].do = "judge" /\ calls[n].of = s[n]
    BY <2>1, <2>3, <2>4
  <2>6. Then("worker", calls)
    BY <1>5
  <2> HIDE DEF calls
  <2>7. \A n \in DOMAIN calls : calls[n].do \notin Due
    BY <2>5 DEF Due
  <2>8. /\ EventsBelow(Stack')
        /\ \A n \in DOMAIN Stack' :
              \/ n \in DOMAIN calls /\ Stack'[n] = calls[n]
              \/ \E m \in DOMAIN Stack : Stack'[n] = Stack[m]
    <3>1. \A n \in DOMAIN Stack' :
             \/ n \in DOMAIN calls /\ Stack'[n] = calls[n]
             \/ /\ n \notin DOMAIN calls /\ n - Len(calls) + 1 \in DOMAIN Stack \ {1}
                /\ Stack'[n] = Stack[n - Len(calls) + 1]
      BY <1>1, <1>3, <1>4, <2>5, <2>6, <2>7, Above, Zenon
    <3>2. EventsBelow(Stack')
      BY <1>1, <1>3, <1>4, <2>5, <2>6, <2>7, Above, Zenon
    <3> QED
      BY <3>1, <3>2
  <2>9. ASSUME NEW n \in DOMAIN Stack'
        PROVE  /\ Stack'[n].do # "retire"
               /\ Stack'[n].do = "judge" => n \in DOMAIN s /\ Stack'[n].of = s[n]
    BY <1>3, <2>5, <2>8 DEF Due
  <2>10. Out(Stack') = {} /\ Out(Stack) = {}
    BY <1>3, <2>9 DEF Out, Due
  <2>11. Staying' = Active /\ NoThree(Active)
    BY <1>1, <1>3, <2>10 DEF Staying, Active, OnceInv
  <2>12. /\ topic' \in [Ids -> Topics] /\ parents' \in [Ids -> SUBSET Ids]
         /\ NoThree(Staying)' /\ Parted'
    BY <1>1, <2>10, StoreKeeps DEF NoneOrOne
  <2>13. ASSUME NEW n \in DOMAIN s
         PROVE  \E a, b \in Active : a # b /\ topic[a] = topic[b] /\ s[n] = {a, b}
    BY SelectionsArePairs
  <2>14. ASSUME NEW m \in DOMAIN s, NEW n \in DOMAIN s, m # n
         PROVE  s[m] \cap s[n] = {}
    <3>1. s[m] # s[n]
      BY <2>14, SelectionsArePairs
    <3>2. PICK a \in Active, b \in Active : a # b /\ topic[a] = topic[b] /\ s[m] = {a, b}
      BY <2>13
    <3>3. PICK c \in Active, d \in Active : c # d /\ topic[c] = topic[d] /\ s[n] = {c, d}
      BY <2>13
    <3> QED
      BY <2>11, <3>1, <3>2, <3>3, PairsApart
  <2>15. Judges(Stack, Staying)'
    BY <1>1, <2>9, <2>11, <2>13, <2>14 DEF Judges
  <2> QED
    BY <1>4, <2>8, <2>12, <2>15 DEF OnceInv
<1>6. CASE Retry("worker")
  <2> DEFINE again == Calls(batch["worker"])
             rest == Beneath("worker")
  <2>1. again \in Seq(AnyCall) /\ \A n \in DOMAIN again : again[n].do \in Due
    <3>1. batch["worker"] \in Seq(Due)
      BY <1>1 DEF WorkTypes
    <3>2. \A n \in DOMAIN batch["worker"] : batch["worker"][n] \in Due
      BY <3>1
    <3> QED
      BY <3>1, <3>2, CallsOfEvents, CallFields
  <2>2. rest \in Seq(AnyCall) /\ \A n \in DOMAIN rest : \E m \in DOMAIN Stack : rest[n] = Stack[m]
    BY <1>1, BeneathIsOld DEF Stack
  <2>3. work' = [work EXCEPT !["worker"] = again \o rest] \/ work' = [work EXCEPT !["worker"] = rest]
    BY <1>6 DEF Retry
  <2> HIDE DEF again, rest
  <2>4. \A n \in DOMAIN rest : rest[n].do \in Due
    BY <1>3, <2>2
  <2>5. \A n \in DOMAIN (again \o rest) : (again \o rest)[n].do \in Due
    <3>1. /\ again \o rest \in Seq(AnyCall)
          /\ Len(again \o rest) = Len(again) + Len(rest)
          /\ \A i \in 1 .. Len(again) + Len(rest) : (again \o rest)[i] =
                IF i <= Len(again) THEN again[i] ELSE rest[i - Len(again)]
      BY <2>1, <2>2, ConcatProperties
    <3>2. ASSUME NEW n \in 1 .. Len(again) + Len(rest)
          PROVE  \/ n \in DOMAIN again /\ (again \o rest)[n] = again[n]
                 \/ n - Len(again) \in DOMAIN rest
                    /\ (again \o rest)[n] = rest[n - Len(again)]
      BY <2>1, <2>2, <3>1
    <3>3. DOMAIN (again \o rest) = 1 .. Len(again) + Len(rest)
      BY <3>1
    <3> QED
      BY <2>1, <2>4, <3>2, <3>3
  <2>6. Stack' = again \o rest \/ Stack' = rest
    BY <1>1, <2>3 DEF WorkTypes, Stack
  <2>7. \A n \in DOMAIN Stack' : Stack'[n].do \in Due
    BY <2>4, <2>5, <2>6
  <2> QED
    BY <1>1, <1>3, <1>4, <2>7, EventsOnce
<1> QED
  BY <1>2, <1>5, <1>6, Zenon DEF Reflect

\* The calls that the worker executes.
LEMMA WorkerOnce ==
    ASSUME MaxAlike <= 2, MergeInv, ExtractInv, OnceInv, Execute("worker")
    PROVE  OnceInv'
<1>0. /\ "worker" \in Threads /\ <<>> \in Seq(AnyCall) /\ <<>> \in Seq(Due)
      /\ <<"extract">> \in Seq(Due) /\ <<"reflect">> \in Seq(Due)
      /\ \A n \in DOMAIN <<>> : <<>>[n].do \notin Due \cup {"judge", "retire"}
  BY DEF Threads, Due
<1>1. ASSUME NEW d, Does("worker", d), d # "retire", NEW events \in Seq(Due),
             Enqueue("worker", events), UNCHANGED <<place, topic, parents, wpc>>
      PROVE  OnceInv'
  <2>1. Then("worker", <<>>)
    BY <1>0, <1>1, Queued
  <2> QED
    BY <1>0, <1>1, <2>1, QuietOnce DEF NoneOrOne
<1>2. CASE Count("worker") \/ EndTask("worker")
  <2>1. ASSUME NEW d, Does("worker", d) PROVE d \notin {"count", "end_task"}
    BY <1>0, <2>1, HeadDeed DEF PlainDeeds
  <2> QED
    BY <1>2, <2>1 DEF Count, EndTask
<1>3. CASE Created("worker")
  <2>1. PICK b1 \in BOOLEAN, b2 \in BOOLEAN :
           Enqueue("worker", (IF b1 THEN <<"reflect">> ELSE <<>>)
                             \o (IF b2 THEN <<"reflect">> ELSE <<>>))
    BY <1>3 DEF Created
  <2> DEFINE u == IF b1 THEN <<"reflect">> ELSE <<>>
             v == IF b2 THEN <<"reflect">> ELSE <<>>
  <2>2. u \in Seq(Due) /\ v \in Seq(Due) /\ Enqueue("worker", u \o v)
    BY <1>0, <2>1
  <2> HIDE DEF u, v
  <2>3. u \o v \in Seq(Due)
    BY <2>2
  <2>4. Does("worker", "created") /\ UNCHANGED <<place, topic, parents, wpc>>
    BY <1>3 DEF Created, memories, worker
  <2> QED
    BY <1>1, <2>2, <2>3, <2>4
<1>4. CASE Extract("worker")
  <2> DEFINE c == Call("clear", buffer)
             e == Call("ask", buffer)
  <2>1. /\ Does("worker", "extract") /\ UNCHANGED <<place, topic, parents, wpc>>
        /\ Then("worker", <<>>) \/ Then("worker", <<c, e>>)
    BY <1>4 DEF Extract, memories, worker
  <2>2. c \in AnyCall /\ e \in AnyCall /\ c.do = "clear" /\ e.do = "ask"
    <3>1. buffer \in SUBSET Nat
      BY DEF MergeInv, WorkTypes
    <3> QED
      BY <3>1, CallFields DEF Deeds
  <2> HIDE DEF c, e
  <2>3. <<c, e>> \in Seq(AnyCall)
        /\ \A n \in DOMAIN <<c, e>> : <<c, e>>[n].do \notin Due \cup {"judge", "retire"}
    BY <2>2 DEF Due
  <2> QED
    BY <1>0, <2>1, <2>3, QuietOnce DEF NoneOrOne
<1>5. CASE Clear("worker")
  <2>1. /\ Does("worker", "clear") /\ UNCHANGED <<place, topic, parents, wpc>>
        /\ Then("worker", <<>>)
    BY <1>5 DEF Clear, memories, worker
  <2> QED
    BY <1>0, <2>1, QuietOnce DEF NoneOrOne
<1>6. CASE Ask("worker")
  <2>1. Does("worker", "ask") /\ UNCHANGED wpc
    BY <1>6 DEF Ask, worker
  <2>2. CASE Then("worker", <<>>) /\ UNCHANGED memories
    BY <1>0, <2>1, <2>2, QuietOnce DEF NoneOrOne, memories
  <2>3. ASSUME NEW i \in Fresh, NEW p \in Topics, NEW important \in BOOLEAN,
               Room(p), Add(i, p, important), Then("worker", <<Call("created", {i})>>),
               UNCHANGED parents
        PROVE  OnceInv'
    <3> DEFINE c == Call("created", {i})
    <3>1. c \in AnyCall /\ c.do = "created"
      <4>1. {i} \in SUBSET Nat
        BY DEF Fresh, Ids
      <4> QED
        BY <4>1, CallFields DEF Deeds
    <3>2. Then("worker", <<c>>)
      BY <2>3
    <3> HIDE DEF c
    <3>3. <<c>> \in Seq(AnyCall)
          /\ \A n \in DOMAIN <<c>> : <<c>>[n].do \notin Due \cup {"judge", "retire"}
      BY <3>1 DEF Due
    <3>4. NoneOrOne
      BY <2>3 DEF NoneOrOne
    <3> QED
      BY <2>1, <2>3, <3>2, <3>3, <3>4, QuietOnce
  <2> QED
    BY <1>6, <2>2, <2>3, Zenon DEF Ask
<1>7. CASE Judge("worker")
  <2>1. Does("worker", "judge") /\ UNCHANGED wpc
    BY <1>7 DEF Judge, worker
  <2>2. CASE Then("worker", <<>>) /\ UNCHANGED memories
    BY <1>0, <2>1, <2>2, QuietOnce DEF NoneOrOne, memories
  <2> QED
    BY <1>7, <2>1, <2>2, MergeOnce, Zenon DEF Judge
<1> QED
  BY <1>2, <1>3, <1>4, <1>5, <1>6, <1>7, RetireOnce, ReflectOnce DEF Execute

\* The worker's loop begins a batch when it has nothing else to do.
LEMMA LoopMergesOnce ==
    ASSUME MaxAlike <= 2, MergeInv, OnceInv, Get \/ GetNothing \/ Done
    PROVE  OnceInv'
<1>1. /\ "worker" \in Threads /\ batch["worker"] \in Seq(Due) /\ WorkTypes
      /\ queue \in Seq(Due \cup {"end"})
      /\ UNCHANGED <<place, topic, parents>> /\ Stack = <<>>
  BY DEF MergeInv, WorkTypes, Threads, Get, GetNothing, Done, memories, OnceInv, Stack
<1>2. \/ UNCHANGED work
      \/ \E events \in Seq(Due) : BeginBatch("worker", events) /\ wpc' # "waiting"
  <2>1. CASE Get
    <3> DEFINE collected == Append(batch["worker"], Head(queue))
    <3>1. CASE Head(queue) = "end"
      BY <1>1, <2>1, <3>1 DEF Get, Leave
    <3>2. CASE Head(queue) # "end"
      <4>1. queue # <<>>
        BY <2>1 DEF Get
      <4>2. Head(queue) \in Due
        BY <1>1, <3>2, <4>1
      <4>3. collected \in Seq(Due)
        BY <1>1, <4>2
      <4>4. UNCHANGED work \/ (BeginBatch("worker", collected) /\ wpc' # "waiting")
        BY <2>1, <3>2 DEF Get, Leave
      <4> HIDE DEF collected
      <4> QED
        BY <4>3, <4>4
    <3> QED
      BY <3>1, <3>2
  <2>2. CASE GetNothing
    BY <1>1, <2>2 DEF GetNothing, Leave
  <2>3. CASE Done
    BY <2>3 DEF Done
  <2> QED
    BY <2>1, <2>2, <2>3
<1>3. CASE UNCHANGED work
  <2>1. Stack' = <<>>
    BY <1>1, <1>3 DEF Stack
  <2> QED
    BY <1>1, <2>1, EventsOnce
<1>4. ASSUME NEW events \in Seq(Due), BeginBatch("worker", events), wpc' # "waiting"
      PROVE  OnceInv'
  <2>1. Stack' = Calls(events)
    BY <1>1, <1>4 DEF BeginBatch, WorkTypes, Stack
  <2>2. \A n \in DOMAIN events : events[n] \in Due
    OBVIOUS
  <2>3. \A n \in DOMAIN Stack' : Stack'[n].do \in Due
    BY <2>1, <2>2, CallsOfEvents, CallFields
  <2> QED
    BY <1>1, <1>4, <2>3, EventsOnce
<1> QED
  BY <1>2, <1>3, <1>4

\* The client's own calls leave the worker alone.
LEMMA ClientMergesOnce ==
    ASSUME MaxAlike <= 2, ByTools, MergeInv, ExtractInv, OnceInv,
           ClientCall \/ Execute("client")
    PROVE  OnceInv'
<1>1. /\ "client" \in Threads /\ "worker" \in Threads \ {"client"} /\ WorkTypes
      /\ \A op \in Ops : op \in {"track", "task_end", "add"}
  BY DEF Threads, MergeInv, ByTools
<1>2. ASSUME NEW calls, work' = [work EXCEPT !["client"] = calls] PROVE Stack' = Stack
  BY <1>1, <1>2 DEF WorkTypes, Stack
<1>3. CASE Execute("client")
  <2>1. ASSUME NEW d, Does("client", d) PROVE d \in ClientDeeds
    BY <1>1, <2>1, HeadDeed
  <2>2. Count("client") \/ EndTask("client") \/ Created("client")
    BY <1>3, <2>1 DEF Execute, Retire, Extract, Clear, Ask, Reflect, Judge, ClientDeeds
  <2>3. UNCHANGED <<place, topic, parents, wpc>>
    BY <2>2 DEF Count, EndTask, Created, memories, worker
  <2>4. \E calls : work' = [work EXCEPT !["client"] = calls]
    BY <2>2 DEF Count, EndTask, Created, Enqueue, Then
  <2>5. Stack' = Stack
    BY <1>2, <2>4
  <2> QED
    BY <2>3, <2>5, ClientOnce DEF NoneOrOne
<1>4. CASE Track \/ TaskEnd
  <2>1. UNCHANGED <<place, topic, parents, wpc>>
        /\ \E calls : work' = [work EXCEPT !["client"] = calls]
    BY <1>4 DEF Track, TaskEnd, Client, memories, worker
  <2>2. Stack' = Stack
    BY <1>2, <2>1
  <2> QED
    BY <2>1, <2>2, ClientOnce DEF NoneOrOne
<1>5. CASE AddMemory
  <2>1. NoneOrOne /\ UNCHANGED <<parents, wpc>>
        /\ \E calls : work' = [work EXCEPT !["client"] = calls]
    BY <1>5 DEF AddMemory, Client, NoneOrOne, worker
  <2>2. Stack' = Stack
    BY <1>2, <2>1
  <2> QED
    BY <2>1, <2>2, ClientOnce
<1>6. ~(Delete \/ ExtractNow \/ Stop \/ Start)
  BY <1>1 DEF Delete, ExtractNow, Stop, Start, Client
<1> QED
  BY <1>3, <1>4, <1>5, <1>6 DEF ClientCall

\* Three memories are more than two.
LEMMA AtMostTwo ==
    ASSUME NEW S, IsFiniteSet(S), Cardinality(S) <= 2,
           NEW a \in S, NEW b \in S, NEW c \in S
    PROVE  a = b \/ b = c \/ a = c
<1> SUFFICES ASSUME a # b, b # c, a # c PROVE FALSE
  OBVIOUS
<1> DEFINE A == {a}
           B == A \cup {b}
           C == B \cup {c}
<1>1. b \notin A /\ c \notin B /\ C \in SUBSET S
  OBVIOUS
<1>2. IsFiniteSet(A) /\ Cardinality(A) = 1
  BY FS_Singleton
<1> HIDE DEF A
<1>3. IsFiniteSet(B) /\ Cardinality(B) = 2
  <2>1. /\ IsFiniteSet(A \cup {b})
        /\ Cardinality(A \cup {b}) = IF b \in A THEN Cardinality(A) ELSE Cardinality(A) + 1
    BY <1>2, FS_AddElement, Zenon
  <2> QED
    BY <1>1, <1>2, <2>1
<1> HIDE DEF B
<1>4. Cardinality(C) = 3
  <2>1. Cardinality(B \cup {c}) = IF c \in B THEN Cardinality(B) ELSE Cardinality(B) + 1
    BY <1>3, FS_AddElement, Zenon
  <2> QED
    BY <1>1, <1>3, <2>1
<1> HIDE DEF C
<1>5. Cardinality(C) <= Cardinality(S) /\ Cardinality(S) \in Nat
  BY <1>1, FS_Subset, FS_CardinalityType
<1> QED
  BY <1>4, <1>5

\* The invariant at the start.
LEMMA OnceBegins ==
    ASSUME MaxAlike <= 2, Init
    PROVE  OnceInv
<1>1. Stack = <<>>
  BY DEF Init, Stack, Threads
<1>2. topic \in [Ids -> Topics] /\ parents = [i \in Ids |-> {}]
  BY DEF Init
<1>3. Staying \subseteq {i \in 1 .. Preloaded : TRUE} /\ Staying \subseteq Ids
  <2>1. \A i \in Active : i \in Ids /\ i <= Preloaded
    BY DEF Active, Init
  <2> QED
    BY <2>1, IntelligenceConstants DEF Staying, Ids
<1>4. NoThree(Staying)
  <2>1. ASSUME NEW a \in Staying, NEW b \in Staying, NEW c \in Staying,
               topic[a] = topic[b], topic[b] = topic[c]
        PROVE  a = b \/ b = c \/ a = c
    <3> DEFINE S == {i \in 1 .. Preloaded : topic[i] = topic[a]}
    <3>1. a \in S /\ b \in S /\ c \in S
      BY <1>3, <2>1
    <3>2. Cardinality(S) <= MaxAlike /\ MaxAlike \in Nat
      BY <1>2, <1>3, IntelligenceConstants DEF Init
    <3>3. IsFiniteSet(S) /\ S \in SUBSET (1 .. Preloaded)
      <4>1. IsFiniteSet(1 .. Preloaded) /\ S \in SUBSET (1 .. Preloaded)
        BY FS_Interval, IntelligenceConstants
      <4> HIDE DEF S
      <4> QED
        BY <4>1, FS_Subset
    <3> HIDE DEF S
    <3>4. Cardinality(S) <= 2
      BY <3>2, <3>3, FS_CardinalityType
    <3> QED
      BY <3>1, <3>3, <3>4, AtMostTwo
  <2> QED
    BY <2>1 DEF NoThree
<1>5. EventsBelow(Stack) /\ Judges(Stack, Staying)
  BY <1>1 DEF EventsBelow, Judges
<1>6. parents \in [Ids -> SUBSET Ids] /\ Parted
  BY <1>2 DEF Parted
<1> QED
  BY <1>1, <1>2, <1>4, <1>5, <1>6 DEF OnceInv

\* Every step keeps it.
LEMMA OnceKept ==
    ASSUME MaxAlike <= 2, ByTools, ExtractBase, OnceInv, [Next]_vars
    PROVE  ExtractBase' /\ OnceInv'
<1>1. ExtractBase' /\ MergeInv /\ ExtractInv
  BY ExtractKept DEF ExtractBase
<1>2. CASE WorkerStep
  BY <1>1, <1>2, WorkerOnce, LoopMergesOnce DEF WorkerStep
<1>3. CASE ClientStep
  BY <1>1, <1>3, NoStop, ClientMergesOnce DEF ClientStep
<1>4. CASE ClientCall
  BY <1>1, <1>4, ClientMergesOnce
<1>5. CASE UNCHANGED vars
  <2>1. UNCHANGED <<place, topic, parents, wpc, work>>
    BY <1>5 DEF vars, memories, worker
  <2>2. Stack' = Stack
    BY <2>1 DEF Stack
  <2> QED
    BY <1>1, <2>1, <2>2, ClientOnce DEF NoneOrOne
<1> QED
  BY <1>2, <1>3, <1>4, <1>5 DEF Next

\* A memory that is in one pair at most was merged once at most.
LEMMA OnceMeans ==
    ASSUME OnceInv
    PROVE  MergedOnce
<1> SUFFICES ASSUME NEW i \in Ids
             PROVE  Cardinality({j \in Ids : i \in parents[j]}) <= 1
  BY DEF MergedOnce
<1> DEFINE S == {j \in Ids : i \in parents[j]}
<1>1. ASSUME NEW j \in S PROVE S = {j}
  BY DEF OnceInv, Parted
<1> HIDE DEF S
<1>2. S = {} \/ \E j : S = {j}
  BY <1>1
<1>3. Cardinality(S) = 0 \/ Cardinality(S) = 1
  BY <1>2, FS_EmptySet, FS_Singleton
<1> QED
  BY <1>3 DEF S

\* Where the memory tools and the agent loop call, and no three memories are alike
\* at a time, a memory is merged into one other at most: neither a batch that is
\* tried again nor memories added while pairs wait for their verdict offer the LLM
\* a memory that was merged already (engine.py, reflector.py).
THEOREM MergedOnceAlways ==
    ASSUME ByTools, MaxAlike <= 2 PROVE Spec => []MergedOnce
<1>1. Init => ExtractBase /\ OnceInv
  BY ExtractInit, OnceBegins
<1>2. ExtractBase /\ OnceInv /\ [Next]_vars => ExtractBase' /\ OnceInv'
  BY OnceKept
<1>3. OnceInv => MergedOnce
  BY OnceMeans
<1> QED
  BY <1>1, <1>2, <1>3, PTL DEF Spec

------------------------------------------------------------------------------
(* The same of the two settings of MCIntelligence *)

\* A step in the setting of the tools is one of Spec, and a behaviour stays in
\* its setting.
LEMMA ToolsStep ==
    ASSUME [MCNext]_MCVars
    PROVE  /\ UNCHANGED setting
           /\ setting = "tools" => [Next]_vars
<1>1. CASE MCNext
  BY <1>1 DEF MCNext
<1>2. CASE UNCHANGED MCVars
  BY <1>2 DEF MCVars
<1> QED
  BY <1>1, <1>2

\* Nothing is extracted twice in the setting where the tools call, the engine's
\* other callers being in the other.
THEOREM ExtractedOnceBySetting ==
    ASSUME ByTools PROVE MCSpec => []ExtractedOnceByTools
<1> DEFINE J == setting = "tools" => ExtractBase
<1>1. MCInit => J
  <2> SUFFICES ASSUME MCInit, setting = "tools" PROVE ExtractBase
    OBVIOUS
  <2> QED
    BY ExtractInit DEF MCInit
<1>2. J /\ [MCNext]_MCVars => J'
  <2> SUFFICES ASSUME J, [MCNext]_MCVars, setting' = "tools" PROVE ExtractBase'
    OBVIOUS
  <2>1. setting = "tools" /\ [Next]_vars
    BY ToolsStep
  <2> QED
    BY <2>1, ExtractKept
<1>3. J => ExtractedOnceByTools
  BY DEF ExtractBase, ExtractInv, ExtractedOnce, ExtractedOnceByTools
<1> HIDE DEF J
<1> QED
  BY <1>1, <1>2, <1>3, PTL DEF MCSpec

\* The counter and the buffer do not drift apart in that setting.
THEOREM BufferCountedBySetting ==
    ASSUME ByTools, ~Persistent PROVE MCSpec => []BufferCountedByTools
<1> DEFINE J == setting = "tools" => ExtractBase /\ CountInv
<1>1. MCInit => J
  <2> SUFFICES ASSUME MCInit, setting = "tools" PROVE ExtractBase /\ CountInv
    OBVIOUS
  <2> QED
    BY CountInit DEF MCInit
<1>2. J /\ [MCNext]_MCVars => J'
  <2> SUFFICES ASSUME J, [MCNext]_MCVars, setting' = "tools" PROVE ExtractBase' /\ CountInv'
    OBVIOUS
  <2>1. setting = "tools" /\ [Next]_vars
    BY ToolsStep
  <2> QED
    BY <2>1, CountKept
<1>3. J => BufferCountedByTools
  BY DEF CountInv, BufferCountedByTools
<1> HIDE DEF J
<1> QED
  BY <1>1, <1>2, <1>3, PTL DEF MCSpec

\* The same as the run states it, in the setting where the tools call.
THEOREM MergedOnceBySetting ==
    ASSUME ByTools, MaxAlike <= 2 PROVE MCSpec => []MergedOnceByTools
<1> DEFINE J == setting = "tools" => ExtractBase /\ OnceInv
<1>1. MCInit => J
  <2> SUFFICES ASSUME MCInit, setting = "tools" PROVE ExtractBase /\ OnceInv
    OBVIOUS
  <2> QED
    BY ExtractInit, OnceBegins DEF MCInit
<1>2. J /\ [MCNext]_MCVars => J'
  <2> SUFFICES ASSUME J, [MCNext]_MCVars, setting' = "tools" PROVE ExtractBase' /\ OnceInv'
    OBVIOUS
  <2>1. setting = "tools" /\ [Next]_vars
    BY ToolsStep
  <2> QED
    BY <2>1, OnceKept
<1>3. J => MergedOnceByTools
  BY OnceMeans DEF MergedOnceByTools
<1> HIDE DEF J
<1> QED
  BY <1>1, <1>2, <1>3, PTL DEF MCSpec
=================================================================================
