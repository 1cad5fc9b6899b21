---------------------------- MODULE AgentLoopProofs ----------------------------
(* What TLAPS proves of AgentLoop for any hooks, tools, routes and bounds:       *)
(* every call of an answer gets its result, and nothing that background tasks    *)
(* and teammates say is told twice or forgotten.                                 *)

EXTENDS AgentLoop, FiniteSetTheorems, WellFoundedInduction, TLAPS

------------------------------------------------------------------------------
(* The order of hooks. *)

\* Priorities are compared as numbers.
LEMMA RankType == \A h : Rank(h) \in Nat
BY DEF Rank, PRIORITY_ORDER

\* _sort_by_priority: what each hook's place is.
LEMMA PlacesDiffer ==
    ASSUME NEW S, NEW hs \in Seq(S)
    PROVE  /\ \A i \in DOMAIN hs : Cardinality(UpTo(hs, i)) \in DOMAIN hs
           /\ \A i, j \in DOMAIN hs :
                 i \in UpTo(hs, j) => Cardinality(UpTo(hs, i)) <= Cardinality(UpTo(hs, j))
           /\ \A i, j \in DOMAIN hs :
                 Cardinality(UpTo(hs, i)) = Cardinality(UpTo(hs, j)) => i = j
<1>1. DOMAIN hs = 1 .. Len(hs) /\ Len(hs) \in Nat
  OBVIOUS
<1>2. IsFiniteSet(DOMAIN hs) /\ Cardinality(DOMAIN hs) = Len(hs)
  BY <1>1, FS_Interval
<1>3. ASSUME NEW i \in DOMAIN hs
      PROVE  /\ UpTo(hs, i) \in SUBSET DOMAIN hs /\ i \in UpTo(hs, i)
             /\ IsFiniteSet(UpTo(hs, i)) /\ Cardinality(UpTo(hs, i)) \in 1 .. Len(hs)
  <2>1. UpTo(hs, i) \in SUBSET DOMAIN hs /\ i \in UpTo(hs, i)
    BY <1>1, RankType DEF UpTo
  <2>2. IsFiniteSet(UpTo(hs, i)) /\ Cardinality(UpTo(hs, i)) <= Len(hs)
    BY <1>2, <2>1, FS_Subset
  <2>3. Cardinality(UpTo(hs, i)) \in Nat /\ Cardinality(UpTo(hs, i)) # 0
    BY <2>1, <2>2, FS_CardinalityType, FS_EmptySet
  <2> QED
    BY <1>1, <2>1, <2>2, <2>3
<1>4. ASSUME NEW i \in DOMAIN hs, NEW j \in DOMAIN hs, i \in UpTo(hs, j)
      PROVE  UpTo(hs, i) \in SUBSET UpTo(hs, j)
  BY <1>1, <1>4, RankType DEF UpTo
<1>5. ASSUME NEW i \in DOMAIN hs, NEW j \in DOMAIN hs, i \in UpTo(hs, j)
      PROVE  /\ Cardinality(UpTo(hs, i)) <= Cardinality(UpTo(hs, j))
             /\ Cardinality(UpTo(hs, j)) = Cardinality(UpTo(hs, i)) => UpTo(hs, i) = UpTo(hs, j)
  BY <1>3, <1>4, <1>5, FS_Subset
<1>6. ASSUME NEW i \in DOMAIN hs, NEW j \in DOMAIN hs
      PROVE  i \in UpTo(hs, j) \/ j \in UpTo(hs, i)
  BY <1>1, RankType DEF UpTo
<1>7. ASSUME NEW i \in DOMAIN hs, NEW j \in DOMAIN hs, i \in UpTo(hs, j), j \in UpTo(hs, i)
      PROVE  i = j
  BY <1>1, <1>7, RankType DEF UpTo
<1>8. ASSUME NEW i \in DOMAIN hs, NEW j \in DOMAIN hs,
             Cardinality(UpTo(hs, i)) = Cardinality(UpTo(hs, j))
      PROVE  i = j
  <2>1. UpTo(hs, i) = UpTo(hs, j)
    BY <1>5, <1>6, <1>8
  <2> QED
    BY <1>3, <1>7, <2>1
<1> QED
  BY <1>1, <1>3, <1>5, <1>8

\* _sort_by_priority: the same hooks, those of the highest priority first.
LEMMA SortSorts ==
    ASSUME NEW S, NEW hs \in Seq(S)
    PROVE  /\ SortByPriority(hs) \in Seq(S)
           /\ \A k, l \in DOMAIN SortByPriority(hs) :
                 k <= l => Rank(SortByPriority(hs)[k]) <= Rank(SortByPriority(hs)[l])
<1> DEFINE D        == DOMAIN hs
           Place(i) == Cardinality(UpTo(hs, i))
           place    == [i \in D |-> Place(i)]
           At(k)    == CHOOSE i \in D : Place(i) = k
<1>1. D = 1 .. Len(hs) /\ Len(hs) \in Nat /\ IsFiniteSet(D)
  BY FS_Interval
<1>2. place \in Injection(D, D)
  BY PlacesDiffer DEF Injection, IsInjective
<1>3. place \in Surjection(D, D)
  <2> HIDE DEF place, D
  <2> QED
    BY <1>1, <1>2, FS_Injection
<1>4. ASSUME NEW k \in D PROVE At(k) \in D /\ Place(At(k)) = k
  <2>1. \E i \in D : place[i] = k
    BY <1>3 DEF Surjection
  <2> QED
    BY <2>1
<1>5. ASSUME NEW k \in D, NEW l \in D, k <= l
      PROVE  Rank(hs[At(k)]) <= Rank(hs[At(l)])
  <2>1. At(k) \in D /\ At(l) \in D /\ Place(At(k)) = k /\ Place(At(l)) = l
    BY <1>4
  <2>2. CASE k = l
    BY <2>2, RankType
  <2>3. CASE k < l
    <3>1. At(l) \notin UpTo(hs, At(k))
      BY <1>1, <2>1, <2>3, PlacesDiffer
    <3> HIDE DEF At, Place
    <3> QED
      BY <1>1, <2>1, <3>1, RankType DEF UpTo
  <2> QED
    BY <1>1, <1>5, <2>2, <2>3
<1>6. SortByPriority(hs) = [k \in D |-> hs[At(k)]]
  BY DEF SortByPriority
<1> HIDE DEF At, Place, place
<1>7. \A k \in D : hs[At(k)] \in S
  BY <1>1, <1>4
<1>8. SortByPriority(hs) \in Seq(S)
  BY <1>1, <1>6, <1>7
<1> QED
  BY <1>5, <1>6, <1>8

------------------------------------------------------------------------------
\* The types of the conversation, of calls and of results.
Kinds    == {"query", "background", "inbox", "refusal", "api error", "answer", "continue", "results"}
Messages == [role : {"user", "assistant"}, kind : Kinds, unsafe : BOOLEAN, ids : Seq(Nat),
             stop : {"none", "tool_use", "end_turn", "max_tokens"}]
Calls    == [id : Nat, tool : Tools]
Outcomes == [id : Nat, fate : {"ran", "refused"}]

TalkTypes ==
    /\ messages \in Seq(Messages)
    /\ calls \in Seq(Calls) /\ results \in Seq(Outcomes)
    /\ notifications \in Seq(Background) /\ inbox \in Seq(Nat) /\ taken \in Seq(Nat)
    /\ sent \in Nat /\ query \in BOOLEAN
    /\ pc = "llm" => intent \in DOMAIN Routes

\* The types of hooks and of their execution.
Inputs   == {NoHook} \cup {h.id : h \in Known}
Results  == [exit : {0, 1, 2}, blocked : BOOLEAN, input : Inputs]
Seen     == [hook : Known, blocked : BOOLEAN, updated : BOOLEAN]
Runnings == [event : Events \cup {"none"}, tool : Tools \cup {""}, at : Nat,
             result : Results, seen : Seq(Seen)]

HookTypes ==
    /\ hooks \in [Events -> Seq(Known)]
    /\ running \in Runnings
    /\ disabled \in BOOLEAN
    /\ pc = "hooks" => running.event \in Events /\ running.at >= 1

\* What is said becomes the last message.
LEMMA SayAppends ==
    ASSUME TalkTypes, NEW kind \in Kinds, NEW ids \in Seq(Nat), Say(kind, ids)
    PROVE  \E m \in Messages : /\ messages' = Append(messages, m)
                               /\ m.kind = kind /\ m.ids = ids /\ m.stop = "none"
<1>1. PICK unsafe \in BOOLEAN :
         messages' = Append(messages, Message("user", kind, unsafe, ids, "none"))
  BY DEF Say
<1>2. Message("user", kind, unsafe, ids, "none") \in Messages
  BY DEF Message, Messages
<1> QED
  BY <1>1, <1>2 DEF Message

\* A sequence has finitely many elements.
LEMMA FiniteRange ==
    ASSUME NEW S, NEW s \in Seq(S)
    PROVE  IsFiniteSet(ToSet(s))
<1>1. s \in Surjection(1 .. Len(s), ToSet(s))
  BY DEF Surjection, ToSet
<1>2. IsFiniteSet(1 .. Len(s))
  BY FS_Interval
<1> QED
  BY <1>1, <1>2, FS_Surjection

\* The calls of the conversation are numbered by natural numbers.
LEMMA CallsMadeType ==
    ASSUME TalkTypes
    PROVE  CallsMade \in Nat
<1> DEFINE N == {m \in DOMAIN messages : messages[m].role = "assistant"}
           f == [n \in N |-> ToSet(messages[n].ids)]
           T == {ToSet(messages[n].ids) : n \in N}
<1>1. N \in SUBSET (1 .. Len(messages)) /\ IsFiniteSet(1 .. Len(messages))
  BY FS_Interval DEF TalkTypes
<1>2. IsFiniteSet(N)
  BY <1>1, FS_Subset
<1>3. f \in Surjection(N, T)
  BY DEF Surjection
<1>4. IsFiniteSet(T)
  BY <1>2, <1>3, FS_Surjection
<1>5. \A n \in N : IsFiniteSet(ToSet(messages[n].ids))
  <2> SUFFICES ASSUME NEW n \in N PROVE IsFiniteSet(ToSet(messages[n].ids))
    OBVIOUS
  <2>1. messages[n].ids \in Seq(Nat)
    <3>1. n \in DOMAIN messages
      OBVIOUS
    <3>2. messages[n] \in Messages
      BY <3>1 DEF TalkTypes
    <3> HIDE DEF f, T, N
    <3> QED
      BY <3>2 DEF Messages
  <2> QED
    BY <2>1, FiniteRange
<1>6. IsFiniteSet(UNION T)
  <2> HIDE DEF N
  <2>1. \A A \in T : IsFiniteSet(A)
    BY <1>5
  <2> QED
    BY <1>4, <2>1, FS_UNION
<1> QED
  BY <1>6, FS_CardinalityType DEF CallsMade

------------------------------------------------------------------------------
\* Who is in the middle of the calls of an answer.
Asking == pc \in {"call", "sub"} \/ (pc = "hooks" /\ running.event = "PreToolUse")

Answered(n) ==
    /\ n < Len(messages)
    /\ messages[n + 1].kind = "results"
    /\ messages[n + 1].ids = messages[n].ids

\* An answer that is not answered yet is the last message, and its calls are the
\* ones in the loop's hands; the results so far are those of the first calls.
AskInv ==
    /\ \A n \in DOMAIN messages : messages[n].stop = "tool_use" =>
          Answered(n) \/ (n = Len(messages) /\ Asking)
    /\ Asking =>
          /\ messages[Len(messages)].ids = [k \in DOMAIN calls |-> calls[k].id]
          /\ Len(results) <= Len(calls)
          /\ \A k \in DOMAIN results : results[k].id = calls[k].id
    /\ Asking /\ pc # "call" => Len(results) < Len(calls)

\* Messages only come at the end.
LEMMA AppendKeeps ==
    ASSUME TalkTypes, NEW m \in Messages, messages' = Append(messages, m)
    PROVE  /\ messages' \in Seq(Messages) /\ Len(messages') = Len(messages) + 1
           /\ messages'[Len(messages')] = m
           /\ \A n \in DOMAIN messages : messages'[n] = messages[n]
           /\ \A n \in DOMAIN messages' : n \in DOMAIN messages \/ n = Len(messages')
           /\ \A n \in DOMAIN messages : Answered(n) => Answered(n)'
<1> HIDE DEF Messages
<1>1. messages \in Seq(Messages)
  BY DEF TalkTypes
<1> QED
  BY <1>1 DEF Answered

\* A message that asks for no tools, said by somebody who is not in the middle
\* of an answer, and a step that says nothing.
LEMMA OthersKeep ==
    ASSUME TalkTypes, AskInv, ~Asking, ~Asking',
           \/ UNCHANGED messages
           \/ \E m \in Messages : messages' = Append(messages, m) /\ m.stop # "tool_use"
    PROVE  AskInv'
<1>1. CASE UNCHANGED messages
  BY <1>1 DEF AskInv, Answered
<1>2. CASE \E m \in Messages : messages' = Append(messages, m) /\ m.stop # "tool_use"
  <2>1. PICK m \in Messages : messages' = Append(messages, m) /\ m.stop # "tool_use"
    BY <1>2
  <2> QED
    BY <2>1, AppendKeeps DEF AskInv
<1> QED
  BY <1>1, <1>2

------------------------------------------------------------------------------
\* What a hook answers, and what is made of it, has the right type.
LEMMA ResultTypes ==
    ASSUME NEW h \in Known, NEW r \in HookResults(h), NEW c \in Results
    PROVE  /\ r \in [exit : {0, 1, 2}, blocked : BOOLEAN, updated : BOOLEAN]
           /\ Combine(c, h, r) \in Results
<1>1. ASSUME NEW exit \in {0, 1, 2}, NEW json, NEW updated \in BOOLEAN
      PROVE  ParseOutput(exit, json, updated)
                \in [exit : {0, 1, 2}, blocked : BOOLEAN, updated : BOOLEAN]
  <2>1. (exit = 2 \/ json = "block") \in BOOLEAN /\ (updated /\ json # "none") \in BOOLEAN
    OBVIOUS
  <2> QED
    BY <2>1 DEF ParseOutput
<1>2. r \in [exit : {0, 1, 2}, blocked : BOOLEAN, updated : BOOLEAN]
  <2>1. CASE r = [exit |-> 1, blocked |-> FALSE, updated |-> FALSE]
    BY <2>1
  <2>2. CASE \E exit \in {0, 1, 2}, json \in Answers, updated \in BOOLEAN :
                r = ParseOutput(exit, json, updated)
    BY <1>1, <2>2
  <2> HIDE DEF Answers
  <2> QED
    BY <2>1, <2>2 DEF HookResults
<1>3. h.id \in Inputs /\ NoHook \in Inputs
  BY DEF Inputs
<1> HIDE DEF Inputs
<1> QED
  BY <1>2, <1>3 DEF Combine, Results

\* The chain of hooks of an event, and how far an execution gets in it.
LEMMA ChainTypes ==
    ASSUME HookTypes, pc = "hooks"
    PROVE  /\ Chain \in Seq(Known)
           /\ ~HooksDone => Chain[running.at] \in Known
<1>1. Chain \in Seq(Known)
  BY DEF HookTypes, Chain
<1>2. running.at \in Nat /\ running.at >= 1
  BY DEF HookTypes, Runnings
<1> QED
  BY <1>1, <1>2 DEF HooksDone

\* An execution starts with nothing said, by nobody.
LEMMA StartTypes == Approved \in Results /\ <<>> \in Seq(Seen)
<1>1. Approved \in Results
  BY DEF Approved, Inputs, Results
<1> QED
  BY <1>1

\* No execution, and what Execute starts with, are executions of hooks.
LEMMA NoRunTypes == NoRun \in Runnings /\ NoRun.event = "none"
<1> QED
  BY StartTypes DEF Runnings, NoRun

LEMMA ExecuteTypes ==
    ASSUME NEW event \in Events, NEW tool \in Tools \cup {""}, Execute(event, tool)
    PROVE  /\ running' \in Runnings /\ running'.event \in Events
           /\ pc' = "hooks" /\ running'.event = event /\ running'.at = 1
<1>1. running' = [event |-> event, tool |-> tool, at |-> 1, result |-> Approved, seen |-> <<>>]
      /\ pc' = "hooks"
  BY DEF Execute
<1> QED
  BY <1>1, StartTypes DEF Runnings

\* One hook that is not heard is passed over.
Passed == [running EXCEPT !.at = @ + 1]

LEMMA PassedTypes ==
    ASSUME HookTypes
    PROVE  /\ Passed \in Runnings
           /\ Passed.event = running.event /\ Passed.tool = running.tool
           /\ Passed.at = running.at + 1
           /\ Passed.result = running.result /\ Passed.seen = running.seen
<1> DEFINE at == running.at + 1
           y  == [running EXCEPT !.at = at]
<1>1. running \in Runnings /\ at \in Nat
  <2>1. running \in Runnings
    BY DEF HookTypes
  <2>2. running.at \in Nat
    BY <2>1 DEF Runnings
  <2> QED
    BY <2>1, <2>2
<1>2. Passed = y
  BY DEF Passed
<1> HIDE DEF at
<1>3. /\ y \in Runnings /\ y.event = running.event /\ y.tool = running.tool /\ y.at = at
      /\ y.result = running.result /\ y.seen = running.seen
  BY <1>1 DEF Runnings
<1> HIDE DEF y
<1> QED
  BY <1>2, <1>3 DEF at

\* One hook that is heard adds its answer; one that is not is passed over.
Heeds(h, r) ==
    running' = [running EXCEPT !.at = @ + 1,
                               !.result = Combine(@, h, r),
                               !.seen = Append(@, [hook |-> h, blocked |-> r.blocked,
                                                       updated |-> r.updated])]

LEMMA HeedsTypes ==
    ASSUME HookTypes, NEW h \in Known, NEW r \in HookResults(h), Heeds(h, r)
    PROVE  /\ running' \in Runnings
           /\ running'.event = running.event /\ running'.tool = running.tool
           /\ running'.at = running.at + 1
           /\ running'.result = Combine(running.result, h, r)
           /\ running'.seen = Append(running.seen, [hook |-> h, blocked |-> r.blocked,
                                                       updated |-> r.updated])
<1> DEFINE s == [hook |-> h, blocked |-> r.blocked, updated |-> r.updated]
           res == Combine(running.result, h, r)
           ss  == Append(running.seen, s)
           y == Passed
           z == [y EXCEPT !.result = res]
           w == [z EXCEPT !.seen = ss]
<1>1. running \in Runnings /\ running.result \in Results /\ running.seen \in Seq(Seen)
      /\ running.at \in Nat
  BY DEF HookTypes, Runnings
<1>2. res \in Results /\ s \in Seen
  BY <1>1, ResultTypes DEF Seen
<1>3. ss \in Seq(Seen)
  <2> HIDE DEF s, Seen
  <2> QED
    BY <1>1, <1>2
<1> HIDE DEF s, res, ss
<1>4. /\ y \in Runnings /\ y.event = running.event /\ y.tool = running.tool
      /\ y.at = running.at + 1
      /\ y.result = running.result /\ y.seen = running.seen
  BY PassedTypes
<1> HIDE DEF y
<1>5. /\ z \in Runnings /\ z.event = running.event /\ z.tool = running.tool
      /\ z.at = running.at + 1 /\ z.result = res /\ z.seen = running.seen
  BY <1>2, <1>4 DEF Runnings
<1> HIDE DEF z
<1>6. /\ w \in Runnings /\ w.event = running.event /\ w.tool = running.tool
      /\ w.at = running.at + 1 /\ w.result = res /\ w.seen = ss
  BY <1>3, <1>5 DEF Runnings
<1>7. running' = w
  <2>1. running' = [running EXCEPT !.at = @ + 1, !.result = Combine(@, h, r),
                                   !.seen = Append(@, s)]
    BY Zenon DEF Heeds, s
  <2>2. running' = [[y EXCEPT !.result = Combine(@, h, r)] EXCEPT !.seen = Append(@, s)]
    BY <2>1, Zenon DEF y, Passed
  <2>3. [y EXCEPT !.result = Combine(@, h, r)] = z
    BY <1>4, Zenon DEF z, res
  <2>4. running' = [z EXCEPT !.seen = Append(@, s)]
    BY <2>2, <2>3, Zenon
  <2> QED
    BY <1>5, <2>4, Zenon DEF ss, w
<1> QED
  BY <1>6, <1>7 DEF res, ss, s

------------------------------------------------------------------------------
\* The inductive invariant for CallsAnswered.
LoopInv == TalkTypes /\ HookTypes /\ AskInv

\* Hooks run one after the other; others are registered between the queries.
LEMMA HookActionsKeep ==
    ASSUME LoopInv, HookAction
    PROVE  LoopInv'
<1> USE DEF LoopInv
<1>1. CASE HookStep
  <2> DEFINE h == Chain[running.at]
  <2>1. pc = "hooks" /\ h \in Known
    BY <1>1, ChainTypes DEF HookStep
  <2>2. UNCHANGED <<pc, messages, query, intent, hooks, disabled, calls, results,
                    notifications, inbox, taken, sent>>
    BY <1>1 DEF HookStep, callVars, mailVars
  <2>3. running' \in Runnings /\ running'.event = running.event /\ running'.at = running.at + 1
    <3>1. CASE running' = [running EXCEPT !.at = @ + 1]
      <4>1. running' = Passed
        BY <3>1 DEF Passed
      <4> QED
        BY <4>1, PassedTypes
    <3>2. CASE \E r \in HookResults(h) : Heeds(h, r)
      BY <2>1, <3>2, HeedsTypes
    <3> QED
      BY <1>1, <3>1, <3>2 DEF HookStep, Heeds
  <2>4. running.at \in Nat /\ running.at >= 1 /\ running.event \in Events
    BY <2>1 DEF HookTypes, Runnings
  <2>5. HookTypes'
    <3> HIDE DEF Runnings, Events
    <3> QED
      BY <2>2, <2>3, <2>4 DEF HookTypes
  <2> QED
    BY <2>1, <2>2, <2>3, <2>5 DEF TalkTypes, AskInv, Answered, Asking
<1>2. CASE AddHook
  <2>1. UNCHANGED <<pc, messages, query, intent, running, disabled, calls, results,
                    notifications, inbox, taken, sent>>
    BY <1>2 DEF AddHook, callVars, mailVars
  <2>2. hooks' \in [Events -> Seq(Known)]
    <3>1. PICK n \in DOMAIN Added : hooks' = [hooks EXCEPT !["PreToolUse"] = Append(@, Added[n])]
      BY <1>2 DEF AddHook, Register
    <3>2. Added[n] \in Known
      BY HooksKnown
    <3>3. "PreToolUse" \in Events /\ hooks \in [Events -> Seq(Known)]
      BY DEF Events, HookTypes
    <3> HIDE DEF Known, Events
    <3> QED
      BY <3>1, <3>2, <3>3
  <2>3. HookTypes'
    BY <2>1, <2>2 DEF HookTypes
  <2> QED
    BY <2>1, <2>3 DEF TalkTypes, AskInv, Answered, Asking
<1>3. CASE ToggleHooks
  <2>1. UNCHANGED <<pc, messages, query, intent, running, hooks, calls, results,
                    notifications, inbox, taken, sent>> /\ disabled' \in BOOLEAN
    BY <1>3 DEF ToggleHooks, callVars, mailVars
  <2>2. HookTypes'
    BY <2>1 DEF HookTypes
  <2> QED
    BY <2>1, <2>2 DEF TalkTypes, AskInv, Answered, Asking
<1> QED
  BY <1>1, <1>2, <1>3 DEF HookAction

\* A query, before the loop and into it.
LEMMA UserActionsKeep ==
    ASSUME LoopInv, UserAction
    PROVE  LoopInv'
<1> USE DEF LoopInv
<1>1. CASE Ask
  <2>1. Execute("UserPromptSubmit", "") /\ pc = "repl" /\ query' \in BOOLEAN
        /\ UNCHANGED <<messages, hooks, disabled, calls, results, notifications, inbox, taken, sent>>
    BY <1>1 DEF Ask, callVars, mailVars
  <2>2. "UserPromptSubmit" \in Events /\ "" \in Tools \cup {""}
    BY DEF Events
  <2>3. running' \in Runnings /\ pc' = "hooks" /\ running'.event = "UserPromptSubmit"
        /\ running'.at = 1 /\ running'.event \in Events
    BY <2>1, <2>2, ExecuteTypes
  <2>4. HookTypes' /\ TalkTypes'
    <3> HIDE DEF Runnings, Events, Messages, Calls, Outcomes
    <3>1. HookTypes'
      <4>1. hooks' = hooks /\ disabled' = disabled
        BY <2>1
      <4> QED
        BY <2>3, <4>1 DEF HookTypes
    <3>2. TalkTypes'
      BY <2>1, <2>3 DEF TalkTypes
    <3> QED
      BY <3>1, <3>2
  <2>5. ~Asking /\ ~Asking'
    BY <2>1, <2>3 DEF Asking
  <2> QED
    BY <2>1, <2>4, <2>5, OthersKeep
<1>2. CASE RefuseQuery
  <2>1. UNCHANGED <<messages, query, hooks, disabled, calls, results, notifications, inbox, taken, sent>>
        /\ pc' = "repl" /\ running' = NoRun
    BY <1>2 DEF RefuseQuery, callVars, mailVars
  <2>2. ~Asking /\ ~Asking'
    BY <1>2, <2>1 DEF RefuseQuery, Decided, Asking
  <2>3. HookTypes' /\ TalkTypes'
    <3> HIDE DEF Runnings, NoRun
    <3> QED
      BY <2>1, NoRunTypes DEF HookTypes, TalkTypes
  <2> QED
    BY <2>1, <2>2, <2>3, OthersKeep
<1>3. CASE EnterLoop
  <2> DEFINE m == Message("user", "query", query, <<>>, "none")
  <2>1. UNCHANGED <<hooks, disabled, calls, results, notifications, inbox, taken, sent>>
        /\ pc' = "drain" /\ running' = NoRun /\ messages' = Append(messages, m)
        /\ query' = FALSE
    BY <1>3 DEF EnterLoop, mailVars
  <2>2. ~Asking /\ ~Asking'
    BY <1>3, <2>1 DEF EnterLoop, Decided, Asking
  <2>3. m \in Messages /\ m.stop # "tool_use"
    <3>1. query \in BOOLEAN
      BY DEF TalkTypes
    <3> QED
      BY <3>1 DEF Message, Messages, Kinds
  <2>4. HookTypes' /\ TalkTypes'
    <3> HIDE DEF m, Runnings, NoRun
    <3> QED
      BY <2>1, <2>3, NoRunTypes, AppendKeeps DEF HookTypes, TalkTypes
  <2> QED
    BY <2>1, <2>2, <2>3, <2>4, OthersKeep
<1> QED
  BY <1>1, <1>2, <1>3 DEF UserAction

\* What somebody says has no calls to answer.
LEMMA SayTypes ==
    ASSUME TalkTypes, NEW kind \in Kinds, NEW ids \in Seq(Nat), Say(kind, ids)
    PROVE  /\ messages' \in Seq(Messages)
           /\ \E m \in Messages : messages' = Append(messages, m) /\ m.stop # "tool_use"
<1>1. PICK m \in Messages : messages' = Append(messages, m) /\ m.stop = "none"
  BY SayAppends
<1> QED
  BY <1>1, AppendKeeps

\* A step outside of an answer, that starts no hooks.
LEMMA QuietKeeps ==
    ASSUME LoopInv, TalkTypes', ~Asking, pc' \notin {"hooks", "call", "sub"},
           running' \in {running, NoRun}, UNCHANGED <<hooks, disabled>>,
           \/ UNCHANGED messages
           \/ \E m \in Messages : messages' = Append(messages, m) /\ m.stop # "tool_use"
    PROVE  LoopInv'
<1>1. HookTypes'
  <2>1. running' \in Runnings
    BY NoRunTypes DEF LoopInv, HookTypes
  <2> QED
    BY <2>1 DEF LoopInv, HookTypes
<1>2. ~Asking'
  BY DEF Asking
<1>3. AskInv'
  BY <1>2, OthersKeep DEF LoopInv
<1> QED
  BY <1>1, <1>3 DEF LoopInv

\* Background results and mails are told, and the intent is looked for.
LEMMA TellingKeeps ==
    ASSUME LoopInv, DrainOne \/ DrainDone \/ ReadInbox \/ Truncate \/ Classify \/ LLMFails
    PROVE  LoopInv'
<1>1. TalkTypes
  BY DEF LoopInv
<1>2. CASE DrainOne
  <2>1. UNCHANGED <<pc, messages, query, running, hooks, disabled, intent, calls, results, inbox, sent>>
        /\ pc = "drain" /\ notifications # <<>>
        /\ taken' = Append(taken, Head(notifications)) /\ notifications' = Tail(notifications)
    BY <1>2 DEF DrainOne, hookVars, callVars, mailVars
  <2>2. Head(notifications) \in Nat /\ notifications' \in Seq(Background)
    <3>1. Head(notifications) \in Background /\ notifications' \in Seq(Background)
      BY <1>1, <2>1 DEF TalkTypes
    <3> QED
      BY <3>1, AgentConstants DEF Background
  <2>3. TalkTypes'
    BY <1>1, <2>1, <2>2 DEF TalkTypes
  <2>4. ~Asking
    BY <2>1 DEF Asking
  <2> QED
    BY <2>1, <2>3, <2>4, QuietKeeps
<1>3. CASE DrainDone
  <2>1. UNCHANGED <<query, running, hooks, disabled, calls, results, notifications, inbox, sent>>
        /\ pc = "drain" /\ pc' \in {"intent", "inbox"} /\ taken' = <<>>
        /\ (UNCHANGED messages \/ Say("background", taken))
    BY <1>3 DEF DrainDone, hookVars, callVars, mailVars
  <2>2. messages' \in Seq(Messages)
        /\ (UNCHANGED messages
            \/ \E m \in Messages : messages' = Append(messages, m) /\ m.stop # "tool_use")
    <3>1. "background" \in Kinds /\ taken \in Seq(Nat) /\ messages \in Seq(Messages)
      BY <1>1 DEF Kinds, TalkTypes
    <3> QED
      BY <1>1, <2>1, <3>1, SayTypes
  <2>3. TalkTypes'
    BY <1>1, <2>1, <2>2 DEF TalkTypes
  <2>4. ~Asking
    BY <2>1 DEF Asking
  <2> QED
    BY <2>1, <2>2, <2>3, <2>4, QuietKeeps
<1>4. CASE ReadInbox
  <2>1. UNCHANGED <<messages, query, running, hooks, disabled, calls, results, notifications, inbox, sent>>
        /\ pc = "inbox" /\ pc' = "truncate" /\ taken' = inbox
    BY <1>4 DEF ReadInbox, hookVars, callVars, mailVars
  <2>2. TalkTypes'
    BY <1>1, <2>1 DEF TalkTypes
  <2>3. ~Asking
    BY <2>1 DEF Asking
  <2> QED
    BY <2>1, <2>2, <2>3, QuietKeeps
<1>5. CASE Truncate
  <2>1. UNCHANGED <<query, running, hooks, disabled, calls, results, notifications, sent>>
        /\ pc = "truncate" /\ pc' = "intent" /\ taken' = <<>> /\ inbox' = <<>>
        /\ (UNCHANGED messages \/ Say("inbox", taken))
    BY <1>5 DEF Truncate, hookVars, callVars
  <2>2. messages' \in Seq(Messages)
        /\ (UNCHANGED messages
            \/ \E m \in Messages : messages' = Append(messages, m) /\ m.stop # "tool_use")
    <3>1. "inbox" \in Kinds /\ taken \in Seq(Nat) /\ messages \in Seq(Messages)
      BY <1>1 DEF Kinds, TalkTypes
    <3> QED
      BY <1>1, <2>1, <3>1, SayTypes
  <2>3. TalkTypes'
    BY <1>1, <2>1, <2>2 DEF TalkTypes
  <2>4. ~Asking
    BY <2>1 DEF Asking
  <2> QED
    BY <2>1, <2>2, <2>3, <2>4, QuietKeeps
<1>6. CASE Classify \/ LLMFails
  <2>1. UNCHANGED <<query, running, hooks, disabled, calls, results, notifications, inbox, taken, sent>>
        /\ pc \in {"intent", "llm"} /\ pc' \in {"repl", "llm"}
        /\ (pc' = "llm" => intent' \in DOMAIN Routes)
        /\ (UNCHANGED messages \/ Say("refusal", <<>>) \/ Say("api error", <<>>))
    BY <1>6 DEF Classify, LLMFails, hookVars, callVars, mailVars
  <2>2. messages' \in Seq(Messages)
        /\ (UNCHANGED messages
            \/ \E m \in Messages : messages' = Append(messages, m) /\ m.stop # "tool_use")
    <3>1. "refusal" \in Kinds /\ "api error" \in Kinds /\ <<>> \in Seq(Nat)
          /\ messages \in Seq(Messages)
      BY <1>1 DEF Kinds, TalkTypes
    <3> QED
      BY <1>1, <2>1, <3>1, SayTypes
  <2>3. TalkTypes'
    BY <1>1, <2>1, <2>2 DEF TalkTypes
  <2>4. ~Asking
    BY <2>1 DEF Asking
  <2> QED
    BY <2>1, <2>2, <2>3, <2>4, QuietKeeps
<1> QED
  BY <1>2, <1>3, <1>4, <1>5, <1>6

\* An answer of the LLM is a message.
LEMMA AnswerTypes ==
    ASSUME TalkTypes, NEW n \in Nat, NEW stop \in {"tool_use", "end_turn", "max_tokens"},
           Answer(stop, n)
    PROVE  \E m \in Messages : /\ messages' = Append(messages, m)
                               /\ m.stop = stop /\ m.kind = "answer"
                               /\ m.ids = [k \in 1 .. n |-> CallsMade + k]
<1> DEFINE ids == [k \in 1 .. n |-> CallsMade + k]
           m   == Message("assistant", "answer", FALSE, ids, stop)
<1>1. ids \in Seq(Nat)
  BY CallsMadeType
<1> HIDE DEF ids
<1>2. m \in Messages /\ m.stop = stop /\ m.kind = "answer" /\ m.ids = ids
  BY <1>1 DEF Message, Messages, Kinds
<1>3. messages' = Append(messages, m)
  BY DEF Answer, ids
<1> QED
  BY <1>2, <1>3 DEF ids

\* The LLM asks for tools: the answer is not answered yet.
LEMMA LLMCallsKeeps ==
    ASSUME LoopInv, LLMCalls
    PROVE  LoopInv'
<1>1. TalkTypes /\ HookTypes /\ AskInv
  BY DEF LoopInv
<1>2. PICK n \in 1 .. 2 : \E tools \in [1 .. n -> Routes[intent]] :
         /\ Answer("tool_use", n)
         /\ calls' = [k \in 1 .. n |-> [id |-> CallsMade + k, tool |-> tools[k]]]
  BY DEF LLMCalls
<1>0. PICK tools \in [1 .. n -> Routes[intent]] :
         /\ Answer("tool_use", n)
         /\ calls' = [k \in 1 .. n |-> [id |-> CallsMade + k, tool |-> tools[k]]]
  BY <1>2
<1>3. UNCHANGED <<query, running, hooks, disabled, intent, notifications, inbox, taken, sent>>
      /\ pc = "llm" /\ pc' = "call" /\ results' = <<>>
  BY DEF LLMCalls, hookVars, mailVars
<1>4. PICK m \in Messages : /\ messages' = Append(messages, m) /\ m.stop = "tool_use"
                             /\ m.ids = [k \in 1 .. n |-> CallsMade + k]
  BY <1>0, <1>1, AnswerTypes
<1>5. calls' \in Seq(Calls) /\ DOMAIN calls' = 1 .. n /\ Len(calls') = n
      /\ \A k \in 1 .. n : calls'[k].id = CallsMade + k
  <2>1. Routes[intent] \subseteq Tools
    BY <1>1, <1>3 DEF Tools, TalkTypes
  <2>2. \A k \in 1 .. n : [id |-> CallsMade + k, tool |-> tools[k]] \in Calls
    BY <1>1, <2>1, CallsMadeType DEF Calls
  <2> QED
    BY <1>0, <2>2
<1>6. TalkTypes'
  <2>1. messages' \in Seq(Messages)
    BY <1>1, <1>4, AppendKeeps
  <2> QED
    BY <1>1, <1>3, <1>5, <2>1 DEF TalkTypes
<1>7. HookTypes'
  BY <1>1, <1>3 DEF HookTypes
<1>8. AskInv'
  <2>1. Asking' /\ ~Asking
    BY <1>3 DEF Asking
  <2>2. \A i \in DOMAIN messages' : messages'[i].stop = "tool_use" =>
           Answered(i)' \/ i = Len(messages')
    BY <1>1, <1>4, <2>1, AppendKeeps DEF AskInv
  <2>3. messages'[Len(messages')].ids = [k \in DOMAIN calls' |-> calls'[k].id]
    BY <1>1, <1>4, <1>5, AppendKeeps
  <2> QED
    BY <1>3, <1>5, <2>1, <2>2, <2>3 DEF AskInv
<1> QED
  BY <1>6, <1>7, <1>8 DEF LoopInv

\* The LLM stops, and the Stop hooks send it on or not.
LEMMA StopKeeps ==
    ASSUME LoopInv, LLMStops \/ StopDecided
    PROVE  LoopInv'
<1>1. TalkTypes /\ HookTypes /\ AskInv
  BY DEF LoopInv
<1>2. CASE LLMStops
  <2>1. UNCHANGED <<query, hooks, disabled, results, notifications, inbox, taken, sent>>
        /\ pc = "llm" /\ Execute("Stop", "") /\ calls' = <<>>
        /\ (Answer("end_turn", 0) \/ Answer("max_tokens", 1))
    BY <1>2 DEF LLMStops, mailVars
  <2>2. PICK m \in Messages : messages' = Append(messages, m) /\ m.stop # "tool_use"
    BY <1>1, <2>1, AnswerTypes
  <2>3. running' \in Runnings /\ running'.event = "Stop" /\ running'.at = 1 /\ pc' = "hooks"
        /\ running'.event \in Events
    <3>1. "Stop" \in Events /\ "" \in Tools \cup {""}
      BY DEF Events
    <3> QED
      BY <2>1, <3>1, ExecuteTypes
  <2>4. TalkTypes'
    <3>1. messages' \in Seq(Messages)
      BY <1>1, <2>2, AppendKeeps
    <3>2. calls' \in Seq(Calls)
      <4>1. calls' = <<>>
        BY <2>1
      <4> QED
        BY <4>1
    <3> QED
      BY <1>1, <2>1, <2>3, <3>1, <3>2 DEF TalkTypes
  <2>5. HookTypes'
    <3>1. hooks' = hooks /\ disabled' = disabled
      BY <2>1
    <3> QED
      BY <1>1, <2>3, <3>1 DEF HookTypes
  <2>6. ~Asking /\ ~Asking'
    BY <2>1, <2>3 DEF Asking
  <2> QED
    BY <1>1, <2>2, <2>4, <2>5, <2>6, OthersKeep DEF LoopInv
<1>3. CASE StopDecided
  <2>1. UNCHANGED <<query, hooks, disabled, calls, results, notifications, inbox, taken, sent>>
        /\ pc = "hooks" /\ running.event = "Stop" /\ pc' \in {"drain", "repl"}
        /\ running' = NoRun /\ (UNCHANGED messages \/ Say("continue", <<>>))
    BY <1>3 DEF StopDecided, Decided, callVars, mailVars
  <2>2. messages' \in Seq(Messages)
        /\ (UNCHANGED messages
            \/ \E m \in Messages : messages' = Append(messages, m) /\ m.stop # "tool_use")
    <3>1. "continue" \in Kinds /\ <<>> \in Seq(Nat) /\ messages \in Seq(Messages)
      BY <1>1 DEF Kinds, TalkTypes
    <3> QED
      BY <1>1, <2>1, <3>1, SayTypes
  <2>3. TalkTypes'
    BY <1>1, <2>1, <2>2 DEF TalkTypes
  <2>4. ~Asking
    BY <2>1 DEF Asking
  <2> QED
    BY <2>1, <2>2, <2>3, <2>4, QuietKeeps
<1> QED
  BY <1>2, <1>3

------------------------------------------------------------------------------
\* The current call has a number and a tool.
LEMMA CurrentTypes ==
    ASSUME TalkTypes, Len(results) < Len(calls)
    PROVE  /\ Current \in Calls /\ Current.id \in Nat /\ Current.tool \in Tools
           /\ Current.id = calls[Len(results) + 1].id
<1>1. Len(results) + 1 \in 1 .. Len(calls)
  BY DEF TalkTypes
<1>2. Current \in Calls
  BY <1>1 DEF Current, TalkTypes
<1> QED
  BY <1>2 DEF Current, Calls

\* The result of the current call is the next result.
LEMMA ConcludeKeeps ==
    ASSUME TalkTypes, AskInv, Asking, pc # "call",
           NEW fate \in {"ran", "refused"}, Conclude(fate),
           UNCHANGED <<messages, calls>>
    PROVE  results' \in Seq(Outcomes) /\ AskInv'
<1>1. Len(results) < Len(calls) /\ results \in Seq(Outcomes) /\ calls \in Seq(Calls)
  BY DEF AskInv, TalkTypes
<1> DEFINE r == [id |-> Current.id, fate |-> fate]
<1>2. r \in Outcomes /\ r.id = calls[Len(results) + 1].id
  BY <1>1, CurrentTypes DEF Outcomes
<1>3. results' = Append(results, r) /\ pc' = "call"
  BY DEF Conclude
<1> HIDE DEF r
<1>4. results' \in Seq(Outcomes) /\ Len(results') = Len(results) + 1
      /\ \A k \in DOMAIN results' : results'[k] = IF k = Len(results) + 1 THEN r ELSE results[k]
  BY <1>1, <1>2, <1>3
<1>5. \A k \in DOMAIN results' : results'[k].id = calls'[k].id
  <2> SUFFICES ASSUME NEW k \in DOMAIN results'
               PROVE  results'[k].id = calls'[k].id
    OBVIOUS
  <2>1. CASE k = Len(results) + 1
    BY <1>2, <1>4, <2>1
  <2>2. CASE k # Len(results) + 1
    <3>1. k \in DOMAIN results
      BY <1>1, <1>4, <2>2
    <3> QED
      BY <1>4, <2>2, <3>1 DEF AskInv
  <2> QED
    BY <2>1, <2>2
<1>6. AskInv'
  <2>1. Len(results') <= Len(calls')
    BY <1>1, <1>4
  <2> QED
    BY <1>3, <1>5, <2>1 DEF AskInv, Answered, Asking
<1> QED
  BY <1>4, <1>6

\* When all calls are done, the numbers of the results are those of the answer.
LEMMA DoneSays ==
    ASSUME LoopInv, CallsDone
    PROVE  \E m \in Messages :
              /\ messages' = Append(messages, m) /\ m.kind = "results" /\ m.stop = "none"
              /\ m.ids = messages[Len(messages)].ids
<1> DEFINE ids == [n \in DOMAIN results |-> results[n].id]
<1>1. TalkTypes /\ AskInv
  BY DEF LoopInv
<1>2. pc = "call" /\ Len(results) = Len(calls) /\ Say("results", ids)
  BY DEF CallsDone
<1>3. results \in Seq(Outcomes) /\ calls \in Seq(Calls)
  BY <1>1 DEF TalkTypes
<1>4. ids \in Seq(Nat)
  <2>1. \A k \in DOMAIN results : results[k] \in Outcomes
    BY <1>3
  <2>2. \A k \in DOMAIN results : results[k].id \in Nat
    BY <2>1 DEF Outcomes
  <2> QED
    BY <1>3, <2>2
<1>5. ids = messages[Len(messages)].ids
  <2>1. DOMAIN results = DOMAIN calls /\ \A k \in DOMAIN results : results[k].id = calls[k].id
    BY <1>1, <1>2, <1>3 DEF AskInv, Asking
  <2>2. messages[Len(messages)].ids = [k \in DOMAIN calls |-> calls[k].id]
    BY <1>1, <1>2 DEF AskInv, Asking
  <2> QED
    BY <2>1, <2>2
<1> HIDE DEF ids
<1>6. PICK unsafe \in BOOLEAN :
         messages' = Append(messages, Message("user", "results", unsafe, ids, "none"))
  BY <1>2 DEF Say
<1>7. Message("user", "results", unsafe, ids, "none") \in Messages
  BY <1>4 DEF Message, Messages, Kinds
<1> QED
  BY <1>5, <1>6, <1>7 DEF Message

\* Calls begin, are refused, run, and are done.
LEMMA CallActionsKeep ==
    ASSUME LoopInv, CallAction
    PROVE  LoopInv'
<1>1. TalkTypes /\ HookTypes /\ AskInv
  BY DEF LoopInv
<1>2. CASE BeginCall
  <2>1. UNCHANGED <<messages, query, hooks, disabled, calls, results, notifications, inbox, taken, sent>>
        /\ pc = "call" /\ Len(results) < Len(calls) /\ Execute("PreToolUse", Current.tool)
    BY <1>2 DEF BeginCall, callVars, mailVars
  <2>2. running' \in Runnings /\ running'.event = "PreToolUse" /\ running'.at = 1
        /\ pc' = "hooks" /\ running'.event \in Events
    <3>1. "PreToolUse" \in Events /\ Current.tool \in Tools \cup {""}
      BY <1>1, <2>1, CurrentTypes DEF Events
    <3> QED
      BY <2>1, <3>1, ExecuteTypes
  <2>3. TalkTypes'
    BY <1>1, <2>1, <2>2 DEF TalkTypes
  <2>4. HookTypes'
    <3>1. hooks' = hooks /\ disabled' = disabled
      BY <2>1
    <3> QED
      BY <1>1, <2>2, <3>1 DEF HookTypes
  <2>5. Asking /\ Asking'
    BY <2>1, <2>2 DEF Asking
  <2>6. AskInv'
    BY <1>1, <2>1, <2>5 DEF AskInv, Answered
  <2> QED
    BY <2>3, <2>4, <2>6 DEF LoopInv
<1>3. CASE RefuseCall
  <2>1. UNCHANGED <<messages, query, hooks, disabled, calls, notifications, inbox, taken, sent>>
        /\ pc = "hooks" /\ running.event = "PreToolUse" /\ Conclude("refused")
        /\ running' = NoRun
    BY <1>3 DEF RefuseCall, Decided, mailVars
  <2>2. pc' = "call" /\ Asking
    BY <2>1 DEF Asking, Conclude
  <2>3. results' \in Seq(Outcomes) /\ AskInv'
    BY <1>1, <2>1, <2>2, ConcludeKeeps
  <2>4. TalkTypes'
    BY <1>1, <2>1, <2>2, <2>3 DEF TalkTypes
  <2>5. HookTypes'
    BY <1>1, <2>1, <2>2, NoRunTypes DEF HookTypes
  <2> QED
    BY <2>3, <2>4, <2>5 DEF LoopInv
<1>4. CASE RunCall
  <2>1. UNCHANGED <<messages, query, hooks, disabled, calls, notifications, inbox, taken, sent>>
        /\ pc = "hooks" /\ running.event = "PreToolUse" /\ running' = NoRun
        /\ (Conclude("ran") \/ (pc' = "sub" /\ UNCHANGED results))
    BY <1>4 DEF RunCall, Decided, mailVars
  <2>2. Asking /\ pc' \in {"call", "sub"} /\ Asking'
    BY <2>1 DEF Asking, Conclude
  <2>3. results' \in Seq(Outcomes) /\ AskInv'
    <3>1. CASE Conclude("ran")
      BY <1>1, <2>1, <2>2, <3>1, ConcludeKeeps
    <3>2. CASE pc' = "sub" /\ UNCHANGED results
      <4>1. Len(results) < Len(calls) /\ results \in Seq(Outcomes)
        BY <1>1, <2>1, <2>2 DEF AskInv, TalkTypes
      <4> QED
        BY <1>1, <2>1, <2>2, <3>2, <4>1 DEF AskInv, Answered
    <3> QED
      BY <2>1, <3>1, <3>2
  <2>4. TalkTypes'
    BY <1>1, <2>1, <2>2, <2>3 DEF TalkTypes
  <2>5. HookTypes'
    BY <1>1, <2>1, <2>2, NoRunTypes DEF HookTypes
  <2> QED
    BY <2>3, <2>4, <2>5 DEF LoopInv
<1>5. CASE CallsDone
  <2>1. UNCHANGED <<query, running, hooks, disabled, notifications, inbox, taken, sent>>
        /\ calls' = <<>> /\ results' = <<>> /\ pc = "call" /\ pc' = "drain"
    BY <1>5 DEF CallsDone, hookVars, mailVars
  <2>4. PICK m \in Messages :
           /\ messages' = Append(messages, m) /\ m.kind = "results" /\ m.stop = "none"
           /\ m.ids = messages[Len(messages)].ids
    BY <1>5, DoneSays
  <2>5. messages \in Seq(Messages) /\ messages' \in Seq(Messages)
    BY <1>1, <2>4, AppendKeeps DEF TalkTypes
  <2>6. TalkTypes'
    BY <1>1, <2>1, <2>5 DEF TalkTypes
  <2>7. HookTypes'
    BY <1>1, <2>1 DEF HookTypes
  <2>8. AskInv'
    <3>1. ~Asking'
      BY <2>1 DEF Asking
    <3>2. \A n \in DOMAIN messages' : messages'[n].stop = "tool_use" => Answered(n)'
      <4> SUFFICES ASSUME NEW n \in DOMAIN messages', messages'[n].stop = "tool_use"
                   PROVE  Answered(n)'
        OBVIOUS
      <4>1. n \in DOMAIN messages
        BY <1>1, <2>4, AppendKeeps
      <4>2. CASE Answered(n)
        BY <1>1, <2>4, <4>1, <4>2, AppendKeeps
      <4>3. CASE n = Len(messages)
        <5>1. n + 1 = Len(messages') /\ n < Len(messages') /\ messages'[n + 1] = m
              /\ messages'[n] = messages[n]
          BY <1>1, <2>4, <2>5, <4>1, <4>3, AppendKeeps
        <5> QED
          BY <2>4, <4>3, <5>1 DEF Answered
      <4>4. messages[n].stop = "tool_use"
        BY <1>1, <2>4, <4>1, AppendKeeps
      <4> QED
        BY <1>1, <4>1, <4>2, <4>3, <4>4 DEF AskInv
    <3> QED
      BY <3>1, <3>2 DEF AskInv
  <2> QED
    BY <2>6, <2>7, <2>8 DEF LoopInv
<1> QED
  BY <1>2, <1>3, <1>4, <1>5 DEF CallAction

\* The turns of a sub-agent, and its return.
LEMMA SubActionsKeep ==
    ASSUME LoopInv, SubAction
    PROVE  LoopInv'
<1>1. TalkTypes /\ HookTypes /\ AskInv
  BY DEF LoopInv
<1>2. UNCHANGED <<messages, query, running, hooks, disabled, calls, notifications, inbox, taken, sent>>
      /\ pc = "sub" /\ (Conclude("ran") \/ UNCHANGED <<pc, results>>)
  BY DEF SubAction, SubReturns, SubTurn, hookVars, mailVars
<1>3. Asking /\ pc' \in {"call", "sub"}
  BY <1>2 DEF Asking, Conclude
<1>4. results' \in Seq(Outcomes) /\ AskInv'
  <2>1. CASE Conclude("ran")
    BY <1>1, <1>2, <1>3, <2>1, ConcludeKeeps
  <2>2. CASE UNCHANGED <<pc, results>>
    <3>1. results \in Seq(Outcomes) /\ results' = results /\ pc' = pc
      BY <1>1, <2>2 DEF TalkTypes
    <3> QED
      BY <1>1, <1>2, <3>1 DEF AskInv, Answered, Asking
  <2> QED
    BY <1>2, <2>1, <2>2
<1>5. TalkTypes'
  BY <1>1, <1>2, <1>3, <1>4 DEF TalkTypes
<1>6. HookTypes'
  BY <1>1, <1>2, <1>3 DEF HookTypes
<1> QED
  BY <1>4, <1>5, <1>6 DEF LoopInv

\* Background tasks and teammates touch neither the conversation nor the hooks.
LEMMA OtherActorsKeep ==
    ASSUME LoopInv, OtherActor
    PROVE  LoopInv'
<1>1. TalkTypes /\ HookTypes /\ AskInv
  BY DEF LoopInv
<1>2. UNCHANGED <<pc, messages, query, running, hooks, disabled, intent, calls, results, taken>>
  BY DEF OtherActor, Send, Finish, hookVars, callVars, mailVars
<1>3. notifications' \in Seq(Background) /\ inbox' \in Seq(Nat) /\ sent' \in Nat
  <2>1. CASE Send
    BY <1>1, <2>1 DEF Send, TalkTypes
  <2>2. CASE \E b \in Background : Finish(b)
    BY <1>1, <2>2 DEF Finish, TalkTypes, mailVars
  <2> QED
    BY <2>1, <2>2 DEF OtherActor
<1>4. TalkTypes'
  BY <1>1, <1>2, <1>3 DEF TalkTypes
<1>5. HookTypes'
  BY <1>1, <1>2 DEF HookTypes
<1>6. AskInv'
  BY <1>1, <1>2 DEF AskInv, Answered, Asking
<1> QED
  BY <1>4, <1>5, <1>6 DEF LoopInv

\* The settings' hooks, sorted, are known ones.
LEMMA LoadedTypes ==
    ASSUME Init
    PROVE  /\ hooks \in [Events -> Seq(Known)]
           /\ \A e \in Events : \A k, l \in DOMAIN hooks[e] :
                 k <= l => Rank(hooks[e][k]) <= Rank(hooks[e][l])
<1> DEFINE all(e) == <<>> \o (IF e \in DOMAIN Config THEN Config[e] ELSE <<>>)
<1>1. hooks = [e \in Events |-> SortByPriority(all(e))]
  BY DEF Init, LoadFromConfig
<1>2. ASSUME NEW e \in Events PROVE all(e) \in Seq(Known)
  BY HooksKnown
<1> HIDE DEF all
<1>3. ASSUME NEW e \in Events
      PROVE  /\ SortByPriority(all(e)) \in Seq(Known)
             /\ \A k, l \in DOMAIN SortByPriority(all(e)) :
                   k <= l => Rank(SortByPriority(all(e))[k]) <= Rank(SortByPriority(all(e))[l])
  BY <1>2, SortSorts
<1> QED
  BY <1>1, <1>3

\* Every step keeps the invariant.
LEMMA LoopInvariant == Spec => []LoopInv
<1>1. Init => LoopInv
  <2> SUFFICES ASSUME Init
               PROVE  LoopInv
    OBVIOUS
  <2>1. TalkTypes
    <3>1. messages = <<>> /\ calls = <<>> /\ results = <<>> /\ notifications = <<>> /\ inbox = <<>>
          /\ taken = <<>> /\ sent = 0 /\ query = FALSE /\ pc = "repl"
      BY DEF Init
    <3>2. <<>> \in Seq(Messages) /\ <<>> \in Seq(Calls) /\ <<>> \in Seq(Outcomes)
          /\ <<>> \in Seq(Background) /\ <<>> \in Seq(Nat)
      OBVIOUS
    <3> QED
      BY <3>1, <3>2 DEF TalkTypes
  <2>2. HookTypes
    <3>1. running = NoRun /\ disabled = FALSE /\ pc = "repl"
      BY DEF Init
    <3> QED
      BY <3>1, LoadedTypes, NoRunTypes DEF HookTypes
  <2>3. AskInv
    BY DEF Init, AskInv, Asking
  <2> QED
    BY <2>1, <2>2, <2>3 DEF LoopInv
<1>2. LoopInv /\ [Next]_vars => LoopInv'
  <2> SUFFICES ASSUME LoopInv, [Next]_vars
               PROVE  LoopInv'
    OBVIOUS
  <2>1. CASE HookAction
    BY <2>1, HookActionsKeep
  <2>2. CASE UserAction
    BY <2>2, UserActionsKeep
  <2>3. CASE TurnAction
    BY <2>3, TellingKeeps, LLMCallsKeeps, StopKeeps DEF TurnAction
  <2>4. CASE CallAction
    BY <2>4, CallActionsKeep
  <2>5. CASE SubAction
    BY <2>5, SubActionsKeep
  <2>6. CASE OtherActor
    BY <2>6, OtherActorsKeep
  <2>7. CASE UNCHANGED vars
    <3>1. UNCHANGED <<pc, messages, query, running, hooks, disabled, intent, calls, results,
                      notifications, inbox, taken, sent>>
      BY <2>7 DEF vars, hookVars, callVars, mailVars
    <3> QED
      BY <3>1 DEF LoopInv, TalkTypes, HookTypes, AskInv, Answered, Asking
  <2> QED
    BY <2>1, <2>2, <2>3, <2>4, <2>5, <2>6, <2>7 DEF Next
<1> QED
  BY <1>1, <1>2, PTL DEF Spec

\* Whatever hooks refuse, tools raise and sub-agents do, the LLM is never asked
\* while a call it made has no result (loop.py, tool execution).
THEOREM EveryCallAnswered == Spec => []CallsAnswered
<1>1. LoopInv => CallsAnswered
  BY DEF LoopInv, AskInv, Asking, Answered, CallsAnswered
<1> QED
  BY <1>1, LoopInvariant, PTL

------------------------------------------------------------------------------
(* Background results and mails. *)

\* No element comes twice.
Distinct(s) == \A i, j \in DOMAIN s : s[i] = s[j] => i = j

\* What nobody has told yet is nowhere; what the loop has in hands of the inbox is
\* still in it; and nothing is in hands between the two.
DeliverInv ==
    /\ background \in [Background -> {"none", "running", "finished"}]
    /\ Distinct(notifications)
    /\ \A b \in Background : background[b] # "finished" =>
          /\ ~Contains(notifications, b) /\ ~(pc = "drain" /\ Contains(taken, b))
          /\ Times(b, "background") = 0
    /\ pc \notin {"drain", "truncate"} => taken = <<>>
    /\ \A n \in DOMAIN inbox : inbox[n] \in 1 .. sent
    /\ pc = "truncate" => \A n \in DOMAIN taken : Contains(inbox, taken[n])
    /\ \A m \in Nat \ (1 .. sent) : Times(m, "inbox") = 0
    /\ DeliveredOnce

Tells(m, kind, x) == m.kind = kind /\ Contains(m.ids, x)

\* A message that is added is counted, or not.
LEMMA TimesAppend ==
    ASSUME TalkTypes, NEW m \in Messages, messages' = Append(messages, m), NEW x, NEW kind
    PROVE  /\ Times(x, kind) \in Nat
           /\ Times(x, kind)' = Times(x, kind) + Once(Tells(m, kind, x))
<1> DEFINE told  == {n \in DOMAIN messages : Tells(messages[n], kind, x)}
           last  == Len(messages) + 1
<1>1. messages \in Seq(Messages) /\ DOMAIN messages = 1 .. Len(messages) /\ Len(messages) \in Nat
  BY DEF TalkTypes
<1>2. IsFiniteSet(told) /\ Cardinality(told) \in Nat /\ last \notin told
  <2>1. told \in SUBSET (1 .. Len(messages)) /\ IsFiniteSet(1 .. Len(messages))
    BY <1>1, FS_Interval
  <2>2. IsFiniteSet(told)
    BY <2>1, FS_Subset
  <2>3. last \notin told
    BY <1>1
  <2> QED
    BY <2>2, <2>3, FS_CardinalityType
<1>3. DOMAIN messages' = DOMAIN messages \cup {last} /\ messages'[last] = m
      /\ \A n \in DOMAIN messages : messages'[n] = messages[n]
  BY <1>1
<1>4. {n \in DOMAIN messages' : Tells(messages'[n], kind, x)}
        = told \cup (IF Tells(m, kind, x) THEN {last} ELSE {})
  <2> HIDE DEF last
  <2> QED
    BY <1>2, <1>3
<1>5. Times(x, kind)' = Cardinality({n \in DOMAIN messages' : Tells(messages'[n], kind, x)})
      /\ Times(x, kind) = Cardinality(told)
  BY DEF Times, Tells
<1> HIDE DEF told, last
<1>6. Cardinality(told \cup {last}) = Cardinality(told) + 1
  BY <1>2, FS_AddElement
<1>7. CASE Tells(m, kind, x)
  BY <1>2, <1>4, <1>5, <1>6, <1>7 DEF Once
<1>8. CASE ~Tells(m, kind, x)
  <2>1. told \cup {} = told
    OBVIOUS
  <2>2. Times(x, kind)' = Cardinality(told)
    BY <1>4, <1>5, <1>8, <2>1
  <2>3. Once(Tells(m, kind, x)) = 0
    BY <1>8 DEF Once
  <2>4. Times(x, kind)' = Times(x, kind) /\ Times(x, kind) \in Nat
    BY <1>2, <1>5, <2>2
  <2> QED
    BY <2>3, <2>4
<1> QED
  BY <1>7, <1>8

\* The same when nothing is said.
LEMMA TimesSame ==
    ASSUME UNCHANGED messages, NEW x, NEW kind
    PROVE  Times(x, kind)' = Times(x, kind)
BY DEF Times

LEMMA TimesType ==
    ASSUME TalkTypes, NEW x, NEW kind
    PROVE  Times(x, kind) \in Nat
<1> DEFINE told  == {n \in DOMAIN messages : messages[n].kind = kind /\ Contains(messages[n].ids, x)}
<1>1. told \in SUBSET (1 .. Len(messages)) /\ IsFiniteSet(1 .. Len(messages))
  BY FS_Interval DEF TalkTypes
<1>2. Cardinality(told) \in Nat
  BY <1>1, FS_Subset, FS_CardinalityType
<1> QED
  BY <1>2 DEF Times

\* A step that tells nothing of tasks and mails.
LEMMA NothingTold ==
    ASSUME TalkTypes, NEW x, NEW kind \in {"background", "inbox"},
           \/ UNCHANGED messages
           \/ \E m \in Messages : messages' = Append(messages, m) /\ m.kind \notin {"background", "inbox"}
    PROVE  Times(x, kind)' = Times(x, kind)
<1>1. CASE UNCHANGED messages
  BY <1>1, TimesSame
<1>2. CASE \E m \in Messages : messages' = Append(messages, m) /\ m.kind \notin {"background", "inbox"}
  <2>1. PICK m \in Messages : messages' = Append(messages, m) /\ m.kind \notin {"background", "inbox"}
    BY <1>2
  <2>2. ~Tells(m, kind, x)
    BY <2>1 DEF Tells
  <2>3. Times(x, kind) \in Nat /\ Times(x, kind)' = Times(x, kind) + Once(Tells(m, kind, x))
    BY <2>1, TimesAppend
  <2> QED
    BY <2>2, <2>3 DEF Once
<1> QED
  BY <1>1, <1>2

\* Steps that tell nothing, finish nothing, and have nothing in hands, or keep it.
LEMMA QuietDelivers ==
    ASSUME TalkTypes, DeliverInv,
           background' \in [Background -> {"none", "running", "finished"}],
           \A b \in Background : background'[b] = "finished" <=> background[b] = "finished",
           UNCHANGED <<notifications, taken, inbox, sent, late>>,
           pc' = pc \/ (pc \notin {"drain", "truncate"} /\ pc' # "truncate"),
           \/ UNCHANGED messages
           \/ \E m \in Messages : messages' = Append(messages, m) /\ m.kind \notin {"background", "inbox"}
    PROVE  DeliverInv'
<1>1. \A x : Times(x, "background")' = Times(x, "background") /\ Times(x, "inbox")' = Times(x, "inbox")
  BY NothingTold
<1>2. pc' # pc => taken = <<>>
  BY DEF DeliverInv
<1>3. \A x : ~Contains(<<>>, x)
  BY DEF Contains
<1>4. \A x : (pc' = "drain" /\ Contains(taken', x)) <=> (pc = "drain" /\ Contains(taken, x))
  BY <1>2, <1>3
<1>5. \A x : (pc' = "truncate" /\ Contains(taken', x)) <=> (pc = "truncate" /\ Contains(taken, x))
  BY <1>2, <1>3
<1>6. DeliveredOnce'
  <2>1. \A b \in Background : background'[b] = "finished" =>
           Once(Contains(notifications', b)) + Once(pc' = "drain" /\ Contains(taken', b))
             + Times(b, "background")' = 1
    BY <1>1, <1>4 DEF DeliverInv, DeliveredOnce
  <2>2. \A m \in (1..sent') \ late' :
          IF pc' = "truncate" /\ Contains(taken', m)
          THEN Contains(inbox', m) /\ Times(m, "inbox")' = 0
          ELSE Once(Contains(inbox', m)) + Times(m, "inbox")' = 1
    BY <1>1, <1>5 DEF DeliverInv, DeliveredOnce
  <2> QED
    BY <2>1, <2>2 DEF DeliveredOnce
<1>7. \A b \in Background : background'[b] # "finished" =>
          /\ ~Contains(notifications', b) /\ ~(pc' = "drain" /\ Contains(taken', b))
          /\ Times(b, "background")' = 0
  BY <1>1, <1>4 DEF DeliverInv
<1>8. /\ Distinct(notifications')
      /\ pc' \notin {"drain", "truncate"} => taken' = <<>>
      /\ \A n \in DOMAIN inbox' : inbox'[n] \in 1 .. sent'
      /\ pc' = "truncate" => \A n \in DOMAIN taken' : Contains(inbox', taken'[n])
  BY DEF DeliverInv
<1>9. \A m \in Nat \ (1 .. sent') : Times(m, "inbox")' = 0
  BY <1>1 DEF DeliverInv
<1> QED
  BY <1>6, <1>7, <1>8, <1>9 DEF DeliverInv

\* The least element of a set of ids.
LEMMA HasLeast ==
    ASSUME NEW S \in SUBSET Nat, S # {}
    PROVE  \E m \in S : \A k \in S : m <= k
<1> DEFINE Less == {p \in Nat \X Nat : p[1] < p[2]}
<1>1. PICK m \in S : \A k \in S : <<k, m>> \notin Less
  <2> HIDE DEF Less
  <2>1. IsWellFoundedOn(Less, Nat)
    BY NatLessThanWellFounded DEF Less, OpToRel
  <2> QED
    BY <2>1, WFMin
<1>2. \A k \in S : ~(k < m)
  BY <1>1
<1> QED
  BY <1>2

\* A new task is started, not finished (BackgroundManager.run).
LEMMA StartFinishesNone ==
    ASSUME DeliverInv, StartBackground \/ UNCHANGED background
    PROVE  /\ background' \in [Background -> {"none", "running", "finished"}]
           /\ \A b \in Background : background'[b] = "finished" <=> background[b] = "finished"
<1> DEFINE new == {b \in Background : background[b] = "none"}
<1>1. background \in [Background -> {"none", "running", "finished"}]
  BY DEF DeliverInv
<1>2. CASE background' = background
  BY <1>1, <1>2
<1>3. CASE new # {} /\ background' = [background EXCEPT ![Min(new)] = "running"]
  <2>1. new \in SUBSET Nat
    BY DEF Background
  <2>2. \E m \in new : \A k \in new : m <= k
    <3> HIDE DEF new
    <3> QED
      BY <1>3, <2>1, HasLeast
  <2>3. Min(new) \in new
    <3> HIDE DEF new
    <3> QED
      BY <2>2 DEF Min
  <2> QED
    BY <1>1, <1>3, <2>3
<1> QED
  BY <1>2, <1>3 DEF StartBackground

LEMMA SaysOther ==
    ASSUME TalkTypes, NEW kind \in Kinds \ {"background", "inbox"}, NEW ids \in Seq(Nat),
           Say(kind, ids)
    PROVE  \E m \in Messages : messages' = Append(messages, m) /\ m.kind \notin {"background", "inbox"}
<1>1. PICK m \in Messages : messages' = Append(messages, m) /\ m.kind = kind
  BY SayAppends
<1> QED
  BY <1>1

\* Most steps neither tell nor finish anything.
LEMMA QuietActionsDeliver ==
    ASSUME LoopInv, DeliverInv,
           HookAction \/ UserAction \/ Classify \/ LLMFails \/ LLMCalls \/ LLMStops
             \/ StopDecided \/ CallAction \/ SubAction
    PROVE  DeliverInv'
<1> DEFINE Quiet == \/ UNCHANGED messages
                    \/ \E m \in Messages : messages' = Append(messages, m)
                                           /\ m.kind \notin {"background", "inbox"}
<1>1. TalkTypes /\ "refusal" \in Kinds \ {"background", "inbox"}
      /\ "api error" \in Kinds \ {"background", "inbox"}
      /\ "continue" \in Kinds \ {"background", "inbox"} /\ <<>> \in Seq(Nat)
  BY DEF LoopInv, Kinds
<1>2. CASE HookAction \/ UserAction
  <2>1. UNCHANGED <<background, notifications, taken, inbox, sent, late>>
        /\ (pc' = pc \/ (pc \in {"repl", "hooks"} /\ pc' # "truncate"))
    BY <1>2 DEF HookAction, UserAction, HookStep, AddHook, ToggleHooks, Ask, RefuseQuery,
                EnterLoop, Decided, Execute, mailVars
  <2>2. Quiet
    <3>1. CASE EnterLoop
      <4> DEFINE m == Message("user", "query", query, <<>>, "none")
      <4>1. messages' = Append(messages, m)
        BY <3>1 DEF EnterLoop
      <4>2. m \in Messages /\ m.kind \notin {"background", "inbox"}
        <5>1. query \in BOOLEAN
          BY <1>1 DEF TalkTypes
        <5> QED
          BY <5>1 DEF Message, Messages, Kinds
      <4> QED
        BY <4>1, <4>2
    <3>2. CASE ~EnterLoop
      BY <1>2, <3>2 DEF HookAction, UserAction, HookStep, AddHook, ToggleHooks, Ask, RefuseQuery
    <3> QED
      BY <3>1, <3>2
  <2> HIDE DEF Quiet
  <2>3. \/ UNCHANGED messages
        \/ \E m \in Messages : messages' = Append(messages, m)
                               /\ m.kind \notin {"background", "inbox"}
    BY <2>2 DEF Quiet
  <2>4. background' \in [Background -> {"none", "running", "finished"}]
        /\ \A b \in Background : background'[b] = "finished" <=> background[b] = "finished"
    BY <2>1, StartFinishesNone
  <2> QED
    BY <1>1, <2>1, <2>3, <2>4, QuietDelivers
<1>3. CASE Classify \/ LLMFails \/ LLMCalls \/ LLMStops \/ StopDecided
  <2>1. UNCHANGED <<background, notifications, taken, inbox, sent, late>>
        /\ pc \in {"intent", "llm", "hooks"} /\ pc' # "truncate"
    BY <1>3 DEF Classify, LLMFails, LLMCalls, LLMStops, StopDecided, Decided, Execute, mailVars
  <2>2. \/ UNCHANGED messages
        \/ \E m \in Messages : messages' = Append(messages, m)
                               /\ m.kind \notin {"background", "inbox"}
    <3>1. CASE Classify \/ LLMFails \/ StopDecided
      <4>1. UNCHANGED messages \/ Say("refusal", <<>>) \/ Say("api error", <<>>)
            \/ Say("continue", <<>>)
        BY <3>1 DEF Classify, LLMFails, StopDecided
      <4> QED
        BY <1>1, <4>1, SaysOther
    <3>2. CASE LLMCalls
      <4>1. PICK n \in 1 .. 2 : Answer("tool_use", n)
        BY <3>2 DEF LLMCalls
      <4>2. n \in Nat
        OBVIOUS
      <4>3. \E m \in Messages : messages' = Append(messages, m) /\ m.kind = "answer"
        BY <1>1, <4>1, <4>2, AnswerTypes
      <4> QED
        BY <4>3
    <3>3. CASE LLMStops
      <4>1. Answer("end_turn", 0) \/ Answer("max_tokens", 1)
        BY <3>3 DEF LLMStops
      <4>2. \E m \in Messages : messages' = Append(messages, m) /\ m.kind = "answer"
        BY <1>1, <4>1, AnswerTypes
      <4> QED
        BY <4>2
    <3> QED
      BY <1>3, <3>1, <3>2, <3>3
  <2>3. background' \in [Background -> {"none", "running", "finished"}]
        /\ \A b \in Background : background'[b] = "finished" <=> background[b] = "finished"
    BY <2>1, StartFinishesNone
  <2> QED
    BY <1>1, <2>1, <2>2, <2>3, QuietDelivers
<1>4. CASE CallAction \/ SubAction
  <2>1. UNCHANGED <<notifications, taken, inbox, sent, late>>
        /\ (StartBackground \/ UNCHANGED background)
        /\ pc \in {"call", "hooks", "sub"} /\ pc' # "truncate"
    BY <1>4 DEF CallAction, SubAction, BeginCall, RefuseCall, RunCall, CallsDone, SubReturns,
                SubTurn, Decided, Execute, Conclude, mailVars
  <2>2. \/ UNCHANGED messages
        \/ \E m \in Messages : messages' = Append(messages, m)
                               /\ m.kind \notin {"background", "inbox"}
    <3>1. CASE CallsDone
      <4>1. \E m \in Messages : messages' = Append(messages, m) /\ m.kind = "results"
        BY <3>1, DoneSays
      <4> QED
        BY <4>1
    <3>2. CASE ~CallsDone
      BY <1>4, <3>2 DEF CallAction, SubAction, BeginCall, RefuseCall, RunCall, SubReturns, SubTurn
    <3> QED
      BY <3>1, <3>2
  <2>3. background' \in [Background -> {"none", "running", "finished"}]
        /\ \A b \in Background : background'[b] = "finished" <=> background[b] = "finished"
    BY <2>1, StartFinishesNone
  <2> QED
    BY <1>1, <2>1, <2>2, <2>3, QuietDelivers
<1> QED
  BY <1>2, <1>3, <1>4

\* What is in a sequence after a step at one of its ends.
LEMMA Containing ==
    ASSUME NEW S, NEW s \in Seq(S)
    PROVE  /\ \A x : ~Contains(<<>>, x)
           /\ \A e \in S : \A x : Contains(Append(s, e), x) <=> Contains(s, x) \/ x = e
           /\ s # <<>> => \A x : Contains(s, x) <=> Contains(Tail(s), x) \/ x = Head(s)
<1>1. \A x : ~Contains(<<>>, x)
  BY DEF Contains
<1>2. ASSUME NEW e \in S, NEW x
      PROVE  Contains(Append(s, e), x) <=> Contains(s, x) \/ x = e
  <2> DEFINE t == Append(s, e)
  <2>1. Len(t) = Len(s) + 1 /\ t[Len(s) + 1] = e /\ \A i \in 1 .. Len(s) : t[i] = s[i]
    OBVIOUS
  <2>2. \A i \in 1 .. Len(t) : i \in 1 .. Len(s) \/ i = Len(s) + 1
    BY <2>1
  <2>3. Len(s) + 1 \in 1 .. Len(t) /\ \A i \in 1 .. Len(s) : i \in 1 .. Len(t)
    BY <2>1
  <2> HIDE DEF t
  <2>4. Contains(t, x) <=> Contains(s, x) \/ x = e
    BY <2>1, <2>2, <2>3 DEF Contains
  <2> QED
    BY <2>4 DEF t
<1>3. ASSUME s # <<>>, NEW x
      PROVE  Contains(s, x) <=> Contains(Tail(s), x) \/ x = Head(s)
  <2> DEFINE t == Tail(s)
  <2>1. Len(t) = Len(s) - 1 /\ Len(s) \in Nat \ {0} /\ Head(s) = s[1]
        /\ \A i \in 1 .. Len(t) : t[i] = s[i + 1]
    BY <1>3
  <2>2. \A i \in 1 .. Len(s) : i = 1 \/ i - 1 \in 1 .. Len(t)
    BY <2>1
  <2>3. 1 \in 1 .. Len(s) /\ \A i \in 1 .. Len(t) : i + 1 \in 1 .. Len(s)
    BY <2>1
  <2>4. \A i \in 1 .. Len(s) : i # 1 => t[i - 1] = s[i]
    BY <2>1, <2>2
  <2> HIDE DEF t
  <2>5. Contains(s, x) => Contains(t, x) \/ x = Head(s)
    BY <2>1, <2>2, <2>4 DEF Contains
  <2>6. Contains(t, x) \/ x = Head(s) => Contains(s, x)
    BY <2>1, <2>3 DEF Contains
  <2> QED
    BY <2>5, <2>6 DEF t
<1> QED
  BY <1>1, <1>2, <1>3

LEMMA DistinctEnds ==
    ASSUME NEW S, NEW s \in Seq(S), Distinct(s)
    PROVE  /\ \A e \in S : ~Contains(s, e) => Distinct(Append(s, e))
           /\ s # <<>> => Distinct(Tail(s)) /\ ~Contains(Tail(s), Head(s))
<1>1. ASSUME NEW e \in S, ~Contains(s, e)
      PROVE  Distinct(Append(s, e))
  <2> DEFINE t == Append(s, e)
  <2>1. DOMAIN t = 1 .. Len(s) + 1 /\ t[Len(s) + 1] = e /\ \A i \in 1 .. Len(s) : t[i] = s[i]
        /\ Len(s) \in Nat
    OBVIOUS
  <2>2. \A i \in 1 .. Len(s) : s[i] # e
    BY <1>1 DEF Contains
  <2> HIDE DEF t
  <2>3. Distinct(t)
    BY <2>1, <2>2 DEF Distinct
  <2> QED
    BY <2>3 DEF t
<1>2. ASSUME s # <<>>
      PROVE  Distinct(Tail(s)) /\ ~Contains(Tail(s), Head(s))
  <2> DEFINE t == Tail(s)
  <2>1. /\ DOMAIN t = 1 .. Len(t) /\ Len(t) = Len(s) - 1 /\ Len(s) \in Nat \ {0} /\ Head(s) = s[1]
        /\ \A i \in 1 .. Len(t) : t[i] = s[i + 1]
    BY <1>2
  <2> HIDE DEF t
  <2>2. Distinct(t)
    BY <2>1 DEF Distinct
  <2>3. ~Contains(t, Head(s))
    BY <2>1 DEF Distinct, Contains
  <2> QED
    BY <2>2, <2>3 DEF t
<1> QED
  BY <1>1, <1>2

\* BackgroundManager.drain takes one result after the other, and they are told.
LEMMA DrainDelivers ==
    ASSUME LoopInv, DeliverInv, DrainOne \/ DrainDone
    PROVE  DeliverInv'
<1>1. TalkTypes
  BY DEF LoopInv
<1>2. notifications \in Seq(Background) /\ taken \in Seq(Nat) /\ Background \subseteq Nat
      /\ messages \in Seq(Messages)
  BY <1>1 DEF TalkTypes, Background
<1>3. CASE DrainOne
  <2> DEFINE e == Head(notifications)
  <2>1. /\ UNCHANGED <<pc, messages, background, inbox, sent, late>>
        /\ pc = "drain" /\ notifications # <<>>
        /\ taken' = Append(taken, e) /\ notifications' = Tail(notifications)
    BY <1>3 DEF DrainOne, mailVars
  <2>2. e \in Background /\ e \in Nat
    <3>1. notifications \in Seq(Background) /\ notifications # <<>>
      BY <1>2, <2>1
    <3>2. e \in Background
      BY <3>1
    <3> QED
      BY <1>2, <3>2
  <2>3. Distinct(notifications') /\ ~Contains(notifications', e)
    BY <1>2, <2>1, DistinctEnds DEF DeliverInv
  <2>4. \A x : /\ Contains(notifications, x) <=> Contains(notifications', x) \/ x = e
               /\ Contains(taken', x) <=> Contains(taken, x) \/ x = e
    <3> HIDE DEF e
    <3>1. \A x : Contains(taken', x) <=> Contains(taken, x) \/ x = e
      BY <1>2, <2>1, <2>2, Containing
    <3> USE DEF e
    <3>2. \A x : Contains(notifications, x) <=> Contains(notifications', x) \/ x = e
      BY <1>2, <2>1, Containing
    <3> QED
      BY <3>1, <3>2
  <2>5. \A x, kind : Times(x, kind)' = Times(x, kind) /\ Times(x, kind) \in Nat
    BY <1>1, <2>1, TimesSame, TimesType
  <2> HIDE DEF e
  <2>6. ASSUME NEW b \in Background
        PROVE  /\ background[b] # "finished" =>
                    ~Contains(notifications', b) /\ ~Contains(taken', b) /\ Times(b, "background")' = 0
               /\ background[b] = "finished" =>
                    Once(Contains(notifications', b)) + Once(Contains(taken', b))
                      + Times(b, "background")' = 1
    <3>1. CASE background[b] # "finished"
      <4>1. ~Contains(notifications, b) /\ ~Contains(taken, b) /\ Times(b, "background") = 0
        BY <2>1, <3>1 DEF DeliverInv
      <4> QED
        BY <2>4, <2>5, <3>1, <4>1
    <3>2. CASE background[b] = "finished"
      <4>1. Once(Contains(notifications, b)) + Once(Contains(taken, b)) + Times(b, "background") = 1
        <5>1. Once(Contains(notifications, b)) + Once(pc = "drain" /\ Contains(taken, b))
                + Times(b, "background") = 1
          BY <3>2 DEF DeliverInv, DeliveredOnce
        <5>2. Once(pc = "drain" /\ Contains(taken, b)) = Once(Contains(taken, b))
          BY <2>1 DEF Once
        <5> QED
          BY <5>1, <5>2
      <4>2. Times(b, "background")' = Times(b, "background") /\ Times(b, "background") \in Nat
        BY <2>5
      <4>3. CASE b = e
        <5>1. Contains(notifications, b) /\ ~Contains(notifications', b) /\ Contains(taken', b)
          BY <2>3, <2>4, <4>3
        <5> QED
          BY <3>2, <4>1, <4>2, <5>1 DEF Once
      <4>4. CASE b # e
        <5>1. (Contains(notifications', b) <=> Contains(notifications, b))
              /\ (Contains(taken', b) <=> Contains(taken, b))
          BY <2>4, <4>4
        <5> QED
          BY <3>2, <4>1, <4>2, <5>1 DEF Once
      <4> QED
        BY <4>3, <4>4
    <3> QED
      BY <3>1, <3>2
  <2>7. DeliveredOnce'
    <3>1. \A b \in Background : background'[b] = "finished" =>
            Once(Contains(notifications', b)) + Once(pc' = "drain" /\ Contains(taken', b))
              + Times(b, "background")' = 1
      BY <2>1, <2>6 DEF Once
    <3>2. \A m \in (1..sent') \ late' :
            IF pc' = "truncate" /\ Contains(taken', m)
            THEN Contains(inbox', m) /\ Times(m, "inbox")' = 0
            ELSE Once(Contains(inbox', m)) + Times(m, "inbox")' = 1
      BY <2>1, <2>5 DEF DeliverInv, DeliveredOnce
    <3> QED
      BY <3>1, <3>2 DEF DeliveredOnce
  <2>8. \A m \in Nat \ (1 .. sent') : Times(m, "inbox")' = 0
    BY <2>1, <2>5 DEF DeliverInv
  <2> QED
    BY <2>1, <2>3, <2>6, <2>7, <2>8 DEF DeliverInv
<1>4. CASE DrainDone
  <2>1. /\ UNCHANGED <<notifications, background, inbox, sent, late>>
        /\ pc = "drain" /\ notifications = <<>> /\ pc' \in {"intent", "inbox"} /\ taken' = <<>>
        /\ IF taken # <<>> THEN Say("background", taken) ELSE UNCHANGED messages
    BY <1>4 DEF DrainDone, mailVars
  <2>2. \A x : ~Contains(<<>>, x)
    BY DEF Contains
  <2>3. \A x : /\ Times(x, "background")' = Times(x, "background") + Once(Contains(taken, x))
               /\ Times(x, "inbox")' = Times(x, "inbox")
               /\ Times(x, "background") \in Nat /\ Times(x, "inbox") \in Nat
    <3>1. CASE taken = <<>>
      BY <1>1, <2>1, <2>2, <3>1, TimesSame, TimesType DEF Once
    <3>2. CASE taken # <<>>
      <4>1. "background" \in Kinds
        BY DEF Kinds
      <4>2. PICK m \in Messages : /\ messages' = Append(messages, m)
                                   /\ m.kind = "background" /\ m.ids = taken
        BY <1>1, <1>2, <2>1, <3>2, <4>1, SayAppends
      <4>3. \A x : (Tells(m, "background", x) <=> Contains(taken, x)) /\ ~Tells(m, "inbox", x)
        BY <4>2 DEF Tells
      <4>4. \A x, kind : Times(x, kind) \in Nat
                         /\ Times(x, kind)' = Times(x, kind) + Once(Tells(m, kind, x))
        BY <1>1, <4>2, TimesAppend
      <4> QED
        BY <4>3, <4>4 DEF Once
    <3> QED
      BY <3>1, <3>2
  <2>4. DeliveredOnce'
    <3>1. \A b \in Background : background'[b] = "finished" =>
            Once(Contains(notifications', b)) + Once(pc' = "drain" /\ Contains(taken', b))
              + Times(b, "background")' = 1
      <4> SUFFICES ASSUME NEW b \in Background, background[b] = "finished"
                   PROVE  Once(Contains(notifications', b)) + Once(pc' = "drain" /\ Contains(taken', b))
                            + Times(b, "background")' = 1
        BY <2>1
      <4>1. Once(Contains(notifications, b)) + Once(Contains(taken, b)) + Times(b, "background") = 1
        <5>1. Once(Contains(notifications, b)) + Once(pc = "drain" /\ Contains(taken, b))
                + Times(b, "background") = 1
          BY DEF DeliverInv, DeliveredOnce
        <5>2. Once(pc = "drain" /\ Contains(taken, b)) = Once(Contains(taken, b))
          BY <2>1 DEF Once
        <5> QED
          BY <5>1, <5>2
      <4>2. ~Contains(notifications, b) /\ ~Contains(notifications', b) /\ ~Contains(taken', b)
        BY <2>1, <2>2
      <4> QED
        BY <2>1, <2>3, <4>1, <4>2 DEF Once
    <3>2. \A m \in (1..sent') \ late' :
            IF pc' = "truncate" /\ Contains(taken', m)
            THEN Contains(inbox', m) /\ Times(m, "inbox")' = 0
            ELSE Once(Contains(inbox', m)) + Times(m, "inbox")' = 1
      BY <2>1, <2>3 DEF DeliverInv, DeliveredOnce
    <3> QED
      BY <3>1, <3>2 DEF DeliveredOnce
  <2>5. \A b \in Background : background'[b] # "finished" =>
          /\ ~Contains(notifications', b) /\ ~(pc' = "drain" /\ Contains(taken', b))
          /\ Times(b, "background")' = 0
    <3> SUFFICES ASSUME NEW b \in Background, background[b] # "finished"
                 PROVE  ~Contains(notifications', b) /\ Times(b, "background")' = 0
      BY <2>1
    <3>1. ~Contains(notifications, b) /\ ~Contains(taken, b) /\ Times(b, "background") = 0
      BY <2>1 DEF DeliverInv
    <3> QED
      BY <2>1, <2>3, <3>1 DEF Once
  <2>6. \A m \in Nat \ (1 .. sent') : Times(m, "inbox")' = 0
    BY <2>1, <2>3 DEF DeliverInv
  <2> QED
    BY <2>1, <2>4, <2>5, <2>6 DEF DeliverInv
<1> QED
  BY <1>3, <1>4

\* read_inbox reads the file and empties it: what came between the two is late.
LEMMA InboxDelivers ==
    ASSUME LoopInv, DeliverInv, ReadInbox \/ Truncate
    PROVE  DeliverInv'
<1>1. TalkTypes
  BY DEF LoopInv
<1>2. \A x : ~Contains(<<>>, x)
  BY DEF Contains
<1>3. CASE ReadInbox
  <2>1. /\ UNCHANGED <<messages, notifications, background, inbox, sent, late>>
        /\ pc = "inbox" /\ pc' = "truncate" /\ taken' = inbox
    BY <1>3 DEF ReadInbox, mailVars
  <2>2. \A x, kind : Times(x, kind)' = Times(x, kind) /\ Times(x, kind) \in Nat
    BY <1>1, <2>1, TimesSame, TimesType
  <2>3. DeliveredOnce'
    <3>1. \A b \in Background : background'[b] = "finished" =>
            Once(Contains(notifications', b)) + Once(pc' = "drain" /\ Contains(taken', b))
              + Times(b, "background")' = 1
      <4> SUFFICES ASSUME NEW b \in Background, background[b] = "finished"
                   PROVE  Once(Contains(notifications', b)) + Once(pc' = "drain" /\ Contains(taken', b))
                            + Times(b, "background")' = 1
        BY <2>1
      <4>1. Once(Contains(notifications, b)) + Once(pc = "drain" /\ Contains(taken, b))
              + Times(b, "background") = 1
        BY DEF DeliverInv, DeliveredOnce
      <4> QED
        BY <2>1, <2>2, <4>1 DEF Once
    <3>2. \A m \in (1..sent') \ late' :
            IF pc' = "truncate" /\ Contains(taken', m)
            THEN Contains(inbox', m) /\ Times(m, "inbox")' = 0
            ELSE Once(Contains(inbox', m)) + Times(m, "inbox")' = 1
      <4> SUFFICES ASSUME NEW m \in (1..sent) \ late
                   PROVE  IF Contains(inbox, m)
                          THEN Contains(inbox, m) /\ Times(m, "inbox") = 0
                          ELSE Once(Contains(inbox, m)) + Times(m, "inbox") = 1
        BY <2>1, <2>2
      <4>1. Once(Contains(inbox, m)) + Times(m, "inbox") = 1
        BY <2>1 DEF DeliverInv, DeliveredOnce
      <4> QED
        BY <2>2, <4>1 DEF Once
    <3> QED
      BY <3>1, <3>2 DEF DeliveredOnce
  <2>4. \A n \in DOMAIN inbox : Contains(inbox, inbox[n])
    BY <1>1 DEF Contains, TalkTypes
  <2>5. \A m \in Nat \ (1 .. sent') : Times(m, "inbox")' = 0
    BY <2>1, <2>2 DEF DeliverInv
  <2> QED
    BY <2>1, <2>2, <2>3, <2>4, <2>5 DEF DeliverInv
<1>4. CASE Truncate
  <2>1. /\ UNCHANGED <<notifications, background, sent>>
        /\ pc = "truncate" /\ pc' = "intent" /\ taken' = <<>> /\ inbox' = <<>>
        /\ late' = late \cup (ToSet(inbox) \ ToSet(taken))
        /\ IF taken # <<>> THEN Say("inbox", taken) ELSE UNCHANGED messages
    BY <1>4 DEF Truncate
  <2>2. \A x : /\ Times(x, "inbox")' = Times(x, "inbox") + Once(Contains(taken, x))
               /\ Times(x, "background")' = Times(x, "background")
               /\ Times(x, "background") \in Nat /\ Times(x, "inbox") \in Nat
    <3>1. CASE taken = <<>>
      BY <1>1, <1>2, <2>1, <3>1, TimesSame, TimesType DEF Once
    <3>2. CASE taken # <<>>
      <4>1. "inbox" \in Kinds /\ taken \in Seq(Nat)
        BY <1>1 DEF Kinds, TalkTypes
      <4>2. PICK m \in Messages : /\ messages' = Append(messages, m)
                                   /\ m.kind = "inbox" /\ m.ids = taken
        BY <1>1, <2>1, <3>2, <4>1, SayAppends
      <4>3. \A x : (Tells(m, "inbox", x) <=> Contains(taken, x)) /\ ~Tells(m, "background", x)
        BY <4>2 DEF Tells
      <4>4. \A x, kind : Times(x, kind) \in Nat
                         /\ Times(x, kind)' = Times(x, kind) + Once(Tells(m, kind, x))
        BY <1>1, <4>2, TimesAppend
      <4> QED
        BY <4>3, <4>4 DEF Once
    <3> QED
      BY <3>1, <3>2
  <2>3. \A x : Contains(inbox, x) /\ x \notin late' => Contains(taken, x)
    BY <1>1, <2>1 DEF ToSet, Contains, TalkTypes
  <2>4. \A x : Contains(taken, x) => Contains(inbox, x)
    BY <2>1 DEF DeliverInv, Contains
  <2>5. DeliveredOnce'
    <3>1. \A b \in Background : background'[b] = "finished" =>
            Once(Contains(notifications', b)) + Once(pc' = "drain" /\ Contains(taken', b))
              + Times(b, "background")' = 1
      <4> SUFFICES ASSUME NEW b \in Background, background[b] = "finished"
                   PROVE  Once(Contains(notifications', b)) + Once(pc' = "drain" /\ Contains(taken', b))
                            + Times(b, "background")' = 1
        BY <2>1
      <4>1. Once(Contains(notifications, b)) + Once(pc = "drain" /\ Contains(taken, b))
              + Times(b, "background") = 1
        BY DEF DeliverInv, DeliveredOnce
      <4> QED
        BY <2>1, <2>2, <4>1 DEF Once
    <3>2. \A m \in (1..sent') \ late' :
            IF pc' = "truncate" /\ Contains(taken', m)
            THEN Contains(inbox', m) /\ Times(m, "inbox")' = 0
            ELSE Once(Contains(inbox', m)) + Times(m, "inbox")' = 1
      <4> SUFFICES ASSUME NEW m \in (1..sent') \ late'
                   PROVE  Once(Contains(inbox', m)) + Times(m, "inbox")' = 1
        BY <2>1
      <4>1. m \in (1..sent) \ late /\ Once(Contains(inbox', m)) = 0
        BY <1>2, <2>1 DEF Once
      <4>2. CASE Contains(taken, m)
        <5>1. Times(m, "inbox") = 0
          BY <2>1, <4>1, <4>2 DEF DeliverInv, DeliveredOnce
        <5> QED
          BY <2>2, <4>1, <4>2, <5>1 DEF Once
      <4>3. CASE ~Contains(taken, m)
        <5>1. ~Contains(inbox, m)
          BY <2>3, <4>3
        <5>2. Once(Contains(inbox, m)) + Times(m, "inbox") = 1
          BY <2>1, <4>1, <4>3 DEF DeliverInv, DeliveredOnce
        <5> QED
          BY <2>2, <4>1, <4>3, <5>1, <5>2 DEF Once
      <4> QED
        BY <4>2, <4>3
    <3> QED
      BY <3>1, <3>2 DEF DeliveredOnce
  <2>6. \A b \in Background : background'[b] # "finished" =>
          ~Contains(notifications', b) /\ Times(b, "background")' = 0
    BY <2>1, <2>2 DEF DeliverInv
  <2>7. \A m \in Nat \ (1 .. sent') : Times(m, "inbox")' = 0
    <3> SUFFICES ASSUME NEW m \in Nat \ (1 .. sent)
                 PROVE  Times(m, "inbox")' = 0
      BY <2>1
    <3>1. ~Contains(inbox, m)
      BY <1>1 DEF DeliverInv, Contains, TalkTypes
    <3>2. ~Contains(taken, m) /\ Times(m, "inbox") = 0
      BY <2>4, <3>1 DEF DeliverInv
    <3> QED
      BY <2>2, <3>2 DEF Once
  <2> QED
    BY <2>1, <2>5, <2>6, <2>7 DEF DeliverInv
<1> QED
  BY <1>3, <1>4

\* A thread finishes its task; a teammate sends a mail.
LEMMA OtherActorsDeliver ==
    ASSUME LoopInv, DeliverInv, OtherActor
    PROVE  DeliverInv'
<1>1. TalkTypes
  BY DEF LoopInv
<1>2. \A x, kind : Times(x, kind) \in Nat /\ (UNCHANGED messages => Times(x, kind)' = Times(x, kind))
  BY <1>1, TimesSame, TimesType
<1>3. CASE Send
  <2> DEFINE m0 == sent + 1
  <2>1. /\ UNCHANGED <<pc, messages, notifications, background, taken, late>>
        /\ sent' = m0 /\ inbox' = Append(inbox, m0)
    BY <1>3 DEF Send
  <2>2. sent \in Nat /\ m0 \in Nat /\ m0 \notin 1 .. sent /\ 1 .. m0 = (1 .. sent) \cup {m0}
        /\ inbox \in Seq(Nat)
    BY <1>1 DEF TalkTypes
  <2> HIDE DEF m0
  <2>3. \A x : Contains(inbox', x) <=> Contains(inbox, x) \/ x = m0
    BY <2>1, <2>2, Containing
  <2>4. \A x : Contains(inbox, x) => x \in 1 .. sent
    BY <2>2 DEF DeliverInv, Contains
  <2>5. pc = "truncate" => \A x : Contains(taken, x) => Contains(inbox, x)
    BY DEF DeliverInv, Contains
  <2>6. Times(m0, "inbox") = 0
    BY <2>2 DEF DeliverInv
  <2>7. DeliveredOnce'
    <3>1. \A b \in Background : background'[b] = "finished" =>
            Once(Contains(notifications', b)) + Once(pc' = "drain" /\ Contains(taken', b))
              + Times(b, "background")' = 1
      BY <1>2, <2>1 DEF DeliverInv, DeliveredOnce
    <3>2. ASSUME NEW m \in (1..sent') \ late'
          PROVE  IF pc' = "truncate" /\ Contains(taken', m)
                 THEN Contains(inbox', m) /\ Times(m, "inbox")' = 0
                 ELSE Once(Contains(inbox', m)) + Times(m, "inbox")' = 1
      <4>1. CASE m = m0
        <5>1. ~(pc' = "truncate" /\ Contains(taken', m)) /\ Contains(inbox', m)
          BY <2>1, <2>2, <2>3, <2>4, <2>5, <4>1
        <5>2. Times(m, "inbox")' = 0
          BY <1>2, <2>1, <2>6, <4>1
        <5> QED
          BY <5>1, <5>2 DEF Once
      <4>2. CASE m # m0
        <5>1. m \in (1 .. sent) \ late /\ (Contains(inbox', m) <=> Contains(inbox, m))
          BY <2>1, <2>2, <2>3, <3>2, <4>2
        <5>2. IF pc = "truncate" /\ Contains(taken, m)
              THEN Contains(inbox, m) /\ Times(m, "inbox") = 0
              ELSE Once(Contains(inbox, m)) + Times(m, "inbox") = 1
          BY <5>1 DEF DeliverInv, DeliveredOnce
        <5>3. Times(m, "inbox")' = Times(m, "inbox") /\ pc' = pc /\ taken' = taken
          BY <1>2, <2>1
        <5> QED
          BY <5>1, <5>2, <5>3 DEF Once
      <4> QED
        BY <4>1, <4>2
    <3> QED
      BY <3>1, <3>2 DEF DeliveredOnce
  <2>8. \A b \in Background : background'[b] # "finished" =>
          /\ ~Contains(notifications', b) /\ ~(pc' = "drain" /\ Contains(taken', b))
          /\ Times(b, "background")' = 0
    BY <1>2, <2>1 DEF DeliverInv
  <2>9. \A m \in Nat \ (1 .. sent') : Times(m, "inbox")' = 0
    BY <1>2, <2>1, <2>2 DEF DeliverInv
  <2>10. \A n \in DOMAIN inbox' : inbox'[n] \in 1 .. sent'
    <3>1. \A n \in DOMAIN inbox' : Contains(inbox', inbox'[n])
      BY <2>1, <2>2 DEF Contains
    <3> QED
      BY <2>1, <2>2, <2>3, <2>4, <3>1
  <2>11. pc' = "truncate" => \A n \in DOMAIN taken' : Contains(inbox', taken'[n])
    BY <2>1, <2>3 DEF DeliverInv
  <2> QED
    BY <2>1, <2>7, <2>8, <2>9, <2>10, <2>11 DEF DeliverInv
<1>4. CASE \E b \in Background : Finish(b)
  <2>1. PICK e \in Background : Finish(e)
    BY <1>4
  <2>2. /\ UNCHANGED <<pc, messages, taken, inbox, sent, late>>
        /\ background[e] = "running" /\ background' = [background EXCEPT ![e] = "finished"]
        /\ notifications' = Append(notifications, e)
    BY <2>1 DEF Finish, mailVars
  <2>3. notifications \in Seq(Background)
    BY <1>1 DEF TalkTypes
  <2>4. ~Contains(notifications, e) /\ ~(pc = "drain" /\ Contains(taken, e)) /\ Times(e, "background") = 0
    BY <2>2 DEF DeliverInv
  <2>5. Distinct(notifications')
    BY <2>2, <2>3, <2>4, DistinctEnds DEF DeliverInv
  <2>6. \A x : Contains(notifications', x) <=> Contains(notifications, x) \/ x = e
    BY <2>2, <2>3, Containing
  <2>7. background' \in [Background -> {"none", "running", "finished"}]
        /\ \A b \in Background : background'[b] = IF b = e THEN "finished" ELSE background[b]
    BY <2>2 DEF DeliverInv
  <2>8. ASSUME NEW b \in Background
        PROVE  /\ background'[b] # "finished" =>
                    /\ ~Contains(notifications', b) /\ ~(pc' = "drain" /\ Contains(taken', b))
                    /\ Times(b, "background")' = 0
               /\ background'[b] = "finished" =>
                    Once(Contains(notifications', b)) + Once(pc' = "drain" /\ Contains(taken', b))
                      + Times(b, "background")' = 1
    <3>1. Times(b, "background")' = Times(b, "background") /\ pc' = pc /\ taken' = taken
      BY <1>2, <2>2
    <3>2. CASE b = e
      BY <2>4, <2>6, <2>7, <3>1, <3>2 DEF Once
    <3>3. CASE b # e
      <4>1. (Contains(notifications', b) <=> Contains(notifications, b)) /\ background'[b] = background[b]
        BY <2>6, <2>7, <3>3
      <4>2. background[b] = "finished" =>
               Once(Contains(notifications, b)) + Once(pc = "drain" /\ Contains(taken, b))
                 + Times(b, "background") = 1
        BY DEF DeliverInv, DeliveredOnce
      <4>3. background[b] # "finished" =>
               /\ ~Contains(notifications, b) /\ ~(pc = "drain" /\ Contains(taken, b))
               /\ Times(b, "background") = 0
        BY DEF DeliverInv
      <4> QED
        BY <3>1, <4>1, <4>2, <4>3 DEF Once
    <3> QED
      BY <3>2, <3>3
  <2>9. DeliveredOnce'
    <3>1. \A m \in (1..sent') \ late' :
            IF pc' = "truncate" /\ Contains(taken', m)
            THEN Contains(inbox', m) /\ Times(m, "inbox")' = 0
            ELSE Once(Contains(inbox', m)) + Times(m, "inbox")' = 1
      BY <1>2, <2>2 DEF DeliverInv, DeliveredOnce
    <3> QED
      BY <2>8, <3>1 DEF DeliveredOnce
  <2>10. \A m \in Nat \ (1 .. sent') : Times(m, "inbox")' = 0
    BY <1>2, <2>2 DEF DeliverInv
  <2>11. /\ pc' \notin {"drain", "truncate"} => taken' = <<>>
         /\ \A n \in DOMAIN inbox' : inbox'[n] \in 1 .. sent'
         /\ pc' = "truncate" => \A n \in DOMAIN taken' : Contains(inbox', taken'[n])
    BY <2>2 DEF DeliverInv
  <2> QED
    BY <2>5, <2>7, <2>8, <2>9, <2>10, <2>11 DEF DeliverInv
<1> QED
  BY <1>3, <1>4 DEF OtherActor

\* No step loses or repeats what background tasks and teammates say, but for the
\* mails that arrive between a read of the inbox and its truncation.
THEOREM EveryResultDeliveredOnce == Spec => []DeliveredOnce
<1>1. Init => DeliverInv
  <2> SUFFICES ASSUME Init
               PROVE  DeliverInv
    OBVIOUS
  <2>1. messages = <<>> /\ notifications = <<>> /\ inbox = <<>> /\ taken = <<>> /\ sent = 0
        /\ pc = "repl" /\ background = [b \in Background |-> "none"]
    BY DEF Init
  <2>2. \A x, kind : Times(x, kind) = 0
    <3> SUFFICES ASSUME NEW x, NEW kind
                 PROVE  Times(x, kind) = 0
      OBVIOUS
    <3>1. {n \in DOMAIN messages : messages[n].kind = kind /\ Contains(messages[n].ids, x)} = {}
      BY <2>1
    <3> QED
      BY <3>1, FS_EmptySet DEF Times
  <2>3. \A x : ~Contains(<<>>, x)
    BY DEF Contains
  <2>4. DeliveredOnce
    <3>1. 1 .. sent = {}
      BY <2>1
    <3> QED
      BY <2>1, <3>1 DEF DeliveredOnce
  <2>5. Distinct(notifications)
    BY <2>1 DEF Distinct
  <2> QED
    BY <2>1, <2>2, <2>3, <2>4, <2>5 DEF DeliverInv
<1>2. LoopInv /\ DeliverInv /\ [Next]_vars => DeliverInv'
  <2> SUFFICES ASSUME LoopInv, DeliverInv, [Next]_vars
               PROVE  DeliverInv'
    OBVIOUS
  <2>1. CASE HookAction \/ UserAction \/ CallAction \/ SubAction
    BY <2>1, QuietActionsDeliver
  <2>2. CASE TurnAction
    BY <2>2, QuietActionsDeliver, DrainDelivers, InboxDelivers DEF TurnAction
  <2>3. CASE OtherActor
    BY <2>3, OtherActorsDeliver
  <2>4. CASE UNCHANGED vars
    <3>1. UNCHANGED <<pc, messages, background, notifications, taken, inbox, sent, late>>
      BY <2>4 DEF vars, mailVars
    <3>2. TalkTypes
      BY DEF LoopInv
    <3>3. background' \in [Background -> {"none", "running", "finished"}]
          /\ \A b \in Background : background'[b] = "finished" <=> background[b] = "finished"
      BY <3>1, StartFinishesNone
    <3> QED
      BY <3>1, <3>2, <3>3, QuietDelivers
  <2> QED
    BY <2>1, <2>2, <2>3, <2>4 DEF Next
<1>3. DeliverInv => DeliveredOnce
  BY DEF DeliverInv
<1> QED
  BY <1>1, <1>2, <1>3, LoopInvariant, PTL DEF Spec

------------------------------------------------------------------------------
(* Hooks. *)

\* register appends without sorting, so hooks stay in the order of their
\* priorities only when what is registered later has the lowest one.
AddedLast == \A n \in DOMAIN Added : \A h \in Known : Rank(h) <= Rank(Added[n])

SortedHooks ==
    \A e \in Events : \A k, l \in DOMAIN hooks[e] :
        k <= l => Rank(hooks[e][k]) <= Rank(hooks[e][l])

\* An execution has asked those hooks of the chain that it is past and that are
\* heard, in their order; it is blocked when one of them refused, and has the
\* first input that any of them gave.
SeenInv ==
    LET seen == running.seen
    IN  /\ \A n \in DOMAIN seen : \E i \in DOMAIN Chain :
              i < running.at /\ Heard(Chain[i]) /\ seen[n].hook = Chain[i]
        /\ \A i \in DOMAIN Chain : i < running.at /\ Heard(Chain[i]) =>
              \E n \in DOMAIN seen : seen[n].hook = Chain[i]
        /\ \A n, m \in DOMAIN seen : n <= m => Rank(seen[n].hook) <= Rank(seen[m].hook)
        /\ running.result.blocked <=> \E n \in DOMAIN seen : seen[n].blocked
        /\ ~running.result.blocked =>
              \/ running.result.input = NoHook /\ \A n \in DOMAIN seen : ~seen[n].updated
              \/ \E n \in DOMAIN seen :
                    /\ seen[n].updated /\ running.result.input = seen[n].hook.id
                    /\ \A m \in DOMAIN seen : m < n => ~seen[m].updated

VerdictInv == SortedHooks /\ (pc = "hooks" => SeenInv) /\ VerdictsHonoured

\* The chain of an event is sorted.
LEMMA ChainSorted ==
    ASSUME HookTypes, SortedHooks, pc = "hooks"
    PROVE  \A k, l \in DOMAIN Chain : k <= l => Rank(Chain[k]) <= Rank(Chain[l])
<1>1. running.event \in Events
  BY DEF HookTypes
<1> QED
  BY <1>1 DEF Chain, SortedHooks

\* Steps that do not touch hooks or their execution.
LEMMA ChainSame ==
    ASSUME UNCHANGED <<hooks, disabled>>, running'.event = running.event, running'.tool = running.tool
    PROVE  Chain' = Chain /\ \A h : Heard(h)' <=> Heard(h)
BY DEF Chain, Heard

LEMMA HookStepHonours ==
    ASSUME HookTypes, VerdictInv, HookStep
    PROVE  SeenInv'
<1> DEFINE seen == running.seen
           h == Chain[running.at]
           last == Len(seen) + 1
<1>1. /\ pc = "hooks" /\ running.at \in Nat /\ running.at >= 1 /\ ~running.result.blocked
      /\ seen \in Seq(Seen) /\ Chain \in Seq(Known) /\ h \in Known
      /\ running.at \in DOMAIN Chain /\ UNCHANGED <<hooks, disabled>>
  <2>1. pc = "hooks" /\ ~HooksDone /\ UNCHANGED <<hooks, disabled>>
    BY DEF HookStep
  <2>2. running \in Runnings /\ running.at >= 1
    BY <2>1 DEF HookTypes
  <2>3. running.at \in Nat /\ running.seen \in Seq(Seen)
    BY <2>2 DEF Runnings
  <2>4. Chain \in Seq(Known) /\ h \in Known
    BY <2>1, ChainTypes
  <2>5. ~(running.at > Len(Chain)) /\ ~running.result.blocked
    BY <2>1 DEF HooksDone
  <2>6. running.at \in DOMAIN Chain
    BY <2>2, <2>3, <2>4, <2>5
  <2> QED
    BY <2>1, <2>2, <2>3, <2>4, <2>5, <2>6
<1>2. SeenInv /\ \A k, l \in DOMAIN Chain : k <= l => Rank(Chain[k]) <= Rank(Chain[l])
  BY <1>1, ChainSorted DEF VerdictInv
<1>3. CASE ~Heard(h) /\ running' = Passed
  <2>1. /\ running'.at = running.at + 1 /\ running'.result = running.result
        /\ running'.seen = seen /\ Chain' = Chain /\ \A g : Heard(g)' <=> Heard(g)
    BY <1>1, <1>3, PassedTypes, ChainSame
  <2>2. \A i \in DOMAIN Chain : i < running.at + 1 /\ Heard(Chain[i]) => i < running.at
    BY <1>1, <1>3
  <2>3. \A i \in DOMAIN Chain : i < running.at => i < running.at + 1
    BY <1>1
  <2> QED
    BY <1>2, <2>1, <2>2, <2>3 DEF SeenInv
<1>4. CASE Heard(h) /\ \E r \in HookResults(h) : Heeds(h, r)
  <2>1. PICK r \in HookResults(h) : Heeds(h, r)
    BY <1>4
  <2> DEFINE s == [hook |-> h, blocked |-> r.blocked, updated |-> r.updated]
  <2>2. /\ running'.event = running.event /\ running'.tool = running.tool
        /\ running'.at = running.at + 1
        /\ running'.result = Combine(running.result, h, r)
        /\ running'.seen = Append(seen, s)
    BY <1>1, <2>1, HeedsTypes
  <2>3. Chain' = Chain /\ \A g : Heard(g)' <=> Heard(g)
    BY <1>1, <2>2, ChainSame
  <2>4. s.hook = h /\ s.blocked = r.blocked /\ s.updated = r.updated
    OBVIOUS
  <2>5. /\ DOMAIN running'.seen = DOMAIN seen \cup {last} /\ running'.seen[last] = s
        /\ \A n \in DOMAIN seen : running'.seen[n] = seen[n] /\ n < last /\ n # last
        /\ DOMAIN seen \subseteq Nat /\ last \in Nat
    <3> HIDE DEF s
    <3> QED
      BY <1>1, <2>2
  <2>6. running'.result.blocked = r.blocked
        /\ running'.result.input = IF r.updated /\ (r.blocked \/ running.result.input = NoHook) THEN h.id
                                    ELSE IF r.blocked THEN NoHook ELSE running.result.input
    BY <2>2 DEF Combine
  <2> HIDE DEF s, last, h, seen
  <2>7. \A n \in DOMAIN running'.seen : \E i \in DOMAIN Chain :
           i < running.at + 1 /\ Heard(Chain[i]) /\ running'.seen[n].hook = Chain[i]
    <3> SUFFICES ASSUME NEW n \in DOMAIN running'.seen
                 PROVE  \E i \in DOMAIN Chain :
                          i < running.at + 1 /\ Heard(Chain[i]) /\ running'.seen[n].hook = Chain[i]
      OBVIOUS
    <3>1. CASE n = last
      BY <1>1, <1>4, <2>4, <2>5, <3>1 DEF h
    <3>2. CASE n \in DOMAIN seen
      <4>1. PICK i \in DOMAIN Chain : i < running.at /\ Heard(Chain[i]) /\ seen[n].hook = Chain[i]
        BY <1>2, <3>2 DEF SeenInv, seen
      <4> QED
        BY <1>1, <2>5, <3>2, <4>1
    <3> QED
      BY <2>5, <3>1, <3>2
  <2>8. \A i \in DOMAIN Chain : i < running.at + 1 /\ Heard(Chain[i]) =>
           \E n \in DOMAIN running'.seen : running'.seen[n].hook = Chain[i]
    <3> SUFFICES ASSUME NEW i \in DOMAIN Chain, i < running.at + 1, Heard(Chain[i])
                 PROVE  \E n \in DOMAIN running'.seen : running'.seen[n].hook = Chain[i]
      OBVIOUS
    <3>1. CASE i = running.at
      BY <2>4, <2>5, <3>1 DEF h
    <3>2. CASE i < running.at
      <4>1. PICK n \in DOMAIN seen : seen[n].hook = Chain[i]
        BY <1>2, <3>2 DEF SeenInv, seen
      <4> QED
        BY <2>5, <4>1
    <3> QED
      BY <1>1, <3>1, <3>2
  <2>9. \A n, m \in DOMAIN running'.seen :
           n <= m => Rank(running'.seen[n].hook) <= Rank(running'.seen[m].hook)
    <3> SUFFICES ASSUME NEW n \in DOMAIN running'.seen, NEW m \in DOMAIN running'.seen, n <= m
                 PROVE  Rank(running'.seen[n].hook) <= Rank(running'.seen[m].hook)
      OBVIOUS
    <3>1. CASE n \in DOMAIN seen /\ m \in DOMAIN seen
      BY <1>2, <2>5, <3>1 DEF SeenInv, seen
    <3>2. CASE n = last /\ m = last
      BY <3>2, RankType
    <3>3. CASE n \in DOMAIN seen /\ m = last
      <4>1. PICK i \in DOMAIN Chain : i < running.at /\ seen[n].hook = Chain[i]
        BY <1>2, <3>3 DEF SeenInv, seen
      <4>2. Rank(Chain[i]) <= Rank(h)
        BY <1>1, <1>2, <4>1 DEF h
      <4> QED
        BY <2>4, <2>5, <3>3, <4>1, <4>2
    <3>4. CASE n = last /\ m \in DOMAIN seen
      BY <2>5, <3>4
    <3> QED
      BY <2>5, <3>1, <3>2, <3>3, <3>4
  <2>10. running'.result.blocked <=> \E n \in DOMAIN running'.seen : running'.seen[n].blocked
    <3>1. \A n \in DOMAIN seen : ~seen[n].blocked
      BY <1>1, <1>2 DEF SeenInv, seen
    <3>2. \A n \in DOMAIN seen : ~running'.seen[n].blocked
      BY <2>5, <3>1
    <3>3. running'.seen[last].blocked = r.blocked /\ running'.result.blocked = r.blocked
      BY <2>4, <2>5, <2>6
    <3> QED
      BY <2>5, <3>2, <3>3
  <2>11. ~running'.result.blocked =>
            \/ running'.result.input = NoHook /\ \A n \in DOMAIN running'.seen : ~running'.seen[n].updated
            \/ \E n \in DOMAIN running'.seen :
                  /\ running'.seen[n].updated /\ running'.result.input = running'.seen[n].hook.id
                  /\ \A m \in DOMAIN running'.seen : m < n => ~running'.seen[m].updated
    <3> SUFFICES ASSUME ~r.blocked
                 PROVE  \/ running'.result.input = NoHook /\ \A n \in DOMAIN running'.seen : ~running'.seen[n].updated
                        \/ \E n \in DOMAIN running'.seen :
                              /\ running'.seen[n].updated /\ running'.result.input = running'.seen[n].hook.id
                              /\ \A m \in DOMAIN running'.seen : m < n => ~running'.seen[m].updated
      BY <2>6
    <3>1. CASE running.result.input = NoHook /\ \A n \in DOMAIN seen : ~seen[n].updated
      <4>1. CASE r.updated
        <5>1. running'.result.input = running'.seen[last].hook.id /\ running'.seen[last].updated
          BY <2>4, <2>5, <2>6, <3>1, <4>1
        <5>2. \A m \in DOMAIN running'.seen : m < last => ~running'.seen[m].updated
          BY <2>5, <3>1
        <5> QED
          BY <2>5, <5>1, <5>2
      <4>2. CASE ~r.updated
        BY <2>4, <2>5, <2>6, <3>1, <4>2
      <4> QED
        BY <4>1, <4>2
    <3>2. CASE \E n \in DOMAIN seen :
                  /\ seen[n].updated /\ running.result.input = seen[n].hook.id
                  /\ \A m \in DOMAIN seen : m < n => ~seen[m].updated
      <4>1. PICK n \in DOMAIN seen :
                  /\ seen[n].updated /\ running.result.input = seen[n].hook.id
                  /\ \A m \in DOMAIN seen : m < n => ~seen[m].updated
        BY <3>2
      <4>2. seen[n].hook \in Known
        <5>1. seen[n] \in Seen
          BY <1>1, <4>1 DEF seen
        <5> QED
          BY <5>1 DEF Seen
      <4>3. running.result.input # NoHook
        BY <4>1, <4>2, HooksKnown
      <4>4. running'.result.input = running.result.input
        BY <2>6, <4>3
      <4>5. running'.seen[n] = seen[n] /\ n \in DOMAIN running'.seen
        BY <2>5
      <4>6. \A m \in DOMAIN running'.seen : m < n => ~running'.seen[m].updated
        BY <2>5, <4>1
      <4> QED
        BY <4>1, <4>4, <4>5, <4>6
    <3> QED
      BY <1>1, <1>2, <3>1, <3>2 DEF SeenInv, seen
  <2>12. /\ \A n \in DOMAIN running'.seen : \E i \in DOMAIN Chain' :
              i < running'.at /\ Heard(Chain[i])' /\ running'.seen[n].hook = Chain'[i]
         /\ \A i \in DOMAIN Chain' : i < running'.at /\ Heard(Chain[i])' =>
              \E n \in DOMAIN running'.seen : running'.seen[n].hook = Chain'[i]
    <3>1. running'.tool = running.tool /\ running'.at = running.at + 1 /\ Chain' = Chain
      BY <2>2, <2>3
    <3> QED
      BY <2>7, <2>8, <3>1 DEF Heard
  <2> QED
    BY <2>9, <2>10, <2>11, <2>12 DEF SeenInv
<1> QED
  BY <1>3, <1>4 DEF HookStep, Heeds, Passed

\* Nobody has been asked yet.
LEMMA FreshHonours ==
    ASSUME NEW event, NEW tool, Execute(event, tool), Chain' \in Seq(Known)
    PROVE  SeenInv'
<1>1. running'.at = 1 /\ running'.seen = <<>> /\ running'.result = Approved
  BY DEF Execute
<1>2. DOMAIN running'.seen = {}
  BY <1>1
<1>3. \A i \in DOMAIN Chain' : ~(i < running'.at)
  BY <1>1
<1>4. running'.result.blocked = FALSE /\ running'.result.input = NoHook
  BY <1>1 DEF Approved
<1> QED
  BY <1>2, <1>3, <1>4 DEF SeenInv

\* The loop does with a call what the hooks said.
LEMMA NoteHonours ==
    ASSUME HookTypes, VerdictInv, Decided("PreToolUse"),
           \/ running.result.blocked /\ Note("refused")
           \/ ~running.result.blocked /\ Note("ran")
    PROVE  VerdictsHonoured'
<1> DEFINE seen == running.seen
           due  == {Chain[i] : i \in {n \in DOMAIN Chain : Heard(Chain[n])}}
<1>1. pc = "hooks" /\ SeenInv /\ HooksDone /\ Chain \in Seq(Known)
      /\ running.at \in Nat /\ seen \in Seq(Seen)
  <2>1. pc = "hooks" /\ SeenInv /\ HooksDone
    BY DEF Decided, VerdictInv
  <2>2. running \in Runnings
    BY DEF HookTypes
  <2>3. running.at \in Nat /\ seen \in Seq(Seen)
    BY <2>2 DEF Runnings
  <2> QED
    BY <2>1, <2>3, ChainTypes
<1>2. verdict'.seen = seen /\ verdict'.input = running.result.input /\ verdict'.due = due
      /\ verdict'.fate = IF running.result.blocked THEN "refused" ELSE "ran"
  BY DEF Note
<1>3. running.result.blocked <=> {n \in DOMAIN seen : seen[n].blocked} # {}
  BY <1>1 DEF SeenInv
<1>4. ASSUME ~running.result.blocked
      PROVE  due = {seen[n].hook : n \in DOMAIN seen}
  <2>1. \A i \in DOMAIN Chain : i < running.at
    BY <1>1, <1>4 DEF HooksDone
  <2>2. \A g \in due : g \in {seen[n].hook : n \in DOMAIN seen}
    <3> SUFFICES ASSUME NEW i \in DOMAIN Chain, Heard(Chain[i])
                 PROVE  \E n \in DOMAIN seen : seen[n].hook = Chain[i]
      OBVIOUS
    <3> QED
      BY <1>1, <2>1 DEF SeenInv
  <2>3. \A n \in DOMAIN seen : seen[n].hook \in due
    BY <1>1 DEF SeenInv
  <2> HIDE DEF due
  <2> QED
    BY <2>2, <2>3
<1>5. ASSUME ~running.result.blocked
      PROVE  LET inputs == {n \in DOMAIN seen : seen[n].updated}
             IN  /\ inputs = {} => running.result.input = NoHook
                 /\ inputs # {} => \E n \in inputs :
                      /\ running.result.input = seen[n].hook.id
                      /\ \A m \in inputs : Rank(seen[n].hook) <= Rank(seen[m].hook)
  <2>1. CASE running.result.input = NoHook /\ \A n \in DOMAIN seen : ~seen[n].updated
    BY <2>1
  <2>2. CASE \E n \in DOMAIN seen :
                /\ seen[n].updated /\ running.result.input = seen[n].hook.id
                /\ \A m \in DOMAIN seen : m < n => ~seen[m].updated
    <3>1. PICK n \in DOMAIN seen :
                /\ seen[n].updated /\ running.result.input = seen[n].hook.id
                /\ \A m \in DOMAIN seen : m < n => ~seen[m].updated
      BY <2>2
    <3>2. \A m \in DOMAIN seen : seen[m].updated => n <= m
      BY <1>1, <3>1
    <3>3. \A m \in DOMAIN seen : seen[m].updated => Rank(seen[n].hook) <= Rank(seen[m].hook)
      BY <1>1, <3>2 DEF SeenInv
    <3> QED
      BY <3>1, <3>3
  <2> QED
    BY <1>1, <1>5, <2>1, <2>2 DEF SeenInv
<1> HIDE DEF due, seen
<1>6. CASE running.result.blocked
  BY <1>2, <1>3, <1>6 DEF VerdictsHonoured
<1>7. CASE ~running.result.blocked
  BY <1>2, <1>3, <1>4, <1>5, <1>7 DEF VerdictsHonoured
<1> QED
  BY <1>6, <1>7

\* Hooks that are registered later come last in the order, too.
LEMMA AddHookSorts ==
    ASSUME AddedLast, HookTypes, SortedHooks, AddHook
    PROVE  SortedHooks'
<1>1. PICK n \in DOMAIN Added : hooks' = [hooks EXCEPT !["PreToolUse"] = Append(@, Added[n])]
  BY DEF AddHook, Register
<1>2. Added[n] \in Known /\ \A h \in Known : Rank(h) <= Rank(Added[n])
  BY HooksKnown DEF AddedLast
<1>3. "PreToolUse" \in Events /\ hooks \in [Events -> Seq(Known)]
  BY DEF Events, HookTypes
<1> SUFFICES ASSUME NEW e \in Events, NEW k \in DOMAIN hooks'[e], NEW l \in DOMAIN hooks'[e], k <= l
             PROVE  Rank(hooks'[e][k]) <= Rank(hooks'[e][l])
  BY DEF SortedHooks
<1>4. CASE e # "PreToolUse"
  <2>1. hooks'[e] = hooks[e]
    BY <1>1, <1>3, <1>4
  <2> QED
    BY <2>1 DEF SortedHooks
<1>5. CASE e = "PreToolUse"
  <2> DEFINE old == hooks[e]
             new == hooks'[e]
  <2>1. old \in Seq(Known) /\ new = Append(old, Added[n])
    BY <1>1, <1>3, <1>5
  <2>2. /\ DOMAIN new = 1 .. Len(old) + 1 /\ new[Len(old) + 1] = Added[n] /\ Len(old) \in Nat
        /\ DOMAIN old = 1 .. Len(old) /\ \A i \in 1 .. Len(old) : new[i] = old[i] /\ old[i] \in Known
    <3> HIDE DEF old, new
    <3> QED
      BY <1>2, <2>1
  <2>3. CASE l = Len(old) + 1
    <3>1. new[k] \in Known
      BY <1>2, <2>2
    <3> QED
      BY <1>2, <2>2, <2>3, <3>1
  <2>4. CASE l # Len(old) + 1
    <3>1. k \in DOMAIN old /\ l \in DOMAIN old /\ new[k] = old[k] /\ new[l] = old[l]
      BY <2>2, <2>4
    <3> QED
      BY <3>1 DEF SortedHooks
  <2> QED
    BY <2>3, <2>4
<1> QED
  BY <1>4, <1>5

\* Calls run or are refused as the hooks said, whoever registered them, as long
\* as no hook is registered later that should have come earlier.
THEOREM VerdictsAreHonoured == AddedLast => (Spec => []VerdictsHonoured)
<1> SUFFICES ASSUME AddedLast
             PROVE  Spec => []VerdictsHonoured
  OBVIOUS
<1>1. Init => VerdictInv
  <2> SUFFICES ASSUME Init
               PROVE  VerdictInv
    OBVIOUS
  <2>1. SortedHooks
    BY LoadedTypes DEF SortedHooks
  <2>2. pc = "repl" /\ verdict = NoVerdict
    BY DEF Init
  <2>3. VerdictsHonoured
    BY <2>2 DEF NoVerdict, VerdictsHonoured
  <2> QED
    BY <2>1, <2>2, <2>3 DEF VerdictInv
<1>2. LoopInv /\ VerdictInv /\ [Next]_vars /\ LoopInv' => VerdictInv'
  <2> SUFFICES ASSUME LoopInv, VerdictInv, [Next]_vars, LoopInv'
               PROVE  VerdictInv'
    OBVIOUS
  <2>1. HookTypes /\ HookTypes' /\ SortedHooks /\ VerdictsHonoured
    BY DEF LoopInv, VerdictInv
  <2>2. ASSUME UNCHANGED verdict
        PROVE  VerdictsHonoured'
    BY <2>1, <2>2 DEF VerdictsHonoured
  <2>3. ASSUME UNCHANGED hooks
        PROVE  SortedHooks'
    BY <2>1, <2>3 DEF SortedHooks
  <2>4. CASE HookStep
    <3>1. UNCHANGED <<hooks, verdict>>
      BY <2>4 DEF HookStep, callVars
    <3> QED
      BY <2>1, <2>2, <2>3, <2>4, <3>1, HookStepHonours DEF VerdictInv
  <2>5. CASE AddHook
    <3>1. pc' # "hooks" /\ UNCHANGED verdict
      BY <2>5 DEF AddHook, callVars
    <3> QED
      BY <2>1, <2>2, <2>5, <3>1, AddHookSorts DEF VerdictInv
  <2>6. CASE Ask \/ LLMStops \/ BeginCall
    <3>1. UNCHANGED <<hooks, verdict>> /\ \E event, tool : Execute(event, tool)
      BY <2>6 DEF Ask, LLMStops, BeginCall, callVars
    <3>2. pc' = "hooks"
      BY <3>1 DEF Execute
    <3>3. Chain' \in Seq(Known)
      <4>1. hooks'[running'.event] \in Seq(Known)
        BY <2>1, <3>2 DEF HookTypes
      <4> QED
        BY <4>1 DEF Chain
    <3>4. SeenInv'
      BY <3>1, <3>3, FreshHonours
    <3> QED
      BY <2>2, <2>3, <3>1, <3>4 DEF VerdictInv
  <2>7. CASE RefuseCall \/ RunCall
    <3>1. /\ UNCHANGED hooks /\ pc' # "hooks" /\ Decided("PreToolUse")
          /\ \/ running.result.blocked /\ Note("refused")
             \/ ~running.result.blocked /\ Note("ran")
      BY <2>7 DEF RefuseCall, RunCall, Conclude
    <3> QED
      BY <2>1, <2>3, <3>1, NoteHonours DEF VerdictInv
  <2>8. CASE \/ ToggleHooks \/ RefuseQuery \/ EnterLoop \/ DrainOne \/ DrainDone \/ ReadInbox
            \/ Truncate \/ Classify \/ LLMFails \/ LLMCalls \/ StopDecided \/ CallsDone
            \/ SubAction
    <3>1. UNCHANGED <<hooks, verdict>> /\ pc' # "hooks"
      BY <2>8 DEF ToggleHooks, RefuseQuery, EnterLoop, DrainOne, DrainDone, ReadInbox, Truncate,
                  Classify, LLMFails, LLMCalls, StopDecided, CallsDone, SubAction, SubReturns,
                  SubTurn, Conclude, hookVars, callVars
    <3> QED
      BY <2>2, <2>3, <3>1 DEF VerdictInv
  <2>9. CASE OtherActor \/ UNCHANGED vars
    <3>1. UNCHANGED <<pc, hooks, disabled, running, verdict>>
      BY <2>9 DEF OtherActor, Send, Finish, vars, hookVars, callVars
    <3>2. pc' = "hooks" => SeenInv'
      BY <3>1 DEF VerdictInv, SeenInv, Chain, Heard
    <3> QED
      BY <2>2, <2>3, <3>1, <3>2 DEF VerdictInv
  <2> QED
    BY <2>4, <2>5, <2>6, <2>7, <2>8, <2>9 DEF Next, HookAction, UserAction, TurnAction, CallAction
<1>3. VerdictInv => VerdictsHonoured
  BY DEF VerdictInv
<1> QED
  BY <1>1, <1>2, <1>3, LoopInvariant, PTL DEF Spec
===============================================================================
