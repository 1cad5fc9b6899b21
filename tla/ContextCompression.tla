-------------------------- MODULE ContextCompression --------------------------
(***************************************************************************)
(* The conversation of the agent loop and the compression that keeps it    *)
(* within budget (src/context/budget, src/context/compression, the tick of *)
(* the orchestrator, src/compression):                                     *)
(*                                                                         *)
(*   budget reports -> OverBudgetRule -> plan -> Tier 1 clears old tool    *)
(*   results -> Tier 2 collapses middle rounds with the LLM -> Tier 3      *)
(*   summarizes everything with the LLM and keeps the last rounds          *)
(*                                                                         *)
(* Tiers 2 and 3 go through a circuit breaker.  A tier is a step of its    *)
(* own, because its LLM calls take time and the breaker looks at the clock.*)
(* With Engine = "legacy" the loop has no orchestrator and compresses by   *)
(* itself, with a breaker that never half-opens.                           *)
(***************************************************************************)

EXTENDS Integers, Sequences, SequencesExt, FiniteSetsExt

CONSTANTS
    Engine,         \* "pipeline" or "legacy"
    Goals,          \* how many things the user asks for (bound)
    MaxLen,         \* longest conversation explored (bound)
    LayersBefore,   \* layers whose budget report precedes the conversation's
    MinConsecutive, \* OverBudgetRule.min_consecutive
    Trigger,        \* tokens at which a report counts as over budget
    Target,         \* CompressionPlan.target_tokens
    MaxTier,        \* CompressionPlan.max_tier
    KeepRecent,     \* tool results Tier 1 leaves alone
    KeepHead, KeepTail, \* rounds Tier 2 leaves alone
    KeepRounds,     \* rounds Tier 3 keeps
    Window,         \* tokens of conversation the summarizer can read
    SmallGroup,     \* rounds up to this size are collapsed without the LLM
    Outcomes,       \* of the LLM: "ok", "down", "malformed" (not the JSON asked for)
    SummarizerRaises, \* a summarizer that lets the LLM's errors through
    MaxFailures, ResetTimeout,
    MaxFacts        \* cap on persistent facts

ASSUME CompressionConstants ==
    /\ Engine \in {"pipeline", "legacy"}
    /\ {LayersBefore, Goals} \subseteq Nat
    /\ {MinConsecutive, Trigger, Target, KeepRecent, KeepHead, KeepTail, KeepRounds,
        MaxFailures, ResetTimeout, MaxLen, MaxFacts, Window, SmallGroup} \subseteq Nat \ {0}
    /\ MaxTier \in 1..3
    /\ Outcomes \subseteq {"ok", "down", "malformed"}
    /\ SummarizerRaises \in BOOLEAN

VARIABLES
    conv,       \* ConversationLayer: sequence of messages
    summary,    \* SummaryLayer: the goals its entry tells of
    asked,      \* history: goals asked for so far
    breaker,    \* "closed", "open" or "half"
    failures,   \* consecutive failures, as far as they matter
    age,        \* time since the last failure, as far as it matters
    counter,    \* OverBudgetRule._consecutive
    facts,      \* number of persistent facts in the store
    pc,         \* where the agent loop is
    back,       \* where it goes on after the compression
    waited,     \* history: consecutive over-budget ticks without compression
    outage,     \* history: consecutive failed LLM calls of the tiers
    cut,        \* history: Tier 3 has cut the conversation by messages
    unread,     \* history: what the LLM did not read was cut away
    untold      \* history: Tier 2 marked something important, and told nobody

breakerVars == <<breaker, failures, age>>
memoryVars  == <<conv, summary, asked, facts>>
losses      == <<cut, unread, untold>>
vars == <<memoryVars, breakerVars, counter, pc, back, waited, outage, losses>>

Kinds == {"prompt", "text", "call", "result", "cleared", "note",
          "collapsed", "important", "compacted"}

\* w: tokens of the message, about: the goals it tells of.
Msg(kind, w, about) == [kind |-> kind, w |-> w, about |-> about]

Tokens(s) == FoldLeft(LAMBDA n, m : n + m.w, 0, s)
About(s)  == UNION {s[n].about : n \in DOMAIN s}
LastN(s, n) == SubSeq(s, (IF Len(s) > n THEN Len(s) - n ELSE 0) + 1, Len(s))

FromAssistant(m) == m.kind \in {"text", "call"}

TypeOK ==
    /\ \A n \in DOMAIN conv : /\ conv[n].kind \in Kinds
                              /\ conv[n].w \in Nat \ {0}
                              /\ conv[n].about \subseteq 1..asked
    /\ Len(conv) \in 0..MaxLen
    /\ summary \subseteq 1..asked
    /\ asked \in 0..Goals
    /\ breaker \in {"closed", "open", "half"}
    /\ failures \in 0..MaxFailures
    /\ breaker = "closed" => failures < MaxFailures
    /\ age \in 0..ResetTimeout
    /\ counter \in Nat
    /\ facts \in 0..MaxFacts
    /\ pc \in {"repl", "tick", "tier1", "tier2", "tier3", "drain", "llm"}
    /\ back \in {"repl", "drain"}
    /\ waited \in Nat
    /\ outage \in 0..MaxFailures
    /\ {cut, unread, untold} \subseteq BOOLEAN

Init ==
    /\ conv = <<>> /\ summary = {} /\ asked = 0
    /\ breaker = "closed" /\ failures = 0 /\ age = ResetTimeout
    /\ counter = 0 /\ facts = 0
    /\ pc = "repl" /\ back = "drain"
    /\ waited = 0 /\ outage = 0
    /\ cut = FALSE /\ unread = FALSE /\ untold = FALSE

------------------------------------------------------------------------------
(* CircuitBreaker *)

TimedOut == breaker = "open" /\ age = ResetTimeout

\* Bug: the comparison with reset_timeout is the wrong way round.
IsOpenReversed == breaker = "open" /\ TimedOut

\* is_open, which half-opens the breaker after the timeout.
IsOpen == breaker = "open" /\ ~TimedOut
AfterCheck == IF TimedOut THEN "half" ELSE breaker

RecordSuccess ==
    /\ breaker' = "closed" /\ failures' = 0
    /\ UNCHANGED age

RecordFailure ==
    /\ failures' = Min({failures + 1, MaxFailures})
    /\ age' = 0
    /\ breaker' = IF AfterCheck = "half" \/ failures' = MaxFailures
                  THEN "open" ELSE AfterCheck

Elapse ==
    /\ Engine = "pipeline"
    /\ breaker = "open" /\ age < ResetTimeout
    /\ age' = age + 1
    /\ UNCHANGED <<memoryVars, breaker, failures, counter, pc, back, waited, outage, losses>>

------------------------------------------------------------------------------
(* The agent loop *)

Append1(kind, w, about) ==
    /\ Len(conv) < MaxLen
    /\ conv' = Append(conv, Msg(kind, w, about))

\* The user asks for something.  A new agent_loop has a new legacy breaker.
Prompt ==
    /\ pc = "repl" /\ asked < Goals
    /\ asked' = asked + 1
    /\ Append1("prompt", 1, {asked'})
    /\ pc' = "tick" /\ back' = "drain"
    /\ IF Engine = "legacy" THEN breaker' = "closed" /\ failures' = 0 /\ outage' = 0
                            ELSE UNCHANGED <<breaker, failures, outage>>
    /\ UNCHANGED <<summary, age, counter, facts, waited, losses>>

\* The REPL command /compact resets the breaker and ticks once.
Compact ==
    /\ pc = "repl" /\ Engine = "pipeline"
    /\ breaker' = "closed" /\ failures' = 0 /\ age' = ResetTimeout /\ outage' = 0
    /\ pc' = "tick" /\ back' = "repl"
    /\ UNCHANGED <<memoryVars, counter, waited, losses>>

\* Background results and the inbox become user messages of their own.
Drain ==
    /\ pc = "drain"
    /\ pc' = "llm"
    /\ \E n \in 0..2 :
          /\ Len(conv) + n <= MaxLen
          /\ conv' = conv \o [k \in 1..n |-> Msg("note", 1, {})]
    /\ UNCHANGED <<summary, asked, facts, breakerVars, counter, back, waited, outage, losses>>

\* The answer is an error, an answer (the Stop hook may refuse it), or a round of
\* tool calls, whose results are one message.
CallLLM ==
    /\ pc = "llm"
    /\ \/ Append1("note", 1, {}) /\ pc' = "repl"
       \/ Append1("text", 1, {}) /\ pc' = "repl"
       \/ /\ Len(conv) + 1 < MaxLen
          /\ conv' = conv \o <<Msg("text", 1, {}), Msg("note", 1, {})>>
          /\ pc' = "tick"
       \/ /\ Len(conv) + 1 < MaxLen
          /\ \E w \in {1, 3} : conv' = conv \o <<Msg("call", 1, {}), Msg("result", w, {})>>
          /\ pc' = "tick"
    /\ UNCHANGED <<summary, asked, facts, breakerVars, counter, back, waited, outage, losses>>

------------------------------------------------------------------------------
(* The tiers *)

\* Tier 1, microcompact: clear all but the last KeepRecent tool results.
Cleared(s) ==
    LET results == {n \in DOMAIN s : s[n].kind \in {"result", "cleared"}}
        later(n) == Cardinality({m \in results : m > n})
    IN [n \in DOMAIN s |->
          IF n \in results /\ later(n) >= KeepRecent /\ s[n].w > 1
          THEN Msg("cleared", 1, s[n].about) ELSE s[n]]

\* Bug: every message is a round.
StartsAnywhere(s) == DOMAIN s

\* Rounds: each starts at a message of the assistant (or at the first message).
Starts(s) == {n \in DOMAIN s : n = 1 \/ FromAssistant(s[n])}
Rounds(s) == Cardinality(Starts(s))
\* Where the g-th round starts.
Start(s, g) == CHOOSE n \in Starts(s) : Cardinality({m \in Starts(s) : m <= n}) = g
Round(s, g) == SubSeq(s, Start(s, g), IF g = Rounds(s) THEN Len(s) ELSE Start(s, g + 1) - 1)
Collapsible(s) == Rounds(s) > KeepHead + KeepTail + 2
Middle(s) == KeepHead + 1 .. Rounds(s) - KeepTail
Big(s) == {g \in Middle(s) : Tokens(Round(s, g)) > SmallGroup}

\* What the LLM may make of the big middle rounds: summaries, some of them marked
\* important; nothing, when it is down (and the beginning of the raw text, kept
\* instead, may or may not tell of the goals); JSON of the wrong types.
Answers(s) ==
    LET answer(o, important, kept) == [outcome |-> o, important |-> important, kept |-> kept]
        big == Big(s)
        all == {answer("ok", i, {}) : i \in SUBSET big}
               \cup {answer("down", {}, k) : k \in SUBSET big}
               \cup {answer("malformed", {}, {})}
    IN IF big = {} THEN {answer("none", {}, {})}
                   ELSE {a \in all : a.outcome \in Outcomes}

\* A middle round becomes one message; a small one is quoted, not summarized.
Digest(s, g, a) ==
    LET r == Round(s, g) IN
    IF g \notin Big(s) THEN Msg("collapsed", Tokens(r) + 1, About(r))
    ELSE IF a.outcome = "down"
         THEN Msg("collapsed", SmallGroup, IF g \in a.kept THEN About(r) ELSE {})
         ELSE Msg(IF g \in a.important THEN "important" ELSE "collapsed", 1, About(r))

\* context_collapse: head and tail rounds verbatim, one message per middle round.
Collapse(s, a) ==
    SubSeq(s, 1, Start(s, KeepHead + 1) - 1)
    \o [k \in 1..Rounds(s) - KeepHead - KeepTail |-> Digest(s, KeepHead + k, a)]
    \o SubSeq(s, Start(s, Rounds(s) - KeepTail + 1), Len(s))

\* The messages the summarizer reads: the end of the conversation.
Readable(s) ==
    LET fits == {n \in 0..Len(s) : Tokens(LastN(s, n)) <= Window}
    IN LastN(s, Max(fits))

\* Messages are cut away; the LLM, unless it is down, has read those of s.
Loses(s, outcome) == unread' = (unread \/ outcome = "down" \/ Readable(s) # s)

Outage(outcome) ==
    outage' = CASE outcome = "none" -> outage
                [] outcome = "down" -> Min({outage + 1, MaxFailures})
                [] OTHER -> 0

------------------------------------------------------------------------------
(* orchestrator.tick *)

\* _check_layer: the report of the conversation layer.
OverBudget == Tokens(conv) >= Trigger

\* The rule sees the reports of all layers in their order: one of another layer
\* sets its counter back.
Counted == (IF LayersBefore > 0 THEN 0 ELSE counter) + 1

\* Bug: the report of now does not count.
MatchesLate == OverBudget /\ Counted > MinConsecutive

\* matches
Matches == OverBudget /\ Counted >= MinConsecutive

\* evaluate, with to_plan; a plan sets the counter back too.
Evaluate == counter' = IF Matches \/ ~OverBudget THEN 0 ELSE Counted

Tick ==
    /\ pc = "tick" /\ Engine = "pipeline"
    /\ Evaluate
    /\ pc' = IF Matches THEN "tier1" ELSE back
    /\ waited' = IF OverBudget /\ ~Matches THEN waited + 1 ELSE 0
    /\ waited' <= MaxLen
    /\ UNCHANGED <<memoryVars, breakerVars, back, outage, losses>>

Resolved(s) == Tokens(s) <= Target

\* CompressionPipeline.execute looks at the breaker, Tier 1 runs in any case.
Tier1 ==
    /\ pc = "tier1"
    /\ breaker' = AfterCheck
    /\ conv' = Cleared(conv)
    /\ pc' = IF Resolved(conv') THEN back ELSE "tier2"
    /\ UNCHANGED <<summary, asked, facts, failures, age, counter, back, waited, outage, losses>>

\* A tier whose can_run refuses.
SkipTier(tier, next) ==
    /\ IsOpen \/ MaxTier < tier
    /\ breaker' = AfterCheck
    /\ pc' = next
    /\ UNCHANGED <<memoryVars, failures, age, counter, back, waited, outage, losses>>

Tier2 ==
    /\ pc = "tier2"
    /\ \/ SkipTier(2, "tier3")
       \/ /\ ~IsOpen /\ MaxTier >= 2
          /\ \/ /\ ~Collapsible(conv)
                /\ breaker' = AfterCheck
                /\ UNCHANGED <<conv, failures, age, outage, unread, untold>>
             \/ /\ Collapsible(conv)
                /\ \E a \in Answers(conv) :
                     /\ IF a.outcome = "malformed"
                        THEN UNCHANGED conv /\ RecordFailure
                        ELSE conv' = Collapse(conv, a) /\ RecordSuccess
                     /\ Outage(a.outcome)
                     /\ unread' = (unread \/ a.outcome = "down")
                     /\ untold' = (untold \/ a.important # {})
          /\ pc' = IF Resolved(conv') THEN back ELSE "tier3"
          /\ UNCHANGED <<summary, asked, facts, counter, back, waited, cut>>

\* Bug: the summarizer is not given the existing summary.
Tier3Afresh ==
    /\ pc = "tier3" /\ ~IsOpen /\ MaxTier >= 3
    /\ summary' = About(Readable(conv))
    /\ conv' = LastN(conv, 2 * KeepRounds)
    /\ RecordSuccess
    /\ pc' = back
    /\ cut' = TRUE /\ Loses(conv, "ok")
    /\ UNCHANGED <<asked, facts, counter, back, waited, outage, untold>>

Tier3 ==
    /\ pc = "tier3"
    /\ \/ SkipTier(3, back)
       \/ /\ ~IsOpen /\ MaxTier >= 3
          /\ \E outcome \in Outcomes :
               /\ IF outcome = "down" /\ SummarizerRaises
                  THEN UNCHANGED <<conv, summary, cut, unread>> /\ RecordFailure
                  ELSE /\ summary' = IF outcome = "down" THEN {}
                                     ELSE summary \cup About(Readable(conv))
                       /\ conv' = LastN(conv, 2 * KeepRounds)
                       /\ cut' = TRUE /\ Loses(conv, outcome)
                       /\ RecordSuccess
               /\ Outage(outcome)
          /\ pc' = back
          /\ UNCHANGED <<asked, facts, counter, back, waited, untold>>

------------------------------------------------------------------------------
(* The loop without an orchestrator: microcompact, then collapse or auto_compact. *)

\* Bug: important events are marked but not reported.
LegacyCollapseSilent(s) ==
    \E a \in Answers(s) :
        /\ conv' = Collapse(s, a) /\ pc' = back
        /\ RecordSuccess
        /\ Outage(a.outcome)
        /\ unread' = (unread \/ a.outcome = "down")
        /\ UNCHANGED facts

\* A malformed answer ends agent_loop, and so does nothing else here.
LegacyCollapse(s) ==
    \E a \in Answers(s) :
        /\ IF a.outcome = "malformed"
           THEN /\ conv' = s /\ pc' = "repl"
                /\ UNCHANGED <<breakerVars, facts>>
           ELSE /\ conv' = Collapse(s, a) /\ pc' = back
                /\ facts' = Min({MaxFacts, facts + Cardinality(a.important)})
                /\ RecordSuccess
        /\ Outage(a.outcome)
        /\ unread' = (unread \/ a.outcome = "down")

\* auto_compact: one message is left.  It may fail to write the transcript.
LegacyCompact(s) ==
    /\ \/ \E outcome \in Outcomes :
           /\ conv' = <<Msg("compacted", 1, IF outcome = "down" THEN {}
                                            ELSE About(Readable(s)))>>
           /\ RecordSuccess
           /\ Outage(outcome) /\ Loses(s, outcome)
       \/ conv' = s /\ RecordFailure /\ UNCHANGED <<outage, unread>>
    /\ pc' = back
    /\ UNCHANGED facts

LegacyTick ==
    LET s == Cleared(conv) IN
    /\ pc = "tick" /\ Engine = "legacy"
    /\ IF Tokens(s) < Trigger \/ breaker = "open"
       THEN conv' = s /\ pc' = back /\ UNCHANGED <<breakerVars, facts, outage, unread>>
       ELSE IF Collapsible(s) THEN LegacyCollapse(s) ELSE LegacyCompact(s)
    /\ UNCHANGED <<summary, asked, counter, back, waited, cut, untold>>

Next ==
    \/ Elapse \/ Prompt \/ Compact \/ Drain \/ CallLLM
    \/ Tick \/ Tier1 \/ Tier2 \/ Tier3 \/ LegacyTick

Spec == Init /\ [][Next]_vars

------------------------------------------------------------------------------
(* Properties *)

\* A message of tool results stands right behind the calls it answers, whatever
\* the tiers cut away (the API refuses results without their calls): Tier 2
\* works on whole rounds.  Tier 3, which says it keeps whole rounds (stages.py),
\* cuts by messages; what it leaves without its calls is the first message only.
RoundsWhole ==
    \A n \in DOMAIN conv : conv[n].kind \in {"result", "cleared"} =>
        IF n = 1 THEN cut ELSE conv[n - 1].kind = "call"

\* Whatever the user asked for is still told by the conversation or by the
\* summary, through any number of collapses and full summarizations.
GoalsRemembered == 1..asked \subseteq About(conv) \cup summary

\* The same, as long as the LLM has read whatever was cut away: it was not down
\* then, and the messages fitted its window.
GoalsSummarized == unread \/ GoalsRemembered

\* A conversation over budget min_consecutive times in a row is compressed
\* (policy.py, OverBudgetRule).
ActsWhenOver == waited < MinConsecutive

\* While the breaker is open and the timeout runs, Tiers 2 and 3 change nothing.
FusedLeavesRounds ==
    [][breaker = "open" /\ age < ResetTimeout /\ pc \in {"tier2", "tier3"}
        => UNCHANGED <<conv, summary>>]_vars

\* max_failures consecutive failures of the LLM open the breaker (main.py, where
\* it is created).
OutageFuses == outage = MaxFailures => breaker # "closed"

\* An event that the conversation marks as important and persisted is among the
\* persistent facts (collapse.py), up to their cap.
ImportantPersisted ==
    Cardinality({n \in DOMAIN conv : conv[n].kind = "important"}) <= facts \/ facts = MaxFacts

\* So it is wherever the loop is told of the events (agent_loop's callback).
ImportantPersistedByLoop == untold \/ ImportantPersisted

==============================================================================
