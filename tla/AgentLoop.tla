------------------------------ MODULE AgentLoop ------------------------------
(***************************************************************************)
(* The REPL and the agent loop (main.py, src/agent/loop.py) with hooks,    *)
(* intent gate, background tasks, the lead's inbox and sub-agents:         *)
(*                                                                         *)
(*   query -> UserPromptSubmit -> drain background results -> read inbox   *)
(*   -> intent -> LLM -> for each call: PreToolUse -> run -> result -> LLM *)
(*   ... -> Stop                                                           *)
(*                                                                         *)
(* The threads of background tasks and the teammates that write to the     *)
(* inbox run between any two steps.  The conversation is within its budget *)
(* here; ContextCompression is about the rest.  Hooks on SessionStart and  *)
(* PostToolUse run as well, but nobody looks at what they answer.          *)
(***************************************************************************)

EXTENDS Hooks, SequencesExt, FiniteSetsExt

CONSTANTS
    Config,       \* hooks of the settings, by event
    Added,        \* hooks that are registered later, for PreToolUse
    Routes,       \* intent -> tools offered for it, those always available included
    UnsafeKinds,  \* kinds of messages that may contain what the gate calls unsafe
    HasLLM,       \* whether set_llm was called: main.py does not
    CutAnswers,   \* answers that max_tokens cuts off may contain calls
    MaxTurns,     \* turns of a sub-agent
    MaxQueries, MaxCalls, MaxBackground, MaxMail, MaxMessages  \* bounds

ASSUME AgentConstants ==
    /\ {MaxQueries, MaxCalls, MaxBackground, MaxMail, MaxMessages} \subseteq Nat
    /\ MaxTurns \in Nat \ {0}
    /\ {CutAnswers, HasLLM} \subseteq BOOLEAN

\* The hooks of the settings and the later ones; 0 stands for no hook.
Known == UNION {ToSet(Config[e]) : e \in DOMAIN Config} \cup ToSet(Added)

ASSUME HooksKnown ==
    /\ \A e \in DOMAIN Config : Config[e] \in Seq(Known)
    /\ Added \in Seq(Known)
    /\ \A h \in Known : h.id # NoHook

VARIABLES
    pc,            \* where the program is
    messages,      \* the conversation
    query,         \* what the user asks: [unsafe]
    asked,         \* number of queries so far
    hooks,         \* HookManager._hooks
    disabled,      \* HookManager._disabled
    running,       \* the execution of hooks: [event, tool, at, result, seen]
    intent,        \* of the current turn
    calls,         \* calls of the current answer: [id, tool]
    results,       \* their results so far: [id, fate]
    usedTodo, idleTurns, \* for the reminder of the todo list
    background,    \* state of each background task
    notifications, \* finished ones nobody was told of
    inbox,         \* .team/inbox/lead.jsonl
    taken,         \* what drain or read_inbox has in hands
    sent,          \* number of mails so far
    late,          \* history: mails that arrived between a read and its truncation
    sub,           \* the sub-agent: [type, turn]
    verdict        \* history: the call decided last, and what was said of it

hookVars == <<hooks, disabled, running>>
callVars == <<calls, results, usedTodo, idleTurns, sub, verdict>>
mailVars == <<inbox, sent, late>>
vars == <<pc, messages, query, asked, hookVars, intent, callVars, background,
          notifications, taken, mailVars>>

Tools      == UNION {Routes[i] : i \in DOMAIN Routes}
Background == 1..MaxBackground
NagAfter   == 3
NoRun      == [event |-> "none", tool |-> "", at |-> 0, result |-> Approved, seen |-> <<>>]
NoSub      == [type |-> "none", turn |-> 0]
NoVerdict  == [fate |-> "none", input |-> NoHook, seen |-> <<>>, due |-> {}]

Message(role, kind, unsafe, ids, stop) ==
    [role |-> role, kind |-> kind, unsafe |-> unsafe, ids |-> ids, stop |-> stop]

\* ConversationLayer.add_message; contents of some kinds may look unsafe.
Say(kind, ids) ==
    \E unsafe \in IF kind \in UnsafeKinds THEN BOOLEAN ELSE {FALSE} :
        messages' = Append(messages, Message("user", kind, unsafe, ids, "none"))

Init ==
    /\ pc = "repl" /\ messages = <<>> /\ query = FALSE /\ asked = 0
    /\ hooks = LoadFromConfig([e \in Events |-> <<>>], Config)
    /\ disabled = FALSE /\ running = NoRun
    /\ intent = "knowledge" /\ calls = <<>> /\ results = <<>>
    /\ usedTodo = FALSE /\ idleTurns = 0
    /\ background = [b \in Background |-> "none"] /\ notifications = <<>>
    /\ inbox = <<>> /\ taken = <<>> /\ sent = 0 /\ late = {}
    /\ sub = NoSub /\ verdict = NoVerdict

------------------------------------------------------------------------------
(* Hooks. *)

Execute(event, tool) ==
    /\ pc' = "hooks"
    /\ running' = [event |-> event, tool |-> tool, at |-> 1, result |-> Approved,
                   seen |-> <<>>]

\* _get_matching, without the hooks that do not match: those are passed over below.
Chain == IF disabled THEN <<>> ELSE hooks[running.event]

Heard(h) == Runs(h, running.tool, HasLLM)

HooksDone == running.at > Len(Chain) \/ running.result.blocked

\* One hook of the event: it runs and answers, or is passed over.
HookStep ==
    /\ pc = "hooks" /\ ~HooksDone
    /\ LET h == Chain[running.at] IN
       \/ /\ Heard(h)
          /\ \E r \in HookResults(h) :
                running' = [running EXCEPT !.at = @ + 1,
                                           !.result = Combine(@, h, r),
                                           !.seen = Append(@, [hook |-> h, blocked |-> r.blocked,
                                                                   updated |-> r.updated])]
       \/ ~Heard(h) /\ running' = [running EXCEPT !.at = @ + 1]
    /\ UNCHANGED <<pc, messages, query, asked, hooks, disabled, intent, callVars,
                   background, notifications, taken, mailVars>>

Decided(event) == pc = "hooks" /\ running.event = event /\ HooksDone

\* The program may register hooks, and switch all of them off and on.
AddHook ==
    /\ pc = "repl"
    /\ \E n \in DOMAIN Added :
          /\ n = 1 + Cardinality({i \in DOMAIN hooks["PreToolUse"] :
                                    \E m \in DOMAIN Added : hooks["PreToolUse"][i] = Added[m]})
          /\ hooks' = Register(hooks, "PreToolUse", Added[n])
    /\ UNCHANGED <<pc, messages, query, asked, disabled, running, intent, callVars,
                   background, notifications, taken, mailVars>>

ToggleHooks ==
    /\ pc = "repl"
    /\ disabled' = ~disabled
    /\ UNCHANGED <<pc, messages, query, asked, hooks, running, intent, callVars,
                   background, notifications, taken, mailVars>>

------------------------------------------------------------------------------
(* The REPL. *)

Ask ==
    /\ pc = "repl" /\ asked < MaxQueries
    /\ query' \in IF "query" \in UnsafeKinds THEN BOOLEAN ELSE {FALSE}
    /\ asked' = asked + 1
    /\ Execute("UserPromptSubmit", "")
    /\ UNCHANGED <<messages, hooks, disabled, intent, callVars, background,
                   notifications, taken, mailVars>>

RefuseQuery ==
    /\ Decided("UserPromptSubmit") /\ running.result.blocked
    /\ pc' = "repl" /\ running' = NoRun
    /\ UNCHANGED <<messages, query, asked, hooks, disabled, intent, callVars,
                   background, notifications, taken, mailVars>>

\* The counter of the reminder is a local of agent_loop.
EnterLoop ==
    /\ Decided("UserPromptSubmit") /\ ~running.result.blocked
    /\ messages' = Append(messages, Message("user", "query", query, <<>>, "none"))
    /\ pc' = "drain" /\ running' = NoRun /\ idleTurns' = 0 /\ query' = FALSE
    /\ UNCHANGED <<asked, hooks, disabled, intent, calls, results, usedTodo,
                   sub, verdict, background, notifications, taken, mailVars>>

------------------------------------------------------------------------------
(* Background tasks and the inbox. *)

\* The thread of a task: its notification is put last.
Finish(b) ==
    /\ background[b] = "running"
    /\ background' = [background EXCEPT ![b] = "finished"]
    /\ notifications' = Append(notifications, b)
    /\ UNCHANGED <<pc, messages, query, asked, hookVars, intent, callVars, taken, mailVars>>

\* Bug: The queue is read, not emptied.
DrainCopies ==
    /\ pc = "drain" /\ notifications # <<>>
    /\ taken' = notifications
    /\ notifications' = <<>>
    /\ Say("background", notifications)
    /\ UNCHANGED <<pc, query, asked, hookVars, intent, callVars, background, mailVars>>

\* BackgroundManager.drain, one turn of its loop.
DrainOne ==
    /\ pc = "drain" /\ notifications # <<>>
    /\ taken' = Append(taken, Head(notifications))
    /\ notifications' = Tail(notifications)
    /\ UNCHANGED <<pc, messages, query, asked, hookVars, intent, callVars, background, mailVars>>

\* An inbox nobody wrote to does not exist.
DrainDone ==
    /\ pc = "drain" /\ notifications = <<>>
    /\ IF taken # <<>> THEN Say("background", taken) ELSE UNCHANGED messages
    /\ taken' = <<>>
    /\ pc' = IF sent = 0 THEN "intent" ELSE "inbox"
    /\ UNCHANGED <<query, asked, hookVars, intent, callVars, background, notifications, mailVars>>

\* A teammate appends to the file, in a process of its own.
Send ==
    /\ sent < MaxMail
    /\ sent' = sent + 1
    /\ inbox' = Append(inbox, sent + 1)
    /\ UNCHANGED <<pc, messages, query, asked, hookVars, intent, callVars, background,
                   notifications, taken, late>>

\* MessageBus.read_inbox reads ...
ReadInbox ==
    /\ pc = "inbox"
    /\ taken' = inbox
    /\ pc' = "truncate"
    /\ UNCHANGED <<messages, query, asked, hookVars, intent, callVars, background,
                   notifications, mailVars>>

\* ... and empties the file.
Truncate ==
    /\ pc = "truncate"
    /\ late' = late \cup (ToSet(inbox) \ ToSet(taken))
    /\ inbox' = <<>>
    /\ IF taken # <<>> THEN Say("inbox", taken) ELSE UNCHANGED messages
    /\ taken' = <<>>
    /\ pc' = "intent"
    /\ UNCHANGED <<query, asked, hookVars, intent, callVars, background, notifications, sent>>

------------------------------------------------------------------------------
(* Intent and LLM. *)

LastUser == messages[Max({i \in DOMAIN messages : messages[i].role = "user"})]

\* Any words may mean any intent, but the unsafe ones are looked for first.
Classify ==
    /\ pc = "intent"
    /\ IF LastUser.unsafe
       THEN /\ Say("refusal", <<>>)
            /\ pc' = "repl"
            /\ UNCHANGED intent
       ELSE /\ intent' \in DOMAIN Routes
            /\ pc' = "llm"
            /\ UNCHANGED messages
    /\ UNCHANGED <<query, asked, hookVars, callVars, background, notifications, taken, mailVars>>

LLMFails ==
    /\ pc = "llm"
    /\ Say("api error", <<>>)
    /\ pc' = "repl"
    /\ UNCHANGED <<query, asked, hookVars, intent, callVars, background, notifications,
                   taken, mailVars>>

\* Calls are numbered through the conversation.
CallsMade == Cardinality(UNION {ToSet(messages[n].ids) :
                 n \in {m \in DOMAIN messages : messages[m].role = "assistant"}})

Answer(stop, n) ==
    messages' = Append(messages, Message("assistant", "answer", FALSE,
                                         [k \in 1..n |-> CallsMade + k], stop))

\* The LLM asks for tools it was offered.
LLMCalls ==
    /\ pc = "llm" /\ Len(messages) < MaxMessages
    /\ \E n \in 1..2 : \E tools \in [1..n -> Routes[intent]] :
          /\ CallsMade + n <= MaxCalls
          /\ Answer("tool_use", n)
          /\ calls' = [k \in 1..n |-> [id |-> CallsMade + k, tool |-> tools[k]]]
    /\ results' = <<>> /\ usedTodo' = FALSE
    /\ pc' = "call"
    /\ UNCHANGED <<query, asked, hookVars, intent, idleTurns, sub, verdict, background,
                   notifications, taken, mailVars>>

\* An answer that ends the turn, or that max_tokens cuts off: its calls are not run.
LLMStops ==
    /\ pc = "llm" /\ Len(messages) < MaxMessages
    /\ calls' = <<>>
    /\ \/ Answer("end_turn", 0)
       \/ CutAnswers /\ CallsMade < MaxCalls /\ Answer("max_tokens", 1)
    /\ Execute("Stop", "")
    /\ UNCHANGED <<query, asked, hooks, disabled, intent, results, usedTodo, idleTurns,
                   sub, verdict, background, notifications, taken, mailVars>>

\* The Stop hook sends the model on, or the program waits for the next query.
\* The stderr of the hook, which was to be said, is not in the merged result.
StopDecided ==
    /\ Decided("Stop")
    /\ IF running.result.exit = 2
       THEN Say("continue", <<>>) /\ pc' = "drain"
       ELSE UNCHANGED messages /\ pc' = "repl"
    /\ running' = NoRun
    /\ UNCHANGED <<query, asked, hooks, disabled, intent, callVars, background,
                   notifications, taken, mailVars>>

------------------------------------------------------------------------------
(* Tool calls. *)

Current == calls[Len(results) + 1]

\* The result of the current call, and what the hooks had said.
Conclude(fate) ==
    /\ results' = Append(results, [id |-> Current.id, fate |-> fate])
    /\ pc' = "call"

Note(fate) ==
    verdict' = [fate |-> fate, input |-> running.result.input, seen |-> running.seen,
                due |-> {Chain[i] : i \in {n \in DOMAIN Chain : Heard(Chain[n])}}]

BeginCall ==
    /\ pc = "call" /\ Len(results) < Len(calls)
    /\ Execute("PreToolUse", Current.tool)
    /\ UNCHANGED <<messages, query, asked, hooks, disabled, intent, callVars,
                   background, notifications, taken, mailVars>>

\* Bug: A refused call has no result.
RefuseSilently ==
    /\ Decided("PreToolUse") /\ running.result.blocked
    /\ calls' = SelectSeq(calls, LAMBDA c : c # Current)
    /\ Note("refused") /\ pc' = "call"
    /\ running' = NoRun
    /\ UNCHANGED <<messages, query, asked, hooks, disabled, intent, results, usedTodo,
                   idleTurns, sub, background, notifications, taken, mailVars>>

RefuseCall ==
    /\ Decided("PreToolUse") /\ running.result.blocked
    /\ Conclude("refused") /\ Note("refused")
    /\ running' = NoRun
    /\ UNCHANGED <<messages, query, asked, hooks, disabled, intent, calls, usedTodo,
                   idleTurns, sub, background, notifications, taken, mailVars>>

\* BackgroundManager.run starts a thread for the lowest task that is new.
StartBackground ==
    LET new == {b \in Background : background[b] = "none"}
    IN  background' = IF new = {} THEN background
                      ELSE [background EXCEPT ![Min(new)] = "running"]

\* ToolRegistry.execute; whatever a tool raises is a text.  "task" takes turns.
RunCall ==
    /\ Decided("PreToolUse") /\ ~running.result.blocked
    /\ Note("ran")
    /\ IF Current.tool = "task"
       THEN /\ sub' \in [type : {"Explore", "general-purpose"}, turn : {0}]
            /\ pc' = "sub"
            /\ UNCHANGED <<results, background>>
       ELSE /\ Conclude("ran")
            /\ IF Current.tool = "background_run" THEN StartBackground ELSE UNCHANGED background
            /\ UNCHANGED sub
    /\ usedTodo' = (usedTodo \/ Current.tool = "TodoWrite")
    /\ running' = NoRun
    /\ UNCHANGED <<messages, query, asked, hooks, disabled, intent, calls, idleTurns,
                   notifications, taken, mailVars>>

\* run_subagent: the LLM ends, or raises, or has tools run, no hooks asked.
SubReturns ==
    /\ pc = "sub"
    /\ Conclude("ran") /\ sub' = NoSub
    /\ UNCHANGED <<messages, query, asked, hookVars, intent, calls, usedTodo, idleTurns,
                   verdict, background, notifications, taken, mailVars>>

\* Bug: the turns of a sub-agent start again when they are used up.
SubTurnForever ==
    /\ pc = "sub"
    /\ sub' = [sub EXCEPT !.turn = (@ + 1) % MaxTurns]
    /\ UNCHANGED <<pc, messages, query, asked, hookVars, intent, calls, results, usedTodo,
                   idleTurns, verdict, background, notifications, taken, mailVars>>

SubTurn ==
    /\ pc = "sub"
    /\ IF sub.turn + 1 < MaxTurns
       THEN sub' = [sub EXCEPT !.turn = @ + 1] /\ UNCHANGED <<results, pc>>
       ELSE sub' = NoSub /\ Conclude("ran")
    /\ \E t \in ToolsForAgent(Tools, sub.type) :
          IF t = "background_run" THEN StartBackground ELSE UNCHANGED background
    /\ UNCHANGED <<messages, query, asked, hookVars, intent, calls, usedTodo, idleTurns,
                   verdict, notifications, taken, mailVars>>

\* All calls are done: the results are said, the reminder after too many turns
\* without the todo list among them.
CallsDone ==
    /\ pc = "call" /\ Len(results) = Len(calls)
    /\ Say("results", [n \in DOMAIN results |-> results[n].id])
    /\ idleTurns' = IF usedTodo THEN 0 ELSE Min({idleTurns + 1, NagAfter})
    /\ calls' = <<>> /\ results' = <<>>
    /\ pc' = "drain"
    /\ UNCHANGED <<query, asked, hookVars, intent, usedTodo, sub, verdict, background,
                   notifications, taken, mailVars>>

------------------------------------------------------------------------------
HookAction == HookStep \/ AddHook \/ ToggleHooks
UserAction == Ask \/ RefuseQuery \/ EnterLoop
TurnAction == DrainOne \/ DrainDone \/ ReadInbox \/ Truncate \/ Classify \/ LLMFails
              \/ LLMCalls \/ LLMStops \/ StopDecided
CallAction == BeginCall \/ RefuseCall \/ RunCall \/ CallsDone
SubAction  == SubReturns \/ SubTurn
OtherActor == Send \/ \E b \in Background : Finish(b)

Next == HookAction \/ UserAction \/ TurnAction \/ CallAction \/ SubAction \/ OtherActor

Spec == Init /\ [][Next]_vars

\* A call of the LLM ends some time, by an answer or by the client's timeout.
FairSpec == Spec /\ WF_vars(SubAction)

------------------------------------------------------------------------------
\* Every variable has values of its kind.
TypeOK ==
    /\ pc \in {"repl", "hooks", "drain", "inbox", "truncate", "intent", "llm", "call", "sub"}
    /\ asked \in 0..MaxQueries /\ sent \in 0..MaxMail
    /\ {query, disabled, usedTodo} \subseteq BOOLEAN
    /\ idleTurns \in 0..NagAfter /\ sub.turn \in 0..(MaxTurns - 1)
    /\ intent \in DOMAIN Routes
    /\ \A b \in Background : background[b] \in {"none", "running", "finished"}
    /\ late \subseteq 1..MaxMail

\* When the LLM is asked, every answer that asked for tools is followed by a
\* message with one result for each of its calls, in order: also when a hook
\* refuses a call, a tool raises or a sub-agent gives up (loop.py, tool execution).
CallsAnswered ==
    pc = "llm" =>
        \A n \in DOMAIN messages : messages[n].stop = "tool_use" =>
            /\ n < Len(messages)
            /\ messages[n + 1].kind = "results"
            /\ messages[n + 1].ids = messages[n].ids

\* A call runs only after every synchronous hook that matches it has agreed, with
\* the input of the hook of highest priority that gave one, and one refusal is
\* enough (hooks.py, HookManager.execute).
VerdictsHonoured ==
    LET seen     == verdict.seen
        refusals == {n \in DOMAIN seen : seen[n].blocked}
        inputs   == {n \in DOMAIN seen : seen[n].updated}
    IN  /\ verdict.fate = "refused" <=> refusals # {}
        /\ verdict.fate = "ran" =>
             /\ verdict.due = {seen[n].hook : n \in DOMAIN seen}
             /\ inputs = {} => verdict.input = NoHook
             /\ inputs # {} => \E n \in inputs :
                   /\ verdict.input = seen[n].hook.id
                   /\ \A m \in inputs : Rank(seen[n].hook) <= Rank(seen[m].hook)

Times(x, kind) ==
    Cardinality({n \in DOMAIN messages : messages[n].kind = kind /\ Contains(messages[n].ids, x)})

Once(b) == IF b THEN 1 ELSE 0

\* A finished background task is in the queue, in the hands of the loop or in the
\* conversation, and in one of them only; a mail likewise, unless it arrived
\* between the read of the inbox and its truncation (BackgroundManager, read_inbox).
DeliveredOnce ==
    /\ \A b \in Background : background[b] = "finished" =>
          Once(Contains(notifications, b)) + Once(pc = "drain" /\ Contains(taken, b))
            + Times(b, "background") = 1
    /\ \A m \in (1..sent) \ late :
          IF pc = "truncate" /\ Contains(taken, m)
          THEN Contains(inbox, m) /\ Times(m, "inbox") = 0
          ELSE Once(Contains(inbox, m)) + Times(m, "inbox") = 1

\* A sub-agent comes back to the agent that called it, whatever its LLM asks for.
SubagentReturns == pc = "sub" ~> pc # "sub"

------------------------------------------------------------------------------
(* Promises of the documentation that the code does not keep. *)

\* intent.py:10: destructive intents can be blocked before the LLM sees them.
UnsafeUnseen == pc = "llm" =>
    \A n \in DOMAIN messages : messages[n].kind = "query" => ~messages[n].unsafe

\* No mail is lost.
NoMailLost == late = {}

\* Every call of every answer has a result when the LLM is asked again.
AllCallsAnswered ==
    pc = "llm" =>
        \A n \in DOMAIN messages : messages[n].role = "assistant" /\ messages[n].ids # <<>> =>
            n < Len(messages) /\ messages[n + 1].ids = messages[n].ids

==============================================================================
