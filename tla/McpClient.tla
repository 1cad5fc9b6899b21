------------------------------ MODULE McpClient ------------------------------
(***************************************************************************)
(* The MCP client (src/bus/mcp_client.py) and the servers it talks to.     *)
(* Main starts the servers one after the other and registers their tools;  *)
(* then clients call tools, each call one request on the server's pipe.    *)
(* The servers are processes of others: they answer in any order, write    *)
(* other lines, and die.                                                   *)
(***************************************************************************)

EXTENDS Integers, Sequences, FiniteSets, Functions

CONSTANTS
    Servers,     \* the configured servers that are not disabled, in order
    Clients,     \* threads that call tools
    Main,        \* the thread that starts and stops the servers
    ToolsOf,     \* server -> its tools
    AgentName(_, _), \* mcp_<server>_<tool> with "-" made "_"
    Noise,       \* kinds of lines a server may write unasked
    Noisy,       \* whether servers write to stderr, which nobody reads
    MaxCalls, MaxNoise, StderrRoom \* bounds

VARIABLES
    starting,  \* index of the server that start_all is at
    phase,     \* "start", "serve", "stopped", or "crashed"
    proc,      \* server -> "none", "up", or "dead"
    nextId,    \* server -> MCPServerConnection._request_id
    lock,      \* server -> who holds _lock
    stdin,     \* server -> requests in its pipe
    owed,      \* server -> ids it has read and not answered
    stdout,    \* server -> lines in its pipe: [kind, id]
    stderr,    \* server -> how much of that pipe is full
    tools,     \* server -> MCPServerConnection._tools
    handlers,  \* name in the ToolRegistry -> [server, tool]
    call,      \* thread -> [at, server, method, id]
    got,       \* history: thread -> how its last request ended: [how, id, line]
    made       \* number of calls and of unasked lines so far

pipes == <<stdin, owed, stdout, stderr>>
vars  == <<starting, phase, proc, nextId, lock, pipes, tools, handlers, call, got, made>>

Names   == {Servers[i] : i \in DOMAIN Servers}
Threads == Clients \cup {Main}
Nobody  == "nobody"
NoLine  == [kind |-> "none", id |-> 0]
Idle    == [at |-> "idle", server |-> Nobody, method |-> "none", id |-> 0]

Request(s, method) == [at |-> "wait", server |-> s, method |-> method, id |-> 0]

Init ==
    /\ starting = 1 /\ phase = "start"
    /\ proc = [s \in Names |-> "none"]
    /\ nextId = [s \in Names |-> 0]
    /\ lock = [s \in Names |-> Nobody]
    /\ stdin = [s \in Names |-> <<>>]
    /\ owed = [s \in Names |-> {}]
    /\ stdout = [s \in Names |-> <<>>]
    /\ stderr = [s \in Names |-> 0]
    /\ tools = [s \in Names |-> {}]
    /\ handlers = <<>>
    /\ call = [t \in Threads |-> Idle]
    /\ got = [t \in Threads |-> [how |-> "none", id |-> 0, line |-> NoLine]]
    /\ made = [calls |-> 0, noise |-> 0]

------------------------------------------------------------------------------
\* start_all: the process, then initialize, a notification, and tools/list.
Launch ==
    /\ phase = "start" /\ starting \in DOMAIN Servers /\ call[Main] = Idle
    /\ LET s == Servers[starting]
       IN  \/ /\ proc' = [proc EXCEPT ![s] = "up"]
              /\ call' = [call EXCEPT ![Main] = Request(s, "initialize")]
              /\ UNCHANGED starting
           \/ /\ starting' = starting + 1       \* FileNotFoundError
              /\ UNCHANGED <<proc, call>>
    /\ UNCHANGED <<phase, nextId, lock, pipes, tools, handlers, got, made>>

\* What start does with the end of a request; how is "ok", "empty", "error"
\* (an MCPServerError, which start_all notes), or "raised" (which it does not).
Proceed(how) ==
    LET s == call[Main].server
        m == call[Main].method
        goesOn == m = "initialize" /\ how = "ok" /\ proc[s] = "up"
    IN  /\ call' = [call EXCEPT ![Main] = IF goesOn THEN Request(s, "tools/list") ELSE Idle]
        /\ tools' = [tools EXCEPT ![s] = IF m = "tools/list" /\ how = "ok" THEN ToolsOf[s] ELSE @]
        /\ phase' = IF how = "raised" THEN "crashed" ELSE phase
        /\ starting' = IF goesOn THEN starting ELSE starting + 1

\* register_tools, for the servers that are up; a later tool takes over a name.
Register ==
    /\ phase = "start" /\ starting = Len(Servers) + 1
    /\ LET Claims(n) == {c \in (DOMAIN Servers) \X UNION Range(ToolsOf) :
                            /\ proc[Servers[c[1]]] = "up" /\ c[2] \in tools[Servers[c[1]]]
                            /\ AgentName(Servers[c[1]], c[2]) = n}
           Offered == {AgentName(s, t) : s \in Names, t \in UNION Range(ToolsOf)}
           Last(n) == CHOOSE c \in Claims(n) : \A d \in Claims(n) : d[1] <= c[1]
       IN  handlers' = [n \in {o \in Offered : Claims(o) # {}} |->
                           [server |-> Servers[Last(n)[1]], tool |-> Last(n)[2]]]
    /\ phase' = "serve"
    /\ UNCHANGED <<starting, proc, nextId, lock, pipes, tools, call, got, made>>

\* The handler of a registered tool: call_tool on the server it was made for.
CallTool(c, name) ==
    /\ phase = "serve" /\ call[c] = Idle /\ made.calls < MaxCalls
    /\ call' = [call EXCEPT ![c] = Request(handlers[name].server, "tools/call")]
    /\ made' = [made EXCEPT !.calls = @ + 1]
    /\ UNCHANGED <<starting, phase, proc, nextId, lock, pipes, tools, handlers, got>>

------------------------------------------------------------------------------
\* A request that ends gives up the lock.
End(t, how, line) ==
    LET s == call[t].server
    IN  /\ lock' = [lock EXCEPT ![s] = Nobody]
        /\ got' = [got EXCEPT ![t] = [how |-> how, id |-> nextId[s], line |-> line]]
        /\ IF t = Main THEN Proceed(how)
           ELSE /\ call' = [call EXCEPT ![t] = Idle]
                /\ UNCHANGED <<tools, phase, starting>>

\* Bug: the lock is for the id and the writing alone.
SendUnlocked(t) ==
    /\ call[t].at = "wait"
    /\ LET s == call[t].server
           id == nextId[s] + 1
       IN  /\ lock[s] = Nobody /\ proc[s] = "up"
           /\ nextId' = [nextId EXCEPT ![s] = id]
           /\ stdin' = [stdin EXCEPT ![s] = Append(@, id)]
           /\ call' = [call EXCEPT ![t].at = "receive", ![t].id = id]
    /\ UNCHANGED <<starting, phase, proc, lock, owed, stdout, stderr, tools, handlers, got, made>>

\* _request takes the lock and an id and sends, if the server is up.
Send(t) ==
    /\ call[t].at = "wait"
    /\ LET s == call[t].server
           id == nextId[s] + 1
       IN  /\ lock[s] = Nobody
           /\ nextId' = [nextId EXCEPT ![s] = id]
           /\ \/ /\ proc[s] = "up"
                 /\ lock' = [lock EXCEPT ![s] = t]
                 /\ stdin' = [stdin EXCEPT ![s] = Append(@, id)]
                 /\ call' = [call EXCEPT ![t].at = "receive", ![t].id = id]
                 /\ UNCHANGED <<got, tools, phase, starting>>
              \/ /\ proc[s] = "dead"
                 /\ End(t, "error", NoLine)
                 /\ UNCHANGED stdin
    /\ UNCHANGED <<proc, owed, stdout, stderr, handlers, made>>

\* Bug: the next line that is an answer is the answer.
AnyAnswer(t, line) == line.kind \in {"answer", "error", "empty"}

IsAnswer(t, line) == line.kind # "notice" /\ line.id = call[t].id

\* What _request makes of an answer: a result, an MCPServerError, or neither.
Outcome(line) ==
    IF line.kind = "answer" THEN "ok" ELSE IF line.kind = "error" THEN "error" ELSE "empty"

\* _recv in the loop of _request.  A line that is no JSON ends the request as
\* the end of the server does; one that is JSON but no object raises.
Receive(t) ==
    /\ call[t].at = "receive"
    /\ LET s == call[t].server
       IN  \/ /\ proc[s] = "dead"
              /\ End(t, "error", NoLine)
              /\ UNCHANGED stdout
           \/ /\ proc[s] = "up" /\ stdout[s] # <<>>
              /\ stdout' = [stdout EXCEPT ![s] = Tail(@)]
              /\ LET line == Head(stdout[s])
                 IN  IF line.kind = "garbage" THEN End(t, "error", line)
                     ELSE IF line.kind = "odd" THEN End(t, "raised", line)
                     ELSE IF IsAnswer(t, line) THEN End(t, Outcome(line), line)
                     ELSE UNCHANGED <<lock, got, call, tools, phase, starting>>
    /\ UNCHANGED <<proc, nextId, stdin, owed, stderr, handlers, made>>

\* stop_all at the end of the program: a last notification, which no lock
\* guards, then the process is terminated.
StopAll ==
    /\ phase = "serve"
    /\ phase' = "stopped"
    /\ proc' = [s \in Names |-> IF proc[s] = "up" THEN "dead" ELSE proc[s]]
    /\ UNCHANGED <<starting, nextId, lock, pipes, tools, handlers, call, got, made>>

------------------------------------------------------------------------------
\* The servers.  One whose stderr is full waits for somebody to read it.
Alive(s) == proc[s] = "up" /\ (Noisy => stderr[s] < StderrRoom)

clientVars == <<starting, phase, nextId, lock, tools, handlers, call, got>>

Read(s) ==
    /\ Alive(s) /\ stdin[s] # <<>>
    /\ owed' = [owed EXCEPT ![s] = @ \cup {Head(stdin[s])}]
    /\ stdin' = [stdin EXCEPT ![s] = Tail(@)]
    /\ UNCHANGED <<clientVars, proc, stdout, stderr, made>>

Answer(s) ==
    /\ Alive(s)
    /\ \E id \in owed[s], kind \in {"answer", "empty", "error"} :
          /\ owed' = [owed EXCEPT ![s] = @ \ {id}]
          /\ stdout' = [stdout EXCEPT ![s] = Append(@, [kind |-> kind, id |-> id])]
    /\ UNCHANGED <<clientVars, proc, stdin, stderr, made>>

\* A line of a log, a notification, a request of the server's own, with ids of its own.
Say(s) ==
    /\ Alive(s) /\ made.noise < MaxNoise
    /\ \E kind \in Noise :
          stdout' = [stdout EXCEPT ![s] =
                        Append(@, [kind |-> kind, id |-> IF kind = "request" THEN 1 ELSE 0])]
    /\ made' = [made EXCEPT !.noise = @ + 1]
    /\ UNCHANGED <<clientVars, proc, stdin, owed, stderr>>

Complain(s) ==
    /\ Noisy /\ Alive(s)
    /\ stderr' = [stderr EXCEPT ![s] = @ + 1]
    /\ UNCHANGED <<clientVars, proc, stdin, owed, stdout, made>>

Die(s) ==
    /\ proc[s] = "up"
    /\ proc' = [proc EXCEPT ![s] = "dead"]
    /\ UNCHANGED <<clientVars, pipes, made>>

Next ==
    \/ Launch \/ Register \/ StopAll
    \/ \E t \in Threads : phase # "crashed" /\ (Send(t) \/ Receive(t))
    \/ \E c \in Clients, name \in DOMAIN handlers : CallTool(c, name)
    \/ \E s \in Names : Read(s) \/ Answer(s) \/ Say(s) \/ Complain(s) \/ Die(s)

Spec == Init /\ [][Next]_vars

\* Main and the threads go on; a server that was asked answers or dies, unless
\* it waits for its stderr.
Fairness ==
    /\ WF_vars(Launch) /\ WF_vars(Register)
    /\ \A t \in Threads : WF_vars(Send(t)) /\ WF_vars(Receive(t))
    /\ \A s \in Names : WF_vars(Read(s)) /\ WF_vars(Answer(s))

FairSpec == Spec /\ Fairness

------------------------------------------------------------------------------
\* Every variable has values of its kind.
TypeOK ==
    /\ starting \in 1..Len(Servers) + 1
    /\ phase \in {"start", "serve", "stopped", "crashed"}
    /\ \A s \in Names :
          /\ proc[s] \in {"none", "up", "dead"} /\ lock[s] \in Threads \cup {Nobody}
          /\ tools[s] \subseteq ToolsOf[s]
    /\ \A t \in Threads : call[t].at \in {"idle", "wait", "receive"}

\* What a request returns is what the server answered to that very request,
\* whatever requests before it were given up or answered late, and whoever
\* else asks the same server (MCPServerConnection._request).
AnswersMatch ==
    \A t \in Threads :
        got[t].how \in {"ok", "empty"} => got[t].line.kind # "request" /\ got[t].line.id = got[t].id

\* Every call of a tool ends, and so does the start: nobody keeps the lock for
\* ever (MCPServerConnection._request, start_all).
CallReturns ==
    \A t \in Threads : [](call[t].at # "idle" => <>(call[t].at = "idle" \/ phase = "crashed"))

\* Every registered name calls the server and the tool that it was made from.
NamesMatch ==
    \A s \in Names, t \in UNION Range(ToolsOf) :
        AgentName(s, t) \in DOMAIN handlers /\ t \in tools[s] =>
            handlers[AgentName(s, t)] = [server |-> s, tool |-> t]
==============================================================================
