-------------------------------- MODULE MCTeam --------------------------------
(* The task board and the MCP client for the model checker: two specifications  *)
(* that share nothing; setting says which one a behaviour is of.                *)

EXTENDS TaskBoard

CONSTANTS       \* of McpClient
    Servers, Clients, Main, ToolsOf, AgentName(_, _), Noise, Noisy,
    MaxCalls, MaxNoise, StderrRoom

VARIABLES
    setting, starting, phase, proc, nextId, lock, stdin, owed, stdout, stderr, tools,
    handlers, call, got, made

mcpVars == <<starting, phase, proc, nextId, lock, stdin, owed, stdout, stderr, tools,
             handlers, call, got, made>>

Mcp == INSTANCE McpClient

MCTodoLists == {<<>>, <<"in_progress", "pending">>, <<"in_progress", "in_progress">>}
MCServers == <<"files">>
MCToolsOf == [s \in {"files"} |-> {"search"}]
MCName(s, t) == t

MCVars == <<setting, vars, mcpVars>>

MCInit == setting \in {"board", "mcp"} /\ Init /\ Mcp!Init

MCNext ==
    \/ setting = "board" /\ Next /\ UNCHANGED <<setting, mcpVars>>
    \/ setting = "mcp" /\ Mcp!Next /\ UNCHANGED <<setting, vars>>

Then(A) == setting = "mcp" /\ A /\ UNCHANGED <<setting, vars>>

MCFairness ==
    /\ WF_MCVars(Then(Mcp!Launch)) /\ WF_MCVars(Then(Mcp!Register))
    /\ \A t \in Clients \cup {Main} :
          WF_MCVars(Then(Mcp!Send(t))) /\ WF_MCVars(Then(Mcp!Receive(t)))
    /\ \A s \in Mcp!Names :
          WF_MCVars(Then(Mcp!Read(s))) /\ WF_MCVars(Then(Mcp!Answer(s)))

MCSpec == MCInit /\ [][MCNext]_MCVars /\ MCFairness

\* Mcp's properties under names of their own.
AnswersMatch == Mcp!AnswersMatch
CallReturns  == Mcp!CallReturns
===============================================================================
