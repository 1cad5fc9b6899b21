----------------------------- MODULE MCAgentLoop -----------------------------
(* Values of AgentLoop's constants for the model checker. *)

EXTENDS AgentLoop

Hook(id, type, matcher, async, priority) ==
    [id |-> id, type |-> type, matcher |-> matcher, async |-> async, priority |-> priority]

\* The file names the hook of the user before that of the project; one of
\* them runs for all tools.
MCConfig ==
    [PreToolUse |-> <<Hook(1, "command", "task", FALSE, "user"),
                      Hook(2, "prompt", "", FALSE, "project")>>,
     UserPromptSubmit |-> <<Hook(5, "command", "", FALSE, "project")>>,
     Stop |-> <<Hook(3, "command", "", FALSE, "project")>>]

MCAdded == <<Hook(4, "command", "background_run", TRUE, "user")>>

\* A hook of the highest priority, registered last.
LocalAdded == <<Hook(4, "command", "task", FALSE, "local")>>

MCRoutes == [knowledge |-> {}, work |-> {"task", "background_run", "TodoWrite"}]
==============================================================================
