-------------------------------- MODULE Hooks --------------------------------
(***************************************************************************)
(* The hook system (src/agent/hooks.py) and the isolation of sub-agents    *)
(* (src/agent/filter_tools.py), as operators.                              *)
(*                                                                         *)
(* A hook is a record [id, type, matcher, async, priority]; its matcher is *)
(* "", a star or a tool (a pattern in parentheses after the tool is never  *)
(* looked at).                                                             *)
(***************************************************************************)

EXTENDS Integers, Sequences, FiniteSets

Events == {"UserPromptSubmit", "PreToolUse", "Stop"}

------------------------------------------------------------------------------
(* Which hooks run, and in which order. *)

PRIORITY_ORDER == [local |-> 0, project |-> 1, user |-> 2]

Rank(h) == IF h.priority \in DOMAIN PRIORITY_ORDER THEN PRIORITY_ORDER[h.priority] ELSE 99

\* The hooks that are sorted up to hook i, itself included: those of a higher
\* priority, and those of its own that come earlier, for the sort is stable.
UpTo(hs, i) ==
    {j \in DOMAIN hs : Rank(hs[j]) < Rank(hs[i]) \/ (Rank(hs[j]) = Rank(hs[i]) /\ j <= i)}

SortByPriority(hs) ==
    [k \in DOMAIN hs |-> hs[CHOOSE i \in DOMAIN hs : Cardinality(UpTo(hs, i)) = k]]

\* Entries of unknown events are left out.
LoadFromConfig(hooks, config) ==
    [e \in Events |-> SortByPriority(
        hooks[e] \o (IF e \in DOMAIN config THEN config[e] ELSE <<>>))]

\* register appends and does not sort.
Register(hooks, event, h) == [hooks EXCEPT ![event] = Append(@, h)]

MatchHook(h, tool) == h.matcher \in {"", "*", tool}

\* Whether execute waits for what the hook says.  An asynchronous hook is started
\* and forgotten; a prompt hook needs an LLM.
Runs(h, tool, llm) ==
    MatchHook(h, tool) /\ ~h.async /\ (h.type = "command" \/ (h.type = "prompt" /\ llm))

------------------------------------------------------------------------------
(* What a hook answers. *)

\* What the JSON of a hook may say: nothing, a decision, or an object whose
\* hookSpecificOutput is no object, which raises.
Answers == {"none", "approve", "block", "odd"}

\* An exception anywhere, a timeout too, is exit code 1: not a refusal.
ParseOutput(exit, json, updated) ==
    IF json = "odd" THEN [exit |-> 1, blocked |-> FALSE, updated |-> FALSE]
    ELSE [exit    |-> exit,
          blocked |-> exit = 2 \/ json = "block",
          updated |-> updated /\ json # "none"]

\* A prompt hook has no exit code: 0, or 1 when the LLM raises.
HookResults(h) ==
    {ParseOutput(exit, json, updated) :
        exit \in (IF h.type = "prompt" THEN {0} ELSE {0, 1, 2}), json \in Answers,
        updated \in BOOLEAN}
    \cup {[exit |-> 1, blocked |-> FALSE, updated |-> FALSE]}

NoHook   == 0
Approved == [exit |-> 0, blocked |-> FALSE, input |-> NoHook]

\* Bug: The last input given stays.
CombineLast(combined, h, r) ==
    [exit |-> IF r.blocked THEN r.exit ELSE combined.exit, blocked |-> r.blocked,
     input |-> IF r.updated THEN h.id ELSE combined.input]

\* HookManager.execute: the first refusal ends it, the first new input stays.
Combine(combined, h, r) ==
    [exit    |-> IF r.blocked THEN r.exit ELSE combined.exit,
     blocked |-> r.blocked,
     input   |-> IF r.updated /\ (r.blocked \/ combined.input = NoHook) THEN h.id
                 ELSE IF r.blocked THEN NoHook ELSE combined.input]

------------------------------------------------------------------------------
(* What a sub-agent may use. *)

GLOBAL_DENY == {"task", "TaskStop", "AskUserQuestion", "ExitPlanMode", "plan_approval",
                "shutdown_request", "spawn_teammate", "idle"}

EXPLORE_TOOLS == {"bash", "read_file", "grep", "glob", "task_list", "task_get",
                  "load_skill", "compress"}

\* filter_tools_for_agent as run_subagent calls it.  The names Explore
\* disallows, "Write", "Edit" and "Bash", are not names of tools.
ToolsForAgent(tools, type) ==
    LET allowed == tools \ GLOBAL_DENY
    IN  IF type = "Explore" THEN (allowed \cap EXPLORE_TOOLS) \ {"Write", "Edit", "Bash"}
        ELSE allowed
==============================================================================
