---------------------------- MODULE MCIntelligence ----------------------------
(* Intelligence in two settings; the initial state chooses one.              *)
(*   "tools"   the constants of the .cfg: what the memory tools and the agent *)
(*             loop call, the engine never stops, its memories are transient  *)
(*   "engine"  all calls of the engine, Stop and Start among them, and        *)
(*             memories that reflection may archive; fewer messages           *)

EXTENDS Intelligence

VARIABLE setting

ToolOps == {"track", "task_end", "add"}

Engine == INSTANCE Intelligence WITH
    Preloaded <- 2, MaxMessages <- 1, Persistent <- TRUE,
    Ops <- AllOps \ {"task_end"}

MCInit ==
    \/ setting = "tools"  /\ Init
    \/ setting = "engine" /\ Engine!Init

MCNext ==
    /\ \/ setting = "tools"  /\ Next
       \/ setting = "engine" /\ Engine!Next
    /\ UNCHANGED setting

MCVars == <<vars, setting>>

\* The fairness of FairSpec, where the tools call.
MCSpec ==
    /\ MCInit /\ [][MCNext]_MCVars
    /\ WF_MCVars(setting = "tools" /\ WorkerStep /\ UNCHANGED setting)
    /\ WF_MCVars(setting = "tools" /\ ClientStep /\ UNCHANGED setting)

\* BufferCounted, ExtractedOnce and MergedOnce where the tools call.
BufferCountedByTools == setting = "tools" => BufferCounted
ExtractedOnceByTools == setting = "tools" => ExtractedOnce
MergedOnceByTools    == setting = "tools" => MergedOnce

\* TriggeredIsTaken where the tools call.
TriggeredIsTakenByTools ==
    \A m \in Messages :
       (setting = "tools" /\ m \in buffer /\ ExtractDue) ~> (m \notin buffer)

==============================================================================
