------------------------- MODULE MCContextCompression -------------------------
(* ContextCompression in the three settings its properties are about.  The    *)
(* initial state chooses the setting, which then stays.                       *)
(*   "rounds"  the constants of the .cfg: Tiers 1 and 2 only                  *)
(*   "goals"   all tiers, an LLM that answers, well or malformed              *)
(*   "legacy"  the loop without an orchestrator                               *)

EXTENDS ContextCompression

VARIABLE setting

Summarizing == INSTANCE ContextCompression WITH
    MaxTier <- 3, Outcomes <- {"ok", "malformed"}, MaxFailures <- 1

Legacy == INSTANCE ContextCompression WITH Engine <- "legacy", MaxLen <- 9

MCInit == Init /\ setting \in {"rounds", "goals", "legacy"}

MCNext ==
    /\ \/ setting = "rounds" /\ Next
       \/ setting = "goals"  /\ Summarizing!Next
       \/ setting = "legacy" /\ Legacy!Next
    /\ UNCHANGED setting

MCSpec == MCInit /\ [][MCNext]_<<vars, setting>>
==============================================================================
