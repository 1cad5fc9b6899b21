---------------------------- MODULE MCMemoryTools ----------------------------
(* MemoryStore and Admission with one client of the memory tools and one     *)
(* keeper, in three settings; the initial state chooses one.                 *)
(*   "dedup"    the constants of the .cfg: contents are shared, the client    *)
(*              adds and removes                                             *)
(*   "indexes"  every memory has contents of its own, all memory tools        *)
(*   "limits"   Admission: rules with limits, the tables of the indexes, a     *)
(*              stage of somebody else in the pipeline                       *)

EXTENDS MCMemoryStore, Naturals, FiniteSets

CONSTANTS
    Entries,    \* the memories of Admission; the other constants are its own
    EntryOps,
    Inputs, Paths, NewValues, Extra,
    AllowedKinds, AllowedSources, Forbidden, Length, MinLength, MaxLength,
    KindLimit, ScopeLimit

VARIABLES
    setting, place, data, tables, stages, step, item, change

admission == <<place, data, tables, stages, step, item, change>>

Rules == INSTANCE Admission WITH Ids <- Entries, Ops <- EntryOps

ASSUME AdmissionConstants ==
    /\ IsFiniteSet(Entries) /\ None \notin Entries
    /\ \A e \in Inputs : {"kind", "tags", "project", "state"} \subseteq DOMAIN e
    /\ \A k \in DOMAIN KindLimit : KindLimit[k] \in Nat

\* So it is as MemoryCore registers the stages, unless somebody parts them.
ASSUME StagesInOrder == Rules!Orderly(Rules!Pipeline)

Entry(x, k, tags) == [text |-> x, kind |-> k, scope |-> "project", project |-> "here",
                      source |-> "manual", tags |-> tags, state |-> "active"]

MCEntries == {1, 2}
MCEntryOps == {"add", "update", "delete", "recover"}
MCInputs ==
    {Entry("a", "user", {"red"}), Entry("b", "knowledge", {"red"}),
     Entry("", "knowledge", {}), Entry("key", "knowledge", {}),
     [Entry("b", "user", {}) EXCEPT !.source = "web"], Entry("b", "task", {}),
     [Entry("c", "user", {}) EXCEPT !.scope = "global"]}
MCPaths == {"content.tags", "type", "identity.type"}
MCNewValues == [p \in MCPaths |-> IF p = "content.tags" THEN {{"red"}} ELSE {"knowledge"}]
MCExtra == <<[name |-> "extra", before |-> "policy_check", after |-> None]>>
MCLength == [x \in {"a", "b", "c", "", "key"} |-> IF x = "" THEN 0 ELSE 1]
MCKindLimit == [k \in {"knowledge"} |-> 1]
MCScopeLimit == [s \in {"global"} |-> 1]

\* Two contents that any memory may get.
SharedTexts ==
    LET two == CHOOSE s \in SUBSET Texts : \E x, y \in s : x # y /\ s = {x, y}
    IN  [i \in Ids |-> two]

Indexes == INSTANCE MemoryStore WITH Writable <- OwnText, Ops <- ToolOps

MCInit == Init /\ Rules!Init /\ setting \in {"dedup", "indexes", "limits"}

MCNext ==
    /\ \/ setting = "dedup"   /\ Next /\ UNCHANGED admission
       \/ setting = "indexes" /\ Indexes!Next /\ UNCHANGED admission
       \/ setting = "limits"  /\ Rules!Next /\ UNCHANGED vars
    /\ UNCHANGED setting

MCSpec == MCInit /\ [][MCNext]_<<vars, admission, setting>>

\* The properties of Admission, in its setting.
FoundUnderOwnKeys     == Rules!FoundUnderOwnKeys
AdditionsWithinLimits == [][\A c \in Clients : Rules!WithinLimit(c)]_admission
==============================================================================
