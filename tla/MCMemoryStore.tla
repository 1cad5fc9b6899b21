---------------------------- MODULE MCMemoryStore ----------------------------
(* Values of MemoryStore's constants for the model checker. *)

EXTENDS MemoryStore, TLC

\* Every content may be given to every memory: duplicates happen.
AnyText == [i \in Ids |-> Texts]

\* Contents of its own for each memory (at least one text per id).
OwnText ==
    LET owner == CHOOSE f \in [Texts -> Ids] : \A i \in Ids : \E x \in Texts : f[x] = i
    IN  [i \in Ids |-> {x \in Texts : owner[x] = i}]

\* The operations of the memory tools as main.py wires them (the lifecycle
\* engine is not passed to build_memory_tools), and of the public API.
ToolOps   == {"add", "update", "delete", "archive", "recover", "purge"}
EngineOps == ToolOps \cup {"engine_archive", "engine_restore"}
AddOps    == {"add", "delete", "archive", "purge", "engine_archive"}

ClientSymmetry == Permutations(Clients)
==============================================================================
