----------------------------- MODULE MemoryPools -----------------------------
(***************************************************************************)
(* What the three memory pools promise, whatever the threads that move     *)
(* entries about: the state-transition table of                            *)
(* src/memory/lifecycle/manager.py, each line of it one atomic step.       *)
(* MemoryStore refines this module.                                        *)
(***************************************************************************)

CONSTANT Ids        \* memory identifiers

VARIABLE place      \* where each memory is

Places == {"unborn", "active", "archived", "deleted", "purged"}

TypeOK == place \in [Ids -> Places]

Init == place = [i \in Ids |-> "unborn"]

Move(i, from, to) ==
    /\ place[i] = from
    /\ place' = [place EXCEPT ![i] = to]

Create(i)  == Move(i, "unborn", "active")
Archive(i) == Move(i, "active", "archived")
Delete(i)  == Move(i, "active", "deleted")
Recover(i) == Move(i, "archived", "active") \/ Move(i, "deleted", "active")
Purge(i)   == Move(i, "deleted", "purged")

Next == \E i \in Ids :
    Create(i) \/ Archive(i) \/ Delete(i) \/ Recover(i) \/ Purge(i)

Spec == Init /\ [][Next]_place

==============================================================================
