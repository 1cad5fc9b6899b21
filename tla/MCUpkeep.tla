------------------------------- MODULE MCUpkeep -------------------------------
(* What happens to memories in the background, for the model checker: two      *)
(* specifications that share nothing; setting says which one a behaviour is of. *)
(*   "upkeep"  the lifecycle engine                                             *)
(*   "scores"  the importance engine; the memories of the other do not move,    *)
(*             and where it runs the variables of this one are None             *)

EXTENDS Upkeep

CONSTANTS       \* of Importance
    Memories, Base, AutoArchive, MinAge, Throttle, MaxStale, MaxTime, MaxFrequency, MaxStarts

VARIABLES
    setting,
    place2, importance, stale, frequency, born, lastAccess, listeners, handles, started, starts,
    lastVacuum, batch, now, sent, rated, vacuumed

scoreVars == <<place2, importance, stale, frequency, born, lastAccess, listeners, handles, started,
               starts, lastVacuum, batch, now, sent, rated, vacuumed>>

MCBase == [i \in Memories |-> 3]

Scores == INSTANCE Importance WITH place <- place2, Ids <- Memories

\* No memory has a parent, and no step follows.
NoUpkeep == Init /\ parent = [i \in Ids |-> None]

NoScores ==
    /\ place2 = None /\ importance = None /\ stale = None /\ frequency = None /\ born = None
    /\ lastAccess = None /\ listeners = None /\ handles = None /\ started = None /\ starts = None
    /\ lastVacuum = None /\ batch = None /\ now = None /\ sent = None
    /\ rated = None /\ vacuumed = None

MCVars == <<setting, vars, scoreVars>>

MCInit ==
    \/ setting = "upkeep" /\ Init /\ NoScores
    \/ setting = "scores" /\ Scores!Init /\ NoUpkeep

MCNext ==
    /\ \/ setting = "upkeep" /\ Next /\ UNCHANGED scoreVars
       \/ setting = "scores" /\ Scores!Next /\ UNCHANGED vars
    /\ UNCHANGED setting

MCSpec == MCInit /\ [][MCNext]_MCVars

\* The property of the importance engine, in its setting.
AccessesCounted == setting = "scores" => Scores!AccessesCounted
===============================================================================
