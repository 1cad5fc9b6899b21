SPECIFICATION MCSpec
CONSTANTS
    Old = {1, 2}
    New = {3}
    Kinds = {k}
    Tracker = "access_tracker"
    MinGroup = 2
    MaxGroup = 3
    Strategy = "rule"
    Room = 2
    MaxLinks = 1
    MaxMoves = 2
    MaxCycles = 2
    MaxAging = 1
    None = None
    Memories = {m1, m2}
    Base <- MCBase
    AutoArchive = TRUE
    MinAge = 0
    Throttle = 1
    MaxStale = 2
    MaxTime = 1
    MaxFrequency = 1
    MaxStarts = 2
INVARIANTS
    
    
    AccessesCounted
CHECK_DEADLOCK FALSE
