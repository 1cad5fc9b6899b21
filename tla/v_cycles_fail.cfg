SPECIFICATION FairSpec
CONSTANTS
    Old = {1, 2}
    New = {3}
    Kinds = {k}
    Tracker = "state_machine"
    MinGroup = 2
    MaxGroup = 3
    Strategy = "rule"
    Room = 2
    MaxLinks = 0
    MaxMoves = 0
    MaxCycles = 2
    MaxAging = 1
    None = None
PROPERTIES
    CyclesComplete
CHECK_DEADLOCK FALSE
