SPECIFICATION MCSpec
CONSTANTS
    Engine = "pipeline"
    Goals = 2
    MaxLen = 10
    LayersBefore = 0
    MinConsecutive = 2
    Trigger = 6
    Target = 3
    MaxTier = 2
    KeepRecent = 1
    KeepHead = 1
    KeepTail = 1
    KeepRounds = 2
    Window = 20
    SmallGroup = 2
    Outcomes = {"ok", "down", "malformed"}
    SummarizerRaises = FALSE
    MaxFailures = 2
    ResetTimeout = 2
    MaxFacts = 3
INVARIANTS
    RoundsWhole
    ActsWhenOver
    
    

    
CHECK_DEADLOCK FALSE
