SPECIFICATION MCSpec
CONSTANTS
    MaxId = 4
    Preloaded = 1
    Topics = {p}
    MaxAlike = 2
    MaxMessages = 3
    MaxQueue = 1
    MessageThreshold = 2
    MemoryThreshold = 2
    MaxPairs = 2
    BatchSize = 2
    MaxRetries = 2
    WorkerEnabled = TRUE
    Persistent = FALSE
    Ops <- ToolOps
INVARIANTS
    BufferCountedByTools
    
    
    AlwaysCovered
PROPERTIES
    TriggeredIsTakenByTools
CHECK_DEADLOCK FALSE
