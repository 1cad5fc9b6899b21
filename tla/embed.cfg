SPECIFICATION MCSpec
CONSTANTS
    Ids = {1, 2, 3}
    Preloaded = {1, 2, 3}
    Ops = {"update", "touch"}
    SyncFallback = TRUE
    WorkerEnabled = TRUE
    BatchSize = 2
    MaxRetries = 3
    EmbedderFails = FALSE
    MaxVer = 2
    MaxQueue = 2
    None = None
    Present = {1}
    SyncVer = 3
INVARIANTS
    Aligned
    MirrorsActiveAlone
PROPERTIES
    CollectedIsProcessed
    EventuallyFreshByBoth
CHECK_DEADLOCK FALSE
