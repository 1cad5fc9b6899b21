SPECIFICATION MCSpec
CONSTANTS
    f1 = f1
    f2 = f2
    f3 = f3
    None = None
    Ids = {1, 2}
    Migratable = TRUE
    MaxRevision = 2
    MaxCrashes = 1
    GoesOn = FALSE
    Files = {f1, f2, f3}
    Size <- MCSize
    MaxLines = 3
    MaxFiles = 2
    MaxOpen = 1
    MaxRecent = 2
    MaxDirty = 1
    MaxCandidates = 2
    MaxRounds = 2
    KeepRecent = 1
    Reserved = {"instruction", "workspace"}
    MaxTokens <- MCMax
    TotalBudget = 12
    MaxEntries = 2
    Clocks = {"fine"}
    Written = {f1}
    MaxVersion = 2
    MaxMessages = 4
    MaxPolicies = 1
    MaxMemories = 2
    MaxBuilds = 2
    Schemas = {1, 2, 3, 4}
    Metadata = {"key"}
    Contents = {"a"}
    MaxTime = 3
    MaxUpdates = 2
    MaxRestored = 2
    MaxSteps = 4
    Failing = {TRUE, FALSE}
    Sought = {1, 2, 3}
    Kinds = {"x", "y"}
    Weight <- MCWeight
    Scale = 2
    MaxScore = 1
    MaxResults = 2
    Worth = {1}
    MaxMoves = 1
    MaxQueries = 1
INVARIANTS
    ConfirmedStays
    PromptShowsWrites
    PromptUsesRoom
    PromptReplayed
    
    ShortestPaths
    FoundOfKind
    FoundInOrder
CHECK_DEADLOCK FALSE
