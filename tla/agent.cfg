SPECIFICATION FairSpec
CONSTANTS
    Config <- MCConfig
    Added <- MCAdded
    Routes <- MCRoutes
    UnsafeKinds = {"query"}
    HasLLM = TRUE
    CutAnswers = TRUE
    MaxTurns = 2
    MaxQueries = 1
    MaxCalls = 2
    MaxBackground = 1
    MaxMail = 2
    MaxMessages = 6
INVARIANTS
    CallsAnswered
    VerdictsHonoured
    DeliveredOnce
PROPERTIES
    SubagentReturns
CHECK_DEADLOCK FALSE
