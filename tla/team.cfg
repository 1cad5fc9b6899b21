SPECIFICATION MCSpec
CONSTANTS
    Agents = {a}
    MaxId = 3
    MaxCreated = 3
    Blockers = {1}
    NoAgent = NoAgent
    TodoLists <- MCTodoLists
    Servers <- MCServers
    Clients = {c1, c2}
    Main = main
    ToolsOf <- MCToolsOf
    AgentName <- MCName
    Noise = {"garbage", "notice", "odd"}
    Noisy = FALSE
    MaxCalls = 3
    MaxNoise = 1
    StderrRoom = 1
INVARIANTS
    NoTaskReplaced
    CompletionUnblocks
    AnswersMatch
PROPERTIES
    CallReturns
CHECK_DEADLOCK FALSE
