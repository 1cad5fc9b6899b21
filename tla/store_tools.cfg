SPECIFICATION MCSpec
CONSTANTS
    Ids = {i1, i2, i3}
    Texts = {x, y, z, w}
    Writable <- SharedTexts
    Clients = {c}
    Keepers = {k}
    Ops <- AddOps
    None = None
    Entries <- MCEntries
    EntryOps <- MCEntryOps
    Inputs <- MCInputs
    Paths <- MCPaths
    NewValues <- MCNewValues
    Extra <- MCExtra
    AllowedKinds = {"user", "knowledge", "decision"}
    AllowedSources = {"manual"}
    Forbidden = {"key"}
    Length <- MCLength
    MinLength = 1
    MaxLength = 2
    KindLimit <- MCKindLimit
    ScopeLimit <- MCScopeLimit
INVARIANTS
    NothingLost
    NoDuplicateTexts
    ActiveAreIndexed
    FoundUnderOwnKeys
PROPERTY
    AdditionsWithinLimits
CHECK_DEADLOCK FALSE
