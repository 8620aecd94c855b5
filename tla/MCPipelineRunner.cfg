CONSTANTS
    Id <- MCId
    Port <- MCPort
    NoPort = "none"
    EmptyPort = ""
    InputName <- MCInputName
    InvalidKey = "/"
    Column <- MCColumn
    Suffixed = "suffixed"
    ConditionColumns <- MCConditionColumns
    JoinColumns <- MCJoinColumns
    Row <- MCRow
    KeptRows <- MCKeptRows
    BrokenRows <- MCBrokenRows
    Projected <- MCProjected
    Padded <- MCPadded
    JoinValue <- MCJoinValue
    MaxPreview = 2
    Graphs <- MCGraphs
    Calls <- MCCalls
    Stores <- MCStores
    MaxRuns = 2
SPECIFICATION FairSpec
CHECK_DEADLOCK FALSE
INVARIANTS
    RunInv
    InputsAvailable
    PreviewExecutesAncestors
    ValueInv
    LogExact
    OutcomeHasMeaning
    StoreExact
    PreviewBounded
    RetryIsIdempotent
PROPERTY
    KeepsPromise
    Ends
