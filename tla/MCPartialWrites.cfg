CONSTANTS
    Id <- MCId
    Port <- MCPort
    NoPort = "none"
    EmptyPort = ""
    InputName <- MCInputName
    InvalidKey = "/"
    Column <- MCColumn
    Suffixed = "suffixed"
    ConditionColumns <- MCConditionColumns
    JoinColumns <- MCJoinColumns
    Row <- MCRow
    KeptRows <- MCKeptRows
    BrokenRows <- MCBrokenRows
    Projected <- MCProjected
    Padded <- MCPadded
    JoinValue <- MCJoinValue
    MaxPreview = 2
    Graphs <- MCCraftedGraphs
    Calls <- MCCalls
    Stores <- MCStores
    MaxRuns = 1
SPECIFICATION Spec
CHECK_DEADLOCK FALSE
INVARIANT
    FailureLeavesNoWrites
