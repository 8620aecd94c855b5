CONSTANTS
    Id <- MCId
    Port <- MCPort
    NoPort = "none"
    EmptyPort = ""
    InputName <- MCInputName
    InvalidKey = "/"
    Column <- MCColumn
    Suffixed = "suffixed"
    ConditionColumns <- MCConditionColumns
    JoinColumns <- MCJoinColumns
    Row <- MCRow
    KeptRows <- MCKeptRows
    BrokenRows <- MCBrokenRows
    Projected <- MCProjected
    Padded <- MCPadded
    JoinValue <- MCJoinValue
    MaxPreview = 2
    Graphs <- MCSparkGraphs
    Calls <- MCSparkCalls
    Stores <- MCSparkStores
    MaxRuns = 1
SPECIFICATION SparkSpec
CHECK_DEADLOCK FALSE
INVARIANTS
    SparkInv
    SparkMeansPandas
PROPERTY
    KeepsPromise
