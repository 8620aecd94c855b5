CONSTANTS
    Worker = {"w1", "w2"}
    Pipelines <- MCPipelines
    Message <- MCMessage
    Requests <- MCRequests
    Execution = {"e1", "e2", "e3", "e4"}
    MayFail = TRUE
    MaxCrashes = 1
    MaxRedeliveries = 1
SPECIFICATION FairSpec
CHECK_DEADLOCK FALSE
INVARIANTS
    WorkerTypeOK
    ReportMatchesRow
    RowTellsOutcome
    StuckOnlyByFault
    ExecutedOnce
PROPERTY
    EveryMessageAnswered
    KeepsRecords
