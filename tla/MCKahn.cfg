CONSTANTS
    Id <- MCId
    Port <- MCPort
    Graphs <- MCGraphs
SPECIFICATION KahnFairSpec
CHECK_DEADLOCK FALSE
INVARIANTS
    KahnInv
    OrderTopological
    AcceptedIsComplete
    AcceptedIsAcyclic
    RunnerCycleErrorIsReal
PROPERTY
    ReachesVerdict
