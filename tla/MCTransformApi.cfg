CONSTANTS
    Workloads <- MCWorkloads
    Preset <- MCPreset
    PresetKey <- MCPresetKey
    DefaultPreset = "ecommerce"
    Segment <- MCSegment
SPECIFICATION FairSpec
CHECK_DEADLOCK FALSE
INVARIANTS
    ApiTypeOK
    ScopesSeparate
    ToldIsFound
PROPERTY
    EveryRequestAnswered
