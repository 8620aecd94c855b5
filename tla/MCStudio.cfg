CONSTANTS
    Preset <- MCPreset
    FirstPreset = "ecommerce"
    Stage <- MCStage
    MaxFetches = 4
SPECIFICATION FairSpec
CHECK_DEADLOCK FALSE
INVARIANTS
    StudioTypeOK
    FramesFiled
    PlotIsFresh
    CalmPage
PROPERTY
    StatusSettles
