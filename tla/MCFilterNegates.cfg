CONSTANTS
    Null = Null
    Columns <- MCColumns
    Height <- MCHeight
    Rows <- MCRows
    Datasets <- MCDatasets
    Conditions <- MCConditions
    Programs <- MCPrograms
    Limits <- MCLimits
    Accepts <- Valid
    Mask <- MaskPandas
    RowThreshold = 50000
    MemoryCeiling = 1024
SPECIFICATION Spec
CHECK_DEADLOCK FALSE
INVARIANT
    FilterNegates
