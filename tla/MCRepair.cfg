\* Three tables of the past, every operation on each, while trips are recorded.
SPECIFICATION RepairSpec
CONSTANTS
    d1 = d1
    d2 = d2
    d3 = d3
    Null = Null
    NoRow = NoRow
    NoId = NoId
    All = All
    Drive = {d1, d2, d3}
    Meanwhile = {d2}
    Id = {1, 2, 3, 4}
    Events <- SomeEvents
    Elveh <- SomeElveh
    Metrics <- SomeMetrics
    Fold <- SomeFolds
    Status <- SomeStatus
    Typed <- OneTyped
    Legacy <- PastTables
    Heard <- History
    Since = 900
    Samples <- Archive
    MaxSteps = 3
    MaxNew = 1
INVARIANT Converges
PROPERTIES Restorable DrivesStay ManualIsPutBack
CHECK_DEADLOCK FALSE
