\* Two drives, all reports of them again and again, two trips a user enters.
SPECIFICATION Spec
CONSTANTS
    d1 = d1
    d2 = d2
    Null = Null
    NoRow = NoRow
    NoId = NoId
    Drive = {d1, d2}
    Id = {1, 2, 3, 4}
    Events <- TwoEvents
    Elveh <- TwoElveh
    Metrics <- TwoMetrics
    Fold <- TwoFolds
    Status <- OneStatus
    Typed <- TwoTyped
    Hide <- TwoRules
    Window_ <- ThreeWindows
    Preset <- SinceFirst
INVARIANTS PagesAgree OneRowPerDrive ReportedHasRow MergedIsCanonical
PROPERTIES ManualStays
CHECK_DEADLOCK FALSE
