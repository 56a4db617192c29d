\* SQLite: two charges within a window, one writer of each source, and a user.
SPECIFICATION Spec
CONSTANTS
    c1 = c1
    c2 = c2
    i1 = i1
    i2 = i2
    ha1 = ha1
    fc1 = fc1
    depot = depot
    garage = garage
    Null = Null
    NoRow = NoRow
    NoId = NoId
    NoTx = NoTx
    Charge = {c1, c2}
    Id = {i1, i2}
    HaTask = {ha1}
    FconTask = {fc1}
    HaLog <- TwoLogs
    Fold <- TwoFolds
    FoldCut <- TwoCuts
    Place = {depot, garage}
    Corrected = {100}
    Snapshot = TRUE
SYMMETRY Symmetry
INVARIANTS OneRowPerCharge MergedIsCanonical
PROPERTIES RespectsUser FlaggedBesideUsers
