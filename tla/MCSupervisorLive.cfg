\* Liveness: one config row, four runtime identities, two concurrent callers.
SPECIFICATION FairSpec
CONSTANTS
    Config = {c1}
    c1 = c1
    c2 = c2
    r1 = r1
    r2 = r2
    r3 = r3
    k1 = k1
    k2 = k2
    stored = stored
    edited1 = edited1
    locked = locked
    off = off
    Runtime = {r1, r2, r3, r4}
    r4 = r4
    Caller = {k1, k2}
    RowValue <- MCRowValue
    Enabled <- MCEnabled
    Startable = {stored, edited1}
    Unreadable = {locked}
    NoConfig = NoConfig
    NoRuntime = NoRuntime
    NoValue = NoValue
    NoJob = NoJob
PROPERTY CallsReturn
