\* SQLite: two apps, two refresh tokens, two runtimes, one request at a time.
SPECIFICATION Spec
CONSTANTS
    fcon = fcon
    a1 = a1
    a2 = a2
    t1 = t1
    t2 = t2
    t3 = t3
    r1 = r1
    r2 = r2
    r3 = r3
    k1 = k1
    k2 = k2
    Fcon = fcon
    App = {a1, a2}
    Token = {t1, t2}
    Runtime = {r1, r2}
    Caller = {k1}
    Snapshot = TRUE
    NoRow = NoRow
    NoApp = NoApp
    NoToken = NoToken
    NoConfig = NoConfig
    NoRuntime = NoRuntime
    NoValue = NoValue
    NoJob = NoJob
SYMMETRY Symmetry
INVARIANTS CredentialsSurvive ConsentFlagIsJustified RotationReachesRow
    DisconnectSticks
PROPERTY ImplementsSupervisor
