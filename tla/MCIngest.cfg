\* SQLite: one runtime, the poller, a backfill, a user; gas prices of two months; one fault.
SPECIFICATION Spec
CONSTANTS
    odometer = odometer
    soc0 = soc0
    refresh = refresh
    metrics = metrics
    mayPrice = mayPrice
    junePrice = junePrice
    May = May
    June = June
    garage = garage
    telemetry = telemetry
    r1 = r1
    None = None
    Runtime = {r1}
    Event = {odometer, soc0, refresh, metrics, mayPrice, junePrice}
    Known = {odometer, refresh, metrics, mayPrice, junePrice}
    Slug <- Slugs1
    Months = {May, June}
    MonthOf <- MonthOf1
    Sample = {garage, telemetry}
    Garage = {garage}
    Edited = {"model"}
    MaxItems = 3
    MaxFaults = 1
    MaxEdits = 1
    Snapshot = TRUE
SYMMETRY Twins
CHECK_DEADLOCK FALSE
INVARIANTS StoredIsArchived MonthIsCurrent
PROPERTIES Delivered UserColumnsStay
