\* Three databases, each with a few steps of everyone.
SPECIFICATION ImportSpec
CONSTANTS
    x = x
    y = y
    z = z
    c1 = c1
    c2 = c2
    u = u
    addr = addr
    Null = Null
    NoRow = NoRow
    Name = {x, y, z}
    HomeName = x
    Nameless = y
    Address = {addr}
    Key <- Keys
    Uuid = {u}
    Spot = {0, 1, 2}
    Day = {1, 2, 3}
    NetId = {1, 2, 3, 4}
    PlaceId = {1, 2, 3, 4}
    GpsId = {1, 2, 3}
    StallId = {1, 2, 3}
    SessionId = {1, 2, 3, 4}
    Predefined <- TwoPredefined
    Template <- OneTemplate
    Similar = {}
    Home = 2
    Charge <- TwoCharges
    Rate = {50}
    Fee = 5
    Span <- OneSpan
    Signed = FALSE
    Start <- Starts3
    File <- TwoRows
    Editions <- OneEdition
    GasPrices <- TwoPrices
    DefaultGas = 3
    Readings <- TwoReadings
    TripLog <- TwoTrips
    MaxCharted = 1
    MaxSteps = 2
INVARIANTS PlacesTypeOK CostsAgree ReviewShowsAll
PROPERTIES IngestionOnlyAdds SessionsKeepNetwork OneRatePerDay RowsAreIndependent MergesAsPreviewed
CHECK_DEADLOCK FALSE
