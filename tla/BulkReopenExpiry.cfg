SPECIFICATION Spec
CONSTANTS
    g1 = g1
    g2 = g2
    c1 = c1
    c2 = c2
    k1 = k1
    k2 = k2
    t1 = t1
    daily = daily
    Threads <- ThreadAndDaily
    Scheduler = daily
    PublicMode = FALSE
    PageSize = 1
    TrendLength = 2
    ControlsOf <- Belongs
    CheckOf <- OneCheck
    Groups <- OneGroup
    MaxRuns = 1
    MaxInFlight = 1
    MaxDay = 1
    MaxMoves = 5
    IrregularPaths <- BulkReopenOnly
PROPERTIES NoForeignExpiry
