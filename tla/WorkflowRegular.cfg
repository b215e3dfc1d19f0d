SPECIFICATION FairSpec
CONSTANTS
    g1 = g1
    g2 = g2
    c1 = c1
    c2 = c2
    k1 = k1
    k2 = k2
    t1 = t1
    daily = daily
    Threads <- ThreadAndDaily
    Scheduler = daily
    PublicMode = FALSE
    PageSize = 1
    TrendLength = 2
    ControlsOf <- Belongs
    CheckOf <- OneCheck
    Groups <- OneGroup
    MaxRuns = 2
    MaxInFlight = 1
    MaxDay = 2
    MaxMoves = 5
    IrregularPaths <- NoIrregularPath
INVARIANTS TypeOK ExceptionMatchesStatus DisplayedRowsMirror DrawerShowsException
PROPERTIES NoForeignExpiry ExceptionsEnd
