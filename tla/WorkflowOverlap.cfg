SPECIFICATION Spec
CONSTANTS
    g1 = g1
    g2 = g2
    c1 = c1
    c2 = c2
    k1 = k1
    k2 = k2
    t1 = t1
    daily = daily
    Threads <- ThreadAndDaily
    Scheduler = daily
    PublicMode = FALSE
    PageSize = 1
    TrendLength = 2
    ControlsOf <- Belongs
    CheckOf <- TwoChecks
    Groups <- TwoGroups
    MaxRuns = 2
    MaxInFlight = 2
    MaxDay = 1
    MaxMoves = 3
    IrregularPaths <- PlainOnly
SYMMETRY Symmetry
INVARIANTS SnapshotMirrors AuditReplays PagesAgree DrawerTellsTheGroup
PROPERTIES ImplementsLifecycle PastSnapshotsFrozen
