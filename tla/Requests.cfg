SPECIFICATION Spec
CONSTANTS
    adm = adm
    ana = ana
    g1 = g1
    g2 = g2
    hook = hook
    s1 = s1
    s2 = s2
    None = None
    Users <- Everybody
    Groups <- TwoGroups
    Targets <- OneTarget
    Webhooks <- OneTarget
    AskedMoves <- SomeMoves
    Slots <- TwoSlots
    FirstAdmin = adm
    PublicMode = FALSE
    MaxArrivals = 3
    MaxCreds = 1
SYMMETRY Symmetry
INVARIANTS TypeOK DecisionsFresh TicketsAccountedFor TrailsExplain
CHECK_DEADLOCK FALSE
