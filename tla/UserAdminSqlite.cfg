SPECIFICATION Spec
CONSTANTS
    a = a
    b = b
    c = c
    t1 = t1
    t2 = t2
    Users <- ThreeUsers
    Roles <- TwoRoles
    Seed <- OneAdmin
    Requests <- TwoRequests
    Dialect = "sqlite"
    NewAdmins = TRUE
    NoRole = NoRole
    Database = Database
    Nobody = Nobody
    NoRequest = NoRequest
SYMMETRY Symmetry
INVARIANTS TypeOK SomeActiveAdmin DecidedOnCurrent
PROPERTIES RejectionsJustified
