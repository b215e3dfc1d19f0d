SPECIFICATION Spec
CONSTANTS
    a = a
    b = b
    c1 = c1
    c2 = c2
    e1 = e1
    e2 = e2
    f = f
    Accounts <- TwoAccounts
    MaxId = 2
    Crons <- TwoCrons
    BadCron = BadCron
    Editors <- TwoEditors
    Firers <- OneFirer
    Dialect = "postgresql"
    Overlap = FALSE
    NoCron = NoCron
    NoRow = NoRow
    NoId = NoId
    NoAsk = NoAsk
SYMMETRY Symmetry
INVARIANTS TypeOK JobsMirrorRows OneSchedulePerAccount
PROPERTIES FiresKeepSchedules
