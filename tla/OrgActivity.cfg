SPECIFICATION Spec
CONSTANTS
    ann = ann
    bob = bob
    ops = ops
    dev = dev
    svc = svc
    annName = annName
    r1 = r1
    r2 = r2
    Users <- OneUser
    ServiceAccounts <- Nobody
    Roles <- Nobody
    Username <- AnnHasAName
    Policies <- UsePolicies
    Document <- UseDocuments
    AwsSource = FALSE
    TrustStatements <- NoTrusts
    Profiles <- UseProfiles
    Lines <- UseLines
    InitialGrants <- AnnsGrants
    MaxChanges = 4
    MaxLines = 3
    MaxScans = 2
    MIN_WINDOW_DAYS = 14
    MIN_PRINCIPAL_EVENTS = 2
    Thresholds <- Limits
INVARIANTS
    TypeOK DisuseIsReal SuggestedNeverWidens SuggestedKeepsUse
    NoPolicyOffSparseData DiffAccountsForRuns ClearingNeverHurts
CHECK_DEADLOCK FALSE
