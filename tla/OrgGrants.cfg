SPECIFICATION Spec
CONSTANTS
    ann = ann
    bob = bob
    ops = ops
    dev = dev
    svc = svc
    annName = annName
    r1 = r1
    r2 = r2
    Users <- TwoUsers
    ServiceAccounts <- Nobody
    Roles <- TwoRoles
    Username <- OwnNames
    Policies <- GrantPolicies
    Document <- GrantDocuments
    AwsSource = TRUE
    TrustStatements <- Trusts
    Profiles <- NoProfiles
    Lines <- NoLines
    InitialGrants <- NoGrants
    MaxChanges = 4
    MaxLines = 0
    MaxScans = 0
    MIN_WINDOW_DAYS = 14
    MIN_PRINCIPAL_EVENTS = 3
    Thresholds <- Limits
SYMMETRY Symmetry
INVARIANTS PathsExplainReach BlastCountsTrusted PageShowsGrants
CHECK_DEADLOCK FALSE
