SPECIFICATION Spec
CONSTANTS
    f1 = f1
    f2 = f2
    MaxRuns = 2
    Workers = 2
    Fingerprints <- OneFingerprint
    Dialect = "postgresql"
    Faults <- NoFault
CHECK_DEADLOCK FALSE
INVARIANTS OpenRunsHaveOwners
