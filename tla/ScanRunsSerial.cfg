SPECIFICATION FairSpec
CONSTANTS
    f1 = f1
    f2 = f2
    MaxRuns = 3
    Workers = 1
    Fingerprints <- TwoFingerprints
    Dialect = "postgresql"
    Faults <- Refusals
CHECK_DEADLOCK FALSE
INVARIANTS OpenRunsHaveOwners
PROPERTIES RunsEnd
