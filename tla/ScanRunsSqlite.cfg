SPECIFICATION Spec
CONSTANTS
    f1 = f1
    f2 = f2
    MaxRuns = 3
    Workers = 2
    Fingerprints <- TwoFingerprints
    Dialect = "sqlite"
    Faults <- RefusalsAndCrashes
CHECK_DEADLOCK FALSE
SYMMETRY Symmetry
INVARIANTS TypeOK MissingStaysMissing CountedAgainstNewest
PROPERTIES TerminalIsFinal
