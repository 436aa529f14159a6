SPECIFICATION FairSpec
CONSTANTS
    Openers = {p1, p2, p3}
    MaxAttempts = 2
    Faults = {"io", "commit", "maintenance", "close"}
    Null = Null
INVARIANTS NothingLeftBehind
PROPERTIES RefusalsAreHonest ImplementsStoreOpening
PROPERTY StartupEnds
CHECK_DEADLOCK FALSE
