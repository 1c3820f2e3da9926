SPECIFICATION FairSpec
CONSTANTS
    c1 = c1
    Checksums = {c1}
    MaxVersion = 3
    Scripts <- SqlDirectory
    UserScript = 2
    Hybrid = FALSE
    MaxPrepares = 2
    MaxUps = 3
    MaxCrashes = 2
INVARIANTS
    TypeOK
    ExitMeansMigrated
PROPERTIES
    DataOutlivesContainers
    RecoversUnlessRenewed
CHECK_DEADLOCK FALSE
