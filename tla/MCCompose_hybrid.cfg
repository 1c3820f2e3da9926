SPECIFICATION FairSpec
CONSTANTS
    c1 = c1
    Checksums = {c1}
    MaxVersion = 3
    Scripts <- SqlDirectory
    UserScript = 2
    Hybrid = TRUE
    MaxPrepares = 1
    MaxUps = 1
    MaxCrashes = 0
PROPERTIES
    HybridConnects
CHECK_DEADLOCK FALSE
