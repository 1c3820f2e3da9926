SPECIFICATION FairSpec
CONSTANTS
    c1 = c1
    Checksums = {c1}
    MaxVersion = 3
    Scripts <- SqlDirectory
    UserScript = 2
    Hybrid = FALSE
    MaxPrepares = 2
    MaxUps = 2
    MaxCrashes = 0
PROPERTIES
    Stabilises
CHECK_DEADLOCK FALSE
