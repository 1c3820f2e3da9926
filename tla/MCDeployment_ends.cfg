SPECIFICATION FairSpec
CONSTANTS
    r1 = r1  r2 = r2  s1 = s1  s2 = s2
    None = None
    Revisions = {r1, r2}
    Scripts <- GrowingScripts
    Template <- ChangingTwo
    UserScript = 2
    Shells = {s1}
    MaxCommands = 3
    MaxFailures = 2
INVARIANTS
    NothingStale
PROPERTIES
    EveryCommandEnds
CHECK_DEADLOCK FALSE
