SPECIFICATION Spec
CONSTANTS
    r1 = r1  r2 = r2  s1 = s1  s2 = s2
    None = None
    Revisions = {r1, r2}
    Scripts <- GrowingScripts
    Template <- ChangingTwo
    UserScript = 2
    Shells = {s1, s2}
    MaxCommands = 2
    MaxFailures = 2
SYMMETRY Symmetry
INVARIANTS
    TypeOK
    ServiceHasItsSchema
    NothingStale
    OrderSuffices
    SqlIsMigrated
CHECK_DEADLOCK FALSE
