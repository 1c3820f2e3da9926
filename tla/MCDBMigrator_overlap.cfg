SPECIFICATION Spec
CONSTANTS
    a1 = a1  a2 = a2  a3 = a3  a4 = a4  e1 = e1  e2 = e2  c1 = c1  c2 = c2
    None = None
    Envs = {e1, e2}
    Assets = {a1, a2}
    Checksums = {c1}
    MaxVersion = 2
    Content <- GrowingContent
    MaxRequests = 3
    Retries = 1
    MaxDuplicates = 1
    MaxCrashes = 1
    EscapeAnswers = FALSE
    Faults = {"sql", "cfnTimeout"}
    PopulatedSchemas = {TRUE, FALSE}
SYMMETRY Symmetry
INVARIANTS
    TypeOK
    IInv
    LiveMeansMigrated
    NoRequestForgotten
PROPERTIES
    HistoryGrows
    NoReplacement
    ImplementsContract
