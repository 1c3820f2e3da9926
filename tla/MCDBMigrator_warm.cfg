SPECIFICATION Spec
CONSTANTS
    a1 = a1  a2 = a2  a3 = a3  a4 = a4  e1 = e1  e2 = e2  c1 = c1  c2 = c2
    None = None
    Envs = {e1, e2}
    Assets = {a1}
    Checksums = {c1}
    MaxVersion = 2
    Content <- OneAsset
    MaxRequests = 2
    Retries = 2
    MaxDuplicates = 0
    MaxCrashes = 0
    EscapeAnswers = TRUE
    Faults = {}
    PopulatedSchemas = {FALSE}
SYMMETRY Symmetry
INVARIANTS
    HealthyRequestsSucceed
