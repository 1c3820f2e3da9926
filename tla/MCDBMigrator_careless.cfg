SPECIFICATION FairSpec
CONSTANTS
    a1 = a1  a2 = a2  a3 = a3  a4 = a4  e1 = e1  e2 = e2  c1 = c1  c2 = c2
    None = None
    Envs = {e1, e2}
    Assets = {a1, a2, a3, a4}
    Checksums = {c1, c2}
    MaxVersion = 3
    Content <- CarelessContent
    MaxRequests = 3
    Retries = 1
    MaxDuplicates = 0
    MaxCrashes = 1
    EscapeAnswers = TRUE
    Faults = {"secret", "s3", "unzip", "config", "sql", "mute"}
    PopulatedSchemas = {TRUE, FALSE}
INVARIANTS
    LiveIsValid
PROPERTIES
    EveryRequestSettles
    DeleteCompletes
