SPECIFICATION Spec
CONSTANTS
    sql = sql  code = code  i1 = i1  i2 = i2  i3 = i3  i4 = i4
    springboot = springboot  springBoot = springBoot  sidecar = sidecar  r1 = r1  r2 = r2
    Files = {sql, code}
    Images = {i1, i2, i3, i4}
    DeployTime = {code}
    Names = {springboot, springBoot, sidecar}
    Unnamed = Unnamed
    NameOf <- CarelesslyNamed
    RepoOf <- RepoNames
    Repos = {r1, r2}
    MaxConstructs = 5
    AutoDelete = TRUE
    FileLifetime = 1
    MaxImageAge = 1
    VersionCount = 1
    MaxSynths = 2
    MaxDays = 2
INVARIANTS
    TypeOK
    ThrowsOnlyForItsInput
CHECK_DEADLOCK FALSE
