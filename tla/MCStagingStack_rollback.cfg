SPECIFICATION Spec
CONSTANTS
    sql = sql  code = code  i1 = i1  i2 = i2  i3 = i3  i4 = i4
    springboot = springboot  springBoot = springBoot  sidecar = sidecar  r1 = r1  r2 = r2
    Files = {sql, code}
    Images = {i1, i2, i3}
    DeployTime = {code}
    Names = {springboot, springBoot, sidecar}
    Unnamed = Unnamed
    NameOf <- AllNamed
    RepoOf <- RepoNames
    Repos = {r1, r2}
    MaxConstructs = 6
    AutoDelete = FALSE
    FileLifetime = 1
    MaxImageAge = 2
    VersionCount = 2
    MaxSynths = 2
    MaxDays = 2
PROPERTIES
    RunningVersionKept
CHECK_DEADLOCK FALSE
