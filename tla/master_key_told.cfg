SPECIFICATION MasterSpec
CONSTANTS
    Stores = {s1, s2}
    Loads = {l1, l2}
    Absent = Absent
    CacheTtl = 1
    MaxMiss = 1
    EnvShards = FALSE
    EnvSecret = EnvSecret
    EnvWindowEnd = 0
    EmptySecrets = {}
    MaxTime = 4
SYMMETRY Interchangeable
INVARIANT ToldKeyWorks
CHECK_DEADLOCK FALSE
