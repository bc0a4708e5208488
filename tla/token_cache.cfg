SPECIFICATION Spec
CONSTANTS
    Stores = {s1, s2}
    Loads = {l1, l2, l3}
    Absent = Absent
    CacheTtl = 2
    MaxMiss = 1
    EnvShards = TRUE
    EnvSecret = EnvSecret
    EnvWindowEnd = 2
    EmptySecrets = {s2}
    MaxTime = 4
SYMMETRY Interchangeable
INVARIANTS TypeOK StalenessInv BoundedStaleness EnvOnlyForWant
CHECK_DEADLOCK FALSE
