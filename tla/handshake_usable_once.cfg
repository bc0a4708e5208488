SPECIFICATION Spec
CONSTANTS
    Requests = {r1, r2, r3}
    Challenges = {c1}
    NoChallenge = NoChallenge
    Second = 1
    Timeout = 2
    Buffer = 1
    UtcOffset = 0
    MaxLatency = 1
    StartupPing <- Up
    DataLoss = FALSE
    MaxTime = 3
SYMMETRY Interchangeable
INVARIANT UsableOnce
CHECK_DEADLOCK FALSE
