SPECIFICATION FairSpec
CONSTANTS
    Requests = {r1, r2}
    Challenges = {c1}
    NoChallenge = NoChallenge
    Second = 1
    Timeout = 2
    Buffer = 1
    UtcOffset <- BehindUtc
    MaxLatency = 1
    StartupPing <- UpOrDown
    DataLoss = TRUE
    MaxTime = 4
INVARIANTS AcceptedNearExpiry ReplayMeansUsed
PROPERTY WaitingIsAnswered
CHECK_DEADLOCK FALSE
