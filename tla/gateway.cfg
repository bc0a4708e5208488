SPECIFICATION FairGatewaySpec
CONSTANTS
    Requests = {r1, r2}
    Challenges = {c1}
    NoChallenge = NoChallenge
    Second = 1
    Timeout = 1
    Buffer = 1
    UtcOffset = 0
    MaxLatency = 1
    StartupPing <- UpOrDown
    DataLoss = FALSE
    MaxTime = 3
    PoolLimit = 1
INVARIANTS GatewayTypeOK ReplayNotForwarded ResponseTells CountFollows
PROPERTIES RequestIsAnswered
CHECK_DEADLOCK FALSE
