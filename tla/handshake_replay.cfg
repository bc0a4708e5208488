SPECIFICATION Spec
CONSTANTS
    Requests = {r1, r2, r3}
    Challenges = {c1}
    NoChallenge = NoChallenge
    Second = 2
    Timeout = 2
    Buffer = 2
    UtcOffset = 0
    MaxLatency = 2
    StartupPing <- Up
    DataLoss = FALSE
    MaxTime = 7
SYMMETRY Interchangeable
INVARIANTS TypeOK HandshakeInv AcceptedNearExpiry RefusedNearExpiry ReplayMeansUsed
PROPERTY MarkedStaysRefused
CHECK_DEADLOCK FALSE
