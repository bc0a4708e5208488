SPECIFICATION Spec
CONSTANTS
    Prime = 11
    Base = 3
    Space = 2
    MaxLength = 2
    MaxTotal = 4
INVARIANTS
    TypeOK
    RoundTrip
    KeptRebuilds
    BelowThresholdFitsAnyToken
CHECK_DEADLOCK FALSE
