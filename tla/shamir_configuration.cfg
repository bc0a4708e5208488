SPECIFICATION Spec
CONSTANTS
    Prime = 5
    Base = 3
    Space = 2
    MaxLength = 1
    MaxTotal = 4
INVARIANTS
    ConfigurationUsable
CHECK_DEADLOCK FALSE
