SPECIFICATION Spec
CONSTANTS
    Stores = {s1, s2}
    Loads = {l1}
    Absent = Absent
    SplitWindow = 1
    ReadWindow = 1
    Threshold = 2
    MaxTime = 1
SYMMETRY Interchangeable
INVARIANTS TypeOK SettledIsWhole QuietLoadReads
PROPERTY ImplementsRegister
CHECK_DEADLOCK FALSE
