SPECIFICATION Spec
CONSTANTS
    Stores = {s1}
    Loads = {l1}
    Absent = Absent
    SplitWindow = 2
    ReadWindow = 2
    Threshold = 3
    MaxTime = 3
SYMMETRY Interchangeable
INVARIANT QuietLoadNeedsNoCare
CHECK_DEADLOCK FALSE
