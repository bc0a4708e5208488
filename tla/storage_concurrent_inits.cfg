SPECIFICATION Spec
CONSTANTS
    Stores = {s1, s2}
    Loads = {l1}
    Absent = Absent
    SplitWindow = 2
    ReadWindow = 2
    Threshold = 3
    MaxTime = 0
SYMMETRY Interchangeable
INVARIANT SuccessIsWhole
CHECK_DEADLOCK FALSE
