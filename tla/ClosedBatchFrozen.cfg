SPECIFICATION FairSpec
CONSTANTS
    Batch = {1}
    Code = {c1, c2}
    Session = {s1, s2}
    Absent = Absent
    MaxCodes = 2
    MaxRequests = 4
PROPERTY ClosedBatchFrozen
CHECK_DEADLOCK FALSE
