SPECIFICATION Spec
CONSTANTS
    Key = {k1, k2}
    Center = {c1, c2}
    Session = {s1, s2}
    Absent = Absent
    Unreadable = Unreadable
    MaxRows = 2
    MaxRequests = 2
    MaxFaults = 0
PROPERTY RowsKept
CHECK_DEADLOCK FALSE
