SPECIFICATION FairSpec
CONSTANTS
    Key = {k1, k2}
    Center = {c1, c2}
    Session = {s1, s2}
    Absent = Absent
    Unreadable = Unreadable
    MaxRows = 2
    MaxRequests = 2
    MaxFaults = 1
INVARIANT TypeOK
INVARIANT SummaryTrue
INVARIANT CentersUsed
INVARIANT CentersExist
PROPERTY CreatedOnce
PROPERTY AsIfAlone
PROPERTY RequestsEnd
CHECK_DEADLOCK FALSE
