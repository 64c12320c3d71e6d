SPECIFICATION FairSpec
CONSTANTS
    Batch = {b1}
    Shift = {day}
    Expiring = {b1}
    Session = {s1, s2}
    None = None
    MaxWrites = 2
    MaxFaults = 1
INVARIANT TypeOK
INVARIANT InvalidationComplete
PROPERTY EventuallyFresh
CHECK_DEADLOCK FALSE
