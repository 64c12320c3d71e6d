SPECIFICATION FairSpec
CONSTANTS
    Delivery = {d1, d2}
    Worker = {w1, w2}
    Sweeper = {v1}
    RetryCounts = {1, 2}
    MaxRetries = 3
    LookupRetries = 2
    Timely = FALSE
    MaxCrashes = 1
    MaxAborts = 0
INVARIANT TypeOK
INVARIANT SingleTask
INVARIANT RetryLimit
PROPERTY SuccessFinal
PROPERTY EventuallySettled
CHECK_DEADLOCK FALSE
