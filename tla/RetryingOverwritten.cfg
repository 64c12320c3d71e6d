SPECIFICATION Spec
CONSTANTS
    Delivery = {d1}
    Worker = {w1}
    Sweeper = {v1}
    RetryCounts = {2}
    MaxRetries = 3
    LookupRetries = 2
    Timely = TRUE
    MaxCrashes = 1
    MaxAborts = 0
INVARIANT RetryingOverwritten
CHECK_DEADLOCK FALSE
