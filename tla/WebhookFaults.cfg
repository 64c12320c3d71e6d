SPECIFICATION Spec
CONSTANTS
    Delivery = {d1}
    Worker = {w1, w2}
    Sweeper = {v1, v2}
    RetryCounts = {2}
    MaxRetries = 3
    LookupRetries = 2
    Timely = FALSE
    MaxCrashes = 1
    MaxAborts = 1
SYMMETRY Symmetry
INVARIANT NoPhantomPost
INVARIANT PostBudget
INVARIANT AttemptsBehind
PROPERTY PromiseKept
CHECK_DEADLOCK FALSE
