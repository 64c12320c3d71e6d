SPECIFICATION Spec
CONSTANTS
    Request = {r1, r2, r3, r4, r5, r6}
    Limit = 3
    Window = 4
    MaxTime = 6
    MaxLatency = 0
SYMMETRY Symmetry
INVARIANT BurstNearLimit
CHECK_DEADLOCK FALSE
