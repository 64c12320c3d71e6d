SPECIFICATION Spec
CONSTANTS
    Request = {r1, r2, r3, r4}
    Limit = 2
    Window = 3
    MaxTime = 6
    MaxLatency = 2
SYMMETRY Symmetry
INVARIANT TypeOK
INVARIANT WindowLimit
PROPERTY RefusalJustified
CHECK_DEADLOCK FALSE
