SPECIFICATION Spec
CONSTANTS
    Batch = {1, 2}
    Code = {c1, c2}
    Session = {s1, s2}
    Absent = Absent
    MaxCodes = 2
    MaxRequests = 3
SYMMETRY Symmetry
INVARIANT TypeOK
INVARIANT BornOpenCoherent
INVARIANT CloseNeverUnannounced
INVARIANT AggregationAnnounced
INVARIANT StatsNeverOverstate
PROPERTY ClosedBatchDrains
PROPERTY ClosedOnDemand
PROPERTY RecordKept
CHECK_DEADLOCK FALSE
