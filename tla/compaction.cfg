SPECIFICATION Spec
CONSTANTS
    Keys = {k1, k2}
    Fanout = 2
    BaseBytes = 2
    MaxSegmentBytes = 3
    Stale = {1, 3}
    ReclaimOnSeal = TRUE
    Faults = {"kill", "power", "write"}
    MaxBatches = 4
    MaxSegments = 8
    MaxFaults = 1
INVARIANTS ReadsNewest ExpiredStaysGone IdleLeavesNoTrace
SYMMETRY Symmetry
CHECK_DEADLOCK FALSE
