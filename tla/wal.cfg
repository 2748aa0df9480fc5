SPECIFICATION FairSpec
CONSTANTS
    Threads = {"t1", "t2"}
    Window = TRUE
    Faults = {"kill", "power", "fsync", "stage", "dirsync"}
    MaxAppends = 3
    MaxSequence = 4
    MaxEpoch = 1
    MaxFaults = 1
INVARIANTS AckedIsDurable StampsFollowFileOrder
PROPERTIES CommitReturns KeepsContract
CHECK_DEADLOCK FALSE
