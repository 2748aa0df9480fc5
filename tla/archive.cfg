SPECIFICATION MCSpec
CONSTANTS
    c1 = c1  c2 = c2  c3 = c3
    s1 = s1  s2 = s2
    pinA = pinA  pinB = pinB
    Clients = {c1, c2, c3}
    Unconfigured = unconfigured
    None = none
    Identity <- MCIdentity
    PinOf <- OnePin
    AckCoversLate = TRUE
    PackCount = 2
    MaxOps = 4
    MaxLate = 1
    q1 = q1  q2 = q2
    Rot = rot
    Gone = gone
    Foreign = foreign
    ChunkBytes = 2
    PackTarget = 3
    PartBytes = 4
    CacheBudget = 3
    MaxFaults = 1
    MaxJobs = 2
INVARIANTS SnapshotsAreWhole ArchivesReadBack
PROPERTY RetirementKeepsOwner
CHECK_DEADLOCK FALSE
