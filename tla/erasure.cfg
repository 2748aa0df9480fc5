SPECIFICATION FairSpec
CONSTANTS
    Keys = {k1, k2}
    Covered = {k1}
    Bodies = {c}
    Ingesters = {t1}
    Kinds = {"trace", "tenant"}
    Hosts = {"server", "embedded"}
    Faults = {"kill", "io"}
    MaxSpans = 2
    MaxFaults = 1
INVARIANTS NothingErasedIsLeft PayloadsFollowSpans OnlyTheSubjectGoes
PROPERTY ErasureSettles
CHECK_DEADLOCK FALSE
