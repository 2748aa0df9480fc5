SPECIFICATION FairSpec
CONSTANTS
    p1 = p1  p2 = p2  p3 = p3
    i1 = i1  i2 = i2
    l1 = l1
    Procs = {p1, p2, p3}
    None = None
    CrashAt = {"in", "claiming", "verify"}
    Stalls = FALSE
    MaxDead = 2
    Items = {i1, i2}
    Labels = {l1}
    Erasable = {i1}
    MaxInstalls = 1
    MaxPins = 1
    InstallDies = FALSE
INVARIANTS MutualExclusion PinsAreHonest 
PROPERTY DeadOwnerGivesWay
