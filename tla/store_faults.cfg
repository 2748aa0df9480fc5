SPECIFICATION FairSpec
CONSTANTS
    Keys = {k1, k2}
    Ingesters = {t1}
    Maintainer = m
    Modes = {"wal"}
    Faults = {"power", "kill", "io", "current"}
    MaxBatches = 2
    MaxGeneration = 2
    MaxFaults = 2
INVARIANTS AckedSurvives FoldsLoseNothing
PROPERTY CallsReturn
CHECK_DEADLOCK FALSE
