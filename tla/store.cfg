SPECIFICATION Spec
CONSTANTS
    Keys = {k1, k2}
    Ingesters = {t1, t2}
    Maintainer = m
    Modes = {"wal", "flushed", "buffered"}
    Faults = {"kill"}
    MaxBatches = 3
    MaxGeneration = 2
    MaxFaults = 1
PROPERTY KeepsPromise
SYMMETRY Symmetry
CHECK_DEADLOCK FALSE
