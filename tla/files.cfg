SPECIFICATION FilesSpec
CONSTANTS
    None = None
    Absent = Absent
    Stores <- MCStores
    Beyond = {}
    MaxFaults = 3
    Contents = {v1}
    Clients = {p1, p2}
    Window = 1
    Immunity = 3
    Ttl = 1
    MaxOps = 3
    MaxCrashes = 1
INVARIANTS NothingLaundered ServedStoreVerifies BodiesAreKept
PROPERTIES MigrationEnds NothingLingers
CHECK_DEADLOCK FALSE
