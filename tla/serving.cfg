SPECIFICATION MCSpec
CONSTANTS
    c1 = c1  c2 = c2
    k1 = k1  k2 = k2
    Keys = {k1, k2}
    Weights = {1, 2}
    Capacity = 2
    Budget = 2
    MaxSpans = 3
    MaxVeils = 1
    None = None
    Clients = {c1, c2}
    Scopes <- Both
    MaxConnections = 1
    MaxRefusals = 1
    MaxRequests = 2
    Batches <- MCBatches
    Subjects <- MCSubjects
    Backfill = 1
    Limit = 1
    Wanted = {k1}
    MaxConnects = 2
    ta = ta  tb = tb
    Tenants = {ta, tb}
    Nil = Nil
    AuthConfigs <- MCAuthConfigs
    Default = Default
    Unbound = Unbound
    Traces = {x}
    Refs = {v}
    MaxOps = 3
    MaxIds = 3
INVARIANTS AnswersInOrder TailIsHonest NoSleeperMissesNews TenantsStayApart
CHECK_DEADLOCK FALSE
