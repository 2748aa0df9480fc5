SPECIFICATION MCSpec
CONSTANTS
    t1 = t1  t2 = t2
    b1 = b1  b2 = b2
    Tenants = {t1, t2}
    Bodies = {b1, b2}
    Nil = Nil
    Scopes <- MCScopes
    MaxVersions = 3
    MaxExperiments = 2
    MaxDeaths = 1
    MaxSpans = 3
    MaxCalls = 3
    MaxKills = 1
INVARIANTS AckedSurvives NothingDangles IdsAreFresh ErasedStaysErased ReceiptsAreTrue
CHECK_DEADLOCK FALSE
