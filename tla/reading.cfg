SPECIFICATION MCSpec
CONSTANTS
    Keys = {1, 2}
    Times = {1, 2}
    Sessions = {s, o}
    NoSession = none
    Asked = s
    Paged <- MCPaged
    Folded <- MCFolded
    PageSize = 1
    MaxIngests = 3
    MaxErasures = 1
    Corrupt = corrupt
    MaxTime = 3
    BlockBytes = 4
    BlockRecords = 2
    PageRows = 2
    CacheSlots = 2
    MaxSealed = 4
    MaxRot = 1
INVARIANTS PagesAreCurrent PagesMakeOneWhole AggregatesCountOnce SegmentsAnswerWhole
CHECK_DEADLOCK FALSE
