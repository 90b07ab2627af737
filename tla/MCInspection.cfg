CONSTANTS
    Batch = 2
    Projects = 1
    BatchSize = 1
    Concurrency = 2
    Items = 2
    Category <- OneCategory
    Found = {"PASS", "LOW", "HIGH", "ERROR"}
    Heartbeat = 1
    Stale = 2
    MaxRestarts = 1
    MaxRaises = 2
SPECIFICATION MCSpec
CHECK_DEADLOCK FALSE
INVARIANTS RunIsSound ReportsAreAccountedFor
PROPERTIES VerdictIsFinal ProjectEnds
