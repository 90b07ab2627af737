SPECIFICATION MCSpec
CONSTANTS
    StepCount = 3
    MaxCrashes = 2
    Servers <- ThreeServers
    MaxParallel = 2
    t1 = t1
    p1 = p1
    p2 = p2
    Thread <- MCThread
    Page <- MCPage
    Lines = 2
    Batch = 2
    Room = 1
    Limit = 2
    MaxFaults = 2
INVARIANTS CallsInOrder StatusIsHonest ReportIsHonest OutageIsBounded LinesAreKept
PROPERTIES WorkEnds PageLearns
CHECK_DEADLOCK FALSE
