\* The job: two calls of handlers at a time, two threads, four rows in batches of two
\* with a cap of three, one restart.
\* The packages: one name, two calls at a time, a deployment or plan of the period
\* before and one of this period.  What was used or succeeded in the period before is
\* overdue, what failed or was planned in it is not.
SPECIFICATION MCSpec
CONSTANTS
    s1 = s1  s2 = s2  l1 = l1  l2 = l2  p1 = p1
    Session = {s1, s2}
    Loop = {l1, l2}
    Matching = 4
    BatchSize = 2
    MaxDelete = 3
    MaxRestarts = 1
    Package = {p1}
    Call = {s1, s2}
    Deployments = 2
    Prior = 1
    KeepUnused = 0
    KeepUsed = 0
    KeepSuccess = 0
    KeepFailed = 1
    KeepPlan = 1
    KeepLatest = 1
    None = None
    Now = 1
    MaxCalls = 2
INVARIANTS CountedAndCapped StopsWithinABatch SomebodyWorks RowsMatchFiles
PROPERTIES RemovalsAreDue
SYMMETRY Symmetric
CHECK_DEADLOCK FALSE
