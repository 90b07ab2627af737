SPECIFICATION MCSpec
CONSTANTS
    Key = {"base", "rollback"}
    Task <- RollbackTask
    Deploy = {"d1"}
    Rollback = {"r1", "r2"}
    Via <- RollbackVia
    LockKeys <- RollbackKeys
    DeploymentOf <- RollbackOf
    RetryOf <- NoRetry
    Cancel = {"c1"}
    CancelVia <- WebCancelVia
    CancelOf <- RollbackCancelOf
    NoTask = "no task"
    Worker = "worker"
    Nobody = "nobody"
    LOCK_TIMEOUT_SECONDS = 1
    MaxClock = 0
    MaxRestarts = 1
    MaxForced = 0
PROPERTIES
    QueuedTaskEnds CancelTakesEffect
CHECK_DEADLOCK FALSE
