SPECIFICATION MCSpec
CONSTANTS
    Key = {"base", "server", "rollback"}
    Task <- QueueTask
    Deploy = {"d1", "d2", "d3", "d4"}
    Rollback = {"r1"}
    Via <- QueueVia
    LockKeys <- QueueKeys
    DeploymentOf <- QueueOf
    RetryOf <- QueueRetry
    Cancel = {"c1", "c2", "c3"}
    CancelVia <- QueueCancelVia
    CancelOf <- QueueCancelOf
    NoTask = "no task"
    Worker = "worker"
    Nobody = "nobody"
    LOCK_TIMEOUT_SECONDS = 1
    MaxClock = 3
    MaxRestarts = 1
    MaxForced = 1
INVARIANTS
    KeysAreAccountedFor RevokedNeverRuns RowsAgree RobberHasCause AtMostOneRun
CHECK_DEADLOCK FALSE
