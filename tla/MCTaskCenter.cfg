\* One tool call with its three records and a queue of one, or one approval with
\* two calls; one restart.  Or the start on a database of every release that
\* added migrations.
SPECIFICATION MCSpec
CONSTANTS
    t1 = t1
    e1 = e1
    e2 = e2
    NoRecord = NoRecord
    Tool <- MCTool
    Exec <- MCExec
    Record <- MCRecord
    Outcome <- MCOutcome
    QueueSize = 1
    MaxRestarts = 1
    Releases = {0, 13, 25, 35, 39, 48, 51, 52, 53, 54, 55, 56, 58, 59, 60, 70, 71, 72,
                73, 74, 80, 81, 82, 83, 84}
    Model <- MCModel
    BaseColumns <- MCBaseColumns
    MIGRATIONS <- MCMIGRATIONS
    Conversion <- MCConversion
    APPROVAL_CONTEXT_COLUMNS <- MCAPPROVAL_CONTEXT_COLUMNS
    Unmigrated <- MCUnmigrated
    Bucket <- MCBucket
    Databases <- MCDatabases
    Defects = {"none", "config", "asset", "duplicate", "token"}
INVARIANTS RowTellsTheTruth DispatchedOnce NothingLostInOrder
           StartKeepsData StartBringsUpToDate
PROPERTIES ShutdownEnds
CHECK_DEADLOCK FALSE
