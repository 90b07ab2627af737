---------------------------- MODULE MCTaskCenter ----------------------------
(***************************************************************************)
(* An instance of the two components that a start and a stop of the        *)
(* process concern: the jobs, approvals and audit records under way        *)
(* (TaskCenter) and the database of an older release (SchemaMigrations).   *)
(* A behaviour is about one of them; the other stays as it starts.         *)
(***************************************************************************)
EXTENDS TaskCenter, SchemaMigrations

CONSTANTS t1, e1, e2, Releases

VARIABLES about

MCTool == {t1}
MCExec == {e1, e2}
MCRecord == MCTool \X {"queued", "success", "failed"}
MCOutcome(j, x) == <<j, x>>

\* The schema of the code, and the databases of its releases.
S == INSTANCE Schema
MCModel == S!MetaData
MCBaseColumns == S!BaseMigrations
MCMIGRATIONS == S!AllMigrations
MCConversion == S!ConversionVersions
MCAPPROVAL_CONTEXT_COLUMNS == S!ContextColumnNames
MCUnmigrated == S!NeverMigrated
MCBucket == S!ConfigKinds
MCDatabases == S!LeftDatabases

all == <<about, vars, schemaVars>>

\* While jobs run the database is of no interest.
NoDatabase ==
    /\ disk = S!Empty /\ view = disk /\ begun = FALSE /\ phase = "off" /\ pos = 1
    /\ defect = "none" /\ refused = {} /\ edited = {}

MCInit ==
    \/ about = "work" /\ Init /\ NoDatabase
    \/ about = "start" /\ Init /\ kind = "tool" /\ SchemaInit

WorkNext == about = "work" /\ Next /\ UNCHANGED <<about, schemaVars>>
StartNext == about = "start" /\ SchemaNext /\ UNCHANGED <<about, vars>>
MCNext == WorkNext \/ StartNext

\* The fairness of TaskCenter.
MCFairness ==
    /\ WF_all(about = "work" /\ kind = "tool" /\ WriterStep
              /\ UNCHANGED <<jobVars, approvalVars, processVars, about, schemaVars>>)
    /\ WF_all(about = "work" /\ kind = "tool" /\ ShutdownStep
              /\ UNCHANGED <<jobVars, approvalVars, processVars, about, schemaVars>>)

MCSpec == MCInit /\ [][MCNext]_all /\ MCFairness
=============================================================================
