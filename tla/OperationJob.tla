---------------------------- MODULE OperationJob ----------------------------
(***************************************************************************)
(* Rows of operation_jobs: the tool jobs of app/services/job_service.py    *)
(* with the thread that runs each, the call of the registry that enqueues  *)
(* them (tool_registry.py), the sweep of stale jobs that a look at the     *)
(* task centre makes and the deletion (domain/runtime/jobs.py).            *)
(*                                                                         *)
(* _set_job_status is two steps: a SELECT, and an UPDATE by id of the      *)
(* columns whose value differs from the loaded one.  Any commit may raise  *)
(* (SQLite reports a locked database).                                     *)
(***************************************************************************)
EXTENDS AuditWriter, FiniteSets

CONSTANTS Tool, Exec,      \* jobs of tool calls, jobs of approval executions
          Outcome(_, _)    \* the audit record of a job with a status

Job == Tool \cup Exec

VARIABLES
    row,        \* job -> status column; "none" before, "gone" after
    caller,     \* tool job -> where the call that enqueues it stands
    at,         \* tool job -> where its thread stands
    loaded,     \* tool job -> the status its thread has loaded, "nothing"
    sweeping,   \* the stale rows the sweep has loaded
    returned,   \* history: jobs whose action was done
    swept,      \* history: jobs whose row the sweep wrote
    raised,     \* history: jobs for which a commit raised
    stranded    \* history: jobs a restart cut off

jobVars == <<row, caller, at, loaded, sweeping, returned, swept, raised, stranded>>
jobHistory == <<returned, swept, raised, stranded>>

JobInit ==
    /\ row = [j \in Job |-> "none"]
    /\ caller = [j \in Tool |-> "idle"] /\ at = [j \in Tool |-> "none"]
    /\ loaded = [j \in Tool |-> "nothing"]
    /\ sweeping = {} /\ returned = {} /\ swept = {} /\ raised = {} /\ stranded = {}

Exists(j) == row[j] \notin {"none", "gone"}

\* _is_active_runtime_status.
ActiveJob(j) == row[j] \in {"queued", "running"}

-----------------------------------------------------------------------------
(* registry.call: the row, the thread, the audit record of the call.       *)

CreateJob(j) ==
    /\ caller[j] = "idle"
    /\ row' = [row EXCEPT ![j] = "queued"] /\ caller' = [caller EXCEPT ![j] = "created"]
    /\ UNCHANGED <<at, loaded, sweeping, jobHistory, auditVars>>

StartWorker(j) ==
    /\ caller[j] = "created"
    /\ at' = [at EXCEPT ![j] = "boot"] /\ caller' = [caller EXCEPT ![j] = "started"]
    /\ UNCHANGED <<row, loaded, sweeping, jobHistory, auditVars>>

RecordCall(j) ==
    /\ caller[j] = "started" /\ Submit(Outcome(j, "queued"))
    /\ caller' = [caller EXCEPT ![j] = "over"]
    /\ UNCHANGED <<row, at, loaded, sweeping, jobHistory>>

-----------------------------------------------------------------------------
(* The thread of a job: _execute_tool_job.                                 *)

Go(j, where) == at' = [at EXCEPT ![j] = where]

\* What each call of _set_job_status writes, and what comes after it.
Written == [p10 |-> "running", p35 |-> "running", p90 |-> "running",
            p100 |-> "success", fail |-> "failed"]
After == [p10 |-> "request", p35 |-> "handler", p90 |-> "audit",
          p100 |-> "none", fail |-> "failaudit"]

\* A row that is not queued any more is left alone.
Boots(j) ==
    /\ at[j] = "boot" /\ Go(j, IF row[j] = "queued" THEN "p10" ELSE "none")
    /\ UNCHANGED <<row, caller, loaded, sweeping, jobHistory, auditVars>>

\* The SELECT; no row, nothing to do, and the thread goes on.  (Before its first
\* commit the thread still holds the job it loaded, so it gets past "request".)
LoadsJob(j) ==
    /\ at[j] \in DOMAIN Written /\ loaded[j] = "nothing"
    /\ IF Exists(j)
       THEN loaded' = [loaded EXCEPT ![j] = row[j]] /\ UNCHANGED at
       ELSE UNCHANGED loaded /\ Go(j, IF at[j] = "p10" THEN "policy" ELSE After[at[j]])
    /\ UNCHANGED <<row, caller, sweeping, jobHistory, auditVars>>

Saves(j) == row' = [row EXCEPT ![j] = IF loaded[j] = Written[at[j]] THEN @ ELSE Written[at[j]]]

WritesJob(j) ==
    /\ at[j] \in DOMAIN Written /\ loaded[j] # "nothing" /\ Exists(j)
    /\ Saves(j) /\ Go(j, After[at[j]])
    /\ loaded' = [loaded EXCEPT ![j] = "nothing"]
    /\ UNCHANGED <<caller, sweeping, jobHistory, auditVars>>

\* The commit raises: the row is gone since the SELECT, or the database refuses.
WriteRaises(j) ==
    /\ at[j] \in DOMAIN Written /\ loaded[j] # "nothing"
    /\ Go(j, IF at[j] = "fail" THEN "failaudit" ELSE "fail")
    /\ loaded' = [loaded EXCEPT ![j] = "nothing"]
    /\ raised' = raised \cup {j}
    /\ UNCHANGED <<row, caller, sweeping, returned, swept, stranded, auditVars>>

\* The attributes of the job are loaded again after the first commit.
ReadsRequest(j) ==
    /\ at[j] = "request" /\ Go(j, IF Exists(j) THEN "policy" ELSE "fail")
    /\ UNCHANGED <<row, caller, loaded, sweeping, jobHistory, auditVars>>

\* enforce_tool_policy, once more.
PassesPolicy(j) ==
    /\ at[j] = "policy" /\ \E ok \in BOOLEAN : Go(j, IF ok THEN "p35" ELSE "fail")
    /\ UNCHANGED <<row, caller, loaded, sweeping, jobHistory, auditVars>>

Handles(j) ==
    /\ at[j] = "handler"
    /\ \/ Go(j, "p90") /\ returned' = returned \cup {j}
       \/ Go(j, "fail") /\ UNCHANGED returned
    /\ UNCHANGED <<row, caller, loaded, sweeping, swept, raised, stranded, auditVars>>

\* The record of a failure is made from the row.
RecordOutcome(j) ==
    /\ \/ at[j] = "audit" /\ Submit(Outcome(j, "success")) /\ Go(j, "p100")
       \/ at[j] = "failaudit" /\ Exists(j) /\ Submit(Outcome(j, "failed")) /\ Go(j, "none")
       \/ at[j] = "failaudit" /\ ~Exists(j) /\ UNCHANGED auditVars /\ Go(j, "none")
    /\ UNCHANGED <<row, caller, loaded, sweeping, jobHistory>>

ToolStep(j) ==
    \/ CreateJob(j) \/ StartWorker(j) \/ RecordCall(j)
    \/ Boots(j) \/ LoadsJob(j) \/ WritesJob(j) \/ WriteRaises(j) \/ ReadsRequest(j)
    \/ PassesPolicy(j) \/ Handles(j) \/ RecordOutcome(j)

-----------------------------------------------------------------------------
(* The task centre.                                                        *)

\* reconcile_stale_operation_jobs: any active row may be old enough, for the
\* thread of a live job need not write while its handler runs.
SweepLoads ==
    /\ sweeping = {}
    /\ \E S \in SUBSET {j \in Job : ActiveJob(j)} : S # {} /\ sweeping' = S
    /\ UNCHANGED <<row, caller, at, loaded, jobHistory, auditVars>>

\* By id, whatever the rows say now, in one commit that raises if one is gone.
SweepWrites ==
    /\ sweeping # {} /\ sweeping' = {}
    /\ IF \A j \in sweeping : Exists(j)
       THEN /\ row' = [j \in Job |-> IF j \in sweeping THEN "failed" ELSE row[j]]
            /\ swept' = swept \cup sweeping
       ELSE UNCHANGED <<row, swept>>
    /\ UNCHANGED <<caller, at, loaded, returned, raised, stranded, auditVars>>

\* delete_runtime_tasks; an active row goes only by force.
DeleteRow(j) ==
    /\ Exists(j) /\ row' = [row EXCEPT ![j] = "gone"]
    /\ UNCHANGED <<caller, at, loaded, sweeping, jobHistory, auditVars>>

\* Every thread is a daemon; nobody resumes the jobs of the last process.
JobRestart ==
    /\ stranded' = stranded \cup {j \in Job : ActiveJob(j)}
    /\ caller' = [j \in Tool |-> IF caller[j] = "idle" THEN "idle" ELSE "over"]
    /\ at' = [j \in Tool |-> "none"] /\ loaded' = [j \in Tool |-> "nothing"]
    /\ sweeping' = {}
    /\ UNCHANGED <<row, returned, swept, raised>>

JobTypeOK ==
    /\ row \in [Job -> {"none", "queued", "running", "success", "failed", "gone"}]
    /\ caller \in [Tool -> {"idle", "created", "started", "over"}]
    /\ at \in [Tool -> DOMAIN Written \cup {"none", "boot", "request", "policy",
                                            "handler", "audit", "failaudit"}]
    /\ loaded \in [Tool -> {"nothing", "queued", "running", "success", "failed"}]
    /\ \A x \in {sweeping, returned, swept, raised, stranded} : x \subseteq Job
=============================================================================
