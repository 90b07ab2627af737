--------------------------- MODULE ActionApproval ---------------------------
(***************************************************************************)
(* A single-action approval: ActionApprovalService of                      *)
(* app/services/action_approval.py, the tool that consumes an approval and *)
(* executes it in the same call, the endpoint that executes it by hand,    *)
(* and ApprovalExecutor.execute, which keeps a row of operation_jobs for   *)
(* each execution.  A session here is one such call; its job has its name. *)
(***************************************************************************)
EXTENDS OperationJob

VARIABLES
    approval,    \* the status column
    session,     \* execution -> where the call stands
    result,      \* execution -> what its dispatch gave, and the commit will write
    dispatched,  \* history: executions that dispatched the action
    together     \* history: two calls had read EXECUTING at a time

approvalVars == <<approval, session, result, dispatched, together>>

ApprovalInit ==
    /\ approval = "PENDING_APPROVAL"
    /\ session = [e \in Exec |-> "idle"] /\ result = [e \in Exec |-> "none"]
    /\ dispatched = {} /\ together = FALSE

Enter(e, where) == session' = [session EXCEPT ![e] = where]

\* consume and reject decide on the row they loaded; consume may find it overdue.
ReadsPending(e) ==
    /\ session[e] = "idle" /\ approval = "PENDING_APPROVAL"
    /\ \E where \in {"consume", "expire", "reject"} : Enter(e, where)
    /\ UNCHANGED <<approval, result, dispatched, together, jobVars>>

\* The claim is one conditional update; then the row is loaded again.
Consumes(e) ==
    /\ session[e] = "consume"
    /\ IF approval = "PENDING_APPROVAL" THEN approval' = "EXECUTING" /\ Enter(e, "claimed")
       ELSE UNCHANGED approval /\ Enter(e, "idle")
    /\ UNCHANGED <<result, dispatched, together, jobVars>>

\* Written by id.
ExpiresOrRejects(e) ==
    /\ session[e] \in {"expire", "reject"}
    /\ approval' = IF session[e] = "expire" THEN "EXPIRED" ELSE "REJECTED"
    /\ Enter(e, "idle")
    /\ UNCHANGED <<result, dispatched, together, jobVars>>

\* expire_stale: one conditional update.
ExpireStale ==
    /\ approval = "PENDING_APPROVAL" /\ approval' = "EXPIRED"
    /\ UNCHANGED <<session, result, dispatched, together, jobVars>>

-----------------------------------------------------------------------------
(* ApprovalExecutor.execute.                                               *)

\* Mutant: execute takes any approval that was claimed.
ExecutableAgain == approval \in {"EXECUTING", "RUNNING", "SUCCEEDED", "FAILED"}

Executable == approval = "EXECUTING"

\* After the claim, or by hand.
ReadsApproval(e) ==
    /\ session[e] \in {"claimed", "idle"}
    /\ \/ Executable /\ Enter(e, "execute")
          /\ together' = (together \/ \E f \in Exec \ {e} : session[f] = "execute")
       \/ ~Executable /\ session[e] = "claimed" /\ Enter(e, "idle") /\ UNCHANGED together
    /\ row[e] = "none"
    /\ UNCHANGED <<approval, result, dispatched, jobVars>>

\* One commit: the job, and RUNNING by id.
Starts(e) ==
    /\ session[e] = "execute"
    /\ row' = [row EXCEPT ![e] = "running"] /\ approval' = "RUNNING"
    /\ Enter(e, "refresh")
    /\ UNCHANGED <<caller, at, loaded, sweeping, jobHistory, result, dispatched, together>>

\* Both rows are loaded again; without the job the call raises.
Refreshes(e) ==
    /\ session[e] = "refresh" /\ Enter(e, IF row[e] = "gone" THEN "over" ELSE "dispatch")
    /\ UNCHANGED <<approval, result, dispatched, together, jobVars>>

Dispatches(e) ==
    /\ session[e] = "dispatch" /\ dispatched' = dispatched \cup {e}
    /\ \/ result' = [result EXCEPT ![e] = "SUCCEEDED"] /\ returned' = returned \cup {e}
       \/ result' = [result EXCEPT ![e] = "FAILED"] /\ UNCHANGED returned
    /\ Enter(e, "finish")
    /\ UNCHANGED <<approval, together, row, caller, at, loaded, sweeping, swept, raised, stranded>>

\* Mutant: a failed dispatch is written as a success of the job.
JobResultBlind(e) == "success"

JobResult(e) == IF result[e] = "SUCCEEDED" THEN "success" ELSE "failed"

\* One commit for both rows.
Finishes(e) ==
    /\ session[e] = "finish" /\ row[e] # "gone"
    /\ approval' = result[e] /\ row' = [row EXCEPT ![e] = JobResult(e)]
    /\ Enter(e, "over")
    /\ UNCHANGED <<result, dispatched, together, caller, at, loaded, sweeping, jobHistory>>

\* The job was deleted, or the database refuses: nothing is written.
FinishRaises(e) ==
    /\ session[e] = "finish" /\ Enter(e, "over") /\ raised' = raised \cup {e}
    /\ UNCHANGED <<approval, result, dispatched, together, row, caller, at, loaded,
                   sweeping, returned, swept, stranded>>

ApprovalStep(e) ==
    \/ ReadsPending(e) \/ Consumes(e) \/ ExpiresOrRejects(e) \/ ReadsApproval(e)
    \/ Starts(e) \/ Refreshes(e) \/ Dispatches(e) \/ Finishes(e) \/ FinishRaises(e)

ApprovalRestart ==
    /\ session' = [e \in Exec |-> IF session[e] \in {"refresh", "dispatch", "finish", "over"}
                                  THEN "over" ELSE "idle"]
    /\ UNCHANGED <<approval, result, dispatched, together>>

ApprovalTypeOK ==
    /\ approval \in {"PENDING_APPROVAL", "EXECUTING", "RUNNING", "SUCCEEDED", "FAILED",
                     "EXPIRED", "REJECTED"}
    /\ session \in [Exec -> {"idle", "consume", "claimed", "expire", "reject", "execute",
                             "refresh", "dispatch", "finish", "over"}]
    /\ result \in [Exec -> {"none", "SUCCEEDED", "FAILED"}]
    /\ dispatched \subseteq Exec /\ together \in BOOLEAN
=============================================================================
