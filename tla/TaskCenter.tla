----------------------------- MODULE TaskCenter -----------------------------
(***************************************************************************)
(* What the task centre shows: rows of operation_jobs that a tool call or  *)
(* an approval works on, the sweep and the deletions, the audit writer     *)
(* behind the tool calls, and the process that may stop in order or crash. *)
(* A behaviour is about a tool call or about an approval (kind): the two   *)
(* meet nowhere but in the sweep, the deletions and the process.           *)
(***************************************************************************)
EXTENDS ActionApproval

CONSTANT MaxRestarts

ASSUME TaskAssumption ==
    /\ MaxRestarts \in Nat /\ Tool \cap Exec = {}
    /\ \A j \in Tool, x \in {"queued", "success", "failed"} : Outcome(j, x) \in Record

VARIABLES kind, restarts

processVars == <<kind, restarts>>
vars == <<auditVars, jobVars, approvalVars, processVars>>

Init ==
    /\ AuditInit /\ JobInit /\ ApprovalInit
    /\ kind \in {"tool", "approval"} /\ restarts = 0

\* The shutdown is over, or the process is killed.
Restart ==
    /\ restarts < MaxRestarts /\ restarts' = restarts + 1
    /\ AuditRestart /\ JobRestart /\ ApprovalRestart
    /\ UNCHANGED kind

ToolNext ==
    /\ kind = "tool"
    /\ \/ \E j \in Tool : ToolStep(j)
       \/ (WriterStep \/ SetsEvent \/ ShutdownStep) /\ UNCHANGED jobVars
    /\ UNCHANGED <<approvalVars, processVars>>

ApprovalNext ==
    /\ kind = "approval"
    /\ \/ \E e \in Exec : ApprovalStep(e)
       \/ ExpireStale
    /\ UNCHANGED <<auditVars, processVars>>

CenterNext ==
    /\ SweepLoads \/ SweepWrites \/ \E j \in Job : DeleteRow(j)
    /\ UNCHANGED <<approvalVars, processVars>>

Next == ToolNext \/ ApprovalNext \/ CenterNext \/ Restart

\* The writer and the shutdown are threads that run; nobody has to call
\* anything, delete anything or stop the process.
Fairness ==
    /\ WF_vars(kind = "tool" /\ WriterStep /\ UNCHANGED <<jobVars, approvalVars, processVars>>)
    /\ WF_vars(kind = "tool" /\ ShutdownStep /\ UNCHANGED <<jobVars, approvalVars, processVars>>)

Spec == Init /\ [][Next]_vars /\ Fairness

-----------------------------------------------------------------------------
TypeOK ==
    /\ AuditTypeOK /\ JobTypeOK /\ ApprovalTypeOK
    /\ kind \in {"tool", "approval"} /\ restarts \in 0..MaxRestarts

Working(j) ==
    IF j \in Tool THEN at[j] # "none" \/ caller[j] = "created"
    ELSE session[j] \in {"refresh", "dispatch", "finish"}

JobTellsTheTruth(j) ==
    /\ row[j] = "success" =>
          j \in returned /\ (j \in Tool => fate[Outcome(j, "success")] # "none")
    /\ row[j] = "failed" /\ j \in returned => j \in swept \cup raised
    /\ ActiveJob(j) => Working(j) \/ j \in raised \cup stranded

ApprovalTellsTheTruth ==
    /\ approval \in {"SUCCEEDED", "FAILED"} => \E e \in Exec : result[e] = approval
    /\ approval = "RUNNING" =>
          restarts > 0 \/ \E e \in Exec : Working(e) \/ e \in raised \/ row[e] = "gone"
    /\ approval = "EXECUTING" =>
          restarts > 0 \/ \E e \in Exec : session[e] \in {"claimed", "execute"}

\* What the task centre shows is what happened.  Of a job: a success was done
\* and, for a tool, its record was made; a failure that was done was swept, or a
\* commit raised; an active row has a thread or call that works on it, unless a
\* commit raised or a restart cut it off.  Of an approval: its outcome is that of
\* a dispatch, and while it is claimed or running somebody works on it, unless a
\* commit raised, the job row was deleted, or a restart came.
RowTellsTheTruth == (\A j \in Job : JobTellsTheTruth(j)) /\ ApprovalTellsTheTruth

\* The action of an approval is dispatched once, unless two calls had both read
\* EXECUTING before either wrote RUNNING.
DispatchedOnce == Cardinality(dispatched) <= 1 \/ together

\* At the end of an orderly shutdown no record that was submitted before it began
\* is still in the queue or in the hands of the writer, to die with the process.
NothingLostInOrder ==
    closing = "over" => \A r \in Record \ lateComers : fate[r] # "queued"

\* The main thread waits for a queue nobody reads: records were submitted after
\* the writer had left, and the main thread had seen it alive.
Stuck == /\ closing = "joins" /\ ~alive /\ queue # <<>>
         /\ \A i \in DOMAIN queue : queue[i] \in lateComers

\* Once the event is set the shutdown ends (or the process is killed), unless it
\* is stuck so.
ShutdownEnds == (closing = "looks") ~> (closing \in {"over", "no"} \/ Stuck)
=============================================================================
