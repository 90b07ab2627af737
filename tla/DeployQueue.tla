----------------------------- MODULE DeployQueue -----------------------------
(***************************************************************************)
(* Deployments and rollbacks from the request to the last released lock:   *)
(* the request handlers (app/api/deploy/executions.py, the tools of        *)
(* services/tool_adapters/deploy_tools.py and the plan steps of            *)
(* services/approval_executor.py) take the lock keys and insert a          *)
(* DeployTask row; the one deploy worker (app/api/deploy/_shared.py) polls *)
(* the rows and runs them one after another; a web rollback is also run by *)
(* a coroutine of its own (app/deploy/rollback.py); cancellations write    *)
(* the same rows.                                                          *)
(*                                                                         *)
(* Coroutines share one event loop, and nothing else on the loop runs      *)
(* until they await: `loop' is the coroutine that has it.  Tools run in    *)
(* threads and interleave with everything.  A step is one database commit  *)
(* (or one read whose answer is used later) or one call of DeployLock.     *)
(***************************************************************************)
EXTENDS DeployLock, SequencesExt

CONSTANTS
    Deploy,        \* deployments; the task that runs one has the same name
    Rollback,      \* rollback tasks
    Via,           \* task -> the handler that submits it
    LockKeys,      \* task -> its lock keys, in the order they are taken
    DeploymentOf,  \* task -> the deployment whose status it reports
    RetryOf,       \* a "retry" deployment -> the deployment it repeats
    Cancel,        \* cancellation requests
    CancelVia,     \* cancellation -> "web" (on the loop) or "tool" (a thread)
    CancelOf,      \* cancellation -> deployment
    Worker, Nobody,
    MaxClock, MaxRestarts, MaxForced   \* bounds of Tick, Restart, ForceRelease

ASSUME QueueAssumption ==
    /\ Task = Deploy \cup Rollback /\ Deploy \cap Rollback = {}
    /\ Via \in [Task -> {"web", "retry", "tool", "step"}]
    /\ \A r \in Rollback : Via[r] # "retry"
    /\ LockKeys \in [Task -> Seq(Key)]
    /\ DeploymentOf \in [Task -> Deploy]
    /\ \A d \in Deploy : DeploymentOf[d] = d
    /\ RetryOf \in [{d \in Deploy : Via[d] = "retry"} -> Deploy]
    /\ CancelVia \in [Cancel -> {"web", "tool"}]
    /\ CancelOf \in [Cancel -> Deploy]
    /\ Cardinality({Worker, Nobody}) = 2
    /\ {Worker, Nobody} \cap (Task \cup Cancel \cup {NoTask}) = {}
    /\ Task \cap Cancel = {}
    /\ {MaxClock, MaxRestarts, MaxForced} \subseteq Nat

VARIABLES
    status,   \* DeployTask.status, "none" before the row exists
    flag,     \* DeployTask.cancel_requested
    rows,     \* the rows in the order of created_at
    dep,      \* Deployment.status
    pc,       \* where the handler or the run of a task stands
    left,     \* the keys a task still has to take or to release
    verdict,  \* the outcome a run is about to report
    loop,     \* who has the event loop
    wpc,      \* where the worker stands
    wjob,     \* the worker's variable `task', which outlives an iteration
    cpc,      \* where a cancellation stands
    seen,     \* the tasks whose rows a cancellation still has to visit
    cjob,     \* the task whose row a cancellation is about to write or free
    cleft,    \* the keys a cancellation still has to release
    boots,    \* restarts so far
    forced,   \* forced releases so far
    runs,     \* history: how often the servers of a task were touched
    revoked,  \* history: tasks a cancellation turned from pending to canceled
    lapsed,   \* history: tasks that lost a key to expiry, force or a restart
    robbed,   \* history: <<i, j>> when i released a key held by j
    misread   \* history: <<d, at>> when the read of d's flag at `at' failed

dbVars == <<status, flag, rows, dep>>
jobVars == <<pc, left, verdict>>
workerVars == <<wpc, wjob>>
cancelVars == <<cpc, seen, cjob, cleft>>
boundVars == <<boots, forced>>
historyVars == <<runs, revoked, lapsed, robbed, misread>>
vars == <<lockVars, dbVars, jobVars, loop, workerVars, cancelVars, boundVars,
          historyVars>>

TaskStatus == {"pending", "running", "success", "failed", "canceled",
               "partial_failed"}
Verdict == {"success", "failed", "partial_failed", "canceled", "error"}

\* A web rollback is run by a coroutine created by its handler: its row has no
\* payload, and the worker must not run it.
HasCoroutine(j) == j \in Rollback /\ Via[j] = "web"
RunBy(j) == IF HasCoroutine(j) THEN j ELSE Worker
OnLoop(j) == Via[j] \in {"web", "retry"}

\* The pcs of a handler, of a run, and of a task nobody will touch again.
Handling == {"lock", "undo", "abort"}
Running == {"start", "peek", "roll", "hung", "check", "report", "reportDep", "release"}
Over == {"refused", "leaked", "done", "dead"}

Init ==
    /\ LockInit
    /\ status = [j \in Task |-> "none"]
    /\ flag = [j \in Task |-> FALSE]
    /\ rows = <<>>
    /\ dep = [d \in Deploy |-> "none"]
    /\ pc = [j \in Task |-> "idle"]
    /\ left = [j \in Task |-> <<>>]
    /\ verdict = [j \in Task |-> "none"]
    /\ loop = Nobody /\ wpc = "poll" /\ wjob = NoTask
    /\ cpc = [c \in Cancel |-> "idle"]
    /\ seen = [c \in Cancel |-> {}]
    /\ cjob = [c \in Cancel |-> NoTask]
    /\ cleft = [c \in Cancel |-> <<>>]
    /\ boots = 0 /\ forced = 0
    /\ runs = [j \in Task |-> 0]
    /\ revoked = {} /\ lapsed = {} /\ robbed = {} /\ misread = {}

-----------------------------------------------------------------------------
(* Shared steps.                                                           *)

Goto(j, where) == pc' = [pc EXCEPT ![j] = where]
SetStatus(j, s) == status' = [status EXCEPT ![j] = s]
\* Mutant: a failed run leaves the deployment as it was.
SetDeploymentUnlessFailed(j, s) ==
    dep' = [dep EXCEPT ![DeploymentOf[j]] = IF s = "failed" THEN @ ELSE s]

SetDeployment(j, s) == dep' = [dep EXCEPT ![DeploymentOf[j]] = s]

\* Mutant: the flag is forgotten, only the status counts.
CancelRequestedByStatus(j) == status[j] = "canceled"

\* task_cancel_requested on a row read afresh.
CancelRequested(j) == flag[j] \/ status[j] = "canceled"

\* _task_cancel_requested answers `said': FALSE also when the read fails.
ReadsFlag(d, at, said) ==
    /\ said => CancelRequested(d)
    /\ misread' = IF CancelRequested(d) /\ ~said THEN misread \cup {<<d, at>>} ELSE misread

\* Mutant: the release names keys that nobody took.
ReleaseMisses(i, k) == UNCHANGED <<lockVars, robbed>>

\* Task i releases key k, whoever holds it.
ReleaseFor(i, k) ==
    /\ Release(k)
    /\ robbed' = robbed \cup {<<i, j>> : j \in {holder[k]} \ {i, NoTask}}

\* Mutant: after a conflict all keys are given back, the contested one included.
AcquiredAll(j) == LockKeys[j]

\* The keys of j that it has already acquired while `left' remain.
Acquired(j) == SubSeq(LockKeys[j], 1, Len(LockKeys[j]) - Len(left[j]))

-----------------------------------------------------------------------------
(* The request handlers: execute, retry, execute_deploy_plan,              *)
(* execute_release for deployments; rollback, execute_rollback_plan,       *)
(* execute_rollback for rollbacks.                                         *)

Submitted(j) ==
    /\ Goto(j, "lock")
    /\ left' = [left EXCEPT ![j] = LockKeys[j]]
    /\ IF OnLoop(j) THEN loop = Nobody /\ loop' = j ELSE UNCHANGED loop

\* A deployment is inserted as pending before its locks are taken.
Submit(d) ==
    /\ pc[d] = "idle"
    /\ Via[d] = "retry" => dep[RetryOf[d]] \in {"failed", "canceled", "success"}
    /\ Submitted(d)
    /\ dep' = [dep EXCEPT ![d] = "pending"]
    /\ UNCHANGED <<lockVars, status, flag, rows, verdict, workerVars,
                   cancelVars, boundVars, historyVars>>

\* A rollback is allowed for a deployment that is read as a success here, at
\* plan time for a tool plan, and not looked at again.
SubmitRollback(r) ==
    /\ pc[r] = "idle"
    /\ dep[DeploymentOf[r]] = "success"
    /\ Submitted(r)
    /\ UNCHANGED <<lockVars, dbVars, verdict, workerVars, cancelVars,
                   boundVars, historyVars>>

LockKey(j) ==
    /\ pc[j] = "lock" /\ left[j] # <<>>
    /\ Acquire(Head(left[j]), j)
    /\ left' = [left EXCEPT ![j] = Tail(@)]
    /\ lapsed' = lapsed \cup Lapsing
    /\ UNCHANGED <<dbVars, pc, verdict, loop, workerVars, cancelVars,
                   boundVars, runs, revoked, robbed, misread>>

\* One key is taken: the ones acquired so far are given back.
LockConflict(j) ==
    /\ pc[j] = "lock" /\ left[j] # <<>>
    /\ AcquireConflict(Head(left[j]))
    /\ Goto(j, "undo")
    /\ left' = [left EXCEPT ![j] = Acquired(j)]
    /\ lapsed' = lapsed \cup Lapsing
    /\ UNCHANGED <<dbVars, verdict, loop, workerVars, cancelVars, boundVars,
                   runs, revoked, robbed, misread>>

LeaveLoop(j) == loop' = IF loop = j THEN Nobody ELSE loop

CreateTask(j) ==
    /\ pc[j] = "lock" /\ left[j] = <<>>
    /\ SetStatus(j, "pending")
    /\ rows' = Append(rows, j)
    /\ Goto(j, "queued")
    /\ LeaveLoop(j)
    /\ UNCHANGED <<lockVars, flag, dep, left, verdict, workerVars, cancelVars,
                   boundVars, historyVars>>

\* The insert raises.  Every handler gives the keys back, except the web
\* rollback, whose insert is outside any try.
CreateFails(j) ==
    /\ pc[j] = "lock" /\ left[j] = <<>>
    /\ IF HasCoroutine(j)
       THEN Goto(j, "leaked") /\ LeaveLoop(j) /\ UNCHANGED left
       ELSE /\ Goto(j, "abort")
            /\ left' = [left EXCEPT ![j] = LockKeys[j]]
            /\ UNCHANGED loop
    /\ UNCHANGED <<lockVars, dbVars, verdict, workerVars, cancelVars,
                   boundVars, historyVars>>

UndoKey(j) ==
    /\ pc[j] \in {"undo", "abort"} /\ left[j] # <<>>
    /\ ReleaseFor(j, Head(left[j]))
    /\ left' = [left EXCEPT ![j] = Tail(@)]
    /\ UNCHANGED <<dbVars, pc, verdict, loop, workerVars, cancelVars,
                   boundVars, runs, revoked, lapsed, misread>>

\* A deployment refused for its locks is failed, and so is one whose task row
\* could not be inserted, unless it is a retry; a rollback leaves it alone.
Refuse(j) ==
    /\ pc[j] \in {"undo", "abort"} /\ left[j] = <<>>
    /\ IF j \in Rollback \/ (pc[j] = "abort" /\ Via[j] = "retry")
       THEN UNCHANGED dep
       ELSE SetDeployment(j, "failed")
    /\ Goto(j, "refused")
    /\ LeaveLoop(j)
    /\ UNCHANGED <<lockVars, status, flag, rows, left, verdict, workerVars,
                   cancelVars, boundVars, historyVars>>

-----------------------------------------------------------------------------
(* The deploy worker, _deploy_worker_loop.                                 *)

\* Mutants: the worker also picks up rows a dead process left running; the
\* worker leaves flagged rows to whoever flagged them.
IsUnfinished(j) == status[j] \in {"pending", "running"}
IsPendingUnflagged(j) == status[j] = "pending" /\ ~flag[j]

IsPending(j) == status[j] = "pending"
Pending == {j \in Task : IsPending(j)}

\* Of the tasks in S, j has the oldest row.
Oldest(j, S) ==
    \E i \in DOMAIN rows : rows[i] = j /\ \A h \in 1..(i - 1) : rows[h] \notin S

\* next_pending reads the oldest pending row ...
WorkerRead ==
    /\ wpc = "poll" /\ loop = Nobody
    /\ \E j \in Pending : Oldest(j, Pending) /\ wjob' = j
    /\ wpc' = "claim"
    /\ loop' = Worker
    /\ UNCHANGED <<lockVars, dbVars, jobVars, cancelVars, boundVars, historyVars>>

\* ... and marks it running with an update that does not look at its status.
\* A row without a payload is failed by the worker.
WorkerClaim ==
    /\ wpc = "claim"
    /\ SetStatus(wjob, "running")
    /\ IF HasCoroutine(wjob)
       THEN wpc' = "fail" /\ UNCHANGED pc
       ELSE wpc' = "run" /\ Goto(wjob, "start")
    /\ UNCHANGED <<lockVars, flag, rows, dep, left, verdict, loop, wjob,
                   cancelVars, boundVars, historyVars>>

WorkerIdle ==
    /\ wpc = "poll" /\ loop = Nobody /\ Pending = {} /\ wjob # NoTask
    /\ wjob' = NoTask
    /\ UNCHANGED <<lockVars, dbVars, jobVars, loop, wpc, cancelVars,
                   boundVars, historyVars>>

\* The poll raises while `task' still names the task of the last iteration:
\* the handler of the exception reports the failure on that task.
WorkerPollRaises ==
    /\ wpc = "poll" /\ loop = Nobody /\ wjob # NoTask
    /\ wpc' = "fail"
    /\ loop' = Worker
    /\ UNCHANGED <<lockVars, dbVars, jobVars, wjob, cancelVars, boundVars,
                   historyVars>>

WorkerFailsTask ==
    /\ wpc = "fail"
    /\ SetStatus(wjob, "failed")
    /\ wpc' = "failDep"
    /\ UNCHANGED <<lockVars, flag, rows, dep, jobVars, loop, wjob, cancelVars,
                   boundVars, historyVars>>

WorkerFailsDeployment ==
    /\ wpc = "failDep"
    /\ SetDeployment(wjob, "failed")
    /\ wpc' = "poll"
    /\ loop' = Nobody
    /\ UNCHANGED <<lockVars, status, flag, rows, jobVars, wjob, cancelVars,
                   boundVars, historyVars>>

WorkerStep ==
    \/ WorkerRead \/ WorkerClaim \/ WorkerIdle \/ WorkerPollRaises
    \/ WorkerFailsTask \/ WorkerFailsDeployment

-----------------------------------------------------------------------------
(* A run: _run_pipeline_task for a deployment, RollbackRuntime.run for a   *)
(* rollback.  What happens on the servers is in module Rollout.            *)

\* The run of j goes on when its coroutine has the loop, or gets it back from
\* an await.
HasLoop(j) == loop = RunBy(j)

StartDeploy(d) ==
    /\ d \in Deploy /\ pc[d] = "start" /\ HasLoop(d)
    /\ dep' = [dep EXCEPT ![d] = "running"]
    /\ Goto(d, "peek")
    /\ UNCHANGED <<lockVars, status, flag, rows, left, verdict, loop,
                   workerVars, cancelVars, boundVars, historyVars>>

\* The first write of the run is before its try: if it raises, the finally
\* that releases the locks is not reached.
StartRaises(d) ==
    /\ d \in Deploy /\ pc[d] = "start" /\ HasLoop(d)
    /\ Goto(d, "leaked")
    /\ wpc' = "fail"
    /\ UNCHANGED <<lockVars, dbVars, left, verdict, loop, wjob, cancelVars,
                   boundVars, historyVars>>

Touch(j) ==
    /\ Goto(j, "roll")
    /\ runs' = [runs EXCEPT ![j] = @ + 1]
    /\ loop' = Nobody

\* Cancellation is looked at before the first server: the serial path reports it
\* at once, the wave path skips all servers and goes on to the final check.  From
\* then on the run awaits and other coroutines get the loop.
Peek(d) ==
    /\ pc[d] = "peek" /\ HasLoop(d)
    /\ \/ /\ ReadsFlag(d, "peek", TRUE)
          /\ \/ Goto(d, "report") /\ verdict' = [verdict EXCEPT ![d] = "canceled"]
             \/ Goto(d, "check") /\ verdict' = [verdict EXCEPT ![d] = "failed"]
          /\ UNCHANGED <<loop, runs>>
       \/ ReadsFlag(d, "peek", FALSE) /\ Touch(d) /\ UNCHANGED verdict
    /\ UNCHANGED <<lockVars, dbVars, left, workerVars, cancelVars, boundVars,
                   revoked, lapsed, robbed>>

\* A rollback marks its row running whatever it was, and never looks at the
\* flag; without a safe plan it fails before any server.
StartRollback(r) ==
    /\ r \in Rollback
    /\ IF HasCoroutine(r) THEN pc[r] = "queued" /\ loop = Nobody
                          ELSE pc[r] = "start" /\ HasLoop(r)
    /\ SetStatus(r, "running")
    /\ \/ Touch(r) /\ UNCHANGED verdict
       \/ /\ verdict' = [verdict EXCEPT ![r] = "failed"]
          /\ Goto(r, "report")
          /\ loop' = RunBy(r)
          /\ UNCHANGED runs
    /\ UNCHANGED <<lockVars, flag, rows, dep, left, workerVars, cancelVars,
                   boundVars, revoked, lapsed, robbed, misread>>

Outcomes(j) == IF j \in Deploy THEN {"success", "failed", "partial_failed", "error"}
                               ELSE {"success", "failed", "error"}

\* The servers are done, or the run raises: a deployment then goes straight to
\* its finally, a rollback reports the failure first.  A serial deployment that
\* sees its flag at one of the servers reports it at once.
RollEnds(j) ==
    /\ pc[j] = "roll" /\ loop = Nobody
    /\ loop' = RunBy(j)
    /\ \E v \in Outcomes(j) \cup {c \in {"canceled"} : j \in Deploy /\ CancelRequested(j)} :
         /\ verdict' = [verdict EXCEPT ![j] = v]
         /\ IF j \in Rollback \/ v = "canceled" THEN Goto(j, "report") /\ UNCHANGED left
            ELSE IF v # "error" THEN Goto(j, "check") /\ UNCHANGED left
            ELSE Goto(j, "release") /\ left' = [left EXCEPT ![j] = LockKeys[j]]
    /\ UNCHANGED <<lockVars, dbVars, workerVars, cancelVars, boundVars, historyVars>>

\* A command or an upload on a server hangs: recv_exit_status and sftp.put have
\* no timeout.  The wait is in a thread, so the loop is free.
Hangs(j) ==
    /\ pc[j] = "roll"
    /\ Goto(j, "hung")
    /\ UNCHANGED <<lockVars, dbVars, left, verdict, loop, workerVars,
                   cancelVars, boundVars, historyVars>>

\* It may come back after all.
Unhangs(j) ==
    /\ pc[j] = "hung"
    /\ Goto(j, "roll")
    /\ UNCHANGED <<lockVars, dbVars, left, verdict, loop, workerVars,
                   cancelVars, boundVars, historyVars>>

\* Mutant: the flag is not read again after the last server.
FinalCheckTrustsTheRun(d) ==
    /\ pc[d] = "check" /\ HasLoop(d)
    /\ Goto(d, "report")
    /\ UNCHANGED <<lockVars, dbVars, left, verdict, loop, workerVars,
                   cancelVars, boundVars, historyVars>>

\* _finalize_deployment_status reads the flag once more.
FinalCheck(d) ==
    /\ pc[d] = "check" /\ HasLoop(d)
    /\ \E said \in BOOLEAN :
         /\ ReadsFlag(d, "check", said)
         /\ verdict' = [verdict EXCEPT ![d] = IF said THEN "canceled" ELSE @]
    /\ Goto(d, "report")
    /\ UNCHANGED <<lockVars, dbVars, left, loop, workerVars, cancelVars,
                   boundVars, runs, revoked, lapsed, robbed>>

Reported(j) == IF verdict[j] = "error" THEN "failed" ELSE verdict[j]

ReportTask(j) ==
    /\ pc[j] = "report" /\ HasLoop(j)
    /\ SetStatus(j, Reported(j))
    /\ Goto(j, "reportDep")
    /\ UNCHANGED <<lockVars, flag, rows, dep, left, verdict, loop, workerVars,
                   cancelVars, boundVars, historyVars>>

ReportDeployment(j) ==
    /\ pc[j] = "reportDep" /\ HasLoop(j)
    /\ SetDeployment(j, Reported(j))
    /\ Goto(j, "release")
    /\ left' = [left EXCEPT ![j] = LockKeys[j]]
    /\ UNCHANGED <<lockVars, status, flag, rows, verdict, loop, workerVars,
                   cancelVars, boundVars, historyVars>>

\* The finally of the run: release_deployment_locks on the keys of the row.
ReleaseKey(j) ==
    /\ pc[j] = "release" /\ left[j] # <<>> /\ HasLoop(j)
    /\ ReleaseFor(j, Head(left[j]))
    /\ left' = [left EXCEPT ![j] = Tail(@)]
    /\ UNCHANGED <<dbVars, pc, verdict, loop, workerVars, cancelVars,
                   boundVars, runs, revoked, lapsed, misread>>

\* An exception reaches the worker, which reports it once more.
EndRun(j) ==
    /\ pc[j] = "release" /\ left[j] = <<>> /\ HasLoop(j)
    /\ Goto(j, "done")
    /\ IF RunBy(j) = Worker /\ verdict[j] = "error"
       THEN wpc' = "fail" /\ UNCHANGED loop
       ELSE /\ loop' = Nobody
            /\ wpc' = IF RunBy(j) = Worker THEN "poll" ELSE wpc
    /\ UNCHANGED <<lockVars, dbVars, left, verdict, wjob, cancelVars,
                   boundVars, historyVars>>

-----------------------------------------------------------------------------
(* Cancellation: cancel_deployment of executions.py ("web") and of         *)
(* deploy_tools.py ("tool").                                               *)

RowsOf(d) == {j \in ToSet(rows) : DeploymentOf[j] = d}
CancelGoto(c, where) == cpc' = [cpc EXCEPT ![c] = where]
HasTurn(c) == CancelVia[c] = "web" => loop = c

CancelBegin(c) ==
    /\ cpc[c] = "idle" /\ dep[CancelOf[c]] # "none"
    /\ IF CancelVia[c] = "web" THEN loop = Nobody /\ loop' = c ELSE UNCHANGED loop
    /\ seen' = [seen EXCEPT ![c] = RowsOf(CancelOf[c])]
    /\ CancelGoto(c, IF CancelVia[c] = "tool" /\ RowsOf(CancelOf[c]) = {}
                     THEN "done" ELSE "flag")
    /\ UNCHANGED <<lockVars, dbVars, jobVars, workerVars, cjob, cleft, boundVars,
                   historyVars>>

\* request_cancel, and the status the commit makes the row reload.
CancelFlag(c) ==
    /\ cpc[c] = "flag" /\ HasTurn(c)
    /\ \E j \in seen[c] :
         /\ Oldest(j, seen[c])
         /\ flag' = [flag EXCEPT ![j] = TRUE]
         /\ seen' = [seen EXCEPT ![c] = @ \ {j}]
         /\ IF status[j] = "pending"
            THEN CancelGoto(c, "write") /\ cjob' = [cjob EXCEPT ![c] = j]
            ELSE UNCHANGED <<cpc, cjob>>
    /\ UNCHANGED <<lockVars, status, rows, dep, jobVars, loop, workerVars,
                   cleft, boundVars, historyVars>>

\* The update is on the row whatever its status has become.  The tool then
\* releases the keys; the web handler leaves that to a second loop over the
\* rows that are still pending, of which there are none.
CancelWrite(c) ==
    /\ cpc[c] = "write" /\ HasTurn(c)
    /\ SetStatus(cjob[c], "canceled")
    /\ revoked' = revoked \cup {cjob[c]}
    /\ IF CancelVia[c] = "tool"
       THEN /\ CancelGoto(c, "free")
            /\ cleft' = [cleft EXCEPT ![c] = LockKeys[cjob[c]]]
            /\ UNCHANGED cjob
       ELSE /\ CancelGoto(c, "flag")
            /\ cjob' = [cjob EXCEPT ![c] = NoTask]
            /\ UNCHANGED cleft
    /\ UNCHANGED <<lockVars, flag, rows, dep, jobVars, loop, workerVars, seen,
                   boundVars, runs, lapsed, robbed, misread>>

CancelFree(c) ==
    /\ cpc[c] = "free"
    /\ IF cleft[c] # <<>>
       THEN /\ ReleaseFor(cjob[c], Head(cleft[c]))
            /\ cleft' = [cleft EXCEPT ![c] = Tail(@)]
            /\ UNCHANGED <<cpc, cjob>>
       ELSE /\ CancelGoto(c, "flag")
            /\ cjob' = [cjob EXCEPT ![c] = NoTask]
            /\ UNCHANGED <<lockVars, cleft, robbed>>
    /\ UNCHANGED <<dbVars, jobVars, loop, workerVars, seen, boundVars, runs,
                   revoked, lapsed, misread>>

\* The deployment is canceled whatever its status was.
CancelDeployment(c) ==
    /\ cpc[c] = "flag" /\ seen[c] = {} /\ HasTurn(c)
    /\ dep' = [dep EXCEPT ![CancelOf[c]] = "canceled"]
    /\ CancelGoto(c, "done")
    /\ LeaveLoop(c)
    /\ UNCHANGED <<lockVars, status, flag, rows, jobVars, workerVars, seen,
                   cjob, cleft, boundVars, historyVars>>

-----------------------------------------------------------------------------
(* The environment.                                                        *)

\* release_deploy_lock: an operator frees any key.
ForceRelease(k) ==
    /\ forced < MaxForced /\ loop = Nobody
    /\ stamp[k] # Free
    /\ Release(k)
    /\ forced' = forced + 1
    /\ lapsed' = lapsed \cup {holder[k]}
    /\ UNCHANGED <<dbVars, jobVars, loop, workerVars, cancelVars, boots, runs,
                   revoked, robbed, misread>>

Tick ==
    /\ now < MaxClock
    /\ now' = now + 1
    /\ UNCHANGED <<stamp, holder, dbVars, jobVars, loop, workerVars,
                   cancelVars, boundVars, historyVars>>

\* The process dies and starts again: the memory is gone, the rows stay, and
\* nothing looks at the rows that were running.
Restart ==
    /\ boots < MaxRestarts
    /\ boots' = boots + 1
    /\ ForgetLocks
    /\ lapsed' = lapsed \cup {j \in Task : pc[j] \in Handling \cup Running \cup {"queued"}}
    /\ pc' = [j \in Task |->
                IF pc[j] \in Handling \cup Running
                   \/ (pc[j] = "queued" /\ (HasCoroutine(j) \/ status[j] # "pending"))
                   \/ (wjob = j /\ wpc \in {"fail", "failDep"})
                THEN "dead" ELSE pc[j]]
    /\ left' = [j \in Task |-> <<>>]
    /\ loop' = Nobody /\ wpc' = "poll" /\ wjob' = NoTask
    /\ cpc' = [c \in Cancel |-> IF cpc[c] = "idle" THEN "idle" ELSE "done"]
    /\ seen' = [c \in Cancel |-> {}]
    /\ cjob' = [c \in Cancel |-> NoTask]
    /\ cleft' = [c \in Cancel |-> <<>>]
    /\ UNCHANGED <<dbVars, verdict, forced, runs, revoked, robbed, misread>>

-----------------------------------------------------------------------------
HandlerStep(j) ==
    \/ LockKey(j) \/ LockConflict(j) \/ CreateTask(j) \/ CreateFails(j)
    \/ UndoKey(j) \/ Refuse(j)

RunStep(j) ==
    \/ StartDeploy(j) \/ StartRaises(j) \/ Peek(j) \/ StartRollback(j)
    \/ RollEnds(j) \/ FinalCheck(j) \/ ReportTask(j) \/ ReportDeployment(j)
    \/ ReleaseKey(j) \/ EndRun(j)

CancelStep(c) ==
    CancelFlag(c) \/ CancelWrite(c) \/ CancelFree(c) \/ CancelDeployment(c)

Next ==
    \/ \E d \in Deploy : Submit(d)
    \/ \E r \in Rollback : SubmitRollback(r)
    \/ \E j \in Task : HandlerStep(j) \/ RunStep(j) \/ Hangs(j) \/ Unhangs(j)
    \/ WorkerStep
    \/ \E c \in Cancel : CancelBegin(c) \/ CancelStep(c)
    \/ \E k \in Key : ForceRelease(k)
    \/ Tick
    \/ Restart

Spec == Init /\ [][Next]_vars

\* The worker and the coroutines it shares the loop with are scheduled first in
\* first out, a handler once started goes on, a run whose wait on a server ends is
\* resumed, and the poll does not raise forever.  Nothing bounds a wait that hangs;
\* requests, cancellations, forced releases and restarts may never come.
Fairness ==
    /\ SF_vars(WorkerRead) /\ WF_vars(WorkerStep)
    /\ \A j \in Task : WF_vars(HandlerStep(j)) /\ SF_vars(RunStep(j))
    /\ \A c \in Cancel : WF_vars(CancelStep(c))

FairSpec == Spec /\ Fairness

-----------------------------------------------------------------------------
(* Properties.                                                             *)

RowTypes ==
    /\ status \in [Task -> TaskStatus \cup {"none"}]
    /\ flag \in [Task -> BOOLEAN]
    /\ rows \in Seq(Task)
    /\ dep \in [Deploy -> TaskStatus \cup {"none"}]

JobTypes ==
    /\ pc \in [Task -> {"idle", "queued"} \cup Handling \cup Running \cup Over]
    /\ left \in [Task -> Seq(Key)]
    /\ verdict \in [Task -> Verdict \cup {"none"}]

LoopTypes ==
    /\ loop \in Task \cup Cancel \cup {Worker, Nobody}
    /\ wpc \in {"poll", "claim", "run", "fail", "failDep"}
    /\ wjob \in Task \cup {NoTask}
    /\ wpc # "poll" => wjob \in Task

CancelTypes ==
    /\ cpc \in [Cancel -> {"idle", "flag", "write", "free", "done"}]
    /\ seen \in [Cancel -> SUBSET Task]
    /\ cjob \in [Cancel -> Task \cup {NoTask}]
    /\ \A c \in Cancel : cpc[c] \in {"write", "free"} => cjob[c] \in Task
    /\ cleft \in [Cancel -> Seq(Key)]

HistoryTypes ==
    /\ boots \in 0..MaxRestarts /\ forced \in 0..MaxForced
    /\ runs \in [Task -> Nat]
    /\ revoked \subseteq Task /\ lapsed \subseteq Task
    /\ robbed \subseteq Task \X Task
    /\ misread \subseteq Task \X {"peek", "check"}

\* The types of the rows, the locks and the program counters.
TypeOK ==
    LockTypeOK /\ RowTypes /\ JobTypes /\ LoopTypes /\ CancelTypes /\ HistoryTypes

\* The keys that task j counts on, or still has to give back.
OwedInOrder(j) ==
    IF pc[j] = "lock" THEN Acquired(j)
    ELSE IF pc[j] \in {"undo", "abort", "release"} THEN left[j]
    ELSE IF \/ pc[j] \in Running
            \/ pc[j] = "queued" /\ (\/ status[j] = "pending" \/ HasCoroutine(j)
                                    \/ (wpc = "claim" /\ wjob = j))
         THEN LockKeys[j]
         ELSE <<>>

Owed(j) == ToSet(OwedInOrder(j))

\* Deployments and rollbacks of one service exclude each other: from the moment
\* a handler has taken a key until the run has given it back nobody else holds
\* it, unless the key expired, was freed by an operator or a restart, the task
\* was canceled while it was pending, or the key was released by another task.
LockedWhileActive ==
    \A j \in Task : \A k \in Owed(j) :
        \/ holder[k] = j
        \/ j \in lapsed \cup revoked
        \/ \E i \in Task : <<i, j>> \in robbed

\* A task releases a key another task holds (release checks no owner) only
\* after it lost its own: by expiry, force or restart, because a cancellation
\* freed its keys while the worker was claiming its row, or in the same way.
RobberHasCause ==
    \A i, j \in Task : <<i, j>> \in robbed =>
        \/ i \in lapsed \cup revoked
        \/ \E h \in Task : <<h, i>> \in robbed

BeingFreed(j, k) ==
    \E c \in Cancel : cpc[c] = "free" /\ cjob[c] = j /\ k \in ToSet(cleft[c])

\* The ways in which the code leaves a key behind: the web rollback whose row
\* is not inserted, the run whose first write raises, and the pending task that
\* the web handler cancels without releasing.
KnownLeak(j) ==
    \/ pc[j] = "leaked"
    \/ /\ pc[j] = "queued" /\ j \in revoked
       /\ \E c \in Cancel : /\ CancelVia[c] = "web" /\ CancelOf[c] = DeploymentOf[j]
                            /\ cpc[c] # "idle"

\* Every held key will be released by somebody: refused handlers, conflicts
\* half way through the keys, failed inserts, tool cancellations, finished and
\* crashed runs leave none behind, apart from the known leaks.
HeldKeyIsAccountedFor ==
    \A k \in Key : holder[k] # NoTask =>
        \/ k \in Owed(holder[k])
        \/ BeingFreed(holder[k], k)
        \/ KnownLeak(holder[k])

\* Every key has one owner as long as it should, and no longer than that: the
\* rows of a service exclude each other, and no path through a handler, a run or
\* a cancellation loses a key or keeps it for good.
KeysAreAccountedFor == LockedWhileActive /\ HeldKeyIsAccountedFor

\* The servers of a task are touched by at most one run, whatever restarts,
\* cancellations and failed polls do to its row.
AtMostOneRun == \A j \in Task : runs[j] <= 1

\* A deployment that a cancellation found pending and wrote as canceled touches
\* no server, even when the worker was claiming its row meanwhile and wrote running
\* over it, unless the read of its flag failed before the first server; and it does
\* not end as a success unless that read failed once more after the last one.
RevokedNeverRuns ==
    \A d \in Deploy \cap revoked :
        /\ runs[d] = 0 \/ <<d, "peek">> \in misread
        /\ status[d] = "success" => {<<d, "peek">>, <<d, "check">>} \subseteq misread

\* Neither a cancellation nor a rollback of the deployment has begun.
Undisturbed(d) ==
    /\ \A c \in Cancel : CancelOf[c] = d => cpc[c] = "idle"
    /\ \A r \in Rollback : DeploymentOf[r] = d => status[r] = "none"

\* A finished run leaves its deployment in a terminal status, and in the status
\* of its task unless somebody else wrote to the deployment; while the worker
\* is about to report an exception neither is due.
Agreement ==
    \A d \in Deploy : pc[d] = "done" /\ ~(wjob = d /\ wpc \in {"fail", "failDep"}) =>
        /\ dep[d] \notin {"pending", "running"}
        /\ Undisturbed(d) => dep[d] = status[d]

\* The rows are well formed, and a deployment's row tells what its task's row does.
RowsAgree == TypeOK /\ Agreement

Ended(j) == pc[j] \in Over \/ status[j] \in {"canceled", "failed"}

\* The worker, or the coroutine, that runs j hangs on a server.
Stuck(j) == \E i \in Task : RunBy(i) = RunBy(j) /\ pc[i] = "hung"

\* Every queued task is run, canceled or failed in the end, unless whoever runs it
\* hangs on a server: the one worker then runs nobody any more.
QueuedTaskEnds == \A j \in Task : pc[j] = "queued" ~> Ended(j) \/ Stuck(j)

FlaggedInTime(d) == flag[d] /\ pc[d] \in {"queued", "start", "peek", "roll", "check"}
Thwarted(d) == status[d] \in {"canceled", "failed"} \/ pc[d] = "dead"

\* A deployment whose cancel flag is raised before the final check does not end
\* as a success, unless the read of the flag fails there or a server hangs.
CancelTakesEffect ==
    \A d \in Deploy :
        FlaggedInTime(d) ~> Thwarted(d) \/ <<d, "check">> \in misread \/ Stuck(d)
=============================================================================
