# TLA+ models of ops-ai

ops-ai is an operations console: a FastAPI server that deploys packages to
servers over SSH, rolls them back, inspects servers, cleans up databases, runs
approved operation plans, and answers the tool calls of an agent.  It is one
process with a SQLite database.  This directory models the parts of it whose
correctness depends on the order in which things happen, checks them with TLC on
small instances, and proves what it can with TLAPS.

    tlc -config MCDeployQueue.cfg MCDeployQueue
    tlapm ApprovalProofs.tla

`PROJECT.json` lists the runs, the source lines each definition translates, the
hazards the properties are aimed at, and for each property a mutated definition
that makes it fail.

## 1. The system

### How it runs

* `async def` endpoints, the deploy worker (`_deploy_worker_loop`, started by
  `main.py` at start-up and by the handlers) and the coroutine of a web rollback
  share **one event loop**: between two awaits nothing else on the loop runs.
* Tools, plan steps, job threads, cleanup loops, background inspections and plain
  `def` endpoints run in **threads** and interleave with everything, between any two
  statements.
* State is in **rows** of SQLite, which survive a restart, and in **memory** (the
  lock table, the audit queue, the terminal sessions), which does not.
* Most writes are ORM writes of a row loaded earlier: they update by id, do not
  look at what the row has become, and write only the columns whose value differs
  from the loaded one.  The few guarded updates (`consume`, `expire_stale`, the
  channel's confirmation of a grant) are marked as such in the models.
* A commit may raise: SQLite reports a locked database, and an update of a row
  that was deleted meanwhile fails.

### Inventory

| Component | State it keeps | Operations | Modelled by |
|---|---|---|---|
| Deployment lock (`core/deploy_lock.py`) | in-memory table key -> time | acquire, release, is_locked, expiry | `DeployLock` |
| Deployment requests (`api/deploy/executions.py`, `deploy_tools.py`, `approval_executor.py`) | Deployment and DeployTask rows | execute, retry, tool plan, plan step, cancel, forced release | `DeployQueue` |
| Deploy worker (`api/deploy/_shared.py`, `deploy/worker.py`) | the task variable of the loop, DeployTask rows | poll, claim, run, report, fail, release | `DeployQueue` |
| Rollback runtime (`deploy/rollback.py`) | DeployTask and Deployment rows | run | `DeployQueue` |
| Rollout of one deployment (`_run_pipeline_task`) | server task rows, results, wave_aborted | serial path, waves, semaphore, derived status | `Rollout` |
| Pipeline on one server (`pipeline/engine.py`, `steps.py`, `api/deploy_v2.py`) | releases/, the link `current`, the process, the rollback stack | deploy, switch, restart, health_check, undo; later rollback by symlink | `Release` |
| Deployment log (`_DeployLogBuffer`, `deploy/stream.py`, `useDeploymentStream.ts`) | buffer, log rows, subscribers, the page | append, flush, publish, subscribe, stream, poll | `LogStream` |
| Plan approval (`services/execution_plan.py`) | ExecutionPlan rows | prepare, consume, reject, expire_stale | `PlanApproval`, `ApprovalLifecycle` |
| Plan execution (`services/plan_executor.py`) | ExecutionPlan, ExecutionPlanStep rows | execute, _run_steps, _final_status | `PlanExecutor` |
| Temporary grants (`services/temporary_approval.py`) | grant rows with a unique key per active scope | request, confirm, expire, revoke, delete, use | `SelfApproval` |
| Single-action approvals (`services/action_approval.py`, `approval_executor.py`) | ActionApproval rows, their job rows | consume, reject, expire, execute (two ways) | `ActionApproval`, `TaskCenter` |
| Operation jobs (`services/job_service.py`, `domain/runtime/jobs.py`) | OperationJob rows, threads | enqueue, run, sweep, delete | `OperationJob`, `TaskCenter` |
| Audit writer (`services/audit_writer.py`) | bounded queue, writer thread | submit, write, shutdown | `AuditWriter`, `TaskCenter` |
| SQL cleanup jobs (`maintenance/`) | job and batch rows, threads | dry run, start, batch, pause, resume, cancel, recover, delete | `CleanupJob` |
| Inspections (`services/inspection_center.py`) | run, item and report rows, a thread pool | batch and project runs, reaper, deletion, reports | `InspectionScore`, `Inspection` |
| Blue-green updates (`services/blue_green.py`) | remote hosts | probe, upload, update, verify, switch, recheck, roll back | `BlueGreen` |
| SSH connections (`src/ssh_client.py`) | pool, clients, their paramiko objects | get, exec with a retry, close, clean up | `SshPool` |
| Terminal sessions (`services/terminal_sessions.py`, `api/terminal.py`) | in-memory table, shells | create, attach, touch, list, expire, close | `TerminalSessions` |
| Log retention (`services/sqlite_cleanup.py`) | log rows, gzip archives | select, archive, delete | `LogRetention` |
| Backups (`services/backup_service.py`) | database file and its log, backup files | create, restore, delete, retention | `Backup` |
| Packages and release history (`services/package_retention.py`, `release_retention.py`, `runtime_resources.py`) | package files, DeployPackage rows, deployments and plans that need them | upload, list, delete, clean up packages, clean up the history | `Packages` |
| Schema and start-up (`db/base.py`, `db/migrations/runner.py`, `db/models.py`) | the database file, `schema_migrations` | create, migrate, convert, seed, seal | `Schema`, `SchemaMigrations` |
| Audit chain view (`services/audit_chain.py`) | none: it reads rows that others write | build a chain for display | no |

`PROJECT.json` lists the rest with the reason it is left out: the combined inspection
and its reports, Matrix messaging, exports, configuration,
accounts, policies (sequential decisions over text and tables), the rest of the
frontend.

### How the components interact

A request handler (on the loop or in a thread) inserts a Deployment row, takes
the lock keys, inserts a DeployTask row and answers.  The worker polls the oldest
pending row, claims it, runs the rollout, which runs the pipeline on each server,
reports to both rows and releases the keys it reads back from the row.  A web rollback
starts a coroutine of its own for the same work, and its row stays visible to the
worker's poll.  Cancellations raise a flag on the rows, which the rollout reads, and
write the status of those still pending.  The log of the run goes through one buffer to
the database and through one list of queues to the pages that watch.

A plan is prepared, consumed by a confirmation phrase and, in the same call,
executed; its RELEASE and ROLLBACK steps insert rows for the worker, its blue-green
steps work on the servers from the thread of the call.  Its requester may approve it
if an active grant allows that; the grant is looked at when the plan is prepared and
when it is approved.  A single-action approval is executed by the call that consumed
it or by an operator, with a job row the task centre shows next to those of tool
calls; a tool call submits audit records to the writer, which `main.py` shuts down on
the way out.  A look at the task centre sweeps stale jobs, a look at the overview of
inspections reaps stale runs.

Everything that goes to a server takes its SSH client from one pool.  Restoring a
backup replaces the file below everything else.

### What is hard, and what makes each part correct

* **Lock.** `release` has no owner, a lock expires while its task still runs, and
  a restart empties the table under rows that stay pending.  Correct: a task that
  is active holds its keys, every held key has somebody who will release it, and a
  task releases another's key only after it lost its own.
* **Queue.** The claim reads and then writes without looking again; the
  worker's `task` variable outlives an iteration; cancellation writes over what
  the worker has claimed; a rollback has two possible runners.  Correct: a task
  touches its servers at most once, a canceled deployment touches none unless the read
  of its flag fails, rows of task and deployment agree, queued work ends unless a server
  hangs (one hung command keeps the one worker), a raised flag takes effect.
* **Rollout.** Coroutines under a semaphore, waves, fail_fast, a flag raised at any
  moment, a read of it that may fail, and commands that may hang.  Correct: the reported status says what
  happened on the servers, and no more servers are out of service than allowed.
* **Pipeline.** A command may have done its work whatever it answered, a run may end
  between any two steps, and a rollback takes another lock.  Correct: a server at
  rest links the last good version, and what is reported as success is served.
* **Deployment log.** Batches of several threads are out at once, queues fill up, a
  page changes from the stream to polling.  Correct: a line is lost only with a write
  that raised, a subscriber has no gap, and a page learns the end.
* **Approval.** Sessions race for one plan with a mixture of guarded and unguarded
  writes.  Correct: one phrase, one execution; a status no write has clobbered is true.
* **Execution.** The process may die between the handler's effect and its commit,
  a commit may raise, a handler may hang on a server, and execute may be called again.
  Correct: no handler is repeated, dependencies come first, the final status is honest
  unless the except block wrote it.
* **Grants.** A grant is confirmed, revoked, deleted or runs out while another call relies on
  it.  Correct: one active grant per scope; no plan approved by its requester without one.
* **Jobs and approvals of the task centre.** A thread, the sweep and a second call write
  one row from what each read; any commit may raise.  Correct: the row tells what the
  action did, and the action is dispatched once.
* **Audit writer.** The queue may be full, and the shutdown competes with the thread
  for the records.  Correct: an orderly shutdown writes what was submitted before it, and ends.
* **Cleanup jobs.** Handlers decide on rows read earlier, loops work on a view, a batch
  may be deleted and not counted.  Correct: the count is true, the cap holds for one
  loop, a stop takes effect within a batch, a running job has somebody who works.
* **Inspections.** A check may hang on its server, the reaper and the deletion write over
  runs in progress, several runs share a report.  Correct: the run's verdict is what its
  checks found and is final unless the reaper took the run for silent; reports are neither lost nor left behind;
  the reaper kills the silent only.
* **Blue-green.** Two plans, two scripts whose answer and effect differ, pm2 ids that
  moved.  Correct: the serving directory is left alone, success serves the package, and a
  failure leaves the port where it was.
* **SSH pool.** One client per server for everybody, closed by most when they are done.
  Correct: a command is cut only by a cause the code accepts, no connection is forgotten.
* **Terminal sessions.** The table, the shells and the websockets are three things, a
  session is out of the table while a close is decided, and the sessions to one server share
  the client that each of them closes.  Correct: a session that is recorded is in the table or
  in the hands of one handler, no open shell is out of reach, limits hold, the flag
  `ws_connected` is true.
* **Packages.** A cleanup reads who needs a package once and removes files later; rows are
  written after the files changed; the history that protects packages is itself cleaned up.
  Correct: no file goes that the call had reason to keep, and a row tells whether its file
  is there and what it holds.
* **Log retention and backups.** Files and rows change in different steps, and calls
  overlap.  Correct: what is deleted is archived, once; a restore stays, and what it
  replaced was saved before.

## 2. The modules

Each component has a module of its own; `PROJECT.json` maps every definition to its
lines.  One step is what happens between two points where others may come in: on
the event loop from one await to the next, in a thread from one commit, read or lock to
the next.  Four modules are put together by another: `DeployQueue` extends `DeployLock`;
`TaskCenter` extends `OperationJob`, `ActionApproval` and `AuditWriter`, whose steps
meet in one job row, one queue and one process that stops; `Inspection` uses the
verdicts and scores of `InspectionScore`; `PlanApproval` has `ApprovalLifecycle` as its
abstract specification.

The `MC` modules are small instances.  Where one run looks at several components, its MC
module extends those there are theorems about, takes the others with `INSTANCE ... WITH`, and
a variable `about` says which of them a behaviour is about; the variables of the others stay
as they start.  In `MCDeployQueue` the two values of `about` choose which of the tasks and
cancellations ever come (`Absent`) and whether time passes.  Nothing interacts across `about`: it only spares a run.

### Deployment: `DeployLock`, `DeployQueue`

`DeployLock` is the table: `stamp` is `_lock_timestamps`, `now` is `time.time()`
in coarse ticks.  `Acquire` and `AcquireConflict` are the two answers of `acquire`,
which drops every expired key first.  `holder` is a history variable: the code does
not know who holds a key, and the properties are about nothing else.

`DeployQueue` adds the rows (`status`, `flag`, `rows`, `dep`), the
handlers and runs (`pc`, `left`, `verdict`), the event loop (`loop` names the
coroutine that has it), the worker (`wpc`, `wjob`) and the cancellations (`cpc`,
`seen`: rows still to visit, `cjob`: the one at hand, `cleft`: its keys still to free).

| Code | Actions |
|---|---|
| execute, retry, tool and step submission | `Submit`, `SubmitRollback`, `LockKey`, `LockConflict`, `UndoKey`, `CreateTask`, `CreateFails`, `Refuse` |
| `_deploy_worker_loop` with `next_pending` | `WorkerRead`, `WorkerClaim`, `WorkerIdle`, `WorkerPollRaises`, `WorkerFailsTask`, `WorkerFailsDeployment` |
| `_run_pipeline_task` up to and after the servers | `StartDeploy`, `StartRaises`, `Peek`, `RollEnds`, `FinalCheck`, `ReportTask`, `ReportDeployment`, `ReleaseKey`, `EndRun` |
| `RollbackRuntime.run` | `StartRollback`, `RollEnds`, the reports and the release |
| `recv_exit_status`, `sftp.put`: no timeout | `Hangs`, `Unhangs` |
| the two `cancel_deployment` | `CancelBegin`, `CancelFlag`, `CancelWrite`, `CancelFree`, `CancelDeployment` |
| operator, time, process | `ForceRelease`, `Tick`, `Restart` |

`ReadsFlag` is `_task_cancel_requested`, before the first server (`Peek`) and behind the last
(`FinalCheck`): it answers FALSE when the read fails, and `misread` remembers which of the two
reads missed a raised flag.

### One deployment: `Rollout`, `Release`, `BlueGreen`, `LogStream`

`Rollout` opens the step `RollEnds` of a deployment: one run over a list of servers.
The serial path is a wave per server; in the wave path the semaphore admits the
coroutines in order.  `ReadFlag` is `_task_cancel_requested`: `misread` remembers a raised
flag that a failed read missed.  `hung` are the servers whose coroutine waits for a command or
an upload that hangs (`Hangs`); such a wait may end or not.

`Release` opens one server of it: `made` says in which run a directory under `releases/`
was last written, `whole` which of them are complete, `link` is `current` (`Loop` when it
names itself), `running` the version the process runs, `stop` the request to cancel.  A run works through `steps` with `k`, `saved` is the rollback stack.  A
command is two choices: what it did and what it answered.  `lastGood`, `overlap`, `bare`
and `marred` are history.

`BlueGreen` is `execute_blue_green_update` for every server of a step, with one step
per remote command: `port`, `disk`, `live` and `pid` are the server's two directories and
its processes; `place` and `n` are where an update is, `active` and `before` what the code
noted, `outcome` what it reports.  `shared` and
`drifted` remember that two updates met on a server, or that pm2 ids had moved.

`LogStream` is `_DeployLogBuffer` (`buffer`, the batch `held` by each thread, `db`), the
list of subscribers with their queues (`subs`, `queue`, `expired`) and the hook
`useDeploymentStream` of each page (`page` says whether it streams or polls).
`lost`, `raced`, `from`, `full` and `late` are history.

### Plans and approvals: `PlanApproval`, `ApprovalLifecycle`, `PlanExecutor`, `SelfApproval`

`PlanApproval` has one action per database round trip of a session: `ConsumeRead`,
the branches of the check, the guarded update `Consume` and its failure
`ConsumeLoses`, then `ExecuteRead`, `ExecuteStart`, `ExecuteFinish` of the same call;
`RejectRead`/`RejectWrite`; `PrepareRead`/`PrepareInsert`; the sweep `ExpireStale`.
`Lapse` and `Drift` are time and changed targets, `Restart` kills all sessions.
`Writes` is the ORM write: it sets the status whatever it has become, and
`clobbered` remembers that it was not the one the session had seen.
`ApprovalLifecycle` is the abstract promise: a plan moves from pending to approved
to executing to over, or closes, and never leaves `over` or `closed`.
`PlanApproval` implements it under the mapping `Phase`, which reads who has
the claim and how often the plan was set running; apart from telling whether the row
exists, the column `status` counts only for plans nobody has consumed.  What an
out-of-turn write does to that column is the matter of `StatusTellsTheTruth` and of
`rejected_plan_runs`.

`PlanExecutor` is one plan and the loop over its steps, for every dependency
relation among them (the code checks only that a dependency exists, so cycles
are included) and both policies.  `CallHandler` may leave the call `hung`, from where
`HandlerReturns` may or may not come.  `Crash` may come between any two commits; a statement
on the database may raise at any of them (`Raises`), which leads to the except block and its
FAILED (`Excepts`), and the last commit may raise out of `execute` (`CommitRaises`).  `mishaps`
remembers the last two, and that a RUNNING plan was resumed.  `Execute` and `ExecuteLeftover` are the two ways a later call goes on.  In this
code base consume happens once per plan, so a second call of `execute` on a RUNNING
plan comes from callers of the service itself; the resumption is modelled because
the code has a branch for it.

`SelfApproval` is the rows of grants with `key`, the unique scope key that only an ACTIVE
row should have, and one plan whose requester may approve it while a grant covers its
actions.  The tool's confirmation is a guarded update, the web endpoint's an ORM
write, and the plan looks a grant up by its scope, when it is prepared and when it is
approved.

### The task centre: `OperationJob`, `ActionApproval`, `AuditWriter`, `TaskCenter`

`OperationJob` is one row of a tool call: the call that inserts it and returns, its thread
with the two commits that may raise, the sweep of stale rows, deletion.
`ActionApproval` is consume, reject and the late expiry on one approval, and the two
ways to execute it, each with its own session and its own job row.  `AuditWriter` is
the bounded queue, the writer thread and the shutdown with its sentinel and its join.
`TaskCenter` starts with a tool call or an approval and adds the exit and the crash
of the process.

### Work in the background: `CleanupJob`, `Inspection`, `InspectionScore`

`CleanupJob` is one job: the handlers decide on the `view` of the row they read, the loops
delete a batch in the target database and then count it in the row, and `Recover` pauses
what a restart left running.  `torn` and `overlapped` remember the two things that make the
count or the cap wrong: a batch cut off from its count, and two loops at once.

`Inspection` is the rows of runs and reports, the workers of the pool of one batch
or one project, the reaper, the deletion and the merged report.  `slow` are the runs whose
check hangs on its server (`Hangs`): time passes them by, the reaper takes them for dead, and
their thread may go on later.  `InspectionScore` has
the verdict of a run and the score, as operators over the sequence of findings.

### Connections: `SshPool`, `TerminalSessions`

`SshPool` is the pool's table, the clients handed out, the state of the paramiko object
behind each and what the user does with it.  `TerminalSessions` is the table of
sessions, the shells, the websockets (`spc`) and the calls that close a session (`cpc`),
with a session out of the table while such a call has it in hand.  All sessions are to one
server, the case in which they meet: `ssh[s]` is the client of a session, which it may share,
and whatever closes a session (`Shut`: a call, a limit, the expiry) closes that client and
cuts the shells of all who share it.  Such a shell has `ended` with its record left, or was
`severed` while it was being opened.  `last_active_at` is kept as an order: `newer[s]` is the
set of recorded sessions that were active after `s`.

### Files: `LogRetention`, `Backup`, `Packages`

`LogRetention` is the rows of one table, its monthly archive as a sequence of gzip members
(one of which may be cut off) and the calls that select, archive and delete.  `Backup`
is the database file and its log with the connections that have them open, before and after
the file was replaced below them (`ghost` is the log such connections go on with), and the
directory of backups with its retention: a function from files to versions (`dir`), and for
each file those with a later modification time (`newer`).

`Packages` is the upload directory (`file`, `mtime`), the rows of `deploy_packages` and the
deployments and plans (`dep`) that protect a package, with the calls (`call`) that change them
from what each has read: an upload replaces the file (`Replace`) and then loads and
stores the row (`Load`, `Store`); a listing or preview hashes every file (`Walk`) and then writes
all rows (`Sync`); a cleanup reads the names to protect (`ReadNames`), chooses (`Choose`),
removes file by file (`Remove`, `Skip`) and commits once (`Record`).  The cleanup of all
artifacts begins with the release history (`SelectHistory`, `DropHistory`).  `crossed` is
history: the packages whose file was changed while another call was at work on them, or by
a call that ended before it wrote the row.  Ages are relative to one period, `Now`.

### The start: `Schema`, `SchemaMigrations`

`Schema` is data: the 65 tables of the model with the columns that some release lacked, the
list `MIGRATIONS` (`AllMigrations`) with what each statement does, and from both what a
database left by release `r` looks like.  `SchemaMigrations` takes them as parameters and runs the
start statement by statement on `view`, the database as the connection sees it, while
`disk` is what survives a death: the driver commits a CREATE, ALTER or DROP at once until
the first INSERT has opened a transaction (`begun`), so that the schema may be ahead of
the marks in `schema_migrations`.  Legacy settings, assets, audit rows and token aliases are
each a value that is in the old place, the new one, or changed by an operator.

`MCTaskCenter` gives the parameters the values of `Schema`.  What the proofs need of them is
stated where they are declared, and TLC evaluates it for the code's list and for every
database of a release:

* `MigrationsAssumption`: versions are unique; each entry is `EntryOK`: it adds what the model
  has, drops what it has not, an index comes after the columns it is on, and the old audit
  rows are copied before their table is dropped.
* `DatabasesAssumption`: what a release left is `Coherent`: a mark is true, a missing column
  is one that some statement adds (or in `Unmigrated`), and legacy data is in one place.

### Mutants

Operators whose comment begins with "Mutant" are plausible wrong versions of the
definition that follows them.  No specification uses them; each one
makes the property it is paired with in `PROJECT.json` fail.

## 3. The runs

| Run | Instance | Shows |
|---|---|---|
| `deploy_queue` | 2 deployments on the same two keys (web, tool), a web rollback, a web and a tool cancellation; or a plan-step deployment, its retry, a tool cancellation, a clock to 3 with a lock life of 1, one restart, one forced release; reads of the flag fail in the first instance, the step's run may hang in the second; 1.5M states | `KeysAreAccountedFor`, `RevokedNeverRuns`, `RowsAgree`, `RobberHasCause`, `AtMostOneRun` |
| `deploy_liveness` | a deployment, a web and a plan-step rollback, a web cancellation, one restart; or a web deployment of two keys, a tool cancellation, one restart, one forced release, a clock to 2; reads of the flag that fail and servers that hang; with fairness; 200k states | `QueuedTaskEnds`, `CancelTakesEffect` |
| `execution` | a plan of 3 steps with every dependency relation, 2 crashes, raising commits, handlers that hang; 3 servers that may hang, cap 2, every parallelism, wave size and fail_fast; a thread logging 2 lines in batches of 2, two pages, queues of 1, room for two subscribers and 2 faults or for one and 1; 0.8M states | `CallsInOrder`, `StatusIsHonest`, `ReportIsHonest`, `OutageIsBounded`, `LinesAreKept`, and that calls, rollouts and pages come to their end |
| `plan_approval` | 2 equal plans, 4 sessions, symmetry | `OneExecution`, `StatusTellsTheTruth`, the refinement |
| `cleanup_job` | 4 rows in batches of 2 with a cap of 3, two handlers, two loops, one restart; or one package name, two calls, one earlier deployment or plan and one started meanwhile; 1.6M states | `CountedAndCapped`, `StopsWithinABatch`, `SomebodyWorks`, `RowsMatchFiles`, `RemovalsAreDue` |
| `kept_data` | 2 calls at a time and 4 in all over 3 rows of two months; or 3 calls of create and restore, 2 kept backups, 2 later versions of the data; 2.4M states | `ArchiveIsSound`, `BackupIsSound` |
| `self_approval` | 2 grants of one scope of which one covers the plan, 2 calls, 2 wrong codes | `ScopeIsExclusive`, `SelfClaimHadGrant` |
| `task_center` | one tool call with 3 audit records and a queue of 1, or one approval with two calls; one restart; or the start on a database of each of the 25 releases that added migrations, with none of four defects or one, and deaths at every statement; 0.3M states | `RowTellsTheTruth`, `DispatchedOnce`, `NothingLostInOrder`, `ShutdownEnds`, `StartKeepsData`, `StartBringsUpToDate` |
| `inspection` | a batch of two server runs of two checks, of which the first may be unable to run, with one thing wrong at a time (a restart, a failing commit, a hanging check of the first server) and only the common report discarded; or a project run of two checks with four findings, hanging checks, one restart, two failing commits; 2.1M states | `RunIsSound`, `ReportsAreAccountedFor`, `VerdictIsFinal`, `ProjectEnds` |
| `servers` | 3 releases of 3 versions of which one never answers, the five lists of steps the code has; or two blue-green steps, the second sharing a server with the first; 2.2M states | `ReleaseIsSound`, `BlueGreenIsSound` |
| `connections` | 2 users who close, one who keeps, 3 connections; or 2 users with 3 sessions of a client each, 2 websockets, 2 closing calls, limits 2 and 1, calls and attached browsers three in all; or the same sessions sharing clients, one in all; 0.5M states | `PoolIsSound`, `SessionsAreSound` |
| `rejected_plan_runs` | as `plan_approval` | a disagreement, see section 5 |

**What the properties say.**  Most are a conjunction of named parts, one of which is the
type invariant where the run has no other place for it.

* `KeysAreAccountedFor`: while a task is active it holds its keys, and a key that is held has
  somebody who will release it, apart from the leaks `KnownLeak` names.  `RobberHasCause`
  lists the ways one task comes to release a key another holds.  `RevokedNeverRuns`: a
  deployment that a cancellation found pending touches no server unless the read of its flag
  before the first one failed, and is no success unless the read behind the last one failed too.
  `RowsAgree`: after its run a deployment is in a terminal status, the one of its task unless
  somebody else wrote to it.  `AtMostOneRun`: no task is run twice.
* `QueuedTaskEnds`: queued work ends unless whoever runs it hangs on a server (`Stuck`).
  `CancelTakesEffect`: a flag raised in time makes the run no success unless the last read of
  it fails or a server hangs.
* `ReportIsHonest`: success means every server succeeded unless a flag was misread, a failure
  has a failed server, a cancellation that came in time is reported, and the rows of
  the servers agree.  `OutageIsBounded`: no more servers are worked on than asked for, and
  fail_fast stops the waves behind a failure.
* `LinesAreKept`: every logged line is in one place, in order, or was lost with a write that
  raised, and a subscriber has no gap.  `PageLearns`: a page that watches shows the end of
  its run, unless one of the causes in `NeverTold` keeps it from it.
* `CallsInOrder`: no handler is called twice, none before its dependencies, none after
  a failure that stops the plan unless the call resumed an earlier one.  `StatusIsHonest`: the
  final status agrees with the steps, but a FAILED the except block wrote does not; SUCCEEDED is
  never written that way.  `WorkEnds`: calls and rollouts end unless the process dies, a
  command hangs or the last commit raises.
* `CountedAndCapped`, `StopsWithinABatch`, `SomebodyWorks`: section 4.
* `RemovalsAreDue`: a cleanup or deletion takes no file that work in progress, a failure
  to retry or a last success needed when the call read the deployments, unless the
  deployment goes by another version or its row is no longer in the history; and no file
  uploaded in this period.  `RowsMatchFiles`: with no call at work on it, and outside
  `crossed`, a row tells whether its file is there and what it holds.
* `ArchiveIsSound`: a deleted row can be read from an archive unless the archive was cut
  off, and is there once unless two calls crossed.  `BackupIsSound`: a restored file stays as
  restored, and what it replaced can be gone back to, with the causes named where not.
* `ScopeIsExclusive`, `SelfClaimHadGrant`: one active grant for a scope; a plan its
  requester approved had one when the call looked.
* `RowTellsTheTruth`: the job row says what the action did.  `DispatchedOnce`: an approval is
  acted on once unless both calls looked before either wrote.  `NothingLostInOrder`: an orderly
  shutdown leaves no earlier record unwritten.  `ShutdownEnds`: it ends, except in the course
  of events `Stuck` describes.
* `StartKeepsData`: whatever statement a start dies at, each piece of legacy data is in
  exactly one place, and what an operator changed is never converted again.
  `StartBringsUpToDate`: only bad data stops a start, never what an earlier one left behind,
  and what serves has every table and column but `item_config_snapshot` and nothing left
  to convert.
* `RunIsSound`: a run's verdict is what its checks found.  `ReportsAreAccountedFor`: every
  report is referred to, or about to be, or an orphan with a cause.  `VerdictIsFinal`: a verdict
  is final, the reaper gives up only runs nobody advances or whose check hangs, a score never
  rises.  `ProjectEnds`: a project run ends unless its check hangs or no session could write it.
* `ReleaseIsSound` (`LinkIsSound`, `SuccessIsServed`): a server at rest links the last good
  version, and what a run that switched and checked reports as success is linked and served.
  `BlueGreenIsSound` (`LiveIsSound`, `ReportIsTrue`): the serving directory is not restarted
  or written, success serves the package, failure leaves the port where it was.
* `PoolIsSound`: a command is cut only by a cause the code accepts, a forgotten connection has
  one, and no client keeps a secret without a user.  `SessionsAreSound`: the table and the
  hands of one handler hold exactly the sessions whose shell is open, or ended with a client it
  shared; limits hold, `connected` is true.

**Why the bounds are enough.**  A conflict over keys needs two tasks and two keys
(one taken, the second refused, the first given back); a third key keeps the
rollback apart.  A key lost by one task, taken by a second and released by the
first needs two tasks and two ticks beyond the lock's life.  The worker is one,
so a third deployment waits as the second does.  Waves need one full wave and
one partial one: three servers with wave sizes 1 and 2.  Four sessions allow a
prepare for each of two plans and two racing calls, or four racing calls on
one plan.  Two crashes allow a crash, a resumption and a crash of the resumption.  A cap
that is not a multiple of the batch and a remainder above the cap make the last batch of a
cleanup a short one; two loops are all that overlap needs.  An archive needs a member
before and one behind the one that is cut off, hence three rows.  A rollback of a release
aims at the one before last: three releases.  A queue of one is full with its first record.
One package name is enough, because calls cross on a name; one deployment of before and
one of now give a success to protect, a failure to retry or a plan, and its successor.
The releases are all that the versions of
the list tell apart, and one defect at a time is repaired before the next start.
Two handlers, two pages, two users and two websockets are the smallest number of
each that can be in each other's way.  `MaxClock`, `MaxRestarts`, `MaxForced`, `MaxCrashes`,
`MaxRuns`, `MaxCalls`, `MaxVersion`, `MaxCloses`, `MaxLinks`, `MaxFaults`, `MaxRaises`, `Deployments`, `Prior` bound the
environment only.  Restarts are left out of the first instance of `deploy_queue` and
cancellations of two kinds out of the second because their product is too large.  For the same
reason reads of the flag fail in the first instance only, and a hanging run is in the second
only: to the others it is one that takes long.  In `connections` the terminals either have a
client each or share clients; sharing with more calls at a time is what the proof of
`SessionsSound` covers.

**CHECK_DEADLOCK FALSE** in every configuration: requests, cancellations, crashes and
sessions are finite in number, and when all have been served the model stops.

**Fairness.**  The loop schedules its coroutines first in first out, so a run that has begun
and whose waits end goes on (`WF` of the worker's and the handlers' steps).  Not every wait
ends: `recv_exit_status` (`ssh_client.py:261`, 283) and `sftp.put` (line 311) take no timeout,
and `exec`'s own does not reach them.  Where the code waits for a server, hanging is therefore
a step that may be taken at any time and that nothing obliges to end (`Hangs` in
`DeployQueue`, `Rollout` and `Inspection`, the stage `hung` of `PlanExecutor`): the return is
under no fairness, and every liveness property names who hangs as its excuse.  `RunStep` and
`WorkerRead` of `DeployQueue` are strongly fair because the loop can be taken by others again
and again in between, and FIFO scheduling brings everybody's turn.  The thread of a run, the
browser's timers, the audit writer, a thread of the task centre and the pool of an inspection
are weakly fair: the operating system runs a thread that can run.  Nothing is assumed of
people: requests, cancellations, forced releases, restarts and a second call of execute may
never come.  `QueuedTaskEnds` counts a task of a dead process as over: nothing in the code
picks up a row left `running`.  There is no liveness for blue-green updates and releases,
whose commands are all of this kind.

**History variables** record what happened and guard no action: `holder`, `runs`, `revoked`,
`lapsed`, `robbed`, `misread` (in both modules), `mishaps`, `clobbered`, `calls`, `failedBefore`, `torn`, `overlapped`, `late`,
`together`, `swept`, `disturbed`, `orphans`, `lastGood`, `overlap`, `bare`, `marred`, `shared`,
`drifted`, `hurt`, `waived`, `cut`, `crossed`, `promised`, `undone`, `lame`, `slipped`, `broken`.
A property that excuses a case names the history variable that remembers its cause, so that
the same damage without that cause is a violation.

## 4. The proofs

All theorems are of the form "for every value of the constants", and each rests on an
invariant that is inductive where the property alone is not.  In every proof module
`InitInv` establishes the invariant, one lemma per conjunct (with a step per action)
keeps it, `IndStep` puts them together and a temporal step lifts them.

`ApprovalProofs`, about plans (`PlanApproval`), from `NoPlan \notin Plan`, for every set of plans and every number of
sessions: `TypeCorrect`, `ExecutedAtMostOnce` (`OneExecution`), `StatusIsTrue`
(`StatusTellsTheTruth`) and `Refinement` (`ImplementsLifecycle`).  `IndInv` adds

* `AtRow`: a session past its first read works on a row that exists (rows are never
  deleted), so that its unguarded write has a target.
* `Claim`: whoever has won a plan has its `consumed_at` set, an unconsumed plan
  has not been run, the winner has not run it before it starts and has run it once
  while it is running.  This is where the guarded update of `consume` enters: it needs
  `consumed_at` to be null, and nothing ever clears it.
* `Truth`: for plans outside `clobbered`, status, claim and the place of the claiming
  session agree.

`PhaseStep` shows that a step from a state of `IndInv` moves the phase of a plan along the
abstract life cycle or leaves it, from which `Refinement` follows.

`ExecutionProofs`, about plans (`PlanExecutor`) of any length, every dependency relation and any
number of crashes: `TypeCorrect`, `NeverRepeated` (`CalledAtMostOnce`),
`InOrder` (`DependenciesFirst`), `FailureStops` (`StopsUnlessResumed`), the three together
as `OrderlyCalls` (`CallsInOrder`), `HonestStatus` (`StatusIsHonest`) and `FinalForGood`
(`FinalIsFinal`).  `IndInv` adds

* `Progress`: a call in progress has the plan RUNNING and no PENDING step behind `cur`,
  and the loop ends behind the last step or at a failure that stops it.  Without the
  last clause FAILED could hide a step that was never tried.
* `Calling`: the call of a handler lies between the commit of RUNNING and the commit of
  its outcome, so a step that is PENDING has not been called and one that is not will
  not be; its dependencies have succeeded for good.
* `Stopping`: until a call resumes a plan that was left RUNNING, one that still tries steps
  has seen none fail.

`HonestStatus` rests on `SUCCEEDED` and `PARTIAL_SUCCESS` being written by `Finish` alone; the
except block writes FAILED whatever the steps did, and `mishaps` says when.

The same module about rollouts (`Rollout`), for any number of servers and every request: `HonestReport`
(`ReportIsHonest`) and `BoundedOutages` (`OutageIsBounded`).  `RolloutInv` adds

* `Rows`: a server has a row once it has begun; who is worked on is of the open wave, has
  no final row and was not aborted; a result is what its row says.
* `Causes`: servers that have begun are of waves up to `wave`; a skipped one means an abort, an
  abort a flag that was raised or a server that failed or was canceled, a canceled one a
  flag; one by one, a server begins when all before it have results; with `fail_fast` and no
  abort, every server of the earlier waves succeeded.

The counters of the code are cardinalities of sets of servers; `Geometry` and `SameWaves` say
which servers share a wave, from the division lemmas `DivFacts`.

The same module about one server's releases (`Release`), for any versions, any lists of steps and
any number of runs: `ReleaseSound` (`ReleaseIsSound`).  `ReleaseInv` adds

* `Reversible`: during a run that no rollback fell into, the link is where the run found it, or
  names the run's version while the stack has where it was.  So whatever step fails, the
  engine's undo leads back; the runs that have nothing on the stack to go back to are
  `bare`.
* `Served`: a standard run is past its steps in order: unpacked, linked, loaded.  The health check
  looks at whatever process answers, and only this makes that the run's own version.

And about blue-green updates (`BlueGreen`), for any servers, any number of updates and any lists
of targets without repetition: `BlueGreenSound` (`BlueGreenIsSound`).  `BlueGreenInv` adds

* `Met`: two updates on one server at a time have put it among the `shared`.  The code has no
  lock; all the rest holds of the servers outside that set.
* `Alone`: what an update that met no other has found is still so: the port is on the directory
  it took for the serving one, its package is the one uploaded, the pid it saw is the one
  there, or it has restarted the process on its package.
* `Counted`: an update has polled only while it rechecks, so the next server starts from none.

And about the log of a run (`LogStream`), for any threads and pages, any number of lines and
faults and any size of the batch, the queues and the list of subscribers: `LinesKept`
(`LinesAreKept`).  `StreamInv` adds

* `OnePlace`: buffer, table, lost lines and the batches at hand share no line and have all of
  them; the counting of `KeptInOrder` follows, since what does not repeat has as many lines as
  its length.  `OneBatch`: while one batch was out at a time, table, batch and buffer follow
  each other.  The code takes under one lock and writes under another, so this is all there is.
* `HoldsToWrite`: a thread that logs, and a page that flushes, has nothing in its hands.
* `SentOnce`: a line is published by the thread that logged it, once; so a page cannot have
  subscribed behind the end.
* `Subscribed`: who is to be dropped was full or too old, and who is neither is on the list.

`ApprovalProofs`, about grants (`SelfApproval`), for any set of grants and calls: `GrantTypeCorrect`, `OneGrantPerScope`
(`ScopeIsExclusive`) and `GrantWhileApproving` (`SelfClaimHadGrant`).  `KeyInv` is the
heart: the unique key is in one row at most, an ACTIVE row has it, and a row that has it
is ACTIVE or was overwritten by a late expiry.  `QuietInv` says that a call which began when
no grant covered the plan, and saw none become active since, does not pass its first
question.  `OnGrant` gives the ORM writes their row.

`CleanupProofs`, about jobs (`CleanupJob`) for any number of rows, any batch and cap, any number of handlers,
threads and restarts: `TypeCorrect`, `CountAndCap` (`CountedAndCapped`), `StopsSoon`
(`StopsWithinABatch`) and `RunningIsWorkedOn` (`SomebodyWorks`).  `SingleInv`: while no two
loops overlapped there is one.  `CountInv`: such a loop has loaded the count there is and
has counted all but the batch in its hands, so what it takes next is what the cap leaves.
`LateInv`: a loop that has deleted a batch since the job stopped is on its way to see that.
`WorkInv`: a running job has a thread that has not just seen it stopped.

The same module about packages (`Packages`), for any number of packages, calls, deployments and
plans and any periods to keep them: `RowsAreRight` (`RowsMatchFiles`) and `RemovalsDue`
(`RemovalsAreDue`, an action property).  `PackagesInv` adds

* `Uncrossed`: of a package outside `crossed`, what every call has in hand is so (`Known`): what it
  removed is gone, what it uploaded is there, what it walked or loaded differs from the row
  only in columns somebody has since written right (`Tracks`).  And its row is right, or
  some call owes it a write (`Owes`).  This is what the ORM's writing of changed columns only
  needs: two calls may write one row, and the columns add up.
* `Walked`: nobody has changed a package's file since a call walked, if it is still fresh for it;
  so its time of upload is known when the call chooses (`Chosen`).
* `Protected`: a deployment a call has seen protects its package by name, or is `Excused`:
  over, forgotten by the history, or going by another version.  `NamesAreRead` is
  where the names the code protects cover what is needed.
* `Numbered`: deployments are numbered as they start, so that a deletion by ids
  (`DropHistory`) and what a call has seen are of deployments that have started.

`TaskCenterProofs` has the proofs of both parts of `MCTaskCenter`.  Of `TaskCenter`, for any set
of calls, any queue size and any number of restarts:
`TypeCorrect`, `RowsAreTrue` (`RowTellsTheTruth`), `Dispatched` (`DispatchedOnce`) and
`NothingLost` (`NothingLostInOrder`).  `AuditInv`: a record that waits is in the queue or
in the writer's hands, and once the writer has left or the join is over those that wait
came late.  `ToolInv` and `ExecInv` tie the row of a job to the place of its thread and to
what its action returned.  `DispatchInv`: EXECUTING is written once and left for good when
a call starts, so who reads it has no other call before it, unless `together`.

Of `SchemaMigrations`, for any model, list of migrations and databases that the assumptions
allow, whatever statements starts die at and however often: `StartsLoseNothing`
(`StartKeepsData`) and `StartsEndUpToDate` (`StartBringsUpToDate`).  `SchemaInv` adds

* `Kept`: file and view are `Coherent`, also where an ALTER was committed ahead of its mark,
  and once an operator has edited something nothing is left in `config_kv` and the tokens are
  marked as converted, so no later start converts again.
* `Reached`: what the view has gained when the start stands at statement n of a phase; an entry
  that is behind is `Entered` whether it was run, skipped for its mark, or found done.
  An old audit row may be in two places in the view only between the copy and the drop
  of its table, and a setting only between the copies and the drop of `config_kv`; both
  stretches lie inside one transaction (`MayBegin`), so never in the file.
* `OnlyDefectsStop` is inductive with these: no entry fails, as an index has its columns and an
  ALTER that was committed without its mark is found done.

`DeployQueueProofs`, for any tasks, cancellations and lists of keys (a key may be twice in a
list), any number of restarts, forced releases and ticks: `TypeCorrect`, `Exclusion`
(`KeysAreAccountedFor`), `Robberies` (`RobberHasCause`), `RunsOnce` (`AtMostOneRun`),
`CanceledStaysCanceled` (`RevokedNeverRuns`) and `RowsTellTheSame` (`RowsAgree`).  The
assumptions are those of `QueueAssumption`: tasks are deployments and rollbacks, a retry is a
deployment, the names of worker, tasks and cancellations differ.  `IndInv` adds

* `Lives`: a task has its row from the moment it is queued, and is pending only while it
  waits, so that the poll cannot pick up what was started.  A restart keeps that: it turns a
  run it interrupts to `dead`, and no row goes back to pending.
* `OneWorker`: what runs without a coroutine of its own is what the worker claimed, and `task`
  of its loop names a row that is past pending, except between the read and the claim.
  This is why the failure that `WorkerPollRaises` reports twice never frees a row to run again.
* `Cancellations`, `Doomed`: the web handler keeps the loop from the flag to the write, so the
  row it found pending still waits; the tool's thread may lose that race to the worker, but
  the flag it raised first stops the run at its peek, unless that read fails; a run that went
  on reports canceled at its final check, unless that read fails as well.
* `Reports`: between the two writes of a report, or of a failure, the deployment lags behind
  its task; `Undisturbed` can only become false (`DisturbedStep`).
* `Lists`: a handler takes its keys in order, and no key is owed twice unless the task lost one,
  since a key still held conflicts with its second taking.  Without it a release would be
  taken for a loss.

`OwedStep` and `KeyStep` say once, over all actions, how a step changes what a task owes and
who holds a key; the two halves of `KeysAreAccountedFor` follow from them alone.

`ConnectionProofs`, for any users, whoever of them closes its client, with a password or a key
file, and for any number of connections: `PoolSound` (`PoolIsSound`).  `IndInv` adds

* `Objects`: a Paramiko object is known by one client at most, and by none once it is closed.
* `Fresh`: until its maker puts it in the pool a client is known to nobody else.  `get_ssh_pool`
  connects outside its lock, which is right only because of this.
* `Dialing`: what is being connected is the work of one user; its client knows it, or somebody
  closed or replaced that object meanwhile and it is among the `orphans`.
* `Alone`: users that share a client, and those of a client about to be cleaned up as stale,
  are among the `disturbed`.

It also proves `SessionsSound` (`SessionsAreSound`) for any two limits, administrators,
websockets and closing handlers.  `SessionInv` adds

* `AtWork`: whatever a refused close is about to put back is in `slipped`, so what is put back
  is not counted.
* `Unattached`, `Checking`: nobody is at a session that is not registered yet, and nothing
  attaches to a session between the checks of a websocket and its flag.

`ShutIs` says what closing a set of sessions does to every shell: it takes no record from a
session outside the set, even one that shares the client, and opens none.  So each step
changes the recorded sessions as it changes the table and the hands (`SmallStep`, over all
actions), whoever shares with whom.

The limits rest on `RecentAreFew`: the number of sessions that were active later tells the
kept ones apart and is below the limit, so they are fewer than the limit.  That takes
`OrderIsKnown`, and an injection into a range of numbers in place of an induction over the
loop that evicts.

`KeptDataProofs`, for any number of rows, calls and cleaners and any length of a month:
`ArchiveSound` (`ArchiveIsSound`).  `Safe(m)`, the rows of the members whose writing is over,
is what the argument is about: `SafeStep` shows that no step takes a row out of it, not even an
append to an archive whose last member was cut off.  `IndInv` adds

* `Calls`: a call writes one member of its own, with the rows it did not find, and deletes
  only what it selected, although it deletes by the cutoff and not by the rows it read.
* `Kept`: what a call found, is about to delete, or has deleted, is safe; and months not in
  `cut` have only whole members.
* `Once`: unless calls `crossed`, one at a time is between reading and closing an archive, and
  it knows all that is in it.

It also proves `BackupSound` (`BackupIsSound`) for any calls, limits of the retention and
versions.  `BackupInv` adds

* `Committed`, `Current`: nothing is newer than the last commit, and a call that has yet to
  copy will find what was there when it began, something later, or pages that fit nothing,
  which its check refuses; no call is owed anything while the log is unlinked.
* `Owned`, `Secured`: a copy has a number of its own, and is there, with a version that is new
  enough once it was checked, until somebody who is named in `taken` removes it.

`InspectionProofs`, for a batch and projects of any size, any chunks and workers, any checks,
categories and findings, and any number of restarts and failing commits: `RunsAreSound`
(`RunIsSound`), `ReportsAccountedFor` (`ReportsAreAccountedFor`) and `VerdictsAreFinal`
(`VerdictIsFinal`, an action property).  `IndInv` adds

* `RowsInHand`: the rows of a run are closed but for the one of the check at hand, so the rows
  a verdict is taken from are all answers.
* `VerdictInHand`: only an executor on its way out has written a verdict, so the one write that
  can take a status back, `Begins`, meets no verdict but the reaper's.
* `Paced`: no executor whose check does not hang lets more than a heartbeat pass between two
  commits, so a run that is silent for longer has none at work, or one that hangs.
* `Scored`: the score is never better than that of the rows there are.  That it only falls
  is `ScoreFalls`, for every sequence of rows: rows that cover others (a category has a finding
  that weighs as much) have no more HIGH-free, then no more HIGH- and MEDIUM-free categories, and
  the weights 15, 8 and 2 fall in that order.  It needs no induction: the counts are cardinalities of
  finite sets that grow.
* `ReportsInHand`: a report on its way to a row is there or was discarded, the merged one is
  referred to by nobody until it is linked, and a deletion holds no report that is still on
  its way.

Only model-checked: liveness under fairness (`QueuedTaskEnds` and `CancelTakesEffect` of
`MCDeployLiveness`, `ShutdownEnds`, `WorkEnds`, `PageLearns`, `ProjectEnds`), and with it
ENABLED, which the provers cannot reason about.  Every other property a run expects to hold is
the statement of a theorem.

## 5. Where the code and its texts disagree

Checked by a run of its own:

* `rejected_plan_runs`: `reject` writes by id what it decided earlier, and so does
  `execute`; a plan marked REJECTED may be set RUNNING, although
  `approval_tools.py:2166` says that REJECTED stops its later execution.

Met while modelling; a property of a passing run that one of them touches names it as its
exception, so that the same damage by any other way is a violation.

* Queue.  The web rollback inserts its row outside any try after it took the key
  (`executions.py:341`), and the web cancellation looks for pending rows after it
  turned them to canceled (line 262): the key stays until it expires
  (`docs/audit-review-2026-09.md` found no leak).  `KnownLeak` names both and the run whose
  first write raises before its try.
* Queue.  `RollbackRuntime.run` (`rollback.py:54`) does not look at the row it overwrites,
  and a canceled rollback ends as success, which `app/deploy/state.py:4-6` means to prevent.
* Plans.  `prepare` reads and inserts in different transactions (`execution_plan.py:383`):
  two equal plans may be pending.
* Plans.  A plan resumed after a crash passes over its failed step and goes on, although
  continue_on_error is off (`plan_executor.py:574`).
* Cleanup.  Two loops each take what is left of the cap from the count they loaded
  (`maintenance/service.py:480`), so they may exceed a cap at which, `api/maintenance.py:66`
  says, execution stops.
* Inspection.  The reaper kills a run that waits in the queue of a living batch, in the gap
  between the end of one run and the first commit of the next
  (`inspection_center.py:4631`; its docstring, lines 4610-4612, says it does not).
* Blue-green.  The standby directory of one update may be the serving one by the time its
  process is restarted (`blue_green.py:265` against line 19); a server reported as rolled
  back may be served by the new directory, since nobody looks at `rollback_ok` (line 342
  against 320); a recheck that raises skips the automatic rollback (line 295 against
  12-13), and so does a `portupdate.sh` that moved the port and failed (287-289); the error
  log that lines 8-9 promise to look at is not read.  `docs/plans/2026-07-22-qclaw-element-approval-ops-design.md:309`
  says that nothing is linked back automatically.
* SSH.  The retry of `exec` reconnects a client whose secrets another user's `close` has
  cleared (`ssh_client.py:250` and 368-369); a client left open for reuse may no longer be
  the one in the pool (line 578 against `api/servers.py:168`).
* SSH.  The timeout of `exec` bounds the reads of its output but not `recv_exit_status`
  (`ssh_client.py:261`, 283), and uploads have none (line 311): one command that hangs keeps
  the deployment worker for good, and an inspection that hangs is reaped with its thread still
  at work, which may write its verdict over the reaper's later.
* Releases.  The rollback by symlink links the second newest directory, which after a failed
  run is the release it should take back (`api/deploy/_shared.py:1040` against 1041);
  the first release of a server that fails after its switch leaves `current` linked to
  itself (`pipeline/steps.py:352`); the default list of steps has no switch and reports
  success with the old release linked (`_shared.py:1331`, `steps.py:304`); the template
  blue_green links a directory the package is not unpacked in (`deploy_v2.py:102`).
* Log retention.  An archive found corrupt is said to be overwritten
  (`sqlite_cleanup.py:73`) and is appended to (line 79).
* Backups.  The safety backup of a restore may push out the very backup that is restored
  (`backup_service.py:278`); the orderly shutdown of the restart that a restore asks for
  (line 293) moves pages of the unlinked log over the restored file.
* Log stream.  The error handler of the page decides on the status of the run shown before
  (`useDeploymentStream.ts:129`), and a stream that fails may leave the page without
  polling.
* Terminals.  A refused close puts its session back without looking at the limits
  (`terminal_sessions.py:151`), and a websocket that marks its session in that gap leaves
  the flag FALSE, so that a second one attaches (line 121 against `api/terminal.py:176`).
  Closing, evicting or expiring one session closes the pooled client of all sessions to that
  server (lines 160, 229, 251) and ends their shells, even that of the session being opened;
  an ended shell keeps its record, and a websocket on it goes on with its pings.
* Grants.  A confirmation that comes too late keeps the scope key of a grant the web
  endpoint confirmed meanwhile, and the scope stays blocked; deleting a grant
  (`api/temporary_approvals.py:190`) does not look for plans that rely on it.
* Audit.  A shutdown hangs in the course of events `Stuck` describes.

Seen in passing, without a model: `api/maintenance.py:233` calls `audit` with an argument it
does not take, after the retention was executed; `TerminalTab.tsx:433` sends its beacon
as POST to a route that has only DELETE; the terminals' `purge_inactive` is
never called; two overlapping updates leave an inspection issue open with the time at which
it was fixed (`inspection_center.py:5152`; the comment on line 5153 says times and status
agree); a database made before it has no `inspection_runs.item_config_snapshot` until an
operator runs `scripts/migrate_inspection_item_configs.py`, since no migration adds the
column (`Unmigrated` of `Schema`); the cleanup of all artifacts deletes history before it
chooses packages, so a success the preview showed as a reason to keep a package may be gone
(`runtime_resources.py:479`; `package_retention.py:3-5` promises to keep what retry and
rollback need); a deployment protects the package its version names, which need not be the file
it deployed (`package_retention.py:555`); a package uploaded again under a name that was used
long ago counts as old (line 657); `package_keep_max` has no effect; `execute_package_cleanup`
ignores the package ids that were approved (`approval_executor.py:724`); migration 081_002 copies with INSERT OR IGNORE, which would
pass over an old audit row without action or time before 081_003 drops the table.

## 6. What is left out

* Queue: writes that fail other than the insert of a task row (`CreateFails`), the first
  write of a run (`StartRaises`), the poll (`WorkerPollRaises`), the insert of a server row
  (`RowFails`) and the read of the cancel flag (`ReadsFlag`, `ReadFlag`); the rows of `deployment_lock_records`, which
  mirror the table for display, and the `refresh` of a lock, which nothing calls; the checks
  before a submission (roles, phrases, package format, prechecks), which refuse a
  request before any state changes; the database session shared by the coroutines of a wave.
* Releases: the upload of the package, the scripted steps, the rows of the steps.
* Cleanup: the numbers of batches, jobs without approval or cap, connections and table
  policies.
* Audit: what a record contains, and the chain built from the records for display.
* Inspections: the analysers of the checks, rules and thresholds, the life of an issue, the
  combined inspection, the synchronous batch, ledgers and periodic reports.
* SSH: file transfers and tunnels.
* Terminals: sessions to different servers, which share nothing but the two limits.
* Log retention: rows inserted between SELECT and DELETE with a date before the cutoff.  Log
  rows bear the time they are written, so this takes a `retention_days` of 0 or less, which
  `api/maintenance.py` does not refuse; such rows would be deleted without being archived.
* Log stream: `shutdown_all_subscribers`, conditional requests (304, ETag), runs started on
  one page while another is shown, the wake-up of a stream after at most 15 seconds, the
  duplicates a polling page shows.
* Packages: the temporary file of an upload, protection by hand during a call, rolled-back
  deployments, the retention of audit rows, and `intake_package`, which nothing calls.
* Backups: the half-written file of a backup that was killed, two names in one second.
* Start: what `_ensure_indexes` creates, which columns of a table a conversion fills, and
  databases other than SQLite.
* Contents: payloads, logs, notifications, names.
* Not modelled at all, with the reasons in `PROJECT.json`: the
  tool registry with its policies and tokens, Matrix and message routing, database export,
  configuration, accounts and secrets, the rest of the frontend.  They are sequential code
  over text, files and tables, with little to interleave.

## 7. Plan

1. An abstract lock service that `DeployQueue` implements while no key lapses.
2. The composition of a RELEASE step with the queue: the plan step reports before
   the worker has run its row, so what a SUCCEEDED plan says of the deployment.
