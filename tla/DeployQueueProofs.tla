--------------------------- MODULE DeployQueueProofs ---------------------------
(***************************************************************************)
(* Proofs about DeployQueue for any number of deployments, rollbacks and   *)
(* cancellations, any lists of keys, and any number of restarts, forced    *)
(* releases and ticks of the clock.                                        *)
(***************************************************************************)
EXTENDS DeployQueue, SequenceTheorems, FiniteSetTheorems, TLAPS

\* How far a task is tells whether it has a row, and whether it was run.
Lives ==
    \A j \in Task :
        /\ pc[j] \in {"idle", "lock", "undo", "abort", "refused"} => status[j] = "none"
        /\ pc[j] \in {"queued", "done"} \cup Running => status[j] # "none"
        /\ status[j] = "pending" => pc[j] = "queued" \/ (HasCoroutine(j) /\ pc[j] = "dead")
        /\ runs[j] <= 1
        /\ pc[j] \in {"idle", "lock", "undo", "abort", "refused", "queued", "start", "peek"} =>
               runs[j] = 0 /\ verdict[j] = "none"
        /\ pc[j] \in {"check", "report", "reportDep"} => verdict[j] # "none"

\* The worker runs the one task that is not run by a coroutine of its own, and
\* `task' of its loop names a row that it claimed.
OneWorker ==
    /\ \A j \in Task : pc[j] \in Running => HasCoroutine(j) \/ (wpc = "run" /\ wjob = j)
    /\ wjob # NoTask => status[wjob] # "none" /\ (status[wjob] = "pending" => wpc = "claim")
    /\ wpc = "claim" => HasCoroutine(wjob) \/ pc[wjob] = "queued"
    /\ wpc \in {"claim", "fail", "failDep"} => loop = Worker

\* What a cancellation goes through are the rows of its deployment; the web
\* handler has the loop meanwhile, so the row it is about to write waits.
Cancellations ==
    /\ \A i \in DOMAIN rows : status[rows[i]] # "none"
    /\ \A j \in revoked : status[j] # "none"
    /\ \A c \in Cancel :
        /\ \A j \in seen[c] : DeploymentOf[j] = CancelOf[c] /\ status[j] # "none"
        /\ cpc[c] \in {"write", "free"} =>
               status[cjob[c]] # "none" /\ DeploymentOf[cjob[c]] = CancelOf[c]
        /\ cpc[c] = "free" => cjob[c] \in revoked /\ CancelVia[c] = "tool"
        /\ CancelVia[c] = "web" /\ cpc[c] \in {"flag", "write"} => loop = c
        /\ CancelVia[c] = "web" /\ cpc[c] = "write" => pc[cjob[c]] \in {"queued", "dead"}

\* A deployment that a cancellation found pending has its flag; no server of it will
\* be touched unless the flag is misread, and no success reported unless twice.
Found(d) == d \in revoked \/ \E c \in Cancel : cpc[c] = "write" /\ cjob[c] = d
Missed(d, at) == <<d, at>> \in misread
Spared(d) ==
    /\ flag[d]
    /\ \/ pc[d] \in {"queued", "start", "peek", "check", "report", "reportDep", "release",
                     "leaked", "done", "dead"}
       \/ Missed(d, "peek") /\ pc[d] \in {"roll", "hung"}
    /\ Missed(d, "peek") \/ (runs[d] = 0 /\ verdict[d] \in {"none", "canceled", "failed"})
    /\ status[d] = "success" => Missed(d, "peek") /\ Missed(d, "check")
    /\ verdict[d] = "success" => pc[d] \in {"check", "dead"} \/ Missed(d, "check")
Doomed == \A d \in Deploy : Found(d) => Spared(d)

\* From the report on, task and deployment tell the same unless somebody else writes.
Settled(d) == dep[d] \notin {"pending", "running"} /\ (Undisturbed(d) => dep[d] = status[d])
Reports ==
    /\ \A d \in Deploy :
        /\ pc[d] = "reportDep" /\ Undisturbed(d) => status[d] = Reported(d)
        /\ pc[d] = "release" /\ verdict[d] # "error" => Settled(d)
    /\ wpc = "failDep" => status[wjob] = "failed" \/ (wjob \in Deploy => ~Undisturbed(wjob))
    /\ Agreement

\* Task j lost a key in one of the ways that are known.
Excused(j) == j \in lapsed \cup revoked \/ \E i \in Task : <<i, j>> \in robbed

\* Where a handler is in its list of keys, and that no key is owed twice.
EndOf(s, t) == Len(s) <= Len(t) /\ \A i \in 1..Len(s) : s[i] = t[Len(t) - Len(s) + i]
Distinct(s) == \A a, b \in DOMAIN s : s[a] = s[b] => a = b
TakesInOrder == \A j \in Task : pc[j] = "lock" => EndOf(left[j], LockKeys[j])
Lists ==
    /\ TakesInOrder
    /\ \A j \in Task :
        /\ Distinct(OwedInOrder(j)) \/ Excused(j)
        /\ \A k \in Key : holder[k] = j => k \in ToSet(LockKeys[j])

IndInv ==
    /\ TypeOK /\ Lives /\ OneWorker /\ Cancellations /\ Doomed /\ Reports /\ Lists
    /\ LockedWhileActive /\ HeldKeyIsAccountedFor /\ RobberHasCause

-----------------------------------------------------------------------------
\* Taking sequences of keys apart keeps their type.
LEMMA KeySequences ==
    /\ \A s \in Seq(Key) : s # <<>> => Head(s) \in Key /\ Tail(s) \in Seq(Key)
    /\ \A s, t \in Seq(Key) : SubSeq(s, 1, Len(s) - Len(t)) \in Seq(Key)
<1>1. ASSUME NEW s \in Seq(Key), NEW t \in Seq(Key) PROVE SubSeq(s, 1, Len(s) - Len(t)) \in Seq(Key)
  BY SubSeqProperties
<1> QED
  BY <1>1, HeadTailProperties

\* What the assumption says of the constants, fact by fact.
LEMMA Constants ==
    /\ Task = Deploy \cup Rollback /\ Deploy \cap Rollback = {} /\ NoTask \notin Task
    /\ LockKeys \in [Task -> Seq(Key)] /\ \A j \in Task : LockKeys[j] \in Seq(Key)
    /\ DeploymentOf \in [Task -> Deploy] /\ \A d \in Deploy : DeploymentOf[d] = d
    /\ Worker # Nobody /\ Worker \notin Task \cup Cancel /\ Nobody \notin Task \cup Cancel
    /\ Task \cap Cancel = {}
    /\ \A c \in Cancel : CancelVia[c] \in {"web", "tool"} /\ CancelOf[c] \in Deploy
    /\ \A j \in Task : Via[j] \in {"web", "retry", "tool", "step"}
    /\ MaxRestarts \in Nat /\ MaxForced \in Nat
<1>1. Worker # Nobody
  <2>1. ASSUME Worker = Nobody PROVE FALSE
    <3>1. Cardinality({Worker, Nobody}) = 2
      BY QueueAssumption
    <3>2. Cardinality({Worker}) = 1
      BY FS_Singleton
    <3> QED
      BY <2>1, <3>1, <3>2
  <2> QED
    BY <2>1
<1> QED
  BY <1>1, QueueAssumption, NoTaskAssumption

\* The abbreviations of the model that only write, or only group, variables.
USE DEF SetStatus, SetDeployment, Goto, CancelGoto, Release, ReleaseAll, Acquired,
        lockVars, dbVars, jobVars, workerVars, cancelVars, boundVars, historyVars

\* What the first look at the flag writes, read or misread.
LEMMA PeekWrites ==
    ASSUME NEW j \in Task, Peek(j)
    PROVE  /\ pc[j] = "peek" /\ HasLoop(j)
           /\ UNCHANGED <<lockVars, dbVars, left, workerVars, cancelVars, boundVars, revoked>>
           /\ \E where \in {"report", "check", "roll"} :
                 /\ pc' = [pc EXCEPT ![j] = where]
                 /\ where = "roll" => /\ loop' = Nobody /\ verdict' = verdict
                                      /\ runs' = [runs EXCEPT ![j] = @ + 1]
                 /\ where # "roll" => /\ UNCHANGED <<loop, runs>>
                                      /\ \E v \in {"canceled", "failed"} :
                                             verdict' = [verdict EXCEPT ![j] = v]
  BY DEF Peek, Touch

\* A server hangs or comes back: nothing but the place of the run changes.
LEMMA HangWrites ==
    ASSUME NEW j \in Task, Hangs(j) \/ Unhangs(j)
    PROVE  /\ pc[j] \in {"roll", "hung"}
           /\ \E where \in {"roll", "hung"} : pc' = [pc EXCEPT ![j] = where]
           /\ UNCHANGED <<lockVars, dbVars, left, verdict, loop, workerVars, cancelVars,
                          boundVars, historyVars>>
  BY DEF Hangs, Unhangs

\* Every step keeps the types.
LEMMA LockTypeStep ==
    ASSUME IndInv, [Next]_vars
    PROVE  LockTypeOK'
<1>0. LockTypeOK /\ RowTypes /\ JobTypes /\ LoopTypes /\ CancelTypes /\ HistoryTypes
  BY DEF IndInv, TypeOK
<1>1. ASSUME NEW j \in Task, LockKey(j) PROVE LockTypeOK'
  <2>1. /\ UNCHANGED now /\ left[j] # <<>>
        /\ stamp' = [k \in Key |-> IF k = Head(left[j]) THEN now
                                  ELSE IF Expired(k) THEN Free ELSE stamp[k]]
        /\ holder' = [k \in Key |-> IF k = Head(left[j]) THEN j
                                   ELSE IF Expired(k) THEN NoTask ELSE holder[k]]
    BY <1>1 DEF LockKey, Acquire
  <2> QED
    BY <2>1, <1>0, Constants DEF LockTypeOK, Free
<1> USE <1>0, Constants, KeySequences DEF LockTypeOK, JobTypes, CancelTypes, Free
<1>2. ASSUME NEW j \in Task, LockConflict(j) PROVE LockTypeOK'
  BY <1>2 DEF LockConflict, AcquireConflict
<1>3. ASSUME NEW j \in Task, UndoKey(j) PROVE LockTypeOK'
  BY <1>3 DEF UndoKey, ReleaseFor
<1>4. ASSUME NEW j \in Task, ReleaseKey(j) PROVE LockTypeOK'
  BY <1>4 DEF ReleaseKey, ReleaseFor
<1>5. ASSUME NEW c \in Cancel, CancelFree(c) PROVE LockTypeOK'
  BY <1>5 DEF CancelFree, ReleaseFor
<1>6. ASSUME NEW k \in Key, ForceRelease(k) PROVE LockTypeOK'
  BY <1>6 DEF ForceRelease
<1>7. ASSUME Tick PROVE LockTypeOK'
  BY <1>7 DEF Tick
<1>8. ASSUME Restart PROVE LockTypeOK'
  BY <1>8 DEF Restart, ForgetLocks
<1>9. CASE UNCHANGED <<now, stamp, holder>>
  BY <1>9
<1> HIDE <1>0, Constants, KeySequences DEF LockTypeOK, JobTypes, CancelTypes, Free
<1> QED
  BY ZenonT(30), <1>1, <1>2, <1>3, <1>4, <1>5, <1>6, <1>7, <1>8, <1>9 DEF Next, HandlerStep,
     RunStep, WorkerStep, CancelStep, vars, Submit, Submitted, SubmitRollback, CreateTask,
     LeaveLoop, CreateFails, Refuse, StartDeploy, StartRaises, Peek, Touch, StartRollback,
     RollEnds, FinalCheck, Hangs, Unhangs, ReportTask, ReportDeployment, EndRun, WorkerRead, WorkerClaim,
     WorkerIdle, WorkerPollRaises, WorkerFailsTask, WorkerFailsDeployment, CancelBegin,
     CancelFlag, CancelWrite, CancelDeployment

\* The rows.
LEMMA RowTypeStep ==
    ASSUME IndInv, [Next]_vars
    PROVE  RowTypes'
<1>0. LockTypeOK /\ RowTypes /\ JobTypes /\ LoopTypes /\ CancelTypes /\ HistoryTypes
  BY DEF IndInv, TypeOK
<1>1. ASSUME NEW j \in Task, Refuse(j) PROVE RowTypes'
  <2>1. UNCHANGED <<status, flag, rows>> /\ (dep' = dep \/ dep' = [dep EXCEPT ![DeploymentOf[j]] = "failed"])
    BY <1>1 DEF Refuse
  <2>2. dep' \in [Deploy -> TaskStatus \cup {"none"}]
    BY <2>1, <1>0 DEF RowTypes, TaskStatus
  <2> QED
    BY <2>1, <2>2, <1>0 DEF RowTypes
<1> USE <1>0, Constants DEF RowTypes, JobTypes, LoopTypes, CancelTypes, TaskStatus, Verdict,
   Running
<1>2. ASSUME NEW j \in Deploy, Submit(j) PROVE RowTypes'
  BY <1>2 DEF Submit, Submitted
<1>3. ASSUME NEW j \in Task, CreateTask(j) PROVE RowTypes'
  BY <1>3 DEF CreateTask, LeaveLoop
<1>4. ASSUME NEW j \in Task, StartDeploy(j) PROVE RowTypes'
  BY <1>4 DEF StartDeploy
<1>5. ASSUME NEW j \in Task, StartRollback(j) PROVE RowTypes'
  BY <1>5 DEF StartRollback, Touch
<1>6. ASSUME NEW j \in Task, ReportTask(j) PROVE RowTypes'
  BY <1>6 DEF ReportTask, Reported
<1>7. ASSUME NEW j \in Task, ReportDeployment(j) PROVE RowTypes'
  BY <1>7 DEF ReportDeployment, Reported
<1>8. ASSUME WorkerClaim PROVE RowTypes'
  BY <1>8 DEF WorkerClaim
<1>9. ASSUME WorkerFailsTask PROVE RowTypes'
  BY <1>9 DEF WorkerFailsTask
<1>10. ASSUME WorkerFailsDeployment PROVE RowTypes'
  BY <1>10 DEF WorkerFailsDeployment
<1>11. ASSUME NEW c \in Cancel, CancelFlag(c) PROVE RowTypes'
  BY <1>11 DEF CancelFlag
<1>12. ASSUME NEW c \in Cancel, CancelWrite(c) PROVE RowTypes'
  BY <1>12 DEF CancelWrite
<1>13. ASSUME NEW c \in Cancel, CancelDeployment(c) PROVE RowTypes'
  BY <1>13 DEF CancelDeployment, LeaveLoop
<1>14. CASE UNCHANGED <<status, flag, rows, dep>>
  BY <1>14
<1> HIDE <1>0, Constants DEF RowTypes, JobTypes, LoopTypes, CancelTypes, TaskStatus, Verdict,
   Running
<1> QED
  BY ZenonT(30), <1>1, <1>2, <1>3, <1>4, <1>5, <1>6, <1>7, <1>8, <1>9, <1>10, <1>11, <1>12,
     <1>13, <1>14 DEF  Next, HandlerStep, RunStep, WorkerStep, CancelStep, vars, SubmitRollback,
     Submitted, LockKey, Acquire, LockConflict, AcquireConflict, CreateFails, LeaveLoop,
     UndoKey, ReleaseFor, StartRaises, Peek, Touch, RollEnds, FinalCheck, Hangs, Unhangs, ReleaseKey, EndRun,
     WorkerRead, WorkerIdle, WorkerPollRaises, CancelBegin, CancelFree, ForceRelease, Tick,
     Restart, ForgetLocks

\* The program counters and the lists of keys.
LEMMA JobTypeStep ==
    ASSUME IndInv, [Next]_vars
    PROVE  JobTypes'
<1>0. LockTypeOK /\ RowTypes /\ JobTypes /\ LoopTypes /\ CancelTypes /\ HistoryTypes
  BY DEF IndInv, TypeOK
<1>1. ASSUME NEW j \in Task, CreateFails(j) PROVE JobTypes'
  <2>1. verdict' = verdict /\
           \/ left' = left /\ pc' = [pc EXCEPT ![j] = "leaked"]
           \/ left' = [left EXCEPT ![j] = LockKeys[j]] /\ pc' = [pc EXCEPT ![j] = "abort"]
    BY <1>1 DEF CreateFails
  <2>2. left' \in [Task -> Seq(Key)]
    <3>1. LockKeys[j] \in Seq(Key)
      BY Constants
    <3> QED
      BY <2>1, <1>0, <3>1 DEF JobTypes
  <2> QED
    BY <2>1, <2>2, <1>0 DEF JobTypes, Handling, Over
<1>2. ASSUME NEW j \in Task, Peek(j) PROVE JobTypes'
  <2>1. /\ left' = left
        /\ \E where \in {"report", "check", "roll"} : pc' = [pc EXCEPT ![j] = where]
        /\ verdict' \in {verdict, [verdict EXCEPT ![j] = "canceled"],
                        [verdict EXCEPT ![j] = "failed"]}
    BY <1>2, PeekWrites
  <2> QED
    BY <2>1, <1>0 DEF JobTypes, Verdict, Running
<1>3. ASSUME NEW j \in Task, StartRollback(j) PROVE JobTypes'
  <2>1. left' = left /\ verdict' \in {verdict, [verdict EXCEPT ![j] = "failed"]}
       /\ pc' \in {[pc EXCEPT ![j] = "report"], [pc EXCEPT ![j] = "roll"]}
    BY <1>3 DEF StartRollback, Touch
  <2> QED
    BY <2>1, <1>0 DEF JobTypes, Verdict, Running
<1>4. ASSUME NEW j \in Task, RollEnds(j) PROVE JobTypes'
  <2>1. /\ left' = left \/ left' = [left EXCEPT ![j] = LockKeys[j]]
        /\ \E v \in Verdict : verdict' = [verdict EXCEPT ![j] = v]
        /\ \E where \in Running : pc' = [pc EXCEPT ![j] = where]
    BY <1>4 DEF RollEnds, Outcomes, Verdict, Running
  <2>2. left' \in [Task -> Seq(Key)]
    <3>1. LockKeys[j] \in Seq(Key)
      BY Constants
    <3> QED
      BY <2>1, <1>0, <3>1 DEF JobTypes
  <2>3. verdict' \in [Task -> Verdict \cup {"none"}]
    BY <2>1, <1>0 DEF JobTypes
  <2>4. pc' \in [Task -> {"idle", "queued"} \cup Handling \cup Running \cup Over]
    BY <2>1, <1>0 DEF JobTypes
  <2> QED
    BY <2>1, <2>2, <2>3, <2>4, <1>0 DEF JobTypes
<1>5. ASSUME WorkerClaim PROVE JobTypes'
  <2>1. UNCHANGED <<left, verdict>> /\ pc' \in {pc, [pc EXCEPT ![wjob] = "start"]}
    BY <1>5 DEF WorkerClaim
  <2> QED
    BY <2>1, <1>0 DEF JobTypes, Running
<1> USE <1>0, Constants, KeySequences DEF JobTypes, LoopTypes, Handling, Running, Over, Verdict
<1>6. ASSUME NEW j \in Deploy, Submit(j) PROVE JobTypes'
  BY <1>6 DEF Submit, Submitted
<1>7. ASSUME NEW j \in Rollback, SubmitRollback(j) PROVE JobTypes'
  BY <1>7 DEF SubmitRollback, Submitted
<1>8. ASSUME NEW j \in Task, LockKey(j) PROVE JobTypes'
  BY <1>8 DEF LockKey, Acquire
<1>9. ASSUME NEW j \in Task, LockConflict(j) PROVE JobTypes'
  BY <1>9 DEF LockConflict, AcquireConflict
<1>10. ASSUME NEW j \in Task, CreateTask(j) PROVE JobTypes'
  BY <1>10 DEF CreateTask, LeaveLoop
<1>11. ASSUME NEW j \in Task, UndoKey(j) PROVE JobTypes'
  BY <1>11 DEF UndoKey, ReleaseFor
<1>12. ASSUME NEW j \in Task, Refuse(j) PROVE JobTypes'
  BY <1>12 DEF Refuse, LeaveLoop
<1>13. ASSUME NEW j \in Task, StartDeploy(j) PROVE JobTypes'
  BY <1>13 DEF StartDeploy
<1>14. ASSUME NEW j \in Task, StartRaises(j) PROVE JobTypes'
  BY <1>14 DEF StartRaises
<1>15. ASSUME NEW j \in Task, FinalCheck(j) PROVE JobTypes'
  BY <1>15 DEF FinalCheck
<1>h. ASSUME NEW j \in Task, Hangs(j) \/ Unhangs(j) PROVE JobTypes'
  <2>1. CASE Hangs(j)
    BY <2>1 DEF Hangs
  <2>2. CASE Unhangs(j)
    BY <2>2 DEF Unhangs
  <2> QED
    BY <1>h, <2>1, <2>2
<1>16. ASSUME NEW j \in Task, ReportTask(j) PROVE JobTypes'
  BY <1>16 DEF ReportTask, Reported
<1>17. ASSUME NEW j \in Task, ReportDeployment(j) PROVE JobTypes'
  BY <1>17 DEF ReportDeployment, Reported
<1>18. ASSUME NEW j \in Task, ReleaseKey(j) PROVE JobTypes'
  BY <1>18 DEF ReleaseKey, ReleaseFor
<1>19. ASSUME NEW j \in Task, EndRun(j) PROVE JobTypes'
  BY <1>19 DEF EndRun
<1>20. ASSUME Restart PROVE JobTypes'
  BY <1>20 DEF Restart, ForgetLocks
<1>21. CASE UNCHANGED <<pc, left, verdict>>
  BY <1>21
<1> HIDE <1>0, Constants, KeySequences DEF JobTypes, LoopTypes, Handling, Running, Over, Verdict
<1> QED
  BY ZenonT(30), <1>1, <1>2, <1>3, <1>4, <1>5, <1>6, <1>7, <1>8, <1>9, <1>10, <1>11, <1>12,
     <1>13, <1>14, <1>15, <1>h, <1>16, <1>17, <1>18, <1>19, <1>20, <1>21 DEF Next, HandlerStep,
     RunStep, WorkerStep, CancelStep, vars, lockVars, dbVars, jobVars, workerVars, cancelVars,
     boundVars, historyVars, WorkerRead, WorkerIdle, WorkerPollRaises, WorkerFailsTask,
     SetStatus, WorkerFailsDeployment, SetDeployment, CancelBegin, CancelFlag, CancelWrite,
     CancelFree, ReleaseFor, Release, ReleaseAll, CancelDeployment, LeaveLoop, ForceRelease,
     Tick

\* The event loop and the worker.
LEMMA LoopTypeStep ==
    ASSUME IndInv, [Next]_vars
    PROVE  LoopTypes'
<1>0. LockTypeOK /\ RowTypes /\ JobTypes /\ LoopTypes /\ CancelTypes /\ HistoryTypes /\ OneWorker
  BY DEF IndInv, TypeOK
<1>1. ASSUME NEW j \in Task, StartRaises(j) PROVE LoopTypes'
  <2>1. j \in Deploy /\ pc[j] = "start" /\ UNCHANGED <<loop, wjob>> /\ wpc' = "fail" 
    BY <1>1 DEF StartRaises
  <2> QED
    BY <2>1, <1>0, Constants DEF LoopTypes, OneWorker, HasCoroutine, Running
<1>2. ASSUME NEW j \in Task, EndRun(j) PROVE LoopTypes'
  <2>1. /\ pc[j] = "release" /\ wjob' = wjob /\ (loop' = loop \/ loop' = Nobody)
        /\ wpc' = "poll" \/ wpc' = wpc \/ (wpc' = "fail" /\ RunBy(j) = Worker)
    BY <1>2 DEF EndRun
  <2>2. wpc' = "fail" => wjob \in Task
    <3>1. RunBy(j) = Worker => ~HasCoroutine(j)
      BY Constants DEF RunBy
    <3> QED
      BY <2>1, <1>0, <3>1 DEF LoopTypes, OneWorker, Running
  <2> QED
    BY <2>1, <2>2, <1>0 DEF LoopTypes
<1> USE <1>0, Constants DEF LoopTypes, JobTypes, Running
<1>3. ASSUME NEW j \in Deploy, Submit(j) PROVE LoopTypes'
  BY <1>3 DEF Submit, Submitted
<1>4. ASSUME NEW j \in Rollback, SubmitRollback(j) PROVE LoopTypes'
  BY <1>4 DEF SubmitRollback, Submitted
<1>5. ASSUME NEW j \in Task, CreateTask(j) PROVE LoopTypes'
  BY <1>5 DEF CreateTask, LeaveLoop
<1>6. ASSUME NEW j \in Task, CreateFails(j) PROVE LoopTypes'
  BY <1>6 DEF CreateFails, LeaveLoop
<1>7. ASSUME NEW j \in Task, Refuse(j) PROVE LoopTypes'
  BY <1>7 DEF Refuse, LeaveLoop
<1>8. ASSUME NEW j \in Task, Peek(j) PROVE LoopTypes'
  BY <1>8, PeekWrites
<1>9. ASSUME NEW j \in Task, StartRollback(j) PROVE LoopTypes'
  BY <1>9 DEF StartRollback, Touch, RunBy
<1>10. ASSUME NEW j \in Task, RollEnds(j) PROVE LoopTypes'
  BY <1>10 DEF RollEnds, Outcomes, RunBy
<1>11. ASSUME WorkerRead PROVE LoopTypes'
  BY <1>11 DEF WorkerRead, Pending
<1>12. ASSUME WorkerClaim PROVE LoopTypes'
  BY <1>12 DEF WorkerClaim
<1>13. ASSUME WorkerIdle PROVE LoopTypes'
  BY <1>13 DEF WorkerIdle
<1>14. ASSUME WorkerPollRaises PROVE LoopTypes'
  BY <1>14 DEF WorkerPollRaises
<1>15. ASSUME WorkerFailsTask PROVE LoopTypes'
  BY <1>15 DEF WorkerFailsTask
<1>16. ASSUME WorkerFailsDeployment PROVE LoopTypes'
  BY <1>16 DEF WorkerFailsDeployment
<1>17. ASSUME NEW c \in Cancel, CancelBegin(c) PROVE LoopTypes'
  BY <1>17 DEF CancelBegin
<1>18. ASSUME NEW c \in Cancel, CancelDeployment(c) PROVE LoopTypes'
  BY <1>18 DEF CancelDeployment, LeaveLoop
<1>19. ASSUME Restart PROVE LoopTypes'
  BY <1>19 DEF Restart, ForgetLocks
<1>20. CASE UNCHANGED <<loop, wpc, wjob>>
  BY <1>20
<1> HIDE <1>0, Constants DEF LoopTypes, JobTypes, Running
<1> QED
  BY ZenonT(30), <1>1, <1>2, <1>3, <1>4, <1>5, <1>6, <1>7, <1>8, <1>9, <1>10, <1>11, <1>12,
     <1>13, <1>14, <1>15, <1>16, <1>17, <1>18, <1>19, <1>20 DEF Next, HandlerStep, RunStep,
     WorkerStep, CancelStep, vars, lockVars, dbVars, jobVars, workerVars, cancelVars, boundVars,
     historyVars, LockKey, Acquire, LockConflict, AcquireConflict, UndoKey, ReleaseFor, Release,
     ReleaseAll, StartDeploy, FinalCheck, Hangs, Unhangs, ReportTask, SetStatus, ReportDeployment,
     SetDeployment, ReleaseKey, CancelFlag, CancelWrite, CancelFree, ForceRelease, Tick

\* The cancellations.
LEMMA CancelTypeStep ==
    ASSUME IndInv, [Next]_vars
    PROVE  CancelTypes'
<1>0. LockTypeOK /\ RowTypes /\ JobTypes /\ LoopTypes /\ CancelTypes /\ HistoryTypes
  BY DEF IndInv, TypeOK
<1>1. ASSUME NEW c \in Cancel, CancelFlag(c) PROVE CancelTypes'
  <2>1. cleft' = cleft /\ \E i \in seen[c] :
           /\ seen' = [seen EXCEPT ![c] = seen[c] \ {i}]
           /\ \/ cpc' = [cpc EXCEPT ![c] = "write"] /\ cjob' = [cjob EXCEPT ![c] = i]
              \/ UNCHANGED <<cpc, cjob>>
    BY <1>1 DEF CancelFlag
  <2>2. cpc' \in [Cancel -> {"idle", "flag", "write", "free", "done"}]
    BY <2>1, <1>0 DEF CancelTypes
  <2>3. seen' \in [Cancel -> SUBSET Task] /\ cjob' \in [Cancel -> Task \cup {NoTask}]
    BY <2>1, <1>0 DEF CancelTypes
  <2>4. cleft' \in [Cancel -> Seq(Key)]
    <3>1. cleft[c] # <<>> => Tail(cleft[c]) \in Seq(Key)
      BY <1>0, KeySequences DEF CancelTypes
    <3>2. cpc[c] = "write" => LockKeys[cjob[c]] \in Seq(Key)
      BY <1>0, Constants DEF CancelTypes
    <3> QED
      BY <2>1, <3>1, <3>2, <1>0 DEF CancelTypes
  <2>5. \A b \in Cancel : cpc'[b] \in {"write", "free"} => cjob'[b] \in Task
    BY <2>1, <1>0 DEF CancelTypes
  <2> QED
    BY <2>1, <2>2, <2>3, <2>4, <2>5, <1>0 DEF CancelTypes
<1>2. ASSUME NEW c \in Cancel, CancelWrite(c) PROVE CancelTypes'
  <2>1. seen' = seen /\ cpc[c] = "write" /\
           \/ /\ cpc' = [cpc EXCEPT ![c] = "free"] /\ cjob' = cjob
              /\ cleft' = [cleft EXCEPT ![c] = LockKeys[cjob[c]]]
           \/ /\ cpc' = [cpc EXCEPT ![c] = "flag"] /\ cleft' = cleft
              /\ cjob' = [cjob EXCEPT ![c] = NoTask]
    BY <1>2 DEF CancelWrite
  <2>2. cpc' \in [Cancel -> {"idle", "flag", "write", "free", "done"}]
    BY <2>1, <1>0 DEF CancelTypes
  <2>3. seen' \in [Cancel -> SUBSET Task] /\ cjob' \in [Cancel -> Task \cup {NoTask}]
    BY <2>1, <1>0 DEF CancelTypes
  <2>4. cleft' \in [Cancel -> Seq(Key)]
    <3>1. cleft[c] # <<>> => Tail(cleft[c]) \in Seq(Key)
      BY <1>0, KeySequences DEF CancelTypes
    <3>2. cpc[c] = "write" => LockKeys[cjob[c]] \in Seq(Key)
      BY <1>0, Constants DEF CancelTypes
    <3> QED
      BY <2>1, <3>1, <3>2, <1>0 DEF CancelTypes
  <2>5. \A b \in Cancel : cpc'[b] \in {"write", "free"} => cjob'[b] \in Task
    BY <2>1, <1>0 DEF CancelTypes
  <2> QED
    BY <2>1, <2>2, <2>3, <2>4, <2>5, <1>0 DEF CancelTypes
<1>3. ASSUME NEW c \in Cancel, CancelFree(c) PROVE CancelTypes'
  <2>1. seen' = seen /\
           \/ /\ cleft[c] # <<>> /\ UNCHANGED <<cpc, cjob>>
              /\ cleft' = [cleft EXCEPT ![c] = Tail(cleft[c])]
           \/ /\ cpc' = [cpc EXCEPT ![c] = "flag"] /\ cleft' = cleft
              /\ cjob' = [cjob EXCEPT ![c] = NoTask]
    BY <1>3 DEF CancelFree
  <2>2. cpc' \in [Cancel -> {"idle", "flag", "write", "free", "done"}]
    BY <2>1, <1>0 DEF CancelTypes
  <2>3. seen' \in [Cancel -> SUBSET Task] /\ cjob' \in [Cancel -> Task \cup {NoTask}]
    BY <2>1, <1>0 DEF CancelTypes
  <2>4. cleft' \in [Cancel -> Seq(Key)]
    <3>1. cleft[c] # <<>> => Tail(cleft[c]) \in Seq(Key)
      BY <1>0, KeySequences DEF CancelTypes
    <3>2. cpc[c] = "write" => LockKeys[cjob[c]] \in Seq(Key)
      BY <1>0, Constants DEF CancelTypes
    <3> QED
      BY <2>1, <3>1, <3>2, <1>0 DEF CancelTypes
  <2>5. \A b \in Cancel : cpc'[b] \in {"write", "free"} => cjob'[b] \in Task
    BY <2>1, <1>0 DEF CancelTypes
  <2> QED
    BY <2>1, <2>2, <2>3, <2>4, <2>5, <1>0 DEF CancelTypes
<1> USE <1>0, Constants, KeySequences DEF CancelTypes, RowTypes
<1>4. ASSUME NEW c \in Cancel, CancelBegin(c) PROVE CancelTypes'
  BY <1>4 DEF CancelBegin, RowsOf, ToSet
<1>5. ASSUME NEW c \in Cancel, CancelDeployment(c) PROVE CancelTypes'
  BY <1>5 DEF CancelDeployment, LeaveLoop
<1>6. ASSUME Restart PROVE CancelTypes'
  BY <1>6 DEF Restart, ForgetLocks
<1>7. CASE UNCHANGED <<cpc, seen, cjob, cleft>>
  BY <1>7
<1> HIDE <1>0, Constants, KeySequences DEF CancelTypes, RowTypes
<1> QED
  BY ZenonT(30), <1>1, <1>2, <1>3, <1>4, <1>5, <1>6, <1>7 DEF Next, HandlerStep, RunStep,
     WorkerStep, CancelStep, vars, Submit, Submitted, SubmitRollback, LockKey, Acquire,
     LockConflict, AcquireConflict, CreateTask, LeaveLoop, CreateFails, UndoKey, ReleaseFor,
     Refuse, StartDeploy, StartRaises, Peek, Touch, StartRollback, RollEnds, FinalCheck, Hangs, Unhangs,
     ReportTask, ReportDeployment, ReleaseKey, EndRun, WorkerRead, WorkerClaim, WorkerIdle,
     WorkerPollRaises, WorkerFailsTask, WorkerFailsDeployment, ForceRelease, Tick

\* The history.
LEMMA HistoryTypeStep ==
    ASSUME IndInv, [Next]_vars
    PROVE  HistoryTypes'
<1>0. LockTypeOK /\ RowTypes /\ JobTypes /\ LoopTypes /\ CancelTypes /\ HistoryTypes
  BY DEF IndInv, TypeOK
<1>1. ASSUME NEW j \in Task, LockKey(j) PROVE HistoryTypes'
  <2>1. UNCHANGED <<boots, forced, runs, revoked, robbed, misread>> /\ lapsed' = lapsed \cup Lapsing
    BY <1>1 DEF LockKey
  <2>2. Lapsing \subseteq Task
    BY <1>0 DEF LockTypeOK, Lapsing, Expired
  <2> QED
    BY <2>1, <2>2, <1>0 DEF HistoryTypes
<1>2. ASSUME NEW j \in Task, LockConflict(j) PROVE HistoryTypes'
  <2>1. UNCHANGED <<boots, forced, runs, revoked, robbed, misread>> /\ lapsed' = lapsed \cup Lapsing
    BY <1>2 DEF LockConflict
  <2>2. Lapsing \subseteq Task
    BY <1>0 DEF LockTypeOK, Lapsing, Expired
  <2> QED
    BY <2>1, <2>2, <1>0 DEF HistoryTypes
<1>3. ASSUME NEW j \in Task, UndoKey(j) PROVE HistoryTypes'
  <2>1. UNCHANGED <<boots, forced, runs, revoked, lapsed, misread>> /\ left[j] # <<>>
         /\ robbed' = robbed \cup {<<j, i>> : i \in {holder[Head(left[j])]} \ {j, NoTask}}
    BY <1>3 DEF UndoKey, ReleaseFor
  <2> QED
    BY <2>1, <1>0, KeySequences DEF HistoryTypes, JobTypes, LockTypeOK
<1>4. ASSUME NEW j \in Task, Peek(j) PROVE HistoryTypes'
  <2>1. UNCHANGED <<boots, forced, revoked, lapsed, robbed>>
         /\ runs' \in {runs, [runs EXCEPT ![j] = runs[j] + 1]}
         /\ misread' \in {misread, misread \cup {<<j, "peek">>}}
    BY <1>4 DEF Peek, Touch, ReadsFlag
  <2> QED
    BY <2>1, <1>0 DEF HistoryTypes
<1>5. ASSUME NEW j \in Task, StartRollback(j) PROVE HistoryTypes'
  <2>1. UNCHANGED <<boots, forced, revoked, lapsed, robbed, misread>>
         /\ runs' \in {runs, [runs EXCEPT ![j] = runs[j] + 1]}
    BY <1>5 DEF StartRollback, Touch
  <2> QED
    BY <2>1, <1>0 DEF HistoryTypes
<1>6. ASSUME NEW c \in Cancel, CancelFree(c) PROVE HistoryTypes'
  <2>1. UNCHANGED <<boots, forced, runs, revoked, lapsed, misread>> /\ cpc[c] = "free" /\
           \/ robbed' = robbed
           \/ /\ cleft[c] # <<>>
              /\ robbed' = robbed \cup {<<cjob[c], i>> : i \in {holder[Head(cleft[c])]} \ {cjob[c], NoTask}}
    BY <1>6 DEF CancelFree, ReleaseFor
  <2> QED
    BY <2>1, <1>0, KeySequences DEF HistoryTypes, CancelTypes, LockTypeOK
<1>12. ASSUME NEW j \in Task, FinalCheck(j) PROVE HistoryTypes'
  <2>1. /\ UNCHANGED <<boots, forced, runs, revoked, lapsed, robbed>>
        /\ misread' \in {misread, misread \cup {<<j, "check">>}}
    BY <1>12 DEF FinalCheck, ReadsFlag
  <2> QED
    BY <2>1, <1>0 DEF HistoryTypes
<1> USE <1>0, Constants, KeySequences DEF HistoryTypes, LockTypeOK, JobTypes, CancelTypes, Free
<1>7. ASSUME NEW j \in Task, ReleaseKey(j) PROVE HistoryTypes'
  BY <1>7 DEF ReleaseKey, ReleaseFor
<1>8. ASSUME NEW c \in Cancel, CancelWrite(c) PROVE HistoryTypes'
  BY <1>8 DEF CancelWrite
<1>9. ASSUME NEW k \in Key, ForceRelease(k) PROVE HistoryTypes'
  BY <1>9 DEF ForceRelease
<1>10. ASSUME Restart PROVE HistoryTypes'
  BY <1>10 DEF Restart, ForgetLocks
<1>11. CASE UNCHANGED <<boots, forced, runs, revoked, lapsed, robbed, misread>>
  BY <1>11
<1> HIDE <1>0, Constants, KeySequences DEF HistoryTypes, LockTypeOK, JobTypes, CancelTypes, Free
<1> QED
  BY ZenonT(30), <1>1, <1>2, <1>3, <1>4, <1>5, <1>6, <1>7, <1>8, <1>9, <1>10, <1>11, <1>12 DEF Next,
     HandlerStep, RunStep, WorkerStep, CancelStep, vars, Submit, Submitted, SubmitRollback,
     CreateTask, LeaveLoop, CreateFails, Refuse, StartDeploy, StartRaises, RollEnds, Hangs, Unhangs,
     ReportTask, ReportDeployment, EndRun, WorkerRead, WorkerClaim, WorkerIdle,
     WorkerPollRaises, WorkerFailsTask, WorkerFailsDeployment, CancelBegin, CancelFlag,
     CancelDeployment, Tick

\* Every step keeps the types.
LEMMA TypeStep ==
    ASSUME IndInv, [Next]_vars
    PROVE  TypeOK'
BY LockTypeStep, RowTypeStep, JobTypeStep, LoopTypeStep, CancelTypeStep, HistoryTypeStep DEF TypeOK

\* A task gets its row when it is queued, is pending only while it waits, and is run once.
LEMMA LivesStep ==
    ASSUME IndInv, [Next]_vars
    PROVE  Lives'
<1>0. TypeOK /\ Lives /\ OneWorker /\ Cancellations /\ Doomed
  BY DEF IndInv
<1>1. ASSUME NEW j \in Task, RollEnds(j) PROVE Lives'
  <2>1. /\ UNCHANGED <<status, runs>> /\ pc[j] = "roll"
        /\ \E v \in Verdict : verdict' = [verdict EXCEPT ![j] = v]
        /\ \/ pc' = [pc EXCEPT ![j] = "report"] \/ pc' = [pc EXCEPT ![j] = "check"]
           \/ pc' = [pc EXCEPT ![j] = "release"]
    BY <1>1 DEF RollEnds, Outcomes, Verdict
  <2> QED
    BY <2>1, <1>0 DEF Lives, TypeOK, JobTypes, Running, Verdict
<1>2. ASSUME NEW j \in Task, ReportTask(j) PROVE Lives'
  <2>1. Reported(j) \in {"success", "failed", "canceled", "partial_failed"}
    BY <1>2, <1>0 DEF ReportTask, Reported, Lives, TypeOK, JobTypes, Verdict
  <2> QED
    BY <1>2, <2>1, <1>0, Constants DEF ReportTask, Lives, OneWorker, Cancellations, TypeOK,
       RowTypes, JobTypes, LoopTypes, CancelTypes, HistoryTypes, Running, Handling, HasLoop,
       RunBy
<1> USE <1>0, Constants DEF Lives, OneWorker, Cancellations, TypeOK, RowTypes, JobTypes,
   LoopTypes, CancelTypes, HistoryTypes, Running, Handling, HasLoop, RunBy
<1>3. ASSUME NEW j \in Deploy, Submit(j) PROVE Lives'
  BY <1>3 DEF Submit, Submitted
<1>4. ASSUME NEW j \in Rollback, SubmitRollback(j) PROVE Lives'
  BY <1>4 DEF SubmitRollback, Submitted
<1>5. ASSUME NEW j \in Task, LockConflict(j) PROVE Lives'
  BY <1>5 DEF LockConflict, AcquireConflict
<1>6. ASSUME NEW j \in Task, CreateTask(j) PROVE Lives'
  BY <1>6 DEF CreateTask, LeaveLoop
<1>7. ASSUME NEW j \in Task, CreateFails(j) PROVE Lives'
  BY <1>7 DEF CreateFails, LeaveLoop
<1>8. ASSUME NEW j \in Task, Refuse(j) PROVE Lives'
  BY <1>8 DEF Refuse, LeaveLoop
<1>9. ASSUME NEW j \in Task, StartDeploy(j) PROVE Lives'
  BY <1>9 DEF StartDeploy
<1>10. ASSUME NEW j \in Task, StartRaises(j) PROVE Lives'
  BY <1>10 DEF StartRaises
<1>11. ASSUME NEW j \in Task, Peek(j) PROVE Lives'
  <2>1. PICK where \in {"report", "check", "roll"} :
           /\ pc' = [pc EXCEPT ![j] = where]
           /\ where = "roll" => loop' = Nobody /\ verdict' = verdict
                                /\ runs' = [runs EXCEPT ![j] = @ + 1]
           /\ where # "roll" => UNCHANGED <<loop, runs>> /\
                                \E v \in {"canceled", "failed"} : verdict' = [verdict EXCEPT ![j] = v]
    BY <1>11, PeekWrites
  <2>2. pc[j] = "peek" /\ UNCHANGED <<dbVars, left, workerVars, cancelVars, revoked>>
    BY <1>11, PeekWrites
  <2>3. CASE where = "roll"
    BY <2>1, <2>2, <2>3
  <2>4. CASE where # "roll"
    BY <2>1, <2>2, <2>4
  <2> QED
    BY <2>3, <2>4
<1>12. ASSUME NEW j \in Task, StartRollback(j) PROVE Lives'
  BY <1>12 DEF StartRollback, Touch
<1>13. ASSUME NEW j \in Task, FinalCheck(j) PROVE Lives'
  BY <1>13 DEF FinalCheck
<1>h. ASSUME NEW j \in Task, Hangs(j) \/ Unhangs(j) PROVE Lives'
  <2>1. CASE Hangs(j)
    BY <2>1 DEF Hangs
  <2>2. CASE Unhangs(j)
    BY <2>2 DEF Unhangs
  <2> QED
    BY <1>h, <2>1, <2>2
<1>14. ASSUME NEW j \in Task, ReportDeployment(j) PROVE Lives'
  BY <1>14 DEF ReportDeployment, Reported
<1>15. ASSUME NEW j \in Task, EndRun(j) PROVE Lives'
  BY <1>15 DEF EndRun
<1>16. ASSUME WorkerClaim PROVE Lives'
  BY <1>16 DEF WorkerClaim
<1>17. ASSUME WorkerFailsTask PROVE Lives'
  BY <1>17 DEF WorkerFailsTask
<1>18. ASSUME NEW c \in Cancel, CancelWrite(c) PROVE Lives'
  BY <1>18 DEF CancelWrite
<1>19. ASSUME Restart PROVE Lives'
  BY <1>19 DEF Restart, ForgetLocks
<1>20. CASE UNCHANGED <<status, pc, verdict, runs>>
  BY <1>20
<1> HIDE <1>0, Constants DEF Lives, OneWorker, Cancellations, TypeOK, RowTypes, JobTypes,
   LoopTypes, CancelTypes, HistoryTypes, Running, Handling, HasLoop, RunBy
<1> QED
  BY ZenonT(30), <1>1, <1>2, <1>3, <1>4, <1>5, <1>6, <1>7, <1>8, <1>9, <1>10, <1>11, <1>12,
     <1>13, <1>h, <1>14, <1>15, <1>16, <1>17, <1>18, <1>19, <1>20 DEF Next, HandlerStep, RunStep,
     WorkerStep, CancelStep, vars, LockKey, Acquire, UndoKey, ReleaseFor, ReleaseKey,
     WorkerRead, WorkerIdle, WorkerPollRaises, WorkerFailsDeployment, CancelBegin, CancelFlag,
     CancelFree, CancelDeployment, LeaveLoop, ForceRelease, Tick

\* The worker claims one waiting row and runs it to the end before it polls again.
LEMMA OneWorkerStep ==
    ASSUME IndInv, [Next]_vars
    PROVE  OneWorker'
<1>0. TypeOK /\ Lives /\ OneWorker /\ Cancellations /\ Doomed
  BY DEF IndInv
<1>1. ASSUME NEW j \in Task, StartRaises(j) PROVE OneWorker'
  <2>1. j = wjob /\ wpc = "run"
    BY <1>1, <1>0, Constants DEF StartRaises, OneWorker, Running, HasCoroutine
  <2>2. /\ pc' = [pc EXCEPT ![j] = "leaked"] /\ wpc' = "fail" /\ UNCHANGED <<status, loop, wjob>>
        /\ loop = Worker
    BY <1>1, <2>1, Constants DEF StartRaises, HasLoop, RunBy, HasCoroutine
  <2> QED
    BY <2>1, <2>2, <1>0, Constants DEF OneWorker, TypeOK, JobTypes, LoopTypes, Running
<1>2. ASSUME NEW j \in Task, ReportTask(j) PROVE OneWorker'
  <2>1. Reported(j) \in {"success", "failed", "canceled", "partial_failed"}
    BY <1>2, <1>0 DEF ReportTask, Reported, Lives, TypeOK, JobTypes, Verdict
  <2> QED
    BY <1>2, <2>1, <1>0, Constants DEF ReportTask, OneWorker, Lives, TypeOK, RowTypes, JobTypes,
       LoopTypes, CancelTypes, Cancellations, Running, Handling, HasLoop, RunBy
<1> USE <1>0, Constants DEF OneWorker, Lives, TypeOK, RowTypes, JobTypes, LoopTypes,
   CancelTypes, Cancellations, Running, Handling, HasLoop, RunBy
<1>3. ASSUME NEW j \in Deploy, Submit(j) PROVE OneWorker'
  BY <1>3 DEF Submit, Submitted
<1>4. ASSUME NEW j \in Rollback, SubmitRollback(j) PROVE OneWorker'
  BY <1>4 DEF SubmitRollback, Submitted
<1>5. ASSUME NEW j \in Task, LockConflict(j) PROVE OneWorker'
  BY <1>5 DEF LockConflict, AcquireConflict
<1>6. ASSUME NEW j \in Task, CreateTask(j) PROVE OneWorker'
  BY <1>6 DEF CreateTask, LeaveLoop
<1>7. ASSUME NEW j \in Task, CreateFails(j) PROVE OneWorker'
  BY <1>7 DEF CreateFails, LeaveLoop
<1>8. ASSUME NEW j \in Task, Refuse(j) PROVE OneWorker'
  BY <1>8 DEF Refuse, LeaveLoop
<1>9. ASSUME NEW j \in Task, StartDeploy(j) PROVE OneWorker'
  BY <1>9 DEF StartDeploy
<1>10. ASSUME NEW j \in Task, Peek(j) PROVE OneWorker'
  <2>1. PICK where \in {"report", "check", "roll"} :
           /\ pc' = [pc EXCEPT ![j] = where]
           /\ where = "roll" => loop' = Nobody /\ verdict' = verdict
                                /\ runs' = [runs EXCEPT ![j] = @ + 1]
           /\ where # "roll" => UNCHANGED <<loop, runs>> /\
                                \E v \in {"canceled", "failed"} : verdict' = [verdict EXCEPT ![j] = v]
    BY <1>10, PeekWrites
  <2>2. /\ pc[j] = "peek" /\ UNCHANGED <<dbVars, left, workerVars, cancelVars, revoked>>
        /\ loop = IF HasCoroutine(j) THEN j ELSE Worker
    BY <1>10, PeekWrites DEF HasLoop, RunBy
  <2>3. CASE where = "roll"
    <3>1. wpc \notin {"claim", "fail", "failDep"}
      BY <2>2, <1>0, Constants DEF OneWorker, Running
    <3> QED
      BY <2>1, <2>2, <2>3, <3>1
  <2>4. CASE where # "roll"
    BY <2>1, <2>2, <2>4
  <2> QED
    BY <2>3, <2>4
<1>11. ASSUME NEW j \in Task, StartRollback(j) PROVE OneWorker'
  BY <1>11 DEF StartRollback, Touch
<1>12. ASSUME NEW j \in Task, RollEnds(j) PROVE OneWorker'
  BY <1>12 DEF RollEnds, Outcomes
<1>13. ASSUME NEW j \in Task, FinalCheck(j) PROVE OneWorker'
  BY <1>13 DEF FinalCheck
<1>h. ASSUME NEW j \in Task, Hangs(j) \/ Unhangs(j) PROVE OneWorker'
  <2>1. CASE Hangs(j)
    BY <2>1 DEF Hangs
  <2>2. CASE Unhangs(j)
    BY <2>2 DEF Unhangs
  <2> QED
    BY <1>h, <2>1, <2>2
<1>14. ASSUME NEW j \in Task, ReportDeployment(j) PROVE OneWorker'
  BY <1>14 DEF ReportDeployment, Reported
<1>15. ASSUME NEW j \in Task, EndRun(j) PROVE OneWorker'
  BY <1>15 DEF EndRun
<1>16. ASSUME WorkerRead PROVE OneWorker'
  BY <1>16 DEF WorkerRead, Pending, IsPending
<1>17. ASSUME WorkerClaim PROVE OneWorker'
  BY <1>17 DEF WorkerClaim
<1>18. ASSUME WorkerIdle PROVE OneWorker'
  BY <1>18 DEF WorkerIdle
<1>19. ASSUME WorkerPollRaises PROVE OneWorker'
  BY <1>19 DEF WorkerPollRaises
<1>20. ASSUME WorkerFailsTask PROVE OneWorker'
  BY <1>20 DEF WorkerFailsTask
<1>21. ASSUME WorkerFailsDeployment PROVE OneWorker'
  BY <1>21 DEF WorkerFailsDeployment
<1>22. ASSUME NEW c \in Cancel, CancelBegin(c) PROVE OneWorker'
  BY <1>22 DEF CancelBegin
<1>23. ASSUME NEW c \in Cancel, CancelWrite(c) PROVE OneWorker'
  BY <1>23 DEF CancelWrite
<1>24. ASSUME NEW c \in Cancel, CancelDeployment(c) PROVE OneWorker'
  BY <1>24 DEF CancelDeployment, LeaveLoop
<1>25. ASSUME Restart PROVE OneWorker'
  BY <1>25 DEF Restart, ForgetLocks
<1>26. CASE UNCHANGED <<status, pc, loop, wpc, wjob>>
  BY <1>26
<1> HIDE <1>0, Constants DEF OneWorker, Lives, TypeOK, RowTypes, JobTypes, LoopTypes,
   CancelTypes, Cancellations, Running, Handling, HasLoop, RunBy
<1> QED
  BY ZenonT(30), <1>1, <1>2, <1>3, <1>4, <1>5, <1>6, <1>7, <1>8, <1>9, <1>10, <1>11, <1>12,
     <1>13, <1>h, <1>14, <1>15, <1>16, <1>17, <1>18, <1>19, <1>20, <1>21, <1>22, <1>23, <1>24, <1>25,
     <1>26 DEF  Next, HandlerStep, RunStep, WorkerStep, CancelStep, vars, LockKey, Acquire,
     UndoKey, ReleaseFor, ReleaseKey, CancelFlag, CancelFree, ForceRelease, Tick

\* A cancellation visits rows of its own deployment, and the web handler keeps the loop.
LEMMA CancellationsStep ==
    ASSUME IndInv, [Next]_vars
    PROVE  Cancellations'
<1>0. TypeOK /\ Lives /\ OneWorker /\ Cancellations /\ Doomed
  BY DEF IndInv
<1>1. ASSUME NEW j \in Task, CreateFails(j) PROVE Cancellations'
  <2>1. /\ UNCHANGED <<rows, status, revoked, seen, cpc, cjob>> /\ pc[j] = "lock"
        /\ loop' = loop \/ loop = j
        /\ pc' = [pc EXCEPT ![j] = "leaked"] \/ pc' = [pc EXCEPT ![j] = "abort"]
    BY <1>1 DEF CreateFails, LeaveLoop
  <2> QED
    BY <2>1, <1>0, Constants DEF Cancellations, TypeOK, JobTypes, CancelTypes
<1> USE <1>0, Constants DEF Cancellations, Lives, OneWorker, TypeOK, RowTypes, JobTypes,
   LoopTypes, CancelTypes, Running, HasLoop, RunBy, HasTurn
<1>2. ASSUME NEW j \in Deploy, Submit(j) PROVE Cancellations'
  BY <1>2 DEF Submit, Submitted
<1>3. ASSUME NEW j \in Rollback, SubmitRollback(j) PROVE Cancellations'
  BY <1>3 DEF SubmitRollback, Submitted
<1>4. ASSUME NEW j \in Task, LockConflict(j) PROVE Cancellations'
  BY <1>4 DEF LockConflict, AcquireConflict
<1>5. ASSUME NEW j \in Task, CreateTask(j) PROVE Cancellations'
  BY <1>5 DEF CreateTask, LeaveLoop
<1>6. ASSUME NEW j \in Task, Refuse(j) PROVE Cancellations'
  BY <1>6 DEF Refuse, LeaveLoop
<1>7. ASSUME NEW j \in Task, StartDeploy(j) PROVE Cancellations'
  BY <1>7 DEF StartDeploy
<1>8. ASSUME NEW j \in Task, StartRaises(j) PROVE Cancellations'
  BY <1>8 DEF StartRaises
<1>9. ASSUME NEW j \in Task, Peek(j) PROVE Cancellations'
  BY <1>9, PeekWrites
<1>10. ASSUME NEW j \in Task, StartRollback(j) PROVE Cancellations'
  BY <1>10 DEF StartRollback, Touch
<1>11. ASSUME NEW j \in Task, RollEnds(j) PROVE Cancellations'
  BY <1>11 DEF RollEnds, Outcomes
<1>12. ASSUME NEW j \in Task, FinalCheck(j) PROVE Cancellations'
  BY <1>12 DEF FinalCheck
<1>h. ASSUME NEW j \in Task, Hangs(j) \/ Unhangs(j) PROVE Cancellations'
  <2>1. CASE Hangs(j)
    BY <2>1 DEF Hangs
  <2>2. CASE Unhangs(j)
    BY <2>2 DEF Unhangs
  <2> QED
    BY <1>h, <2>1, <2>2
<1>13. ASSUME NEW j \in Task, ReportTask(j) PROVE Cancellations'
  BY <1>13 DEF ReportTask, Reported
<1>14. ASSUME NEW j \in Task, ReportDeployment(j) PROVE Cancellations'
  BY <1>14 DEF ReportDeployment, Reported
<1>15. ASSUME NEW j \in Task, EndRun(j) PROVE Cancellations'
  BY <1>15 DEF EndRun
<1>16. ASSUME WorkerRead PROVE Cancellations'
  BY <1>16 DEF WorkerRead
<1>17. ASSUME WorkerClaim PROVE Cancellations'
  BY <1>17 DEF WorkerClaim
<1>18. ASSUME WorkerPollRaises PROVE Cancellations'
  BY <1>18 DEF WorkerPollRaises
<1>19. ASSUME WorkerFailsTask PROVE Cancellations'
  BY <1>19 DEF WorkerFailsTask
<1>20. ASSUME WorkerFailsDeployment PROVE Cancellations'
  BY <1>20 DEF WorkerFailsDeployment
<1>21. ASSUME NEW c \in Cancel, CancelBegin(c) PROVE Cancellations'
  BY <1>21 DEF CancelBegin, RowsOf, ToSet
<1>22. ASSUME NEW c \in Cancel, CancelFlag(c) PROVE Cancellations'
  BY <1>22 DEF CancelFlag
<1>23. ASSUME NEW c \in Cancel, CancelWrite(c) PROVE Cancellations'
  BY <1>23 DEF CancelWrite
<1>24. ASSUME NEW c \in Cancel, CancelFree(c) PROVE Cancellations'
  BY <1>24 DEF CancelFree, ReleaseFor
<1>25. ASSUME NEW c \in Cancel, CancelDeployment(c) PROVE Cancellations'
  BY <1>25 DEF CancelDeployment, LeaveLoop
<1>26. ASSUME Restart PROVE Cancellations'
  BY <1>26 DEF Restart, ForgetLocks
<1>27. CASE UNCHANGED <<status, rows, pc, loop, cpc, seen, cjob, revoked>>
  BY <1>27
<1> HIDE <1>0, Constants DEF Cancellations, Lives, OneWorker, TypeOK, RowTypes, JobTypes,
   LoopTypes, CancelTypes, Running, HasLoop, RunBy, HasTurn
<1> QED
  BY ZenonT(30), <1>1, <1>2, <1>3, <1>4, <1>5, <1>6, <1>7, <1>8, <1>9, <1>10, <1>11, <1>12, <1>h,
     <1>13, <1>14, <1>15, <1>16, <1>17, <1>18, <1>19, <1>20, <1>21, <1>22, <1>23, <1>24, <1>25,
     <1>26, <1>27 DEF Next, HandlerStep, RunStep, WorkerStep, CancelStep, vars, LockKey,
     Acquire, UndoKey, ReleaseFor, ReleaseKey, WorkerIdle, ForceRelease, Tick

\* Once a cancellation has found a deployment pending, no run of it gets past the peek.
LEMMA DoomedStep ==
    ASSUME IndInv, [Next]_vars
    PROVE  Doomed'
<1>0. TypeOK /\ Lives /\ OneWorker /\ Cancellations /\ Doomed /\ Reports
  BY DEF IndInv
<1>1. ASSUME NEW j \in Task, CreateFails(j) PROVE Doomed'
  <2>1. /\ UNCHANGED <<flag, runs, status, verdict, revoked, cpc, cjob, misread>> /\ pc[j] = "lock"
        /\ \A i \in Task : i # j => pc'[i] = pc[i]
    BY <1>1, <1>0 DEF CreateFails, TypeOK, JobTypes
  <2>2. \A d \in Deploy : Found(d)' => Found(d)
    BY <2>1 DEF Found
  <2>3. \A d \in Deploy : d \in Task
    BY Constants
  <2>4. \A d \in Deploy : Found(d)' => pc'[d] = pc[d]
    BY <2>1, <2>2, <2>3, <1>0 DEF Doomed, Spared
  <2> QED
    BY <2>1, <2>2, <2>4, <1>0 DEF Doomed, Spared, Missed
<1>2. ASSUME NEW j \in Task, Peek(j) PROVE Doomed'
  <2>1. /\ UNCHANGED <<flag, status, revoked, cpc, cjob>> /\ pc[j] = "peek"
        /\ \/ /\ verdict' = [verdict EXCEPT ![j] = "canceled"] /\ pc' = [pc EXCEPT ![j] = "report"]
              /\ UNCHANGED <<runs, misread>>
           \/ /\ verdict' = [verdict EXCEPT ![j] = "failed"] /\ pc' = [pc EXCEPT ![j] = "check"]
              /\ UNCHANGED <<runs, misread>>
           \/ /\ pc' = [pc EXCEPT ![j] = "roll"] /\ runs' = [runs EXCEPT ![j] = runs[j] + 1]
              /\ UNCHANGED verdict /\ (flag[j] => <<j, "peek">> \in misread')
              /\ misread \subseteq misread'
    BY <1>2 DEF Peek, Touch, ReadsFlag, CancelRequested
  <2>2. \A d \in Deploy : Found(d)' => Found(d)
    BY <2>1 DEF Found
  <2>3. \A d \in Deploy : d \in Task
    BY Constants
  <2>4. ASSUME NEW d \in Deploy, Found(d)' PROVE Spared(d)'
    <3>1. d \in Task /\ Spared(d) /\ Lives
      BY <2>2, <2>3, <2>4, <1>0 DEF Doomed
    <3>2. pc[j] = "peek" => runs[j] = 0 /\ verdict[j] = "none"
      BY <1>0 DEF Lives
    <3> QED
      BY <2>1, <3>1, <3>2, <1>0 DEF Spared, Missed, TypeOK, JobTypes, HistoryTypes
  <2> QED
    BY <2>4 DEF Doomed
<1>3. ASSUME NEW j \in Task, StartRollback(j) PROVE Doomed'
  <2>1. /\ UNCHANGED <<flag, revoked, cpc, cjob, misread>> /\ j \in Rollback
        /\ \A i \in Task : i # j => /\ pc'[i] = pc[i] /\ runs'[i] = runs[i]
                                    /\ status'[i] = status[i] /\ verdict'[i] = verdict[i]
    BY <1>3, <1>0 DEF StartRollback, Touch, TypeOK, RowTypes, JobTypes, HistoryTypes
  <2>2. \A d \in Deploy : Found(d)' => Found(d)
    BY <2>1 DEF Found
  <2>3. \A d \in Deploy : d \in Task /\ d # j
    BY <2>1, Constants
  <2>4. \A d \in Deploy : /\ flag'[d] = flag[d] /\ pc'[d] = pc[d] /\ runs'[d] = runs[d]
                         /\ status'[d] = status[d] /\ verdict'[d] = verdict[d]
    BY <2>1, <2>3
  <2> QED
    BY <2>1, <2>2, <2>4, <1>0 DEF Doomed, Spared, Missed
<1>4. ASSUME NEW c \in Cancel, CancelFlag(c) PROVE Doomed'
  <2>1. PICK i \in seen[c] :
           /\ flag' = [flag EXCEPT ![i] = TRUE]
           /\ \/ UNCHANGED <<cpc, cjob>>
              \/ /\ status[i] = "pending"
                 /\ cpc' = [cpc EXCEPT ![c] = "write"] /\ cjob' = [cjob EXCEPT ![c] = i]
    BY <1>4 DEF CancelFlag
  <2>2. UNCHANGED <<runs, status, verdict, pc, revoked, misread>>
    BY <1>4 DEF CancelFlag
  <2>3. i \in Task
    BY <1>0 DEF TypeOK, CancelTypes
  <2>4. status[i] = "pending" /\ i \in Deploy => pc[i] = "queued" /\ runs[i] = 0 /\ verdict[i] = "none"
    BY <2>3, <1>0, Constants DEF Lives, HasCoroutine
  <2>5. ASSUME NEW d \in Deploy, Found(d)' PROVE Spared(d)'
    <3>1. d \in Task
      BY Constants
    <3>2. CASE Found(d)
      <4>1. Spared(d)
        BY <3>2, <1>0 DEF Doomed
      <4> QED
        BY <4>1, <3>1, <2>1, <2>2, <1>0 DEF Spared, Missed, TypeOK, RowTypes
    <3>3. CASE ~Found(d)
      <4>1. i = d /\ status[d] = "pending"
        BY <3>3, <2>5, <2>1, <2>2, <1>0 DEF Found, TypeOK, CancelTypes
      <4>2. pc[d] = "queued" /\ runs[d] = 0 /\ verdict[d] = "none" /\ flag'[d]
        BY <4>1, <3>1, <2>4, <2>1, <1>0 DEF TypeOK, RowTypes
      <4> QED
        BY <4>1, <4>2, <2>2 DEF Spared, Missed
    <3> QED
      BY <3>2, <3>3
  <2> QED
    BY <2>5 DEF Doomed
<1>10. ASSUME NEW j \in Task, CreateTask(j) PROVE Doomed'
  <2>1. /\ pc[j] = "lock" /\ pc' = [pc EXCEPT ![j] = "queued"]
        /\ status' = [status EXCEPT ![j] = "pending"]
        /\ UNCHANGED <<flag, runs, verdict, revoked, cpc, cjob, misread>>
    BY <1>10 DEF CreateTask
  <2>2. ASSUME NEW d \in Deploy, Found(d)' PROVE Spared(d)'
    <3>1. d \in Task /\ Spared(d)
      BY <2>1, <2>2, <1>0, Constants DEF Doomed, Found
    <3>2. d # j
      BY <2>1, <3>1 DEF Spared
    <3> QED
      BY <2>1, <3>1, <3>2, <1>0 DEF Spared, Missed, TypeOK, RowTypes, JobTypes
  <2> QED
    BY <2>2 DEF Doomed
<1>5. ASSUME NEW c \in Cancel, CancelWrite(c) PROVE Doomed'
  <2>1. /\ status' = [status EXCEPT ![cjob[c]] = "canceled"] /\ cpc[c] = "write"
        /\ UNCHANGED <<flag, runs, verdict, pc, misread>> /\ revoked' = revoked \cup {cjob[c]}
        /\ \/ cpc' = [cpc EXCEPT ![c] = "free"] /\ cjob' = cjob
           \/ cpc' = [cpc EXCEPT ![c] = "flag"] /\ cjob' = [cjob EXCEPT ![c] = NoTask]
    BY <1>5 DEF CancelWrite
  <2>2. \A d \in Deploy : Found(d)' => Found(d)
    BY <2>1, <1>0 DEF Found, TypeOK, CancelTypes
  <2> QED
    BY <2>2, <2>1, <1>0, Constants DEF Doomed, Spared, Missed, TypeOK, RowTypes, JobTypes,
       CancelTypes, HistoryTypes
<1>6. ASSUME NEW c \in Cancel, CancelFree(c) PROVE Doomed'
  <2>1. /\ UNCHANGED <<flag, runs, status, verdict, pc, revoked, misread>>
        /\ \/ UNCHANGED <<cpc, cjob>>
           \/ cpc' = [cpc EXCEPT ![c] = "flag"] /\ cjob' = [cjob EXCEPT ![c] = NoTask]
    BY <1>6 DEF CancelFree
  <2>2. \A d \in Deploy : Found(d)' => Found(d)
    BY <2>1, <1>0 DEF Found, TypeOK, CancelTypes
  <2> QED
    BY <2>2, <2>1, <1>0, Constants DEF Doomed, Spared, Missed, TypeOK
<1>14. ASSUME NEW j \in Task, RollEnds(j) PROVE Doomed'
  <2>1. /\ UNCHANGED <<flag, status, revoked, cpc, cjob, runs, misread>> /\ pc[j] = "roll"
        /\ \E v \in Verdict, where \in {"check", "report", "release"} :
             /\ verdict' = [verdict EXCEPT ![j] = v] /\ pc' = [pc EXCEPT ![j] = where]
             /\ v = "success" /\ j \in Deploy => where = "check"
    BY <1>14, Constants DEF RollEnds, Outcomes, Verdict
  <2>2. \A d \in Deploy : (Found(d)' => Found(d)) /\ d \in Task
    BY <2>1, Constants DEF Found
  <2> QED
    BY <2>1, <2>2, <1>0 DEF Doomed, Spared, Missed, TypeOK, JobTypes
<1>15. ASSUME NEW j \in Task, FinalCheck(j) PROVE Doomed'
  <2>1. /\ UNCHANGED <<flag, status, revoked, cpc, cjob, runs>> /\ pc[j] = "check"
        /\ pc' = [pc EXCEPT ![j] = "report"] /\ misread \subseteq misread'
        /\ \/ verdict' = [verdict EXCEPT ![j] = "canceled"]
           \/ verdict' = verdict /\ (flag[j] => <<j, "check">> \in misread')
    BY <1>15, <1>0 DEF FinalCheck, ReadsFlag, CancelRequested, TypeOK, JobTypes
  <2>2. \A d \in Deploy : (Found(d)' => Found(d)) /\ d \in Task
    BY <2>1, Constants DEF Found
  <2> QED
    BY <2>1, <2>2, <1>0 DEF Doomed, Spared, Missed, TypeOK, JobTypes
<1> USE <1>0, Constants DEF Doomed, Spared, Missed, Found, Lives, OneWorker, Cancellations,
   TypeOK, RowTypes,
   JobTypes, LoopTypes, CancelTypes, HistoryTypes, Running, Handling, HasLoop, RunBy,
   HasCoroutine, CancelRequested
<1>7. ASSUME NEW j \in Deploy, Submit(j) PROVE Doomed'
  BY <1>7 DEF Submit, Submitted
<1>8. ASSUME NEW j \in Rollback, SubmitRollback(j) PROVE Doomed'
  BY <1>8 DEF SubmitRollback, Submitted
<1>9. ASSUME NEW j \in Task, LockConflict(j) PROVE Doomed'
  BY <1>9 DEF LockConflict, AcquireConflict
<1>11. ASSUME NEW j \in Task, Refuse(j) PROVE Doomed'
  BY <1>11 DEF Refuse, LeaveLoop
<1>12. ASSUME NEW j \in Task, StartDeploy(j) PROVE Doomed'
  BY <1>12 DEF StartDeploy
<1>13. ASSUME NEW j \in Task, StartRaises(j) PROVE Doomed'
  BY <1>13 DEF StartRaises
<1>h. ASSUME NEW j \in Task, Hangs(j) \/ Unhangs(j) PROVE Doomed'
  <2>1. CASE Hangs(j)
    BY <2>1 DEF Hangs
  <2>2. CASE Unhangs(j)
    BY <2>2 DEF Unhangs
  <2> QED
    BY <1>h, <2>1, <2>2
<1>16. ASSUME NEW j \in Task, ReportTask(j) PROVE Doomed'
  BY <1>16 DEF ReportTask, Reported
<1>17. ASSUME NEW j \in Task, ReportDeployment(j) PROVE Doomed'
  BY <1>17 DEF ReportDeployment, Reported
<1>18. ASSUME NEW j \in Task, EndRun(j) PROVE Doomed'
  BY <1>18 DEF EndRun
<1>19. ASSUME WorkerClaim PROVE Doomed'
  BY <1>19 DEF WorkerClaim
<1>20. ASSUME WorkerFailsTask PROVE Doomed'
  BY <1>20 DEF WorkerFailsTask
<1>21. ASSUME NEW c \in Cancel, CancelBegin(c) PROVE Doomed'
  BY <1>21 DEF CancelBegin
<1>22. ASSUME NEW c \in Cancel, CancelDeployment(c) PROVE Doomed'
  BY <1>22 DEF CancelDeployment, LeaveLoop
<1>23. ASSUME Restart PROVE Doomed'
  BY <1>23 DEF Restart, ForgetLocks
<1>24. CASE UNCHANGED <<status, flag, pc, verdict, cpc, cjob, runs, revoked, misread>>
  BY <1>24
<1> HIDE <1>0, Constants DEF Doomed, Spared, Missed, Found, Lives, OneWorker, Cancellations,
   TypeOK, RowTypes,
   JobTypes, LoopTypes, CancelTypes, HistoryTypes, Running, Handling, HasLoop, RunBy,
   HasCoroutine, CancelRequested
<1> QED
  BY ZenonT(30), <1>1, <1>2, <1>3, <1>4, <1>5, <1>6, <1>7, <1>8, <1>9, <1>10, <1>11, <1>12,
     <1>13, <1>14, <1>15, <1>h, <1>16, <1>17, <1>18, <1>19, <1>20, <1>21, <1>22, <1>23, <1>24 DEF
     Next, HandlerStep, RunStep, WorkerStep, CancelStep, vars, LockKey, Acquire, UndoKey,
     ReleaseFor, ReleaseKey, WorkerRead, WorkerIdle, WorkerPollRaises, WorkerFailsDeployment,
     ForceRelease, Tick

\* A deployment that a cancellation or a rollback has touched stays touched.
LEMMA DisturbedStep ==
    ASSUME IndInv, [Next]_vars
    PROVE  \A d \in Deploy : Undisturbed(d)' => Undisturbed(d)
<1>0. TypeOK /\ Lives /\ OneWorker /\ Cancellations /\ Doomed /\ Reports
  BY DEF IndInv
<1> USE <1>0, Constants DEF Undisturbed, Lives, OneWorker, Cancellations, TypeOK, RowTypes,
   CancelTypes, LoopTypes, Running
<1>1. ASSUME NEW j \in Task, CreateTask(j) PROVE \A d \in Deploy : Undisturbed(d)' => Undisturbed(d)
  BY <1>1 DEF CreateTask, LeaveLoop
<1>2. ASSUME NEW j \in Task, StartRollback(j) PROVE \A d \in Deploy : Undisturbed(d)' => Undisturbed(d)
  BY <1>2 DEF StartRollback, Touch
<1>3. ASSUME NEW j \in Task, ReportTask(j) PROVE \A d \in Deploy : Undisturbed(d)' => Undisturbed(d)
  BY <1>3 DEF ReportTask, Reported
<1>4. ASSUME WorkerClaim PROVE \A d \in Deploy : Undisturbed(d)' => Undisturbed(d)
  BY <1>4 DEF WorkerClaim
<1>5. ASSUME WorkerFailsTask PROVE \A d \in Deploy : Undisturbed(d)' => Undisturbed(d)
  BY <1>5 DEF WorkerFailsTask
<1>6. ASSUME NEW c \in Cancel, CancelBegin(c) PROVE \A d \in Deploy : Undisturbed(d)' => Undisturbed(d)
  BY <1>6 DEF CancelBegin
<1>7. ASSUME NEW c \in Cancel, CancelFlag(c) PROVE \A d \in Deploy : Undisturbed(d)' => Undisturbed(d)
  BY <1>7 DEF CancelFlag
<1>8. ASSUME NEW c \in Cancel, CancelWrite(c) PROVE \A d \in Deploy : Undisturbed(d)' => Undisturbed(d)
  BY <1>8 DEF CancelWrite
<1>9. ASSUME NEW c \in Cancel, CancelFree(c) PROVE \A d \in Deploy : Undisturbed(d)' => Undisturbed(d)
  BY <1>9 DEF CancelFree, ReleaseFor
<1>10. ASSUME NEW c \in Cancel, CancelDeployment(c) PROVE \A d \in Deploy : Undisturbed(d)' => Undisturbed(d)
  BY <1>10 DEF CancelDeployment, LeaveLoop
<1>11. ASSUME Restart PROVE \A d \in Deploy : Undisturbed(d)' => Undisturbed(d)
  BY <1>11 DEF Restart, ForgetLocks
<1>12. CASE UNCHANGED <<status, cpc>>
  BY <1>12
<1> HIDE <1>0, Constants DEF Undisturbed, Lives, OneWorker, Cancellations, TypeOK, RowTypes,
   CancelTypes, LoopTypes, Running
<1> QED
  BY ZenonT(30), <1>1, <1>2, <1>3, <1>4, <1>5, <1>6, <1>7, <1>8, <1>9, <1>10, <1>11, <1>12 DEF
     Next, HandlerStep, RunStep, WorkerStep, CancelStep, vars, Submit, Submitted,
     SubmitRollback, LockKey, Acquire, LockConflict, AcquireConflict, CreateFails, LeaveLoop,
     UndoKey, ReleaseFor, Refuse, StartDeploy, StartRaises, Peek, Touch, RollEnds, FinalCheck, Hangs, Unhangs,
     ReportDeployment, ReleaseKey, EndRun, WorkerRead, WorkerIdle, WorkerPollRaises,
     WorkerFailsDeployment, ForceRelease, Tick

\* The two writes of a report, and the two of a failure, agree in the end.
LEMMA ReportsStep ==
    ASSUME IndInv, [Next]_vars
    PROVE  Reports'
<1>0. TypeOK /\ Lives /\ OneWorker /\ Cancellations /\ Doomed /\ Reports
  BY DEF IndInv
<1>u. \A d \in Deploy : Undisturbed(d)' => Undisturbed(d)
  BY DisturbedStep
<1>v. \A d \in Deploy : Undisturbed(d) =>
         /\ \A c \in Cancel : CancelOf[c] = d => cpc[c] = "idle"
         /\ \A r \in Rollback : DeploymentOf[r] = d => status[r] = "none"
  BY DEF Undisturbed
<1>1. ASSUME NEW j \in Task, Peek(j) PROVE Reports'
  <2>1. /\ UNCHANGED <<dep, status, wpc, wjob>> /\ pc[j] = "peek"
        /\ \A d \in Task : d # j => pc'[d] = pc[d] /\ verdict'[d] = verdict[d]
    BY <1>1, <1>0 DEF Peek, Touch, TypeOK, JobTypes
  <2>2. pc'[j] \in {"report", "check", "roll"}
    BY <1>1, <1>0, PeekWrites DEF TypeOK, JobTypes
  <2>3. \A d \in Deploy : d \in Task
    BY Constants
  <2> QED
    BY <2>1, <2>2, <2>3, <1>0, <1>u DEF Reports, Settled, Agreement, Reported
<1>2. ASSUME NEW j \in Task, ReportDeployment(j) PROVE Reports'
  <2>1. /\ UNCHANGED <<status, verdict, cpc, wpc, wjob>>
        /\ dep' = [dep EXCEPT ![DeploymentOf[j]] = Reported(j)]
        /\ pc[j] = "reportDep" /\ pc' = [pc EXCEPT ![j] = "release"]
    BY <1>2 DEF ReportDeployment
  <2>2. Reported(j) \in {"success", "failed", "canceled", "partial_failed"}
    BY <2>1, <1>0 DEF Reported, Lives, TypeOK, JobTypes, Verdict
  <2>3. j \in Rollback => ~Undisturbed(DeploymentOf[j])
    BY <2>1, <1>0, <1>v, Constants DEF Lives, Running
  <2>4. \A d \in Deploy : Reported(d)' = Reported(d)
    BY <2>1 DEF Reported
  <2> QED
    BY <2>1, <2>2, <2>3, <2>4, <1>0, <1>u, Constants DEF Reports, Settled, Agreement, TypeOK,
       RowTypes, JobTypes
<1>3. ASSUME NEW c \in Cancel, CancelWrite(c) PROVE Reports'
  <2>1. /\ UNCHANGED <<dep, verdict, pc, wpc, wjob>> /\ cpc[c] = "write"
        /\ status' = [status EXCEPT ![cjob[c]] = "canceled"]
    BY <1>3 DEF CancelWrite
  <2>2. cjob[c] \in Deploy => ~Undisturbed(cjob[c])
    BY <2>1, <1>0, <1>v, Constants DEF Cancellations
  <2> QED
    BY <2>1, <2>2, <1>0, <1>u, Constants DEF Reports, Settled, Agreement, Reported, TypeOK,
       RowTypes, JobTypes,
       CancelTypes
<1> USE <1>0, <1>u, <1>v, Constants DEF Reports, Settled, Agreement, Lives, OneWorker,
   Cancellations, TypeOK, RowTypes, JobTypes, LoopTypes, CancelTypes, Running, HasLoop, RunBy,
   HasCoroutine, Reported
<1>4. ASSUME NEW j \in Deploy, Submit(j) PROVE Reports'
  BY <1>4 DEF Submit, Submitted
<1>5. ASSUME NEW j \in Rollback, SubmitRollback(j) PROVE Reports'
  BY <1>5 DEF SubmitRollback, Submitted
<1>6. ASSUME NEW j \in Task, LockConflict(j) PROVE Reports'
  BY <1>6 DEF LockConflict, AcquireConflict
<1>7. ASSUME NEW j \in Task, CreateTask(j) PROVE Reports'
  BY <1>7 DEF CreateTask, LeaveLoop
<1>8. ASSUME NEW j \in Task, CreateFails(j) PROVE Reports'
  BY <1>8 DEF CreateFails, LeaveLoop
<1>9. ASSUME NEW j \in Task, Refuse(j) PROVE Reports'
  BY <1>9 DEF Refuse, LeaveLoop
<1>10. ASSUME NEW j \in Task, StartDeploy(j) PROVE Reports'
  BY <1>10 DEF StartDeploy
<1>11. ASSUME NEW j \in Task, StartRaises(j) PROVE Reports'
  BY <1>11 DEF StartRaises
<1>12. ASSUME NEW j \in Task, StartRollback(j) PROVE Reports'
  BY <1>12 DEF StartRollback, Touch
<1>13. ASSUME NEW j \in Task, RollEnds(j) PROVE Reports'
  BY <1>13 DEF RollEnds, Outcomes
<1>14. ASSUME NEW j \in Task, FinalCheck(j) PROVE Reports'
  BY <1>14 DEF FinalCheck
<1>h. ASSUME NEW j \in Task, Hangs(j) \/ Unhangs(j) PROVE Reports'
  <2>1. CASE Hangs(j)
    BY <2>1 DEF Hangs
  <2>2. CASE Unhangs(j)
    BY <2>2 DEF Unhangs
  <2> QED
    BY <1>h, <2>1, <2>2
<1>15. ASSUME NEW j \in Task, ReportTask(j) PROVE Reports'
  BY <1>15 DEF ReportTask
<1>16. ASSUME NEW j \in Task, EndRun(j) PROVE Reports'
  BY <1>16 DEF EndRun
<1>17. ASSUME WorkerRead PROVE Reports'
  BY <1>17 DEF WorkerRead
<1>18. ASSUME WorkerClaim PROVE Reports'
  BY <1>18 DEF WorkerClaim
<1>19. ASSUME WorkerIdle PROVE Reports'
  BY <1>19 DEF WorkerIdle
<1>20. ASSUME WorkerPollRaises PROVE Reports'
  BY <1>20 DEF WorkerPollRaises
<1>21. ASSUME WorkerFailsTask PROVE Reports'
  BY <1>21 DEF WorkerFailsTask
<1>22. ASSUME WorkerFailsDeployment PROVE Reports'
  BY <1>22 DEF WorkerFailsDeployment
<1>23. ASSUME NEW c \in Cancel, CancelBegin(c) PROVE Reports'
  BY <1>23 DEF CancelBegin
<1>24. ASSUME NEW c \in Cancel, CancelFlag(c) PROVE Reports'
  BY <1>24 DEF CancelFlag
<1>25. ASSUME NEW c \in Cancel, CancelFree(c) PROVE Reports'
  BY <1>25 DEF CancelFree, ReleaseFor
<1>26. ASSUME NEW c \in Cancel, CancelDeployment(c) PROVE Reports'
  BY <1>26 DEF CancelDeployment, LeaveLoop
<1>27. ASSUME Restart PROVE Reports'
  BY <1>27 DEF Restart, ForgetLocks
<1>28. CASE UNCHANGED <<status, dep, pc, verdict, wpc, wjob, cpc>>
  BY <1>28
<1> HIDE <1>0, <1>u, <1>v, Constants DEF Reports, Settled, Agreement, Lives, OneWorker,
   Cancellations, TypeOK, RowTypes, JobTypes, LoopTypes, CancelTypes, Running, HasLoop, RunBy,
   HasCoroutine, Reported
<1> QED
  BY ZenonT(30), <1>1, <1>2, <1>3, <1>4, <1>5, <1>6, <1>7, <1>8, <1>9, <1>10, <1>11, <1>12,
     <1>13, <1>14, <1>h, <1>15, <1>16, <1>17, <1>18, <1>19, <1>20, <1>21, <1>22, <1>23, <1>24, <1>25,
     <1>26, <1>27, <1>28 DEF Next, HandlerStep, RunStep, WorkerStep, CancelStep, vars, LockKey,
     Acquire, UndoKey, ReleaseFor, ReleaseKey, ForceRelease, Tick

-----------------------------------------------------------------------------
(* The keys.                                                                *)

\* Taking the next key, and giving back the first one.
LEMMA TakeOne ==
    ASSUME NEW t \in Seq(Key), NEW s \in Seq(Key), s # <<>>, EndOf(s, t)
    PROVE  LET a == SubSeq(t, 1, Len(t) - Len(s))
               b == SubSeq(t, 1, Len(t) - Len(Tail(s)))
           IN  /\ EndOf(Tail(s), t) /\ Head(s) \in ToSet(t)
               /\ ToSet(b) = ToSet(a) \cup {Head(s)}
               /\ Distinct(a) /\ Head(s) \notin ToSet(a) => Distinct(b)
<1> DEFINE m == Len(t) - Len(s)
           a == SubSeq(t, 1, m)
           b == SubSeq(t, 1, m + 1)
<1>1. Len(s) \in Nat \ {0} /\ Len(t) \in Nat /\ m \in Nat /\ m + 1 <= Len(t)
  BY DEF EndOf
<1>2. /\ Tail(s) \in Seq(Key) /\ Len(Tail(s)) = Len(s) - 1 /\ Head(s) = s[1]
      /\ \A i \in 1..Len(Tail(s)) : Tail(s)[i] = s[i + 1]
  BY HeadTailProperties
<1>3. Head(s) = t[m + 1]
  BY <1>1, <1>2 DEF EndOf
<1>4. EndOf(Tail(s), t)
  BY <1>1, <1>2 DEF EndOf
<1>5. Len(t) - Len(Tail(s)) = m + 1
  BY <1>1, <1>2
<1>6. Len(a) = m /\ \A i \in 1..m : a[i] = t[i]
  BY <1>1, SubSeqProperties
<1>7. Len(b) = m + 1 /\ \A i \in 1..(m + 1) : b[i] = t[i]
  BY <1>1, SubSeqProperties
<1>8. a \in Seq(Key) /\ b \in Seq(Key) /\ DOMAIN a = 1..m /\ DOMAIN b = 1..(m + 1)
      /\ DOMAIN t = 1..Len(t)
  BY <1>1, <1>6, <1>7, SubSeqProperties
<1>9. \A i \in 1..(m + 1) : i \in 1..m \/ i = m + 1
  BY <1>1
<1> HIDE DEF a, b, m
<1>10. ToSet(b) = ToSet(a) \cup {Head(s)}
  <2>1. \A i \in 1..m : i \in 1..(m + 1) /\ b[i] = a[i]
    BY <1>1, <1>6, <1>7
  <2>2. m + 1 \in 1..(m + 1) /\ b[m + 1] = Head(s)
    BY <1>1, <1>3, <1>7
  <2> QED
    BY <2>1, <2>2, <1>8, <1>9 DEF ToSet
<1>11. Distinct(a) /\ Head(s) \notin ToSet(a) => Distinct(b)
  BY <1>3, <1>6, <1>7, <1>8, <1>9 DEF Distinct, ToSet
<1>12. Head(s) \in ToSet(t)
  BY <1>1, <1>3, <1>8 DEF ToSet
<1> QED
  BY <1>4, <1>5, <1>10, <1>11, <1>12 DEF a, b, m

\* Giving back the first key.
LEMMA DropOne ==
    ASSUME NEW s \in Seq(Key), s # <<>>
    PROVE  /\ ToSet(s) = ToSet(Tail(s)) \cup {Head(s)}
           /\ Distinct(s) => Distinct(Tail(s)) /\ Head(s) \notin ToSet(Tail(s))
<1>1. /\ Tail(s) \in Seq(Key) /\ Len(Tail(s)) = Len(s) - 1 /\ Head(s) = s[1]
      /\ \A i \in 1..Len(Tail(s)) : Tail(s)[i] = s[i + 1]
  BY HeadTailProperties
<1>2. Len(s) \in Nat \ {0} /\ DOMAIN s = 1..Len(s) /\ DOMAIN Tail(s) = 1..(Len(s) - 1)
  BY <1>1
<1>3. \A i \in 1..(Len(s) - 1) : i + 1 \in 1..Len(s) /\ i + 1 # 1 /\ Tail(s)[i] = s[i + 1]
  BY <1>1, <1>2
<1>4. \A i \in 1..Len(s) : i = 1 \/ (i - 1 \in 1..(Len(s) - 1) /\ (i - 1) + 1 = i)
  BY <1>2
<1>5. ToSet(s) = ToSet(Tail(s)) \cup {Head(s)}
  <2>1. 1 \in 1..Len(s) /\ Head(s) \in ToSet(s)
    BY <1>1, <1>2 DEF ToSet
  <2>2. ToSet(Tail(s)) \subseteq ToSet(s)
    BY <1>2, <1>3 DEF ToSet
  <2>3. ASSUME NEW i \in 1..Len(s) PROVE s[i] \in ToSet(Tail(s)) \cup {Head(s)}
    <3>1. CASE i = 1
      BY <3>1, <1>1
    <3>2. CASE i # 1
      <4>1. i - 1 \in DOMAIN Tail(s) /\ s[i] = Tail(s)[i - 1]
        BY <3>2, <1>2, <1>3, <1>4
      <4> QED
        BY <4>1 DEF ToSet
    <3> QED
      BY <3>1, <3>2
  <2> QED
    BY <2>1, <2>2, <2>3, <1>2 DEF ToSet
<1>6. ASSUME Distinct(s) PROVE Distinct(Tail(s)) /\ Head(s) \notin ToSet(Tail(s))
  <2>1. ASSUME NEW x \in 1..(Len(s) - 1), NEW y \in 1..(Len(s) - 1), Tail(s)[x] = Tail(s)[y] PROVE x = y
    <3>1. x + 1 = y + 1
      BY <1>6, <1>2, <1>3, <2>1 DEF Distinct
    <3> QED
      BY <3>1, <1>2
  <2>2. \A x \in 1..(Len(s) - 1) : Tail(s)[x] # Head(s)
    <3>1. 1 \in 1..Len(s)
      BY <1>2
    <3> QED
      BY <1>6, <1>1, <1>2, <1>3, <3>1 DEF Distinct
  <2> QED
    BY <2>1, <2>2, <1>2 DEF Distinct, ToSet
<1> QED
  BY <1>5, <1>6

\* All keys of a list, and none of them.
LEMMA TakeAllOrNone ==
    ASSUME NEW t \in Seq(Key)
    PROVE  /\ SubSeq(t, 1, Len(t) - Len(<<>>)) = t
           /\ SubSeq(t, 1, Len(t) - Len(t)) = <<>>
           /\ EndOf(t, t)
           /\ ToSet(<<>>) = {} /\ Distinct(<<>>)
<1>1. Len(t) \in Nat /\ Len(<<>>) = 0 /\ DOMAIN <<>> = {}
  BY EmptySeq
<1>2. SubSeq(t, 1, Len(t)) = t
  BY SubSeqFull
<1>3. SubSeq(t, 1, 0) = <<>>
  BY SubSeqEmpty, <1>1
<1> QED
  BY <1>1, <1>2, <1>3 DEF EndOf, ToSet, Distinct

\* How a step changes what task j owes.
OwedChanges(j) ==
    \/ OwedInOrder(j)' = OwedInOrder(j)
    \/ LockKey(j)
    \/ /\ UndoKey(j) \/ ReleaseKey(j)
       /\ OwedInOrder(j) = left[j] /\ left[j] # <<>> /\ OwedInOrder(j)' = Tail(left[j])
    \/ /\ OwedInOrder(j)' = <<>>
       /\ \/ pc'[j] = "leaked" \/ Restart
          \/ \E c \in Cancel : CancelWrite(c) /\ cjob[c] = j /\ pc[j] = "queued"

\* What a task owes depends on its own pc, list and row, and on whether it is being claimed.
LEMMA OwedFrame ==
    ASSUME NEW i \in Task, pc'[i] = pc[i], left'[i] = left[i], status'[i] = status[i],
           (wpc = "claim" /\ wjob = i) <=> (wpc' = "claim" /\ wjob' = i)
    PROVE  OwedInOrder(i)' = OwedInOrder(i)
BY DEF OwedInOrder

\* Every step of the system changes what a task owes in one of these ways.
LEMMA OwedStep ==
    ASSUME IndInv, [Next]_vars, NEW i \in Task
    PROVE  OwedChanges(i)
<1>0. TypeOK /\ Lives /\ OneWorker /\ Cancellations
  BY DEF IndInv
<1>1. ASSUME NEW j \in Deploy, Submit(j) PROVE OwedChanges(i)
  <2>1. /\ pc' = [pc EXCEPT ![j] = "lock"] /\ left' = [left EXCEPT ![j] = LockKeys[j]]
        /\ UNCHANGED <<status, wpc, wjob>> /\ pc[j] = "idle" /\ j \in Task
    BY <1>1, Constants DEF Submit, Submitted
  <2>2. CASE i # j
    <3>1. pc'[i] = pc[i] /\ left'[i] = left[i]
      BY <2>1, <2>2, <1>0 DEF TypeOK, JobTypes
    <3> QED
      BY <2>1, <3>1, OwedFrame DEF OwedChanges
  <2>3. CASE i = j
    <3>1. OwedInOrder(j) = <<>>
      BY <2>1 DEF OwedInOrder, Running
    <3>2. pc'[j] = "lock" /\ left'[j] = LockKeys[j] /\ LockKeys[j] \in Seq(Key)
      BY <2>1, <1>0, Constants DEF TypeOK, JobTypes
    <3>3. OwedInOrder(j)' = <<>>
      BY <3>2, TakeAllOrNone DEF OwedInOrder
    <3> QED
      BY <2>3, <3>1, <3>3 DEF OwedChanges
  <2> QED
    BY <2>2, <2>3
<1>2. ASSUME NEW j \in Rollback, SubmitRollback(j) PROVE OwedChanges(i)
  <2>1. /\ pc' = [pc EXCEPT ![j] = "lock"] /\ left' = [left EXCEPT ![j] = LockKeys[j]]
        /\ UNCHANGED <<status, wpc, wjob>> /\ pc[j] = "idle" /\ j \in Task
    BY <1>2, Constants DEF SubmitRollback, Submitted
  <2>2. CASE i # j
    <3>1. pc'[i] = pc[i] /\ left'[i] = left[i]
      BY <2>1, <2>2, <1>0 DEF TypeOK, JobTypes
    <3> QED
      BY <2>1, <3>1, OwedFrame DEF OwedChanges
  <2>3. CASE i = j
    <3>1. OwedInOrder(j) = <<>>
      BY <2>1 DEF OwedInOrder, Running
    <3>2. pc'[j] = "lock" /\ left'[j] = LockKeys[j] /\ LockKeys[j] \in Seq(Key)
      BY <2>1, <1>0, Constants DEF TypeOK, JobTypes
    <3>3. OwedInOrder(j)' = <<>>
      BY <3>2, TakeAllOrNone DEF OwedInOrder
    <3> QED
      BY <2>3, <3>1, <3>3 DEF OwedChanges
  <2> QED
    BY <2>2, <2>3
<1>3. ASSUME NEW j \in Task, LockKey(j) PROVE OwedChanges(i)
  <2>1. CASE i = j
    BY <1>3, <2>1 DEF OwedChanges
  <2>2. CASE i # j
    <3>1. pc'[i] = pc[i] /\ left'[i] = left[i] /\ UNCHANGED <<status, wpc, wjob>>
      BY <1>3, <2>2, <1>0 DEF LockKey, TypeOK, JobTypes
    <3> QED
      BY <3>1, OwedFrame DEF OwedChanges
  <2> QED
    BY <2>1, <2>2
<1>4. ASSUME NEW j \in Task, LockConflict(j) PROVE OwedChanges(i)
  <2>1. \A h \in Task : h # j => pc'[h] = pc[h] /\ left'[h] = left[h] /\ status'[h] = status[h]
    BY <1>4, <1>0 DEF LockConflict, TypeOK, RowTypes, JobTypes
  <2>2. UNCHANGED <<wpc, wjob>>
    BY <1>4 DEF LockConflict
  <2>3. CASE i # j
    BY <2>1, <2>2, <2>3, OwedFrame DEF OwedChanges
  <2>4. pc[j] = "lock" /\ pc'[j] = "undo" /\ left'[j] = Acquired(j)
    BY <1>4, <1>0, Constants DEF LockConflict, TypeOK, RowTypes, JobTypes, LoopTypes
  <2>5. CASE i = j
    BY <1>4, <2>2, <2>4, <2>5, <1>0, Constants, TakeAllOrNone DEF OwedChanges, OwedInOrder,
       Lives, TypeOK, LoopTypes
  <2> QED
    BY <2>3, <2>5
<1>5. ASSUME NEW j \in Task, CreateTask(j) PROVE OwedChanges(i)
  <2>1. \A h \in Task : h # j => pc'[h] = pc[h] /\ left'[h] = left[h] /\ status'[h] = status[h]
    BY <1>5, <1>0 DEF CreateTask, TypeOK, RowTypes, JobTypes
  <2>2. UNCHANGED <<wpc, wjob>>
    BY <1>5 DEF CreateTask
  <2>3. CASE i # j
    BY <2>1, <2>2, <2>3, OwedFrame DEF OwedChanges
  <2>4. pc[j] = "lock" /\ pc'[j] = "queued" /\ left[j] = <<>> /\ status'[j] = "pending" /\ LockKeys[j] \in Seq(Key)
    BY <1>5, <1>0, Constants DEF CreateTask, TypeOK, RowTypes, JobTypes, LoopTypes
  <2>5. CASE i = j
    BY <1>5, <2>2, <2>4, <2>5, <1>0, Constants, TakeAllOrNone DEF OwedChanges, OwedInOrder,
       Running, Lives, TypeOK, LoopTypes
  <2> QED
    BY <2>3, <2>5
<1>6. ASSUME NEW j \in Task, CreateFails(j) PROVE OwedChanges(i)
  <2>1. UNCHANGED <<status, wpc, wjob>>
    BY <1>6 DEF CreateFails
  <2>2. /\ \/ pc' = [pc EXCEPT ![j] = "leaked"] /\ left' = left
           \/ pc' = [pc EXCEPT ![j] = "abort"] /\ left' = [left EXCEPT ![j] = LockKeys[j]]
        /\ pc[j] = "lock" /\ left[j] = <<>>
    BY <1>6 DEF CreateFails
  <2>3. CASE i # j
    <3>1. pc'[i] = pc[i] /\ left'[i] = left[i]
      BY <2>2, <2>3, <1>0 DEF TypeOK, JobTypes
    <3> QED
      BY <2>1, <3>1, OwedFrame DEF OwedChanges
  <2>4. CASE i = j
    <3>1. OwedInOrder(j) = LockKeys[j]
      BY <2>2, Constants, TakeAllOrNone DEF OwedInOrder
    <3>2. CASE pc' = [pc EXCEPT ![j] = "abort"] /\ left' = [left EXCEPT ![j] = LockKeys[j]]
      <4>1. pc'[j] = "abort" /\ left'[j] = LockKeys[j]
        BY <3>2, <1>0 DEF TypeOK, JobTypes
      <4> QED
        BY <2>4, <3>1, <4>1 DEF OwedInOrder, OwedChanges
    <3>3. CASE pc' = [pc EXCEPT ![j] = "leaked"] /\ left' = left
      <4>1. pc'[j] = "leaked"
        BY <3>3, <1>0 DEF TypeOK, JobTypes
      <4> QED
        BY <2>4, <4>1 DEF OwedInOrder, OwedChanges, Running
    <3> QED
      BY <2>2, <3>2, <3>3
  <2> QED
    BY <2>3, <2>4
<1>7. ASSUME NEW j \in Task, UndoKey(j) PROVE OwedChanges(i)
  <2>1. \A h \in Task : h # j => pc'[h] = pc[h] /\ left'[h] = left[h] /\ status'[h] = status[h]
    BY <1>7, <1>0 DEF UndoKey, TypeOK, RowTypes, JobTypes
  <2>2. UNCHANGED <<wpc, wjob>>
    BY <1>7 DEF UndoKey
  <2>3. CASE i # j
    BY <2>1, <2>2, <2>3, OwedFrame DEF OwedChanges
  <2>4. pc[j] \in {"undo", "abort"} /\ pc'[j] = pc[j] /\ left[j] # <<>> /\ left'[j] = Tail(left[j])
    BY <1>7, <1>0, Constants DEF UndoKey, TypeOK, RowTypes, JobTypes, LoopTypes
  <2>5. CASE i = j
    BY <1>7, <2>2, <2>4, <2>5, <1>0, Constants, TakeAllOrNone DEF OwedChanges, OwedInOrder,
       Lives, TypeOK, LoopTypes
  <2> QED
    BY <2>3, <2>5
<1>8. ASSUME NEW j \in Task, Refuse(j) PROVE OwedChanges(i)
  BY <1>8, <1>0, Constants, TakeAllOrNone DEF OwedInOrder, Acquired, Lives, OneWorker,
     Cancellations, TypeOK, RowTypes, JobTypes, LoopTypes, CancelTypes, Running, HasLoop, RunBy,
     HasCoroutine, OwedChanges, Refuse, LeaveLoop
<1>9. ASSUME NEW j \in Task, StartDeploy(j) PROVE OwedChanges(i)
  BY <1>9, <1>0, Constants, TakeAllOrNone DEF OwedInOrder, Acquired, Lives, OneWorker,
     Cancellations, TypeOK, RowTypes, JobTypes, LoopTypes, CancelTypes, Running, HasLoop, RunBy,
     HasCoroutine, OwedChanges, StartDeploy
<1>10. ASSUME NEW j \in Task, StartRaises(j) PROVE OwedChanges(i)
  BY <1>10, <1>0, Constants, TakeAllOrNone DEF OwedInOrder, Acquired, Lives, OneWorker,
     Cancellations, TypeOK, RowTypes, JobTypes, LoopTypes, CancelTypes, Running, HasLoop, RunBy,
     HasCoroutine, OwedChanges, StartRaises
<1>11. ASSUME NEW j \in Task, Peek(j) PROVE OwedChanges(i)
  <2>1. /\ UNCHANGED <<left, status, wpc, wjob>> /\ pc[j] \in {"peek"}
        /\ \E where \in {"report", "check", "roll"} : pc' = [pc EXCEPT ![j] = where]
    BY <1>11, PeekWrites
  <2>2. CASE i # j
    <3>1. pc'[i] = pc[i] /\ left'[i] = left[i]
      BY <2>1, <2>2, <1>0 DEF TypeOK, JobTypes
    <3> QED
      BY <2>1, <3>1, OwedFrame DEF OwedChanges
  <2>3. CASE i = j
    <3>1. OwedInOrder(j) = LockKeys[j]
      BY <2>1 DEF OwedInOrder, Running
    <3>2. pc'[j] \in {"report", "check", "roll"}
      BY <2>1, <1>0 DEF TypeOK, JobTypes
    <3>3. OwedInOrder(j)' = LockKeys[j]
      BY <3>2 DEF OwedInOrder, Running
    <3> QED
      BY <2>3, <3>1, <3>3 DEF OwedChanges
  <2> QED
    BY <2>2, <2>3
<1>12. ASSUME NEW j \in Task, StartRollback(j) PROVE OwedChanges(i)
  <2>1. UNCHANGED <<left, wpc, wjob>>
    BY <1>12 DEF StartRollback
  <2>2. CASE i # j
    <3>1. pc'[i] = pc[i] /\ status'[i] = status[i]
      BY <1>12, <2>2, <1>0 DEF StartRollback, Touch, TypeOK, JobTypes, RowTypes
    <3> QED
      BY <2>1, <2>2, <3>1, OwedFrame DEF OwedChanges
  <2>3. CASE i = j
    <3>1. /\ pc[j] = "start" \/ (pc[j] = "queued" /\ HasCoroutine(j))
          /\ pc'[j] \in {"roll", "report"}
      BY <1>12, <1>0 DEF StartRollback, Touch, TypeOK, JobTypes
    <3>2. OwedInOrder(j) = LockKeys[j]
      BY <3>1 DEF OwedInOrder, Running
    <3>3. OwedInOrder(j)' = LockKeys[j]
      BY <3>1 DEF OwedInOrder, Running
    <3> QED
      BY <2>3, <3>2, <3>3 DEF OwedChanges
  <2> QED
    BY <2>2, <2>3
<1>13. ASSUME NEW j \in Task, RollEnds(j) PROVE OwedChanges(i)
  <2>1. /\ \/ left' = left /\ (pc' = [pc EXCEPT ![j] = "report"] \/ pc' = [pc EXCEPT ![j] = "check"])
           \/ left' = [left EXCEPT ![j] = LockKeys[j]] /\ pc' = [pc EXCEPT ![j] = "release"]
        /\ UNCHANGED <<status, wpc, wjob>> /\ pc[j] = "roll"
    BY <1>13 DEF RollEnds
  <2>2. CASE i # j
    <3>1. pc'[i] = pc[i] /\ left'[i] = left[i]
      BY <2>1, <2>2, <1>0 DEF TypeOK, JobTypes
    <3> QED
      BY <2>1, <3>1, OwedFrame DEF OwedChanges
  <2>3. CASE i = j
    <3>1. OwedInOrder(j) = LockKeys[j]
      BY <2>1 DEF OwedInOrder, Running
    <3>2. pc'[j] \in {"report", "check"} \/ (pc'[j] = "release" /\ left'[j] = LockKeys[j])
      BY <2>1, <1>0, Constants DEF TypeOK, JobTypes
    <3>3. OwedInOrder(j)' = LockKeys[j]
      BY <3>2 DEF OwedInOrder, Running
    <3> QED
      BY <2>3, <3>1, <3>3 DEF OwedChanges
  <2> QED
    BY <2>2, <2>3
<1>14. ASSUME NEW j \in Task, FinalCheck(j) PROVE OwedChanges(i)
  BY <1>14, <1>0, Constants, TakeAllOrNone DEF OwedInOrder, Acquired, Lives, OneWorker,
     Cancellations, TypeOK, RowTypes, JobTypes, LoopTypes, CancelTypes, Running, HasLoop, RunBy,
     HasCoroutine, OwedChanges, FinalCheck
<1>h. ASSUME NEW j \in Task, Hangs(j) \/ Unhangs(j) PROVE OwedChanges(i)
  <2>1. /\ UNCHANGED <<left, status, wpc, wjob>> /\ pc[j] \in {"roll", "hung"}
        /\ \E where \in {"roll", "hung"} : pc' = [pc EXCEPT ![j] = where]
    BY <1>h, HangWrites
  <2>2. CASE i # j
    <3>1. pc'[i] = pc[i] /\ left'[i] = left[i]
      BY <2>1, <2>2, <1>0 DEF TypeOK, JobTypes
    <3> QED
      BY <2>1, <3>1, OwedFrame DEF OwedChanges
  <2>3. CASE i = j
    <3>1. OwedInOrder(j) = LockKeys[j]
      BY <2>1 DEF OwedInOrder, Running
    <3>2. pc'[j] \in {"roll", "hung"}
      BY <2>1, <1>0 DEF TypeOK, JobTypes
    <3>3. OwedInOrder(j)' = LockKeys[j]
      BY <3>2 DEF OwedInOrder, Running
    <3> QED
      BY <2>3, <3>1, <3>3 DEF OwedChanges
  <2> QED
    BY <2>2, <2>3
<1>15. ASSUME NEW j \in Task, ReportTask(j) PROVE OwedChanges(i)
  BY <1>15, <1>0, Constants, TakeAllOrNone DEF OwedInOrder, Acquired, Lives, OneWorker,
     Cancellations, TypeOK, RowTypes, JobTypes, LoopTypes, CancelTypes, Running, HasLoop, RunBy,
     HasCoroutine, OwedChanges, ReportTask, Reported
<1>16. ASSUME NEW j \in Task, ReportDeployment(j) PROVE OwedChanges(i)
  <2>1. \A h \in Task : h # j => pc'[h] = pc[h] /\ left'[h] = left[h] /\ status'[h] = status[h]
    BY <1>16, <1>0 DEF ReportDeployment, TypeOK, RowTypes, JobTypes
  <2>2. UNCHANGED <<wpc, wjob>>
    BY <1>16 DEF ReportDeployment
  <2>3. CASE i # j
    BY <2>1, <2>2, <2>3, OwedFrame DEF OwedChanges
  <2>4. pc[j] = "reportDep" /\ pc'[j] = "release" /\ left'[j] = LockKeys[j]
    BY <1>16, <1>0, Constants DEF ReportDeployment, TypeOK, RowTypes, JobTypes, LoopTypes
  <2>5. CASE i = j
    BY <1>16, <2>2, <2>4, <2>5, <1>0, Constants, TakeAllOrNone DEF OwedChanges, OwedInOrder,
       Running, Lives, TypeOK, LoopTypes
  <2> QED
    BY <2>3, <2>5
<1>17. ASSUME NEW j \in Task, ReleaseKey(j) PROVE OwedChanges(i)
  <2>1. \A h \in Task : h # j => pc'[h] = pc[h] /\ left'[h] = left[h] /\ status'[h] = status[h]
    BY <1>17, <1>0 DEF ReleaseKey, TypeOK, RowTypes, JobTypes
  <2>2. UNCHANGED <<wpc, wjob>>
    BY <1>17 DEF ReleaseKey
  <2>3. CASE i # j
    BY <2>1, <2>2, <2>3, OwedFrame DEF OwedChanges
  <2>4. pc[j] = "release" /\ pc'[j] = pc[j] /\ left[j] # <<>> /\ left'[j] = Tail(left[j])
    BY <1>17, <1>0, Constants DEF ReleaseKey, TypeOK, RowTypes, JobTypes, LoopTypes
  <2>5. CASE i = j
    BY <1>17, <2>2, <2>4, <2>5, <1>0, Constants, TakeAllOrNone DEF OwedChanges, OwedInOrder,
       Lives, TypeOK, LoopTypes
  <2> QED
    BY <2>3, <2>5
<1>18. ASSUME NEW j \in Task, EndRun(j) PROVE OwedChanges(i)
  BY <1>18, <1>0, Constants, TakeAllOrNone DEF OwedInOrder, Acquired, Lives, OneWorker,
     Cancellations, TypeOK, RowTypes, JobTypes, LoopTypes, CancelTypes, Running, HasLoop, RunBy,
     HasCoroutine, OwedChanges, EndRun
<1>19. ASSUME WorkerRead PROVE OwedChanges(i)
  <2>1. UNCHANGED <<status, pc, left>> /\ wpc = "poll" /\ wpc' = "claim" /\ status[wjob'] = "pending"
    BY <1>19 DEF WorkerRead, Pending, IsPending
  <2>2. CASE i # wjob'
    BY <2>1, <2>2, OwedFrame DEF OwedChanges
  <2>3. CASE i = wjob'
    BY <2>1, <2>3, <1>0 DEF OwedChanges, OwedInOrder, Lives, Running
  <2> QED
    BY <2>2, <2>3
<1>20. ASSUME WorkerClaim PROVE OwedChanges(i)
  BY <1>20, <1>0, Constants, TakeAllOrNone DEF OwedInOrder, Acquired, Lives, OneWorker,
     Cancellations, TypeOK, RowTypes, JobTypes, LoopTypes, CancelTypes, Running, HasLoop, RunBy,
     HasCoroutine, OwedChanges, WorkerClaim
<1>21. ASSUME WorkerIdle PROVE OwedChanges(i)
  BY <1>21, <1>0, Constants, TakeAllOrNone DEF OwedInOrder, Acquired, Lives, OneWorker,
     Cancellations, TypeOK, RowTypes, JobTypes, LoopTypes, CancelTypes, Running, HasLoop, RunBy,
     HasCoroutine, OwedChanges, WorkerIdle
<1>22. ASSUME WorkerPollRaises PROVE OwedChanges(i)
  BY <1>22, <1>0, Constants, TakeAllOrNone DEF OwedInOrder, Acquired, Lives, OneWorker,
     Cancellations, TypeOK, RowTypes, JobTypes, LoopTypes, CancelTypes, Running, HasLoop, RunBy,
     HasCoroutine, OwedChanges, WorkerPollRaises
<1>23. ASSUME WorkerFailsTask PROVE OwedChanges(i)
  BY <1>23, <1>0, Constants, TakeAllOrNone DEF OwedInOrder, Acquired, Lives, OneWorker,
     Cancellations, TypeOK, RowTypes, JobTypes, LoopTypes, CancelTypes, Running, HasLoop, RunBy,
     HasCoroutine, OwedChanges, WorkerFailsTask
<1>24. ASSUME WorkerFailsDeployment PROVE OwedChanges(i)
  BY <1>24, <1>0, Constants, TakeAllOrNone DEF OwedInOrder, Acquired, Lives, OneWorker,
     Cancellations, TypeOK, RowTypes, JobTypes, LoopTypes, CancelTypes, Running, HasLoop, RunBy,
     HasCoroutine, OwedChanges, WorkerFailsDeployment
<1>25. ASSUME NEW c \in Cancel, CancelWrite(c) PROVE OwedChanges(i)
  BY <1>25, <1>0, Constants, TakeAllOrNone DEF OwedInOrder, Acquired, Lives, OneWorker,
     Cancellations, TypeOK, RowTypes, JobTypes, LoopTypes, CancelTypes, Running, HasLoop, RunBy,
     HasCoroutine, OwedChanges, CancelWrite
<1>26. ASSUME Restart PROVE OwedChanges(i)
  <2>1. UNCHANGED status /\ wpc' = "poll"
    BY <1>26 DEF Restart
  <2>2. \/ pc'[i] = "dead"
        \/ /\ pc'[i] = pc[i] /\ pc[i] \notin Handling \cup Running
           /\ ~(pc[i] = "queued" /\ (HasCoroutine(i) \/ status[i] # "pending"))
    BY <1>26 DEF Restart
  <2>3. CASE pc'[i] = "dead"
    BY <1>26, <2>3 DEF OwedChanges, OwedInOrder, Running
  <2>4. CASE pc'[i] # "dead"
    BY <1>26, <2>1, <2>2, <2>4 DEF OwedChanges, OwedInOrder, Running, Handling
  <2> QED
    BY <2>3, <2>4
<1>27. CASE UNCHANGED <<status, pc, left, wpc, wjob>>
  BY <1>27, OwedFrame DEF OwedChanges
<1> QED
  BY ZenonT(30), <1>1, <1>2, <1>3, <1>4, <1>5, <1>6, <1>7, <1>8, <1>9, <1>10, <1>11, <1>12, <1>13, <1>14, <1>h,
     <1>15, <1>16, <1>17, <1>18, <1>19, <1>20, <1>21, <1>22, <1>23, <1>24, <1>25, <1>26, <1>27
     DEF Next, HandlerStep, RunStep, WorkerStep, CancelStep, vars, CancelBegin, CancelFlag,
     CancelFree, ReleaseFor, CancelDeployment, LeaveLoop, ForceRelease, Tick

\* How a step changes who holds key k.
KeyChanges(k) ==
    \/ holder'[k] = holder[k]
    \/ \E j \in Task : /\ LockKey(j) /\ k = Head(left[j]) /\ holder'[k] = j
                       /\ holder[k] \in lapsed' \cup {NoTask}
    \/ /\ holder'[k] = NoTask
       /\ \/ holder[k] \in lapsed' \cup revoked \cup {NoTask} \/ Restart
          \/ \E i \in Task : /\ UndoKey(i) \/ ReleaseKey(i)
                             /\ k = Head(left[i])
                             /\ holder[k] = i \/ <<i, holder[k]>> \in robbed'
          \/ \E i \in Task : <<i, holder[k]>> \in robbed'

\* Every step of the system changes the holder of a key in one of these ways.
LEMMA KeyStep ==
    ASSUME IndInv, [Next]_vars, NEW k \in Key
    PROVE  KeyChanges(k)
<1>0. TypeOK /\ Cancellations
  BY DEF IndInv
<1>1. ASSUME NEW j \in Task, LockKey(j) PROVE KeyChanges(k)
  <2>1. /\ holder' = [i \in Key |-> IF i = Head(left[j]) THEN j ELSE IF Expired(i) THEN NoTask ELSE holder[i]]
        /\ lapsed' = lapsed \cup Lapsing /\ ~IsLocked(Head(left[j]))
    BY <1>1 DEF LockKey, Acquire
  <2>2. Expired(k) => holder[k] \in lapsed'
    BY <2>1 DEF Lapsing
  <2>3. CASE k # Head(left[j])
    BY <2>1, <2>2, <2>3 DEF KeyChanges
  <2>4. CASE k = Head(left[j])
    <3>1. Expired(k) \/ holder[k] = NoTask
      BY <2>1, <2>4, <1>0 DEF IsLocked, Expired, TypeOK, LockTypeOK
    <3>2. holder'[k] = j
      BY <2>1, <2>4
    <3> QED
      BY <1>1, <2>2, <2>4, <3>1, <3>2 DEF KeyChanges
  <2> QED
    BY <2>3, <2>4
<1>2. ASSUME NEW j \in Task, LockConflict(j) PROVE KeyChanges(k)
  <2>1. /\ holder' = [i \in Key |-> IF Expired(i) THEN NoTask ELSE holder[i]]
        /\ lapsed' = lapsed \cup Lapsing
    BY <1>2 DEF LockConflict, AcquireConflict
  <2>2. Expired(k) => holder[k] \in lapsed'
    BY <2>1 DEF Lapsing
  <2> QED
    BY <2>1, <2>2 DEF KeyChanges
<1>3. ASSUME NEW j \in Task, UndoKey(j) PROVE KeyChanges(k)
  <2>1. /\ holder' = [h \in Key |-> IF h = Head(left[j]) THEN NoTask ELSE holder[h]]
        /\ robbed' = robbed \cup {<<j, i>> : i \in {holder[Head(left[j])]} \ {j, NoTask}}
    BY <1>3 DEF UndoKey, ReleaseFor
  <2>2. CASE k # Head(left[j])
    BY <2>1, <2>2 DEF KeyChanges
  <2>3. CASE k = Head(left[j])
    <3>1. holder'[k] = NoTask
      BY <2>1, <2>3
    <3>2. holder[k] \in {j, NoTask} \/ <<j, holder[k]>> \in robbed'
      BY <2>1, <2>3
    <3> QED
      BY <1>3, <2>3, <3>1, <3>2 DEF KeyChanges
  <2> QED
    BY <2>2, <2>3
<1>4. ASSUME NEW j \in Task, ReleaseKey(j) PROVE KeyChanges(k)
  <2>1. /\ holder' = [h \in Key |-> IF h = Head(left[j]) THEN NoTask ELSE holder[h]]
        /\ robbed' = robbed \cup {<<j, i>> : i \in {holder[Head(left[j])]} \ {j, NoTask}}
    BY <1>4 DEF ReleaseKey, ReleaseFor
  <2>2. CASE k # Head(left[j])
    BY <2>1, <2>2 DEF KeyChanges
  <2>3. CASE k = Head(left[j])
    <3>1. holder'[k] = NoTask
      BY <2>1, <2>3
    <3>2. holder[k] \in {j, NoTask} \/ <<j, holder[k]>> \in robbed'
      BY <2>1, <2>3
    <3> QED
      BY <1>4, <2>3, <3>1, <3>2 DEF KeyChanges
  <2> QED
    BY <2>2, <2>3
<1>5. ASSUME NEW c \in Cancel, CancelFree(c) PROVE KeyChanges(k)
  <2>1. CASE holder' = holder
    BY <2>1 DEF KeyChanges
  <2>2. CASE holder' # holder
    <3>1. /\ holder' = [h \in Key |-> IF h = Head(cleft[c]) THEN NoTask ELSE holder[h]]
          /\ robbed' = robbed \cup {<<cjob[c], i>> : i \in {holder[Head(cleft[c])]} \ {cjob[c], NoTask}}
          /\ cpc[c] = "free"
      BY <1>5, <2>2 DEF CancelFree, ReleaseFor
    <3>2. cjob[c] \in revoked /\ cjob[c] \in Task
      BY <3>1, <1>0 DEF Cancellations, TypeOK, CancelTypes
    <3>3. CASE k # Head(cleft[c])
      BY <3>1, <3>3 DEF KeyChanges
    <3>4. CASE k = Head(cleft[c])
      <4>1. holder'[k] = NoTask
        BY <3>1, <3>4
      <4>2. holder[k] \in {cjob[c], NoTask} \/ <<cjob[c], holder[k]>> \in robbed'
        BY <3>1, <3>4
      <4> QED
        BY <3>2, <4>1, <4>2 DEF KeyChanges
    <3> QED
      BY <3>3, <3>4
  <2> QED
    BY <2>1, <2>2
<1>6. ASSUME NEW h \in Key, ForceRelease(h) PROVE KeyChanges(k)
  <2>1. /\ holder' = [i \in Key |-> IF i \in {h} THEN NoTask ELSE holder[i]]
        /\ lapsed' = lapsed \cup {holder[h]}
    BY <1>6 DEF ForceRelease
  <2> QED
    BY <2>1 DEF KeyChanges
<1>7. ASSUME Restart PROVE KeyChanges(k)
  <2>1. holder' = [i \in Key |-> NoTask]
    BY <1>7 DEF Restart, ForgetLocks
  <2> QED
    BY <1>7, <2>1 DEF KeyChanges
<1>8. CASE UNCHANGED holder
  BY <1>8 DEF KeyChanges
<1> QED
  BY ZenonT(30), <1>1, <1>2, <1>3, <1>4, <1>5, <1>6, <1>7, <1>8 DEF Next, HandlerStep, RunStep,
     WorkerStep,
     CancelStep, vars, Submit, Submitted, SubmitRollback, CreateTask, LeaveLoop, CreateFails,
     Refuse, StartDeploy, StartRaises, Peek, Touch, StartRollback, RollEnds, FinalCheck, Hangs, Unhangs,
     ReportTask, ReportDeployment, EndRun, WorkerRead, WorkerClaim, WorkerIdle,
     WorkerPollRaises, WorkerFailsTask, WorkerFailsDeployment, CancelBegin, CancelFlag,
     CancelWrite, CancelDeployment, Tick

\* An excuse is never taken back.
LEMMA ExcusedStep ==
    ASSUME [Next]_vars, NEW i \in Task
    PROVE  Excused(i) => Excused(i)'
<1>1. ASSUME NEW j \in Task, LockKey(j) PROVE Excused(i) => Excused(i)'
  BY <1>1 DEF Excused, LockKey, Acquire
<1>2. ASSUME NEW j \in Task, LockConflict(j) PROVE Excused(i) => Excused(i)'
  BY <1>2 DEF Excused, LockConflict, AcquireConflict
<1>3. ASSUME NEW j \in Task, UndoKey(j) PROVE Excused(i) => Excused(i)'
  BY <1>3 DEF Excused, UndoKey, ReleaseFor
<1>4. ASSUME NEW j \in Task, ReleaseKey(j) PROVE Excused(i) => Excused(i)'
  BY <1>4 DEF Excused, ReleaseKey, ReleaseFor
<1>5. ASSUME NEW c \in Cancel, CancelWrite(c) PROVE Excused(i) => Excused(i)'
  BY <1>5 DEF Excused, CancelWrite
<1>6. ASSUME NEW c \in Cancel, CancelFree(c) PROVE Excused(i) => Excused(i)'
  BY <1>6 DEF Excused, CancelFree, ReleaseFor
<1>7. ASSUME NEW k \in Key, ForceRelease(k) PROVE Excused(i) => Excused(i)'
  BY <1>7 DEF Excused, ForceRelease
<1>8. ASSUME Restart PROVE Excused(i) => Excused(i)'
  BY <1>8 DEF Excused, Restart, ForgetLocks
<1>9. CASE UNCHANGED <<revoked, lapsed, robbed>>
  BY <1>9 DEF Excused
<1> QED
  BY ZenonT(30), <1>1, <1>2, <1>3, <1>4, <1>5, <1>6, <1>7, <1>8, <1>9 DEF Next, HandlerStep,
     RunStep,
     WorkerStep, CancelStep, vars, Submit, Submitted, SubmitRollback, CreateTask, LeaveLoop,
     CreateFails, Refuse, StartDeploy, StartRaises, Peek, Touch, StartRollback, RollEnds,
     FinalCheck, Hangs, Unhangs, ReportTask, ReportDeployment, EndRun, WorkerRead, WorkerClaim, WorkerIdle,
     WorkerPollRaises, WorkerFailsTask, WorkerFailsDeployment, CancelBegin, CancelFlag,
     CancelDeployment, Tick

\* Revocations are not undone.
LEMMA RevokedStep ==
    ASSUME [Next]_vars
    PROVE  revoked \subseteq revoked'
<1>1. ASSUME NEW c \in Cancel, CancelWrite(c) PROVE revoked \subseteq revoked'
  BY <1>1 DEF TypeOK, CancelWrite
<1>2. CASE UNCHANGED revoked
  BY <1>2 DEF TypeOK
<1> QED
  BY ZenonT(30), <1>1, <1>2 DEF Next, HandlerStep, RunStep, WorkerStep, CancelStep, vars, Submit,
     Submitted,
     SubmitRollback, LockKey, Acquire, LockConflict, AcquireConflict, CreateTask, LeaveLoop,
     CreateFails, UndoKey, ReleaseFor, Refuse, StartDeploy, StartRaises, Peek, Touch,
     StartRollback, RollEnds, FinalCheck, Hangs, Unhangs, ReportTask, ReportDeployment, ReleaseKey, EndRun,
     WorkerRead, WorkerClaim, WorkerIdle, WorkerPollRaises, WorkerFailsTask,
     WorkerFailsDeployment, CancelBegin, CancelFlag, CancelFree, CancelDeployment, ForceRelease,
     Tick, Restart, ForgetLocks

\* How a step comes to rob somebody.
RobberyHappens ==
    \A i, h \in Task : <<i, h>> \in robbed' =>
        \/ <<i, h>> \in robbed \/ i \in revoked
        \/ /\ UndoKey(i) \/ ReleaseKey(i)
           /\ holder[Head(left[i])] = h /\ h # i

\* A key is released under its holder only by an undo, a release or a cancellation.
LEMMA RobbedStep ==
    ASSUME IndInv, [Next]_vars
    PROVE  RobberyHappens
<1>0. TypeOK /\ Cancellations
  BY DEF IndInv
<1>1. ASSUME NEW j \in Task, UndoKey(j) PROVE RobberyHappens
  <2>1. robbed' = robbed \cup {<<j, i>> : i \in {holder[Head(left[j])]} \ {j, NoTask}}
    BY <1>1 DEF UndoKey, ReleaseFor
  <2> QED
    BY <1>1, <2>1 DEF RobberyHappens
<1>2. ASSUME NEW j \in Task, ReleaseKey(j) PROVE RobberyHappens
  <2>1. robbed' = robbed \cup {<<j, i>> : i \in {holder[Head(left[j])]} \ {j, NoTask}}
    BY <1>2 DEF ReleaseKey, ReleaseFor
  <2> QED
    BY <1>2, <2>1 DEF RobberyHappens
<1>3. ASSUME NEW c \in Cancel, CancelFree(c) PROVE RobberyHappens
  <2>1. \/ robbed' = robbed
        \/ robbed' = robbed \cup {<<cjob[c], i>> : i \in {holder[Head(cleft[c])]} \ {cjob[c], NoTask}}
    BY <1>3 DEF CancelFree, ReleaseFor
  <2>2. cjob[c] \in revoked
    BY <1>3, <1>0 DEF CancelFree, Cancellations
  <2> QED
    BY <2>1, <2>2 DEF RobberyHappens
<1>4. CASE UNCHANGED robbed
  BY <1>4, <1>0 DEF RobberyHappens
<1> QED
  BY ZenonT(30), <1>1, <1>2, <1>3, <1>4 DEF Next, HandlerStep, RunStep, WorkerStep, CancelStep,
     vars,
     Submit, Submitted, SubmitRollback, LockKey, Acquire, LockConflict, AcquireConflict,
     CreateTask, LeaveLoop, CreateFails, Refuse, StartDeploy, StartRaises, Peek, Touch,
     StartRollback, RollEnds, FinalCheck, Hangs, Unhangs, ReportTask, ReportDeployment, EndRun, WorkerRead,
     WorkerClaim, WorkerIdle, WorkerPollRaises, WorkerFailsTask, WorkerFailsDeployment,
     CancelBegin, CancelFlag, CancelWrite, CancelDeployment, ForceRelease, Tick, Restart,
     ForgetLocks

\* A handler takes its keys in the order of its list.
LEMMA TakingStep ==
    ASSUME IndInv, [Next]_vars
    PROVE  TakesInOrder'
<1>0. TypeOK /\ Lists
  BY DEF IndInv
<1>1. ASSUME NEW j \in Deploy, Submit(j) PROVE TakesInOrder'
  <2>1. pc' = [pc EXCEPT ![j] = "lock"] /\ left' = [left EXCEPT ![j] = LockKeys[j]] /\ j \in Task
    BY <1>1, Constants DEF Submit, Submitted
  <2>2. EndOf(LockKeys[j], LockKeys[j])
    BY <2>1, Constants, TakeAllOrNone
  <2> QED
    BY <2>1, <2>2, <1>0 DEF TypeOK, JobTypes, Lists, TakesInOrder
<1>2. ASSUME NEW j \in Rollback, SubmitRollback(j) PROVE TakesInOrder'
  <2>1. pc' = [pc EXCEPT ![j] = "lock"] /\ left' = [left EXCEPT ![j] = LockKeys[j]] /\ j \in Task
    BY <1>2, Constants DEF SubmitRollback, Submitted
  <2>2. EndOf(LockKeys[j], LockKeys[j])
    BY <2>1, Constants, TakeAllOrNone
  <2> QED
    BY <2>1, <2>2, <1>0 DEF TypeOK, JobTypes, Lists, TakesInOrder
<1>3. ASSUME NEW j \in Task, LockKey(j) PROVE TakesInOrder'
  <2>1. /\ UNCHANGED pc /\ pc[j] = "lock" /\ left[j] # <<>>
        /\ left' = [left EXCEPT ![j] = Tail(left[j])]
    BY <1>3 DEF LockKey
  <2>2. EndOf(left[j], LockKeys[j]) /\ left[j] \in Seq(Key) /\ LockKeys[j] \in Seq(Key)
    BY <2>1, <1>0, Constants DEF TypeOK, JobTypes, Lists, TakesInOrder
  <2>3. EndOf(Tail(left[j]), LockKeys[j])
    BY <2>1, <2>2, TakeOne
  <2> QED
    BY <2>1, <2>3, <1>0 DEF TypeOK, JobTypes, Lists, TakesInOrder
<1>4. ASSUME NEW j \in Task, CreateFails(j) PROVE TakesInOrder'
  <2>1. /\ pc[j] = "lock" /\ \A i \in Task : i # j => pc'[i] = pc[i] /\ left'[i] = left[i]
        /\ pc'[j] # "lock"
    BY <1>4, <1>0 DEF CreateFails, TypeOK, JobTypes
  <2> QED
    BY <2>1, <1>0 DEF Lists, TakesInOrder
<1>5. ASSUME NEW j \in Task, RollEnds(j) PROVE TakesInOrder'
  <2>1. \A i \in Task : i # j => pc'[i] = pc[i] /\ left'[i] = left[i]
    BY <1>5, <1>0 DEF RollEnds, TypeOK, JobTypes
  <2>2. pc'[j] # "lock"
    BY <1>5, <1>0 DEF RollEnds, TypeOK, JobTypes
  <2> QED
    BY <2>1, <2>2, <1>0 DEF Lists, TakesInOrder
<1>6. ASSUME Restart PROVE TakesInOrder'
  <2>1. \A i \in Task : pc'[i] # "lock"
    BY <1>6 DEF Restart, Handling
  <2> QED
    BY <2>1 DEF TakesInOrder
<1> USE <1>0 DEF TypeOK, JobTypes, Lists, TakesInOrder
<1>7. ASSUME NEW j \in Task, LockConflict(j) PROVE TakesInOrder'
  BY <1>7 DEF LockConflict, AcquireConflict
<1>8. ASSUME NEW j \in Task, CreateTask(j) PROVE TakesInOrder'
  BY <1>8 DEF CreateTask, LeaveLoop
<1>9. ASSUME NEW j \in Task, UndoKey(j) PROVE TakesInOrder'
  BY <1>9 DEF UndoKey, ReleaseFor
<1>10. ASSUME NEW j \in Task, Refuse(j) PROVE TakesInOrder'
  BY <1>10 DEF Refuse, LeaveLoop
<1>11. ASSUME NEW j \in Task, StartDeploy(j) PROVE TakesInOrder'
  BY <1>11 DEF StartDeploy
<1>12. ASSUME NEW j \in Task, StartRaises(j) PROVE TakesInOrder'
  BY <1>12 DEF StartRaises
<1>13. ASSUME NEW j \in Task, Peek(j) PROVE TakesInOrder'
  BY <1>13 DEF Peek, Touch
<1>14. ASSUME NEW j \in Task, StartRollback(j) PROVE TakesInOrder'
  BY <1>14 DEF StartRollback, Touch
<1>15. ASSUME NEW j \in Task, FinalCheck(j) PROVE TakesInOrder'
  BY <1>15 DEF FinalCheck
<1>h. ASSUME NEW j \in Task, Hangs(j) \/ Unhangs(j) PROVE TakesInOrder'
  BY <1>h, HangWrites
<1>16. ASSUME NEW j \in Task, ReportTask(j) PROVE TakesInOrder'
  BY <1>16 DEF ReportTask, Reported
<1>17. ASSUME NEW j \in Task, ReportDeployment(j) PROVE TakesInOrder'
  BY <1>17 DEF ReportDeployment, Reported
<1>18. ASSUME NEW j \in Task, ReleaseKey(j) PROVE TakesInOrder'
  BY <1>18 DEF ReleaseKey, ReleaseFor
<1>19. ASSUME NEW j \in Task, EndRun(j) PROVE TakesInOrder'
  BY <1>19 DEF EndRun
<1>20. ASSUME WorkerClaim PROVE TakesInOrder'
  BY <1>20 DEF WorkerClaim
<1>21. CASE UNCHANGED <<pc, left>>
  BY <1>21
<1> HIDE <1>0 DEF TypeOK, JobTypes, Lists, TakesInOrder
<1> QED
  BY ZenonT(30), <1>1, <1>2, <1>3, <1>4, <1>5, <1>6, <1>7, <1>8, <1>9, <1>10, <1>11, <1>12,
     <1>13, <1>14, <1>15, <1>h, <1>16, <1>17, <1>18, <1>19, <1>20, <1>21 DEF Next, HandlerStep,
     RunStep, WorkerStep, CancelStep, vars, WorkerRead, WorkerIdle, WorkerPollRaises,
     WorkerFailsTask, WorkerFailsDeployment, CancelBegin, CancelFlag, CancelWrite, CancelFree,
     ReleaseFor, CancelDeployment, LeaveLoop, ForceRelease, Tick

\* A handler that takes a key owes it from then on, and nobody it was taken from is not excused.
LEMMA TakeKey ==
    ASSUME IndInv, NEW j \in Task, LockKey(j)
    PROVE  LET k == Head(left[j])
           IN  /\ k \in Key /\ k \in ToSet(LockKeys[j])
               /\ Owed(j)' = Owed(j) \cup {k}
               /\ Distinct(OwedInOrder(j)) /\ k \notin Owed(j) => Distinct(OwedInOrder(j)')
               /\ holder[k] \in lapsed' \cup {NoTask}
<1> DEFINE k == Head(left[j])
<1>1. TypeOK /\ Lists
  BY DEF IndInv
<1>2. /\ pc[j] = "lock" /\ left[j] # <<>> /\ UNCHANGED pc
      /\ left' = [left EXCEPT ![j] = Tail(left[j])]
      /\ ~IsLocked(k) /\ lapsed' = lapsed \cup Lapsing
  BY DEF LockKey, Acquire
<1>3. EndOf(left[j], LockKeys[j]) /\ left[j] \in Seq(Key) /\ LockKeys[j] \in Seq(Key)
  BY <1>1, <1>2, Constants DEF TypeOK, JobTypes, Lists, TakesInOrder
<1>4. k \in Key
  BY <1>2, <1>3, KeySequences
<1>5. holder[k] \in lapsed' \cup {NoTask}
  BY <1>1, <1>2, <1>4 DEF TypeOK, LockTypeOK, IsLocked, Expired, Lapsing
<1>6. left'[j] = Tail(left[j])
  BY <1>1, <1>2 DEF TypeOK, JobTypes
<1>7. /\ OwedInOrder(j) = SubSeq(LockKeys[j], 1, Len(LockKeys[j]) - Len(left[j]))
      /\ OwedInOrder(j)' = SubSeq(LockKeys[j], 1, Len(LockKeys[j]) - Len(Tail(left[j])))
  BY <1>2, <1>6 DEF OwedInOrder
<1>8. /\ k \in ToSet(LockKeys[j])
      /\ ToSet(OwedInOrder(j)') = ToSet(OwedInOrder(j)) \cup {k}
      /\ Distinct(OwedInOrder(j)) /\ k \notin ToSet(OwedInOrder(j)) => Distinct(OwedInOrder(j)')
  <2> DEFINE s == left[j]
             t == LockKeys[j]
             a == SubSeq(t, 1, Len(t) - Len(s))
             b == SubSeq(t, 1, Len(t) - Len(Tail(s)))
  <2>1. /\ Head(s) \in ToSet(t) /\ ToSet(b) = ToSet(a) \cup {Head(s)}
        /\ Distinct(a) /\ Head(s) \notin ToSet(a) => Distinct(b)
    BY <1>2, <1>3, TakeOne
  <2> QED
    BY <1>7, <2>1
<1> QED
  BY <1>4, <1>5, <1>8 DEF Owed

\* A task that gives back its first key no longer owes it, unless the key is twice in its list.
LEMMA GiveKey ==
    ASSUME IndInv, NEW j \in Task, UndoKey(j) \/ ReleaseKey(j)
    PROVE  LET k == Head(left[j])
           IN  /\ k \in Key /\ holder'[k] = NoTask
               /\ OwedInOrder(j) = left[j] /\ left[j] \in Seq(Key) /\ left[j] # <<>>
               /\ Owed(j) = ToSet(Tail(left[j])) \cup {k}
               /\ Distinct(OwedInOrder(j)) => Distinct(Tail(left[j])) /\ k \notin ToSet(Tail(left[j]))
<1>1. /\ pc[j] \in {"undo", "abort", "release"} /\ left[j] # <<>>
      /\ holder' = [h \in Key |-> IF h \in {Head(left[j])} THEN NoTask ELSE holder[h]]
  BY DEF UndoKey, ReleaseKey, ReleaseFor
<1>2. left[j] \in Seq(Key)
  BY DEF IndInv, TypeOK, JobTypes
<1>3. OwedInOrder(j) = left[j]
  BY <1>1 DEF OwedInOrder
<1>4. Head(left[j]) \in Key
  BY <1>1, <1>2, KeySequences
<1>5. /\ ToSet(left[j]) = ToSet(Tail(left[j])) \cup {Head(left[j])}
      /\ Distinct(left[j]) => Distinct(Tail(left[j])) /\ Head(left[j]) \notin ToSet(Tail(left[j]))
  BY <1>1, <1>2, DropOne
<1> QED
  BY <1>1, <1>2, <1>3, <1>4, <1>5 DEF Owed

\* What a task owes are keys.
LEMMA OwedKeys ==
    ASSUME IndInv, NEW j \in Task
    PROVE  Owed(j) \subseteq Key
<1>1. left[j] \in Seq(Key) /\ LockKeys[j] \in Seq(Key) /\ <<>> \in Seq(Key)
  BY Constants, EmptySeq DEF IndInv, TypeOK, JobTypes
<1>2. OwedInOrder(j) \in Seq(Key)
  BY <1>1, KeySequences DEF OwedInOrder
<1>3. \A s \in Seq(Key) : ToSet(s) \subseteq Key
  BY ElementOfSeq, LenProperties DEF ToSet
<1> QED
  BY <1>2, <1>3 DEF Owed

\* A task holds keys of its list only, and no key twice.
LEMMA ListsStep ==
    ASSUME IndInv, [Next]_vars
    PROVE  Lists'
<1>0. TypeOK /\ Lists /\ LockedWhileActive
  BY DEF IndInv
<1>1. ASSUME NEW j \in Task PROVE Distinct(OwedInOrder(j)') \/ Excused(j)'
  <2>1. Excused(j) => Excused(j)'
    BY ExcusedStep
  <2>2. Distinct(OwedInOrder(j)) \/ Excused(j)
    BY <1>0 DEF Lists
  <2>3. Distinct(<<>>)
    BY Constants, TakeAllOrNone
  <2>4. CASE LockKey(j)
    <3> DEFINE k == Head(left[j])
    <3>1. CASE Distinct(OwedInOrder(j)) /\ k \notin Owed(j)
      BY <2>4, <3>1, TakeKey
    <3>2. CASE k \in Owed(j) /\ ~Excused(j)
      <4>1. holder[k] = j
        BY <1>0, <3>2 DEF LockedWhileActive, Excused
      <4>2. j \in lapsed'
        BY <2>4, <4>1, TakeKey, Constants
      <4> QED
        BY <4>2 DEF Excused
    <3> QED
      BY <2>1, <2>2, <3>1, <3>2
  <2>5. CASE (UndoKey(j) \/ ReleaseKey(j)) /\ OwedInOrder(j)' = Tail(left[j])
    BY <2>1, <2>2, <2>5, GiveKey
  <2> QED
    BY <2>1, <2>2, <2>3, <2>4, <2>5, OwedStep DEF OwedChanges
<1>2. ASSUME NEW j \in Task, NEW k \in Key, holder'[k] = j PROVE k \in ToSet(LockKeys[j])
  <2>1. CASE holder[k] = j
    BY <1>0, <2>1 DEF Lists
  <2>2. CASE holder[k] # j
    <3>1. KeyChanges(k) /\ j # NoTask
      BY KeyStep, Constants
    <3>2. LockKey(j) /\ k = Head(left[j])
      BY <1>2, <2>2, <3>1 DEF KeyChanges
    <3> QED
      BY <3>2, TakeKey
  <2> QED
    BY <2>1, <2>2
<1> QED
  BY <1>1, <1>2, TakingStep DEF Lists

\* A key that is owed is held by the one who owes it, or its loss is excused.
LEMMA LockedStep ==
    ASSUME IndInv, [Next]_vars
    PROVE  LockedWhileActive'
<1>0. TypeOK /\ Lists /\ LockedWhileActive
  BY DEF IndInv
<1> SUFFICES ASSUME NEW j \in Task, NEW k \in Owed(j)', ~Excused(j)'
             PROVE  holder'[k] = j
  BY DEF LockedWhileActive, Excused
<1>1. ~Excused(j) /\ Distinct(OwedInOrder(j))
  BY <1>0, ExcusedStep DEF Lists
<1>2. j # NoTask
  BY Constants
<1>3. CASE LockKey(j) /\ k = Head(left[j])
  BY <1>3, <1>0 DEF LockKey, Acquire, TypeOK, JobTypes
<1>4. CASE ~(LockKey(j) /\ k = Head(left[j]))
  <2>1. k \in Owed(j) /\ ~((UndoKey(j) \/ ReleaseKey(j)) /\ k = Head(left[j]))
    <3>1. OwedChanges(j)
      BY OwedStep
    <3>2. CASE LockKey(j)
      <4>1. k \in Owed(j)
        BY <1>4, <3>2, TakeKey
      <4>2. ~(UndoKey(j) \/ ReleaseKey(j))
        BY <3>2 DEF LockKey, UndoKey, ReleaseKey
      <4> QED
        BY <4>1, <4>2
    <3>3. CASE (UndoKey(j) \/ ReleaseKey(j)) /\ OwedInOrder(j)' = Tail(left[j])
      BY <1>1, <3>3, GiveKey DEF Owed
    <3>4. CASE OwedInOrder(j)' = OwedInOrder(j) /\ ~(UndoKey(j) \/ ReleaseKey(j))
      BY <3>4 DEF Owed
    <3>5. CASE OwedInOrder(j)' = <<>>
      BY <3>5, Constants, TakeAllOrNone DEF Owed
    <3>6. CASE OwedInOrder(j)' = OwedInOrder(j) /\ (UndoKey(j) \/ ReleaseKey(j))
      <4>1. left[j] # <<>> /\ left'[j] = Tail(left[j]) /\ pc'[j] = pc[j]
        BY <3>6, <1>0 DEF UndoKey, ReleaseKey, TypeOK, JobTypes
      <4>2. OwedInOrder(j)' = Tail(left[j])
        BY <3>6, <4>1 DEF OwedInOrder, UndoKey, ReleaseKey
      <4> QED
        BY <3>3, <3>6, <4>2
    <3> QED
      BY <3>1, <3>2, <3>3, <3>4, <3>5, <3>6 DEF OwedChanges
  <2>2. holder[k] = j
    BY <1>0, <1>1, <2>1 DEF LockedWhileActive, Excused
  <2>3. k \in Key
    BY <2>1, OwedKeys
  <2>4. KeyChanges(k)
    BY <2>3, KeyStep
  <2>5. j \notin lapsed' \cup revoked /\ \A i \in Task : <<i, j>> \notin robbed'
    BY <1>1 DEF Excused
  <2>6. ~Restart
    <3>1. pc[j] \in Handling \cup Running \cup {"queued"}
      BY <2>1, Constants, TakeAllOrNone DEF Owed, OwedInOrder, Handling, Running
    <3> QED
      BY <2>5, <3>1 DEF Restart
  <2>7. ~ \E i \in Task : (UndoKey(i) \/ ReleaseKey(i)) /\ k = Head(left[i]) /\ holder[k] = i
    BY <2>1, <2>2
  <2> QED
    BY <1>2, <1>4, <2>2, <2>4, <2>5, <2>6, <2>7 DEF KeyChanges
<1> QED
  BY <1>3, <1>4

\* A cancellation goes on freeing keys, unless the process dies.
FreesOn(b) ==
    \/ Restart \/ CancelFree(b)
    \/ cpc'[b] = cpc[b] /\ cjob'[b] = cjob[b] /\ cleft'[b] = cleft[b]

\* Only the cancellation itself goes on with the keys it is freeing.
LEMMA FreeingStep ==
    ASSUME IndInv, [Next]_vars, NEW b \in Cancel, cpc[b] = "free"
    PROVE  FreesOn(b)
<1>0. TypeOK
  BY DEF IndInv
<1>1. ASSUME NEW c \in Cancel, CancelBegin(c) PROVE FreesOn(b)
  BY <1>1, <1>0 DEF FreesOn, TypeOK, CancelTypes, CancelBegin
<1>2. ASSUME NEW c \in Cancel, CancelFlag(c) PROVE FreesOn(b)
  BY <1>2, <1>0 DEF FreesOn, TypeOK, CancelTypes, CancelFlag
<1>3. ASSUME NEW c \in Cancel, CancelWrite(c) PROVE FreesOn(b)
  BY <1>3, <1>0 DEF FreesOn, TypeOK, CancelTypes, CancelWrite
<1>4. ASSUME NEW c \in Cancel, CancelFree(c) PROVE FreesOn(b)
  BY <1>4, <1>0 DEF FreesOn, TypeOK, CancelTypes, CancelFree, ReleaseFor
<1>5. ASSUME NEW c \in Cancel, CancelDeployment(c) PROVE FreesOn(b)
  BY <1>5, <1>0 DEF FreesOn, TypeOK, CancelTypes, CancelDeployment, LeaveLoop
<1>6. ASSUME Restart PROVE FreesOn(b)
  BY <1>6 DEF FreesOn
<1>7. CASE UNCHANGED <<cpc, cjob, cleft>>
  BY <1>7, <1>0 DEF FreesOn, TypeOK, CancelTypes
<1> QED
  BY ZenonT(30), <1>1, <1>2, <1>3, <1>4, <1>5, <1>6, <1>7 DEF Next, HandlerStep, RunStep,
     WorkerStep,
     CancelStep, vars, Submit, Submitted, SubmitRollback, LockKey, Acquire, LockConflict,
     AcquireConflict, CreateTask, LeaveLoop, CreateFails, UndoKey, ReleaseFor, Refuse,
     StartDeploy, StartRaises, Peek, Touch, StartRollback, RollEnds, FinalCheck, Hangs, Unhangs, ReportTask,
     ReportDeployment, ReleaseKey, EndRun, WorkerRead, WorkerClaim, WorkerIdle,
     WorkerPollRaises, WorkerFailsTask, WorkerFailsDeployment, ForceRelease, Tick

\* What happens to a task that waits in the queue, or whose run has leaked its keys.
WaitsOn(i) ==
    \/ Restart \/ pc'[i] = pc[i]
    \/ pc[i] = "queued" /\ pc'[i] \in {"start", "roll", "report"}

\* A leaked task stays leaked; a queued one waits or starts.
LEMMA WaitingStep ==
    ASSUME IndInv, [Next]_vars, NEW i \in Task, pc[i] \in {"leaked", "queued"}
    PROVE  WaitsOn(i)
<1>0. TypeOK /\ OneWorker /\ Lives
  BY DEF IndInv
<1>1. ASSUME NEW j \in Deploy, Submit(j) PROVE WaitsOn(i)
  BY <1>1, <1>0, Constants DEF WaitsOn, TypeOK, JobTypes, LoopTypes, Submit, Submitted
<1>2. ASSUME NEW j \in Rollback, SubmitRollback(j) PROVE WaitsOn(i)
  BY <1>2, <1>0, Constants DEF WaitsOn, TypeOK, JobTypes, LoopTypes, SubmitRollback, Submitted
<1>3. ASSUME NEW j \in Task, LockConflict(j) PROVE WaitsOn(i)
  BY <1>3, <1>0, Constants DEF WaitsOn, TypeOK, JobTypes, LoopTypes, LockConflict,
     AcquireConflict
<1>4. ASSUME NEW j \in Task, CreateTask(j) PROVE WaitsOn(i)
  BY <1>4, <1>0, Constants DEF WaitsOn, TypeOK, JobTypes, LoopTypes, CreateTask, LeaveLoop
<1>5. ASSUME NEW j \in Task, CreateFails(j) PROVE WaitsOn(i)
  BY <1>5, <1>0, Constants DEF WaitsOn, TypeOK, JobTypes, LoopTypes, CreateFails, LeaveLoop
<1>6. ASSUME NEW j \in Task, Refuse(j) PROVE WaitsOn(i)
  BY <1>6, <1>0, Constants DEF WaitsOn, TypeOK, JobTypes, LoopTypes, Refuse, LeaveLoop
<1>7. ASSUME NEW j \in Task, StartDeploy(j) PROVE WaitsOn(i)
  BY <1>7, <1>0, Constants DEF WaitsOn, TypeOK, JobTypes, LoopTypes, StartDeploy
<1>8. ASSUME NEW j \in Task, StartRaises(j) PROVE WaitsOn(i)
  BY <1>8, <1>0, Constants DEF WaitsOn, TypeOK, JobTypes, LoopTypes, StartRaises
<1>9. ASSUME NEW j \in Task, Peek(j) PROVE WaitsOn(i)
  BY <1>9, <1>0, Constants DEF WaitsOn, TypeOK, JobTypes, LoopTypes, Peek, Touch
<1>10. ASSUME NEW j \in Task, StartRollback(j) PROVE WaitsOn(i)
  BY <1>10, <1>0, Constants DEF WaitsOn, TypeOK, JobTypes, LoopTypes, StartRollback, Touch
<1>11. ASSUME NEW j \in Task, RollEnds(j) PROVE WaitsOn(i)
  BY <1>11, <1>0, Constants DEF WaitsOn, TypeOK, JobTypes, LoopTypes, RollEnds, Outcomes
<1>12. ASSUME NEW j \in Task, FinalCheck(j) PROVE WaitsOn(i)
  BY <1>12, <1>0, Constants DEF WaitsOn, TypeOK, JobTypes, LoopTypes, FinalCheck
<1>h. ASSUME NEW j \in Task, Hangs(j) \/ Unhangs(j) PROVE WaitsOn(i)
  BY <1>h, <1>0, Constants DEF WaitsOn, TypeOK, JobTypes, LoopTypes, Hangs, Unhangs
<1>13. ASSUME NEW j \in Task, ReportTask(j) PROVE WaitsOn(i)
  BY <1>13, <1>0, Constants DEF WaitsOn, TypeOK, JobTypes, LoopTypes, ReportTask, Reported
<1>14. ASSUME NEW j \in Task, ReportDeployment(j) PROVE WaitsOn(i)
  BY <1>14, <1>0, Constants DEF WaitsOn, TypeOK, JobTypes, LoopTypes, ReportDeployment, Reported
<1>15. ASSUME NEW j \in Task, EndRun(j) PROVE WaitsOn(i)
  BY <1>15, <1>0, Constants DEF WaitsOn, TypeOK, JobTypes, LoopTypes, EndRun
<1>16. ASSUME WorkerClaim PROVE WaitsOn(i)
  BY <1>16, <1>0, Constants DEF WaitsOn, TypeOK, JobTypes, LoopTypes, WorkerClaim, OneWorker
<1>17. ASSUME Restart PROVE WaitsOn(i)
  BY <1>17 DEF WaitsOn
<1>18. CASE UNCHANGED pc
  BY <1>18, <1>0, Constants DEF WaitsOn, TypeOK, JobTypes, LoopTypes
<1> QED
  BY ZenonT(30), <1>1, <1>2, <1>3, <1>4, <1>5, <1>6, <1>7, <1>8, <1>9, <1>10, <1>11, <1>12, <1>h, <1>13, <1>14,
     <1>15, <1>16, <1>17, <1>18 DEF Next, HandlerStep, RunStep, WorkerStep, CancelStep, vars,
     LockKey, Acquire, UndoKey, ReleaseFor, ReleaseKey, WorkerRead, WorkerIdle,
     WorkerPollRaises, WorkerFailsTask, WorkerFailsDeployment, CancelBegin, CancelFlag,
     CancelWrite, CancelFree, CancelDeployment, LeaveLoop, ForceRelease, Tick

\* A cancellation that has begun is never idle again.
BegunStays == \A b \in Cancel : cpc[b] # "idle" => cpc'[b] # "idle"

\* Every step of the system does so.
LEMMA BegunStep ==
    ASSUME IndInv, [Next]_vars
    PROVE  BegunStays
<1>0. TypeOK
  BY DEF IndInv
<1> USE <1>0 DEF BegunStays, TypeOK, CancelTypes
<1>1. ASSUME NEW c \in Cancel, CancelBegin(c) PROVE BegunStays
  BY <1>1 DEF CancelBegin
<1>2. ASSUME NEW c \in Cancel, CancelFlag(c) PROVE BegunStays
  BY <1>2 DEF CancelFlag
<1>3. ASSUME NEW c \in Cancel, CancelWrite(c) PROVE BegunStays
  BY <1>3 DEF CancelWrite
<1>4. ASSUME NEW c \in Cancel, CancelFree(c) PROVE BegunStays
  BY <1>4 DEF CancelFree, ReleaseFor
<1>5. ASSUME NEW c \in Cancel, CancelDeployment(c) PROVE BegunStays
  BY <1>5 DEF CancelDeployment, LeaveLoop
<1>6. ASSUME Restart PROVE BegunStays
  BY <1>6 DEF Restart, ForgetLocks
<1>7. CASE UNCHANGED cpc
  BY <1>7
<1> HIDE <1>0 DEF BegunStays, TypeOK, CancelTypes
<1> QED
  BY ZenonT(30), <1>1, <1>2, <1>3, <1>4, <1>5, <1>6, <1>7 DEF Next, HandlerStep, RunStep,
     WorkerStep, CancelStep, vars, Submit, Submitted, SubmitRollback, LockKey, Acquire,
     LockConflict, AcquireConflict, CreateTask, LeaveLoop, CreateFails, UndoKey, ReleaseFor,
     Refuse, StartDeploy, StartRaises, Peek, Touch, StartRollback, RollEnds, FinalCheck, Hangs, Unhangs,
     ReportTask, ReportDeployment, ReleaseKey, EndRun, WorkerRead, WorkerClaim, WorkerIdle,
     WorkerPollRaises, WorkerFailsTask, WorkerFailsDeployment, ForceRelease, Tick

\* A held key is owed, being freed, or one of the known leaks.
LEMMA HeldStep ==
    ASSUME IndInv, [Next]_vars
    PROVE  HeldKeyIsAccountedFor'
<1>0. TypeOK /\ Lists /\ HeldKeyIsAccountedFor /\ OneWorker
  BY DEF IndInv
<1> SUFFICES ASSUME NEW k \in Key, NEW j \in Task, holder'[k] = j
             PROVE  k \in Owed(j)' \/ BeingFreed(j, k)' \/ KnownLeak(j)'
  <2>1. \A k \in Key : holder'[k] # NoTask => holder'[k] \in Task
    BY TypeStep DEF TypeOK, LockTypeOK
  <2> QED
    BY <2>1 DEF HeldKeyIsAccountedFor
<1>1. CASE holder[k] # j
  <2>1. KeyChanges(k) /\ j # NoTask
    BY KeyStep, Constants
  <2>2. LockKey(j) /\ k = Head(left[j])
    BY <1>1, <2>1 DEF KeyChanges
  <2> QED
    BY <2>2, TakeKey
<1>2. CASE holder[k] = j
  <2>1. k \in ToSet(LockKeys[j]) /\ j # NoTask
    BY <1>0, <1>2, Constants DEF Lists
  <2>2. ~Restart
    <3>1. ASSUME Restart PROVE holder'[k] = NoTask
      BY <3>1 DEF Restart, ForgetLocks
    <3> QED
      BY <2>1, <3>1
  <2>3. CASE k \in Owed(j)
    <3>1. CASE LockKey(j)
      BY <2>3, <3>1, TakeKey
    <3>2. CASE (UndoKey(j) \/ ReleaseKey(j)) /\ OwedInOrder(j)' = Tail(left[j])
      BY <2>1, <2>3, <3>2, GiveKey DEF Owed
    <3>3. CASE pc'[j] = "leaked"
      BY <3>3 DEF KnownLeak
    <3>4. CASE \E c \in Cancel : CancelWrite(c) /\ cjob[c] = j /\ pc[j] = "queued"
      <4>1. PICK c \in Cancel : CancelWrite(c) /\ cjob[c] = j /\ pc[j] = "queued"
        BY <3>4
      <4>2. cpc[c] = "write" /\ UNCHANGED pc /\ revoked' = revoked \cup {j}
        BY <4>1 DEF CancelWrite
      <4>3. CASE CancelVia[c] = "tool"
        <5>1. /\ cpc' = [cpc EXCEPT ![c] = "free"] /\ UNCHANGED cjob
              /\ cleft' = [cleft EXCEPT ![c] = LockKeys[j]]
          BY <4>1, <4>3 DEF CancelWrite
        <5>2. cpc'[c] = "free" /\ cjob'[c] = j /\ cleft'[c] = LockKeys[j]
          BY <4>1, <5>1, <1>0 DEF TypeOK, CancelTypes
        <5> QED
          BY <2>1, <5>2 DEF BeingFreed
      <4>4. CASE CancelVia[c] # "tool"
        <5>1. cpc' = [cpc EXCEPT ![c] = "flag"]
          BY <4>1, <4>4 DEF CancelWrite
        <5>2. cpc'[c] = "flag" /\ CancelVia[c] = "web" /\ CancelOf[c] = DeploymentOf[j]
          BY <4>1, <4>2, <4>4, <5>1, <1>0, Constants DEF TypeOK, CancelTypes, IndInv, Cancellations
        <5> QED
          BY <4>1, <4>2, <5>2 DEF KnownLeak
      <4> QED
        BY <4>3, <4>4
    <3>5. CASE OwedInOrder(j)' = OwedInOrder(j)
      BY <2>3, <3>5 DEF Owed
    <3> QED
      BY <2>2, <3>1, <3>2, <3>3, <3>4, <3>5, OwedStep DEF OwedChanges
  <2>4. CASE BeingFreed(j, k)
    <3>1. PICK c \in Cancel : cpc[c] = "free" /\ cjob[c] = j /\ k \in ToSet(cleft[c])
      BY <2>4 DEF BeingFreed
    <3>2. CASE CancelFree(c)
      <4>1. cleft[c] \in Seq(Key)
        BY <1>0 DEF TypeOK, CancelTypes
      <4>2. cleft[c] # <<>>
        BY <3>1, Constants, TakeAllOrNone
      <4>3. /\ holder' = [h \in Key |-> IF h \in {Head(cleft[c])} THEN NoTask ELSE holder[h]]
            /\ cleft' = [cleft EXCEPT ![c] = Tail(cleft[c])] /\ UNCHANGED <<cpc, cjob>>
        BY <3>2, <4>2 DEF CancelFree, ReleaseFor
      <4>4. k # Head(cleft[c])
        BY <2>1, <4>3
      <4>5. k \in ToSet(Tail(cleft[c]))
        BY <3>1, <4>1, <4>2, <4>4, DropOne
      <4>6. cleft'[c] = Tail(cleft[c])
        BY <4>3, <1>0 DEF TypeOK, CancelTypes
      <4> QED
        BY <3>1, <4>3, <4>5, <4>6 DEF BeingFreed
    <3>3. CASE ~CancelFree(c)
      <4>1. cpc'[c] = cpc[c] /\ cjob'[c] = cjob[c] /\ cleft'[c] = cleft[c]
        BY <2>2, <3>1, <3>3, FreeingStep DEF FreesOn
      <4> QED
        BY <3>1, <4>1 DEF BeingFreed
    <3> QED
      BY <3>2, <3>3
  <2>5. CASE KnownLeak(j)
    <3>1. WaitsOn(j)
      BY <2>5, WaitingStep DEF KnownLeak
    <3>2. CASE pc'[j] = pc[j]
      <4>1. \A c \in Cancel : cpc[c] # "idle" => cpc'[c] # "idle"
        BY BegunStep DEF BegunStays
      <4>2. j \in revoked => j \in revoked'
        BY RevokedStep
      <4> QED
        BY <2>5, <3>2, <4>1, <4>2 DEF KnownLeak
    <3>3. CASE pc'[j] \in {"start", "roll", "report"}
      BY <2>1, <3>3 DEF Owed, OwedInOrder, Running
    <3> QED
      BY <2>2, <3>1, <3>2, <3>3 DEF WaitsOn
  <2> QED
    BY <1>0, <1>2, <2>1, <2>3, <2>4, <2>5 DEF HeldKeyIsAccountedFor
<1> QED
  BY <1>1, <1>2

\* Who robs has an excuse itself.
LEMMA RobberStep ==
    ASSUME IndInv, [Next]_vars
    PROVE  RobberHasCause'
<1>0. TypeOK /\ LockedWhileActive /\ RobberHasCause
  BY DEF IndInv
<1> SUFFICES ASSUME NEW i \in Task, NEW h \in Task, <<i, h>> \in robbed'
             PROVE  Excused(i)'
  BY DEF RobberHasCause, Excused
<1>1. Excused(i) => Excused(i)'
  BY ExcusedStep
<1>2. CASE <<i, h>> \in robbed \/ i \in revoked
  BY <1>0, <1>1, <1>2 DEF RobberHasCause, Excused
<1>3. CASE (UndoKey(i) \/ ReleaseKey(i)) /\ holder[Head(left[i])] = h /\ h # i
  <2>1. Head(left[i]) \in Owed(i)
    BY <1>3, GiveKey
  <2> QED
    BY <1>0, <1>1, <1>3, <2>1 DEF LockedWhileActive, Excused
<1> QED
  BY <1>2, <1>3, RobbedStep DEF RobberyHappens

-----------------------------------------------------------------------------
\* Nothing is owed, held or written at first.
LEMMA InitInv ==
    ASSUME Init
    PROVE  IndInv
<1>1. TypeOK
  <2>1. LockTypeOK
    BY DEF Init, LockInit, LockTypeOK, Free
  <2>2. RowTypes /\ JobTypes /\ LoopTypes /\ CancelTypes
    BY EmptySeq, Constants DEF Init, RowTypes, JobTypes, LoopTypes, CancelTypes
  <2>3. HistoryTypes
    BY Constants DEF Init, HistoryTypes
  <2> QED
    BY <2>1, <2>2, <2>3 DEF TypeOK
<1>2. Lives /\ OneWorker /\ Cancellations
  BY Constants, EmptySeq DEF Init, Lives, OneWorker, Cancellations, Running
<1>3. Doomed /\ Reports
  BY Constants DEF Init, Doomed, Spared, Missed, Found, Reports, Agreement
<1>4. ASSUME NEW j \in Task PROVE OwedInOrder(j) = <<>>
  BY DEF Init, OwedInOrder, Running
<1>5. Distinct(<<>>) /\ ToSet(<<>>) = {}
  <2>1. Len(<<>>) = 0 /\ DOMAIN <<>> = {}
    BY EmptySeq
  <2> QED
    BY <2>1 DEF Distinct, ToSet
<1>6. Lists
  <2>1. \A k \in Key : holder[k] = NoTask
    BY DEF Init, LockInit
  <2>2. \A j \in Task : pc[j] = "idle"
    BY DEF Init
  <2> QED
    BY <1>4, <1>5, <2>1, <2>2, Constants DEF Lists, TakesInOrder
<1>7. LockedWhileActive
  BY <1>4, <1>5 DEF LockedWhileActive, Owed
<1>8. HeldKeyIsAccountedFor /\ RobberHasCause
  BY DEF Init, LockInit, HeldKeyIsAccountedFor, RobberHasCause
<1> QED
  BY <1>1, <1>2, <1>3, <1>6, <1>7, <1>8 DEF IndInv

\* Together the invariants are inductive.
LEMMA IndStep ==
    ASSUME IndInv, [Next]_vars
    PROVE  IndInv'
BY TypeStep, LivesStep, OneWorkerStep, CancellationsStep, DoomedStep, ReportsStep, ListsStep,
   LockedStep, HeldStep, RobberStep DEF IndInv

\* The invariants hold in every reachable state.
THEOREM Inductive == Spec => []IndInv
<1>1. Init => IndInv
  BY InitInv
<1>2. IndInv /\ [Next]_vars => IndInv'
  BY IndStep
<1> QED
  BY <1>1, <1>2, PTL DEF Spec

\* Rows, locks, program counters and lists have their types (TypeOK).
THEOREM TypeCorrect == Spec => []TypeOK
<1>1. IndInv => TypeOK
  BY DEF IndInv
<1> QED
  BY <1>1, Inductive, PTL

\* Every key has one owner as long as it should and no longer: the two halves of
\* KeysAreAccountedFor, for any lists of keys, tasks and cancellations.
THEOREM Exclusion == Spec => []KeysAreAccountedFor
<1>1. IndInv => KeysAreAccountedFor
  BY DEF IndInv, KeysAreAccountedFor
<1> QED
  BY <1>1, Inductive, PTL

\* A task releases a key that another task holds only after it lost its own
\* (release_deployment_locks checks no owner).
THEOREM Robberies == Spec => []RobberHasCause
<1>1. IndInv => RobberHasCause
  BY DEF IndInv
<1> QED
  BY <1>1, Inductive, PTL

\* No restart, cancellation or failed poll makes the servers of a task be touched twice.
THEOREM RunsOnce == Spec => []AtMostOneRun
<1>1. IndInv => AtMostOneRun
  BY DEF IndInv, Lives, AtMostOneRun
<1> QED
  BY <1>1, Inductive, PTL

\* A deployment that a cancellation found pending touches no server unless the read of its
\* flag failed before the first, nor does it succeed unless it failed again after the last.
THEOREM CanceledStaysCanceled == Spec => []RevokedNeverRuns
<1>1. IndInv => RevokedNeverRuns
  BY DEF IndInv, Doomed, Spared, Missed, Found, RevokedNeverRuns
<1> QED
  BY <1>1, Inductive, PTL

\* A finished run leaves deployment and task in the same terminal status, unless somebody
\* else wrote to the deployment.
THEOREM RowsTellTheSame == Spec => []RowsAgree
<1>1. IndInv => RowsAgree
  BY DEF IndInv, Reports, RowsAgree
<1> QED
  BY <1>1, Inductive, PTL
=============================================================================
