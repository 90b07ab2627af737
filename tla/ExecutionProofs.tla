--------------------------- MODULE ExecutionProofs ---------------------------
(***************************************************************************)
(* Proofs about what carries a deployment out: PlanExecutor for plans of   *)
(* any length, with any dependency relation, and for any number of         *)
(* crashes; Rollout for any list of servers, any cap on parallelism and    *)
(* every request; Release for any recipes and any number of runs;          *)
(* BlueGreen for any servers, any updates and their targets; and LogStream *)
(* for any threads and pages, any number of lines and faults, and any size *)
(* of the batch, the queues and the list of subscribers.                   *)
(***************************************************************************)
EXTENDS PlanExecutor, Rollout, Release, BlueGreen, LogStream, SequenceTheorems, FiniteSetTheorems,
        TLAPS

-----------------------------------------------------------------------------
(* The execution of a plan *)

\* A call of execute in progress has marked the plan RUNNING and left no step
\* before `cur' untried; a loop ends behind the last step, or at a failed step
\* without continue_on_error.
Progress ==
    /\ pc # "idle" => plan = "RUNNING"
    /\ \A i \in Step : i < cur => step[i] # "PENDING"
    /\ pc \in {"call", "hung", "succeeded", "failed"} => cur \in Step /\ step[cur] = "RUNNING"
    /\ pc = "final" => cur \notin Step \/ (~continueOnError /\ step[cur] = "FAILED")
    /\ partial \subseteq Are("FAILED")

\* A handler is called between the commit of RUNNING and the commit of the
\* outcome; its dependencies have succeeded for good.
Calling ==
    /\ \A i \in Step : calls[i] <= 1
    /\ \A i \in Step : step[i] \in {"PENDING", "SKIPPED"} => calls[i] = 0
    /\ \A i \in Step : step[i] = "SUCCEEDED" => calls[i] = 1
    /\ pc = "call" => calls[cur] = 0
    /\ pc \in {"hung", "succeeded", "failed"} => calls[cur] = 1
    /\ \A i \in Step : calls[i] > 0 \/ step[i] = "RUNNING" =>
           \A d \in deps[i] : step[d] = "SUCCEEDED"

\* Without continue_on_error and before the plan is taken up again, a call that
\* still tries steps has seen none fail.
Stopping ==
    ~continueOnError /\ "resumed" \notin mishaps =>
        /\ plan = "APPROVED" \/ pc \in {"loop", "call", "hung", "succeeded", "failed"} =>
               Are("FAILED") = {}
        /\ \A i \in Step : failedBefore[i] = {}

IndInv == TypeOK /\ Progress /\ Calling /\ StatusIsHonest /\ Stopping

-----------------------------------------------------------------------------
\* An approved plan has not been touched.
LEMMA InitInv == Init => IndInv
  BY StepCountAssumption, MaxCrashesAssumption DEF Init, IndInv, TypeOK,
     Progress, Calling, Stopping, StatusIsHonest, Terminal, Are, Step

\* Every commit, call of a handler and crash keeps the types.
LEMMA TypeStep ==
    ASSUME TypeOK, Progress, [Next]_vars
    PROVE  TypeOK'
<1>1. ASSUME Execute PROVE TypeOK'
  <2>1. mishaps' \subseteq {"resumed", "excepted", "unwritten"}
    BY <1>1 DEF TypeOK, Execute
  <2> QED
    BY <1>1, <2>1, StepCountAssumption DEF TypeOK, Execute
<1>2. ASSUME ExecuteLeftover PROVE TypeOK'
  BY <1>2 DEF TypeOK, Terminal, ExecuteLeftover
<1>3. ASSUME PassStep PROVE TypeOK'
  BY <1>3, StepCountAssumption DEF TypeOK, Step, PassStep
<1>4. ASSUME SkipStep PROVE TypeOK'
  BY <1>4, StepCountAssumption DEF TypeOK, Step, SetStep, SkipStep
<1>5. ASSUME StartStep PROVE TypeOK'
  BY <1>5 DEF TypeOK, SetStep, StartStep
<1>6. ASSUME CallHandler PROVE TypeOK'
  BY <1>6 DEF TypeOK, Progress, Are, CallHandler
<1>7. ASSUME StepSucceeds PROVE TypeOK'
  BY <1>7, StepCountAssumption DEF TypeOK, Progress, Step, SetStep,
     StepSucceeds
<1>8. ASSUME StepFails PROVE TypeOK'
  BY <1>8, StepCountAssumption DEF TypeOK, Progress, Step, SetStep, StepFails
<1>9. ASSUME LoopEnds PROVE TypeOK'
  BY <1>9 DEF TypeOK, LoopEnds
<1>10. ASSUME Finish PROVE TypeOK'
  BY <1>10 DEF TypeOK, FinalStatus, Terminal, Finish
<1>11. ASSUME Crash PROVE TypeOK'
  BY <1>11, MaxCrashesAssumption DEF TypeOK, Crash
<1>12. CASE UNCHANGED vars
  BY <1>12 DEF TypeOK, vars
<1>13. ASSUME HandlerReturns PROVE TypeOK'
  BY <1>13 DEF TypeOK, HandlerReturns
<1>14. ASSUME Raises PROVE TypeOK'
  BY <1>14 DEF TypeOK, Raises
<1>15. ASSUME Excepts PROVE TypeOK'
  BY <1>15 DEF Terminal, TypeOK, Excepts
<1>16. ASSUME CommitRaises PROVE TypeOK'
  BY <1>16 DEF TypeOK, CommitRaises
<1> QED
  BY <1>1, <1>2, <1>3, <1>4, <1>5, <1>6, <1>7, <1>8, <1>9, <1>10, <1>11, <1>12,
     <1>13, <1>14, <1>15, <1>16
     DEF Next, Call, Run, Trouble

\* The loop of _run_steps leaves no PENDING step behind it.
LEMMA ProgressStep ==
    ASSUME TypeOK, Progress, [Next]_vars
    PROVE  Progress'
<1>1. ASSUME Execute PROVE Progress'
  BY <1>1 DEF Progress, Step, Are, Execute
<1>2. ASSUME ExecuteLeftover PROVE Progress'
  BY <1>2 DEF Progress, Are, ExecuteLeftover
<1>3. ASSUME PassStep PROVE Progress'
  BY <1>3 DEF Progress, Step, Are, PassStep
<1>4. ASSUME SkipStep PROVE Progress'
  BY <1>4 DEF TypeOK, Progress, SetStep, Are, SkipStep
<1>5. ASSUME StartStep PROVE Progress'
  BY <1>5 DEF TypeOK, Progress, SetStep, Are, StartStep
<1>6. ASSUME CallHandler PROVE Progress'
  BY <1>6 DEF Progress, Are, CallHandler
<1>7. ASSUME StepSucceeds PROVE Progress'
  BY <1>7 DEF Progress, Step, SetStep, Are, StepSucceeds
<1>8. ASSUME StepFails PROVE Progress'
  BY <1>8 DEF TypeOK, Progress, Step, SetStep, Are, StepFails
<1>9. ASSUME LoopEnds PROVE Progress'
  BY <1>9 DEF Progress, Are, LoopEnds
<1>10. ASSUME Finish PROVE Progress'
  BY <1>10 DEF Progress, Are, Finish
<1>11. ASSUME Crash PROVE Progress'
  BY <1>11 DEF Progress, Are, Crash
<1>12. CASE UNCHANGED vars
  BY <1>12 DEF Progress, Are, vars
<1>13. ASSUME HandlerReturns PROVE Progress'
  BY <1>13 DEF Progress, Are, HandlerReturns
<1>14. ASSUME Raises PROVE Progress'
  BY <1>14 DEF Progress, Are, Raises
<1>15. ASSUME Excepts PROVE Progress'
  BY <1>15 DEF Progress, Are, Excepts
<1>16. ASSUME CommitRaises PROVE Progress'
  BY <1>16 DEF Progress, Are, CommitRaises
<1> QED
  BY <1>1, <1>2, <1>3, <1>4, <1>5, <1>6, <1>7, <1>8, <1>9, <1>10, <1>11, <1>12,
     <1>13, <1>14, <1>15, <1>16
     DEF Next, Call, Run, Trouble

\* RUNNING is committed before the handler is called, and a step that is not
\* PENDING is passed over by every later call of execute.
LEMMA CallingStep ==
    ASSUME TypeOK, Progress, Calling, [Next]_vars
    PROVE  Calling'
<1>1. ASSUME Execute PROVE Calling'
  BY <1>1 DEF Calling, Execute
<1>2. ASSUME ExecuteLeftover PROVE Calling'
  BY <1>2 DEF Calling, ExecuteLeftover
<1>3. ASSUME PassStep PROVE Calling'
  BY <1>3 DEF Calling, PassStep
<1>4. ASSUME SkipStep PROVE Calling'
  BY <1>4 DEF Calling, SetStep, SkipStep
<1>5. ASSUME StartStep PROVE Calling'
  BY <1>5 DEF Calling, SetStep, Blocked, StartStep
<1>6. ASSUME CallHandler PROVE Calling'
  BY <1>6 DEF TypeOK, Progress, Calling, CallHandler
<1>7. ASSUME StepSucceeds PROVE Calling'
  BY <1>7 DEF Calling, SetStep, StepSucceeds
<1>8. ASSUME StepFails PROVE Calling'
  BY <1>8 DEF Progress, Calling, SetStep, StepFails
<1>9. ASSUME LoopEnds PROVE Calling'
  BY <1>9 DEF Calling, LoopEnds
<1>10. ASSUME Finish PROVE Calling'
  BY <1>10 DEF Calling, Finish
<1>11. ASSUME Crash PROVE Calling'
  BY <1>11 DEF Calling, Crash
<1>12. CASE UNCHANGED vars
  BY <1>12 DEF Calling, vars
<1>13. ASSUME HandlerReturns PROVE Calling'
  BY <1>13 DEF Calling, HandlerReturns
<1>14. ASSUME Raises PROVE Calling'
  BY <1>14 DEF Calling, Raises
<1>15. ASSUME Excepts PROVE Calling'
  BY <1>15 DEF Calling, Excepts
<1>16. ASSUME CommitRaises PROVE Calling'
  BY <1>16 DEF Calling, CommitRaises
<1> QED
  BY <1>1, <1>2, <1>3, <1>4, <1>5, <1>6, <1>7, <1>8, <1>9, <1>10, <1>11, <1>12,
     <1>13, <1>14, <1>15, <1>16
     DEF Next, Call, Run, Trouble

\* A finished plan keeps its steps, and Finish counts them right.
LEMMA HonestStep ==
    ASSUME TypeOK, Progress, Calling, StatusIsHonest, [Next]_vars
    PROVE  StatusIsHonest'
<1>1. ASSUME Execute PROVE StatusIsHonest'
  BY <1>1 DEF StatusIsHonest, Terminal, Execute
<1>2. ASSUME ExecuteLeftover PROVE StatusIsHonest'
  BY <1>2 DEF StatusIsHonest, Are, ExecuteLeftover
<1>3. ASSUME PassStep PROVE StatusIsHonest'
  BY <1>3 DEF StatusIsHonest, Are, PassStep
<1>4. ASSUME SkipStep PROVE StatusIsHonest'
  BY <1>4 DEF StatusIsHonest, SetStep, Are, SkipStep
<1>5. ASSUME StartStep PROVE StatusIsHonest'
  BY <1>5 DEF StatusIsHonest, SetStep, Are, StartStep
<1>6. ASSUME CallHandler PROVE StatusIsHonest'
  BY <1>6 DEF Calling, StatusIsHonest, Are, CallHandler
<1>7. ASSUME StepSucceeds PROVE StatusIsHonest'
  BY <1>7 DEF Progress, StatusIsHonest, Terminal, StepSucceeds
<1>8. ASSUME StepFails PROVE StatusIsHonest'
  BY <1>8 DEF Progress, StatusIsHonest, Terminal, StepFails
<1>9. ASSUME LoopEnds PROVE StatusIsHonest'
  BY <1>9 DEF StatusIsHonest, Are, LoopEnds
<1>10. ASSUME Finish PROVE StatusIsHonest'
  <2>1. plan' = FinalStatus /\ UNCHANGED <<step, calls, continueOnError>>
    BY <1>10 DEF Finish
  <2>2. Are("PENDING") = {} \/ (~continueOnError /\ Are("FAILED") # {})
    <3>1. CASE cur \in Step
      <4>1. ~continueOnError /\ step[cur] = "FAILED"
        BY <1>10, <3>1 DEF Progress, Finish
      <4> QED
        BY <3>1, <4>1 DEF Are
    <3>2. CASE cur \notin Step
      <4>1. \A i \in Step : i < cur
        BY <3>2, StepCountAssumption DEF TypeOK, Step
      <4> QED
        BY <4>1 DEF Progress, Are
    <3> QED
      BY <3>1, <3>2
  <2>3. plan' = "SUCCEEDED" => \A i \in Step : step[i] = "SUCCEEDED" /\ calls[i] = 1
    BY <2>1 DEF Calling, Are, FinalStatus
  <2>4. plan' = "PARTIAL_FAILED" => Are("FAILED") # {} \/ Are("SKIPPED") # {}
    BY <2>1 DEF Progress, FinalStatus
  <2>5. plan' = "FAILED" => Are("SUCCEEDED") = {} \/ Are("RUNNING") # {}
    <3> SUFFICES ASSUME plan' = "FAILED", Are("SUCCEEDED") # {}, Are("RUNNING") = {}
                 PROVE  FALSE
      OBVIOUS
    <3>1. Are("FAILED") = {} /\ Are("SKIPPED") = {} /\ Are("SUCCEEDED") # Step
      BY <2>1 DEF FinalStatus
    <3>2. Are("PENDING") = {}
      BY <2>2, <3>1
    <3> QED
      BY <3>1, <3>2 DEF TypeOK, Are
  <2> QED
    BY <2>1, <2>2, <2>3, <2>4, <2>5 DEF StatusIsHonest, Are
<1>11. ASSUME Crash PROVE StatusIsHonest'
  BY <1>11 DEF StatusIsHonest, Are, Crash
<1>12. CASE UNCHANGED vars
  BY <1>12 DEF StatusIsHonest, Are, vars
<1>13. ASSUME HandlerReturns PROVE StatusIsHonest'
  BY <1>13 DEF StatusIsHonest, Are, HandlerReturns
<1>14. ASSUME Raises PROVE StatusIsHonest'
  BY <1>14 DEF StatusIsHonest, Are, Raises
<1>15. ASSUME Excepts PROVE StatusIsHonest'
  BY <1>15 DEF StatusIsHonest, Are, Excepts
<1>16. ASSUME CommitRaises PROVE StatusIsHonest'
  BY <1>16 DEF StatusIsHonest, Are, CommitRaises
<1> QED
  BY <1>1, <1>2, <1>3, <1>4, <1>5, <1>6, <1>7, <1>8, <1>9, <1>10, <1>11, <1>12,
     <1>13, <1>14, <1>15, <1>16
     DEF Next, Call, Run, Trouble

\* The first failure ends the loop, and only a plan left RUNNING lets execute in
\* again.
LEMMA StoppingStep ==
    ASSUME TypeOK, Progress, Stopping, [Next]_vars
    PROVE  Stopping'
<1>1. ASSUME Execute PROVE Stopping'
  BY <1>1 DEF Stopping, Are, Execute
<1>2. ASSUME ExecuteLeftover PROVE Stopping'
  BY <1>2 DEF Stopping, ExecuteLeftover
<1>3. ASSUME PassStep PROVE Stopping'
  BY <1>3 DEF Stopping, Are, PassStep
<1>4. ASSUME SkipStep PROVE Stopping'
  BY <1>4 DEF Stopping, SetStep, Are, SkipStep
<1>5. ASSUME StartStep PROVE Stopping'
  BY <1>5 DEF Stopping, SetStep, Are, StartStep
<1>6. ASSUME CallHandler PROVE Stopping'
  BY <1>6 DEF Stopping, Are, CallHandler
<1>7. ASSUME StepSucceeds PROVE Stopping'
  BY <1>7 DEF Stopping, SetStep, Are, StepSucceeds
<1>8. ASSUME StepFails PROVE Stopping'
  BY <1>8 DEF Progress, Stopping, StepFails
<1>9. ASSUME LoopEnds PROVE Stopping'
  BY <1>9 DEF Stopping, Are, LoopEnds
<1>10. ASSUME Finish PROVE Stopping'
  BY <1>10 DEF Stopping, FinalStatus, Finish
<1>11. ASSUME Crash PROVE Stopping'
  BY <1>11 DEF Stopping, Are, Crash
<1>12. CASE UNCHANGED vars
  BY <1>12 DEF Stopping, Are, vars
<1>13. ASSUME HandlerReturns PROVE Stopping'
  BY <1>13 DEF Stopping, Are, HandlerReturns
<1>14. ASSUME Raises PROVE Stopping'
  BY <1>14 DEF Stopping, Are, Raises
<1>15. ASSUME Excepts PROVE Stopping'
  BY <1>15 DEF Stopping, Are, Excepts
<1>16. ASSUME CommitRaises PROVE Stopping'
  BY <1>16 DEF Stopping, Are, CommitRaises
<1> QED
  BY <1>1, <1>2, <1>3, <1>4, <1>5, <1>6, <1>7, <1>8, <1>9, <1>10, <1>11, <1>12,
     <1>13, <1>14, <1>15, <1>16
     DEF Next, Call, Run, Trouble

\* No step of execute writes a plan that is over: a call in progress has it
\* RUNNING, and a new one refuses it.
LEMMA FinalStep ==
    ASSUME Progress, [Next]_vars
    PROVE  plan \in Terminal => plan' = plan
<1>1. ASSUME Execute PROVE plan \in Terminal => plan' = plan
  BY <1>1 DEF Terminal, Execute
<1>2. ASSUME ExecuteLeftover PROVE plan \in Terminal => plan' = plan
  BY <1>2 DEF Terminal, ExecuteLeftover
<1>3. ASSUME PassStep PROVE plan \in Terminal => plan' = plan
  BY <1>3 DEF PassStep
<1>4. ASSUME SkipStep PROVE plan \in Terminal => plan' = plan
  BY <1>4 DEF SkipStep
<1>5. ASSUME StartStep PROVE plan \in Terminal => plan' = plan
  BY <1>5 DEF StartStep
<1>6. ASSUME CallHandler PROVE plan \in Terminal => plan' = plan
  BY <1>6 DEF CallHandler
<1>7. ASSUME StepSucceeds PROVE plan \in Terminal => plan' = plan
  BY <1>7 DEF StepSucceeds
<1>8. ASSUME StepFails PROVE plan \in Terminal => plan' = plan
  BY <1>8 DEF StepFails
<1>9. ASSUME LoopEnds PROVE plan \in Terminal => plan' = plan
  BY <1>9 DEF LoopEnds
<1>10. ASSUME Finish PROVE plan \in Terminal => plan' = plan
  BY <1>10 DEF Progress, Terminal, Finish
<1>11. ASSUME Crash PROVE plan \in Terminal => plan' = plan
  BY <1>11 DEF Crash
<1>12. CASE UNCHANGED vars
  BY <1>12 DEF vars
<1>13. ASSUME HandlerReturns PROVE plan \in Terminal => plan' = plan
  BY <1>13 DEF HandlerReturns
<1>14. ASSUME Raises PROVE plan \in Terminal => plan' = plan
  BY <1>14 DEF Raises
<1>15. ASSUME Excepts PROVE plan \in Terminal => plan' = plan
  BY <1>15 DEF Progress, Terminal, Excepts
<1>16. ASSUME CommitRaises PROVE plan \in Terminal => plan' = plan
  BY <1>16 DEF CommitRaises
<1> QED
  BY <1>1, <1>2, <1>3, <1>4, <1>5, <1>6, <1>7, <1>8, <1>9, <1>10, <1>11, <1>12,
     <1>13, <1>14, <1>15, <1>16
     DEF Next, Call, Run, Trouble

\* The conjuncts together are inductive.
LEMMA IndStep == IndInv /\ [Next]_vars => IndInv'
  BY TypeStep, ProgressStep, CallingStep, HonestStep, StoppingStep DEF IndInv

\* Whenever execute is called and wherever it dies, the inductive invariant
\* holds.
THEOREM Invariance == Spec => []IndInv
<1>1. IndInv /\ [Next]_vars => IndInv'
  BY IndStep
<1> QED
  BY InitInv, <1>1, PTL DEF Spec

\* Type correctness of the plan, its steps and the call of execute.
THEOREM TypeCorrect == Spec => []TypeOK
<1>1. IndInv => TypeOK
  BY DEF IndInv
<1> QED
  BY Invariance, <1>1, PTL

\* A step that may have acted on the servers is never repeated, however often
\* execute is called after a crash.
THEOREM NeverRepeated == Spec => []CalledAtMostOnce
<1>1. IndInv => CalledAtMostOnce
  BY DEF IndInv, Calling, CalledAtMostOnce
<1> QED
  BY Invariance, <1>1, PTL

\* A handler is called only when every step it depends on has succeeded.
THEOREM InOrder == Spec => []DependenciesFirst
<1>1. IndInv => DependenciesFirst
  BY DEF IndInv, Calling, DependenciesFirst
<1> QED
  BY Invariance, <1>1, PTL

\* What execute reports agrees with what the steps did, unless its except block wrote FAILED.
THEOREM HonestStatus == Spec => []StatusIsHonest
<1>1. IndInv => StatusIsHonest
  BY DEF IndInv
<1> QED
  BY Invariance, <1>1, PTL

\* Without continue_on_error, a plan that is not taken up again has no handler
\* called after a failure.
THEOREM FailureStops == Spec => []StopsUnlessResumed
<1>1. IndInv => StopsUnlessResumed
  BY DEF IndInv, Stopping, StopsUnlessResumed
<1> QED
  BY Invariance, <1>1, PTL

\* Together: whatever crashes, the handlers are called once, in order, and stop.
THEOREM OrderlyCalls == Spec => []CallsInOrder
<1>1. CalledAtMostOnce /\ DependenciesFirst /\ StopsUnlessResumed => CallsInOrder
  BY DEF CallsInOrder
<1> QED
  BY NeverRepeated, InOrder, FailureStops, <1>1, PTL

\* execute never changes the final status of a plan.
THEOREM FinalForGood == Spec => FinalIsFinal
<1>1. IndInv /\ [Next]_vars => [(plan \in Terminal) => (plan' = plan)]_vars
  BY FinalStep DEF IndInv
<1> QED
  BY Invariance, <1>1, PTL DEF Spec, FinalIsFinal

-----------------------------------------------------------------------------
(* The rollout of a deployment *)

Failures == {"failed", "canceled"}

\* A server has a row once its coroutine passed the semaphore, while it is worked
\* on, and in the end one that tells its result; who is worked on is in the open wave.
Rows ==
    /\ \A i \in Index : result[i] = "none" /\ i \notin begun => row[i] = "none"
    /\ \A i \in Index : result[i] = "none" /\ i \in begun =>
           row[i] = "running" /\ final = "none" /\ ~aborted /\ wave <= Waves /\ WaveOf(i) = wave
    /\ \A i \in Index : result[i] # "none" =>
           \/ row[i] = IF result[i] = "ok" THEN "success" ELSE result[i]
           \/ row[i] = "none" /\ result[i] \in Failures
    /\ \A i \in Index : result[i] \in {"ok", "failed", "canceled"} => i \in begun

\* Why servers were skipped, why waves were given up, and what the waves behind left.
Causes ==
    /\ \A i \in begun : WaveOf(i) <= wave
    /\ \A i \in Index : result[i] = "skipped" => aborted /\ ~Serial
    /\ \A i \in Index : result[i] = "canceled" => flag
    /\ aborted => (flag /\ ~Serial) \/ \E i \in Index : result[i] \in Failures
    /\ Serial => \A i \in Index : i < wave => result[i] # "none"
    /\ req.failFast /\ ~aborted => \A i \in Index : WaveOf(i) < wave => result[i] = "ok"

Typed == RolloutTypeOK /\ req \in Requests
RolloutInv == Typed /\ Rows /\ Causes /\ ReportIsHonest /\ OutageIsBounded

-----------------------------------------------------------------------------
\* div on natural numbers; all that is needed of the division into waves.
LEMMA DivFacts ==
    /\ \A a \in Nat, w \in Nat \ {0} : a \div w \in Nat
    /\ \A a \in Nat : a \div 1 = a
  OBVIOUS

\* The servers are numbered from 1, there is room for one at least, and the serial path
\* has one wave per server.
LEMMA Geometry ==
    ASSUME req \in Requests
    PROVE  /\ Len(Servers) \in Nat \ {0} /\ Index = 1 .. Len(Servers)
           /\ IsFiniteSet(Index)
           /\ Parallelism \in Nat \ {0}
           /\ Serial <=> Parallelism = 1
           /\ Waves \in Nat \ {0}
           /\ \A i \in Index : WaveOf(i) \in Nat \ {0}
           /\ Serial => Waves = Len(Servers) /\ \A i \in Index : WaveOf(i) = i
<1>1. Len(Servers) \in Nat \ {0} /\ Index = 1 .. Len(Servers)
  BY RolloutAssumption DEF Index
<1>2. IsFiniteSet(Index)
  BY <1>1, FS_Interval
<1>3. Parallelism \in Nat \ {0}
  BY <1>1, RolloutAssumption DEF Requests, Parallelism
<1>4. WaveSize \in Nat \ {0} /\ (Serial => WaveSize = 1)
  BY <1>1 DEF Requests, WaveSize
<1>5. \A i \in Index : WaveOf(i) \in Nat \ {0} /\ (Serial => WaveOf(i) = i)
  <2> SUFFICES ASSUME NEW i \in Index
               PROVE  WaveOf(i) \in Nat \ {0} /\ (Serial => WaveOf(i) = i)
    OBVIOUS
  <2>1. i - 1 \in Nat
    BY <1>1
  <2> QED
    BY <2>1, <1>1, <1>4, DivFacts DEF WaveOf
<1>6. Waves \in Nat \ {0} /\ (Serial => Waves = Len(Servers))
  BY <1>1, <1>5 DEF Waves
<1> QED
  BY <1>1, <1>2, <1>3, <1>5, <1>6 DEF Serial

\* Every step leaves the request alone, and with it the waves.
LEMMA SameWaves ==
    ASSUME [RolloutNext]_rolloutVars
    PROVE  /\ req' = req
           /\ Parallelism' = Parallelism /\ Serial' = Serial /\ Waves' = Waves
           /\ \A i \in Index : WaveOf(i)' = WaveOf(i)
<1>1. req' = req
  BY DEF RolloutNext, RolloutStep, rolloutVars, StopBeforeWave, NextServer, NextWave,
     SkipRest, Finalize,
     BeginServer, RowFails, RefuseServer, EndServer, RequestCancel, Hangs
<1>2. Parallelism' = Parallelism
  BY <1>1 DEF Parallelism
<1>3. Serial' = Serial
  BY <1>2 DEF Serial
<1>4. WaveSize' = WaveSize
  BY <1>1, <1>3 DEF WaveSize
<1>5. Waves' = Waves /\ \A i \in Index : WaveOf(i)' = WaveOf(i)
  BY <1>4 DEF Waves, WaveOf
<1> QED
  BY <1>1, <1>2, <1>3, <1>5

-----------------------------------------------------------------------------
\* The request comes and no server was worked on.
LEMMA RolloutStarts ==
    ASSUME RolloutInit
    PROVE  RolloutInv
<1>1. req \in Requests
  BY DEF RolloutInit
<1>2. Typed
  <2>1. Waves \in Nat \ {0}
    BY <1>1, Geometry
  <2>2. 1 \in 1 .. (Waves + 1)
    BY <2>1
  <2> QED
    BY <1>1, <2>2 DEF Typed, RolloutTypeOK, RolloutInit
<1>3. Rows /\ Causes
  BY <1>1, Geometry DEF Rows, Causes, RolloutInit
<1>4. {i \in Index : row[i] = "running"} = {}
  BY DEF RolloutInit
<1>5. OutageIsBounded
  <2>1. Parallelism \in Nat \ {0} /\ \A i \in Index : WaveOf(i) \in Nat
    BY <1>1, Geometry
  <2>2. BoundedOutage
    BY <1>4, <2>1, FS_EmptySet DEF BoundedOutage
  <2>3. FailFastStops
    BY DEF FailFastStops, RolloutInit
  <2> QED
    BY <2>2, <2>3 DEF OutageIsBounded
<1>6. ReportIsHonest
  BY <1>2 DEF ReportIsHonest, Typed, SuccessMeansEveryServer, FailureIsHonest, RowsAgree,
     RolloutInit
<1> QED
  BY <1>2, <1>3, <1>5, <1>6 DEF RolloutInv

\* The server the semaphore admits next is of the open wave and was not touched.
LEMMA Admitted ==
    ASSUME RolloutInv, NEW h \in Index, WaveOpen, IsNext(h)
    PROVE  /\ h \notin begun /\ WaveOf(h) = wave /\ result[h] = "none" /\ row[h] = "none"
           /\ final = "none" /\ ~aborted /\ wave <= Waves
  BY DEF RolloutInv, Typed, RolloutTypeOK, Rows, Causes, WaveOpen, IsNext, Members

\* Every step keeps the types.
LEMMA RolloutTypeStep ==
    ASSUME RolloutInv, [RolloutNext]_rolloutVars
    PROVE  Typed'
<1>0. Typed /\ req \in Requests
  BY DEF RolloutInv, Typed
<1>1. ASSUME StopBeforeWave PROVE Typed'
  BY <1>0, <1>1, Geometry, SameWaves DEF Typed, RolloutTypeOK, ReadFlag, StopBeforeWave,
     WaveIdle, WaveOpen
<1>2. ASSUME NextServer PROVE Typed'
  <2>1. Waves \in Nat \ {0} /\ Waves' = Waves /\ req' = req
    BY <1>0, Geometry, SameWaves
  <2>2. aborted' \in BOOLEAN /\ final' \in {"none", "success", "failed", "partial_failed", "canceled"}
    BY <1>0, <1>2 DEF Typed, RolloutTypeOK, NextServer
  <2>3. wave' \in 1 .. (Waves + 1)
    BY <1>0, <2>1, <1>2 DEF Typed, RolloutTypeOK, NextServer, WaveEnded, WaveOpen
  <2> QED
    BY <1>0, <2>1, <2>2, <2>3, <1>2 DEF Typed, RolloutTypeOK, NextServer
<1>3. ASSUME NextWave PROVE Typed'
  BY <1>0, <1>3, Geometry, SameWaves DEF Typed, RolloutTypeOK, ReadFlag, NextWave, WaveEnded,
     WaveOpen
<1>4. ASSUME SkipRest PROVE Typed'
  BY <1>0, <1>4, Geometry, SameWaves DEF Typed, RolloutTypeOK, ReadFlag, SkipRest
<1>5. ASSUME Finalize PROVE Typed'
  BY <1>0, <1>5, Geometry, SameWaves DEF Typed, RolloutTypeOK, ReadFlag, Finalize, DeploymentStatus
<1>6. ASSUME RequestCancel \/ \E i \in Index : Hangs(i) PROVE Typed'
  BY <1>0, <1>6, Geometry, SameWaves DEF Typed, RolloutTypeOK, ReadFlag, RequestCancel, Hangs
<1>7. CASE UNCHANGED rolloutVars
  BY <1>0, <1>7, Geometry, SameWaves DEF Typed, RolloutTypeOK, ReadFlag, rolloutVars
<1>8. ASSUME NEW h \in Index, BeginServer(h) PROVE Typed'
  BY <1>0, <1>8, Geometry, SameWaves DEF Typed, RolloutTypeOK, ReadFlag, BeginServer
<1>9. ASSUME NEW h \in Index, RowFails(h) PROVE Typed'
  BY <1>0, <1>9, Geometry, SameWaves DEF Typed, RolloutTypeOK, ReadFlag, RowFails
<1>10. ASSUME NEW h \in Index, RefuseServer(h) PROVE Typed'
  BY <1>0, <1>10, Geometry, SameWaves DEF Typed, RolloutTypeOK, ReadFlag, RefuseServer
<1>11. ASSUME NEW h \in Index, EndServer(h) PROVE Typed'
  BY <1>0, <1>11, Geometry, SameWaves DEF Typed, RolloutTypeOK, ReadFlag, EndServer
<1> QED
  BY <1>1, <1>2, <1>3, <1>4, <1>5, <1>6, <1>7, <1>8, <1>9, <1>10, <1>11 DEF RolloutNext, RolloutStep

\* Beginning a server is one of three actions, and ending one writes row and result.
LEMMA RowsStep ==
    ASSUME RolloutInv, [RolloutNext]_rolloutVars
    PROVE  Rows'
<1>0. /\ Typed /\ RolloutTypeOK /\ req \in Requests /\ Rows /\ Causes
      /\ Waves \in Nat \ {0} /\ wave \in Nat /\ \A i \in Index : WaveOf(i) \in Nat \ {0}
      /\ Waves' = Waves /\ \A i \in Index : WaveOf(i)' = WaveOf(i)
  BY Geometry, SameWaves DEF RolloutInv, Typed, RolloutTypeOK
<1>1. ASSUME StopBeforeWave PROVE Rows'
  BY <1>0, <1>1 DEF Rows, StopBeforeWave, WaveIdle, WaveOpen, Members
<1>2. ASSUME NextServer PROVE Rows'
  BY <1>0, <1>2 DEF Rows, NextServer, WaveEnded, WaveOpen, Members, Ended
<1>3. ASSUME NextWave PROVE Rows'
  BY <1>0, <1>3 DEF Rows, NextWave, WaveEnded, WaveOpen, Members, Ended
<1>4. ASSUME SkipRest PROVE Rows'
  BY <1>0, <1>4 DEF RolloutTypeOK, Rows, SkipRest, Ended, Failures
<1>5. ASSUME Finalize PROVE Rows'
  BY <1>0, <1>5 DEF Rows, Finalize, Unfinished, Ended, Failures
<1>6. ASSUME RequestCancel \/ (\E i \in Index : Hangs(i)) \/ UNCHANGED rolloutVars
      PROVE  Rows'
  BY <1>0, <1>6 DEF Rows, RequestCancel, Hangs, rolloutVars
<1>7. ASSUME NEW h \in Index, WaveOpen, IsNext(h), begun' = begun \cup {h},
             UNCHANGED <<aborted, wave, final>>,
             \/ row' = [row EXCEPT ![h] = "running"] /\ result' = result
             \/ \E r \in Failures : result' = [result EXCEPT ![h] = r] /\ row' = row
      PROVE  Rows'
  <2>1. /\ h \notin begun /\ WaveOf(h) = wave /\ result[h] = "none" /\ row[h] = "none"
        /\ final = "none" /\ ~aborted /\ wave <= Waves
    BY <1>7, Admitted
  <2>2. CASE row' = [row EXCEPT ![h] = "running"] /\ result' = result
    BY <1>0, <1>7, <2>1, <2>2 DEF RolloutTypeOK, Rows, Failures
  <2>3. ASSUME NEW r \in Failures, result' = [result EXCEPT ![h] = r], row' = row PROVE Rows'
    BY <1>0, <1>7, <2>1, <2>3 DEF RolloutTypeOK, Rows, Failures
  <2> QED
    BY <1>7, <2>2, <2>3
<1>8. ASSUME NEW h \in Index, BeginServer(h) \/ RowFails(h) \/ RefuseServer(h) PROVE Rows'
  <2>1. /\ WaveOpen /\ IsNext(h) /\ begun' = begun \cup {h} /\ UNCHANGED <<aborted, wave, final>>
        /\ \/ row' = [row EXCEPT ![h] = "running"] /\ result' = result
           \/ result' = [result EXCEPT ![h] = "failed"] /\ row' = row
           \/ result' = [result EXCEPT ![h] = "canceled"] /\ row' = row
    BY <1>8 DEF BeginServer, RowFails, RefuseServer
  <2> QED
    BY <2>1, <1>7 DEF Failures
<1>9. ASSUME NEW h \in Index, EndServer(h) PROVE Rows'
  BY <1>0, <1>9 DEF RolloutTypeOK, Rows, EndServer, Ended, Failures
<1> QED
  BY <1>1, <1>2, <1>3, <1>4, <1>5, <1>6, <1>8, <1>9 DEF RolloutNext, RolloutStep

\* Nothing but a raised flag or a failure gives up waves, and a wave is left behind only
\* when all its servers ended, all well under fail_fast unless the run is given up.
LEMMA CausesStep ==
    ASSUME RolloutInv, [RolloutNext]_rolloutVars
    PROVE  Causes'
<1>0. /\ Typed /\ RolloutTypeOK /\ req \in Requests /\ Rows /\ Causes
      /\ Waves \in Nat \ {0} /\ wave \in Nat /\ \A i \in Index : WaveOf(i) \in Nat \ {0}
      /\ Serial => Waves = Len(Servers) /\ \A i \in Index : WaveOf(i) = i
      /\ Waves' = Waves /\ Serial' = Serial /\ req' = req /\ \A i \in Index : WaveOf(i)' = WaveOf(i)
      /\ Index = 1 .. Len(Servers) /\ Len(Servers) \in Nat /\ begun \subseteq Index
  BY Geometry, SameWaves DEF RolloutInv, Typed, RolloutTypeOK
<1>1. ASSUME StopBeforeWave PROVE Causes'
  BY <1>0, <1>1 DEF Causes, StopBeforeWave, WaveIdle, WaveOpen, ReadFlag
<1>2. ASSUME NextServer PROVE Causes'
  <2>1. CASE result[wave] = "canceled"
    BY <1>0, <1>2, <2>1 DEF Causes, NextServer
  <2>2. CASE result[wave] # "canceled"
    <3>1. /\ UNCHANGED <<req, flag, begun, row, result>> /\ wave' = wave + 1
          /\ aborted' = (req.failFast /\ WaveFailed) /\ Serial
          /\ \A i \in Index : WaveOf(i) = wave => result[i] # "none"
          /\ ~aborted /\ wave <= Waves
      BY <1>0, <1>2, <2>2 DEF NextServer, WaveEnded, WaveOpen, Members, Ended
    <3>2. \A i \in Index : result[i] # "skipped"
      BY <1>0, <3>1 DEF Causes
    <3>3. aborted' => \E i \in Index : result'[i] \in Failures
      BY <1>0, <3>1, <3>2 DEF RolloutTypeOK, WaveFailed, Members, Failures
    <3>4. ASSUME req.failFast, ~aborted', NEW i \in Index, WaveOf(i) < wave' PROVE result'[i] = "ok"
      <4>1. WaveOf(i) < wave \/ i \in Members
        BY <1>0, <3>1, <3>4 DEF Members
      <4>2. ~WaveFailed
        BY <3>1, <3>4
      <4> QED
        BY <1>0, <3>1, <3>2, <3>4, <4>1, <4>2 DEF Causes, WaveFailed
    <3> QED
      BY <1>0, <3>1, <3>2, <3>3, <3>4 DEF Causes
  <2> QED
    BY <2>1, <2>2
<1>3. ASSUME NextWave PROVE Causes'
  <2>1. PICK seen \in BOOLEAN : (seen => flag) /\ aborted' = (seen \/ (req.failFast /\ WaveFailed))
    BY <1>3 DEF NextWave, ReadFlag
  <2>2. /\ UNCHANGED <<req, flag, begun, row, result>> /\ wave' = wave + 1 /\ ~Serial
        /\ \A i \in Index : WaveOf(i) = wave => result[i] # "none"
        /\ ~aborted /\ wave <= Waves
    BY <1>0, <1>3 DEF NextWave, WaveEnded, WaveOpen, Members, Ended
  <2>3. \A i \in Index : result[i] # "skipped"
    BY <1>0, <2>2 DEF Causes
  <2>4. aborted' => (flag /\ ~Serial) \/ \E i \in Index : result'[i] \in Failures
    BY <1>0, <2>1, <2>2, <2>3 DEF RolloutTypeOK, WaveFailed, Members, Failures
  <2>5. ASSUME req.failFast, ~aborted', NEW i \in Index, WaveOf(i) < wave' PROVE result'[i] = "ok"
    <3>1. WaveOf(i) < wave \/ i \in Members
      BY <1>0, <2>2, <2>5 DEF Members
    <3>2. ~WaveFailed
      BY <2>1, <2>5
    <3> QED
      BY <1>0, <2>2, <2>3, <2>5, <3>1, <3>2 DEF Causes, WaveFailed
  <2> QED
    BY <1>0, <2>2, <2>3, <2>4, <2>5 DEF Causes
<1>4. ASSUME SkipRest PROVE Causes'
  BY <1>0, <1>4 DEF RolloutTypeOK, Causes, SkipRest, Ended, Failures
<1>5. ASSUME Finalize PROVE Causes'
  BY <1>0, <1>5 DEF Causes, Finalize
<1>6. ASSUME RequestCancel \/ (\E i \in Index : Hangs(i)) \/ UNCHANGED rolloutVars
      PROVE  Causes'
  <2>1. UNCHANGED <<req, aborted, wave, begun, result>> /\ (flag => flag')
    BY <1>0, <1>6 DEF RolloutTypeOK, RequestCancel, Hangs, rolloutVars
  <2> QED
    BY <1>0, <2>1 DEF Causes
<1>7. ASSUME NEW h \in Index, BeginServer(h) \/ RowFails(h) \/ RefuseServer(h) PROVE Causes'
  <2>1. /\ WaveOpen /\ IsNext(h) /\ begun' = begun \cup {h} /\ UNCHANGED <<flag, aborted, wave>>
        /\ \/ result' = result
           \/ result' = [result EXCEPT ![h] = "failed"]
           \/ result' = [result EXCEPT ![h] = "canceled"] /\ flag
    BY <1>7 DEF BeginServer, RowFails, RefuseServer, ReadFlag
  <2>2. WaveOf(h) = wave /\ result[h] = "none" /\ ~aborted
    BY <2>1, Admitted
  <2> QED
    BY <1>0, <2>1, <2>2 DEF RolloutTypeOK, Causes, Failures
<1>8. ASSUME NEW h \in Index, EndServer(h) PROVE Causes'
  <2>1. PICK r \in {"ok", "failed", "canceled"} :
             (r = "canceled" => flag) /\ result' = [result EXCEPT ![h] = r]
    BY <1>8 DEF EndServer, ReadFlag
  <2>2. UNCHANGED <<flag, aborted, wave, begun>> /\ h \in begun /\ result[h] = "none"
    BY <1>8 DEF EndServer, Ended
  <2>3. WaveOf(h) = wave /\ ~aborted
    BY <1>0, <2>2 DEF Rows
  <2> QED
    BY <1>0, <2>1, <2>2, <2>3 DEF RolloutTypeOK, Causes, Failures
<1> QED
  BY <1>1, <1>2, <1>3, <1>4, <1>5, <1>6, <1>7, <1>8 DEF RolloutNext, RolloutStep

\* A server goes out of service only through the semaphore, and into the open wave.
LEMMA OutageStep ==
    ASSUME RolloutInv, [RolloutNext]_rolloutVars
    PROVE  OutageIsBounded'
<1> DEFINE Out == {i \in Index : row[i] = "running"}
           Busy == {i \in begun : ~Ended(i)}
<1>0. /\ Typed /\ RolloutTypeOK /\ req \in Requests /\ Rows /\ Causes
      /\ Waves \in Nat \ {0} /\ wave \in Nat /\ \A i \in Index : WaveOf(i) \in Nat \ {0}
      /\ Serial => Waves = Len(Servers) /\ \A i \in Index : WaveOf(i) = i
      /\ Waves' = Waves /\ Serial' = Serial /\ req' = req /\ \A i \in Index : WaveOf(i)' = WaveOf(i)
      /\ Index = 1 .. Len(Servers) /\ Len(Servers) \in Nat /\ begun \subseteq Index
  BY Geometry, SameWaves DEF RolloutInv, Typed, RolloutTypeOK
<1>1. /\ IsFiniteSet(Index) /\ Parallelism \in Nat \ {0} /\ Parallelism' = Parallelism
      /\ Serial => Parallelism = 1
  BY <1>0, Geometry, SameWaves
<1>2. IsFiniteSet(Out) /\ Cardinality(Out) \in Nat /\ Cardinality(Out) <= Parallelism
  BY <1>1, FS_Subset, FS_CardinalityType DEF RolloutInv, OutageIsBounded, BoundedOutage
<1>3. Out = Busy
  BY <1>0 DEF RolloutTypeOK, Rows, Failures, Ended
<1>4. \A i \in Out : WaveOf(i) = wave
  BY <1>0 DEF RolloutTypeOK, Rows, Failures
<1>5. BoundedOutage'
  <2>1. CASE Out' \subseteq Out
    <3>1. Cardinality(Out') <= Cardinality(Out) /\ Cardinality(Out') \in Nat
      BY <1>2, <2>1, FS_Subset, FS_CardinalityType
    <3>2. \A i, j \in Out' : WaveOf(i)' = WaveOf(j)'
      BY <1>0, <1>4, <2>1
    <3> QED
      BY <1>1, <1>2, <3>1, <3>2 DEF BoundedOutage
  <2>2. ASSUME NEW h \in Index, BeginServer(h) PROVE BoundedOutage'
    <3>1. WaveOf(h) = wave /\ h \notin Out /\ Out' = Out \cup {h}
      BY <1>0, <2>2, Admitted DEF BeginServer, RolloutTypeOK
    <3>2. Cardinality(Out') = Cardinality(Out) + 1
      BY <1>2, <3>1, FS_AddElement
    <3>3. Cardinality(Out) < Parallelism
      <4>1. CASE Serial
        <5>1. Out = {}
          BY <1>0, <1>4, <3>1, <4>1
        <5> QED
          BY <5>1, <1>1, FS_EmptySet
      <4>2. CASE ~Serial
        BY <1>3, <2>2, <4>2 DEF BeginServer, Free
      <4> QED
        BY <4>1, <4>2
    <3>4. \A i, j \in Out' : WaveOf(i)' = WaveOf(j)'
      BY <1>0, <1>4, <3>1
    <3> QED
      BY <1>1, <1>2, <3>2, <3>3, <3>4 DEF BoundedOutage
  <2>3. ASSUME NEW h \in Index, EndServer(h) PROVE Out' \subseteq Out
    BY <1>0, <2>3 DEF EndServer, RolloutTypeOK
  <2>4. ASSUME SkipRest PROVE Out' \subseteq Out
    BY <1>0, <2>4 DEF SkipRest, RolloutTypeOK
  <2>5. ASSUME row' = row PROVE Out' \subseteq Out
    BY <2>5
  <2> QED
    BY <2>1, <2>2, <2>3, <2>4, <2>5 DEF RolloutNext, RolloutStep, rolloutVars,
       StopBeforeWave, NextServer, NextWave,
       Finalize, RowFails, RefuseServer, RequestCancel, Hangs
<1>6. FailFastStops'
  <2>0. FailFastStops
    BY DEF RolloutInv, OutageIsBounded
  <2>1. ASSUME row' = row, \A i \in Index : result[i] = "ok" => result'[i] = "ok"
        PROVE  FailFastStops'
    BY <1>0, <2>0, <2>1 DEF FailFastStops
  <2>2. ASSUME NEW h \in Index, BeginServer(h) PROVE FailFastStops'
    <3>1. WaveOf(h) = wave /\ ~aborted /\ result' = result /\ row' = [row EXCEPT ![h] = "running"]
      BY <2>2, Admitted DEF BeginServer
    <3>2. req.failFast => \A i \in Index : WaveOf(i) < wave => result[i] = "ok"
      BY <1>0, <3>1 DEF Causes
    <3> QED
      BY <1>0, <2>0, <3>1, <3>2 DEF RolloutTypeOK, FailFastStops
  <2>3. ASSUME NEW h \in Index, EndServer(h) PROVE FailFastStops'
    <3>1. row[h] = "running" /\ result[h] = "none"
      BY <1>0, <2>3 DEF EndServer, Ended, Rows
    <3>2. \E r \in {"ok", "failed", "canceled"}, s \in {"success", "failed", "canceled"} :
             result' = [result EXCEPT ![h] = r] /\ row' = [row EXCEPT ![h] = s]
      BY <2>3 DEF EndServer
    <3> QED
      BY <1>0, <2>0, <3>1, <3>2 DEF RolloutTypeOK, FailFastStops
  <2>4. ASSUME SkipRest PROVE FailFastStops'
    BY <1>0, <2>0, <2>4 DEF RolloutTypeOK, FailFastStops, SkipRest, Ended
  <2>5. ASSUME NEW h \in Index, RowFails(h) \/ RefuseServer(h) PROVE FailFastStops'
    <3>1. \A i \in Index : result[i] = "ok" => result'[i] = "ok"
      <4>1. /\ result[h] = "none"
            /\ result' = [result EXCEPT ![h] = "failed"] \/ result' = [result EXCEPT ![h] = "canceled"]
        BY <2>5, Admitted DEF RowFails, RefuseServer
      <4> QED
        BY <1>0, <4>1 DEF RolloutTypeOK
    <3> QED
      BY <2>1, <2>5, <3>1 DEF RowFails, RefuseServer
  <2> QED
    BY <2>1, <2>2, <2>3, <2>4, <2>5 DEF RolloutNext, RolloutStep, rolloutVars,
       StopBeforeWave, NextServer, NextWave,
       Finalize, RequestCancel, Hangs
<1> QED
  BY <1>5, <1>6 DEF OutageIsBounded

-----------------------------------------------------------------------------
\* Counting the servers with an outcome, as far as the status depends on it.
LEMMA CountPositive ==
    ASSUME req \in Requests, NEW r
    PROVE  Count(r) \in Nat /\ (Count(r) > 0 <=> \E i \in Index : result[i] = r)
<1> DEFINE Those == {i \in Index : result[i] = r}
<1>1. IsFiniteSet(Those) /\ Cardinality(Those) \in Nat
  BY Geometry, FS_Subset, FS_CardinalityType
<1>2. Cardinality(Those) = 0 <=> Those = {}
  BY <1>1, FS_EmptySet
<1> QED
  BY <1>1, <1>2 DEF Count

\* The status is derived when every server has ended: in the serial path all waves are
\* behind or the run is given up, in the wave path the rest was skipped.
LEMMA FinalizeIsHonest ==
    ASSUME RolloutInv, Finalize
    PROVE  SuccessMeansEveryServer' /\ FailureIsHonest' /\ RowsAgree'
<1>a. [RolloutNext]_rolloutVars
  BY DEF RolloutNext, RolloutStep
<1>0. /\ Typed /\ RolloutTypeOK /\ req \in Requests /\ Rows /\ Causes
      /\ Waves \in Nat \ {0} /\ wave \in Nat /\ \A i \in Index : WaveOf(i) \in Nat \ {0}
      /\ Serial => Waves = Len(Servers) /\ \A i \in Index : WaveOf(i) = i
      /\ Waves' = Waves /\ Serial' = Serial /\ req' = req /\ \A i \in Index : WaveOf(i)' = WaveOf(i)
      /\ Index = 1 .. Len(Servers) /\ Len(Servers) \in Nat /\ begun \subseteq Index
  BY <1>a, Geometry, SameWaves DEF RolloutInv, Typed, RolloutTypeOK
<1>1. UNCHANGED <<req, flag, aborted, wave, begun, row, result>> /\ (wave > Waves \/ aborted)
      /\ (Serial \/ \A i \in Index : result[i] # "none")
  BY <1>0 DEF Finalize, Unfinished, Ended
<1>2. PICK seen \in BOOLEAN : ReadFlag(seen) /\ final' = DeploymentStatus(seen)
  BY DEF Finalize
<1>3. /\ Count("ok") \in Nat /\ (Count("ok") > 0 <=> \E i \in Index : result[i] = "ok")
      /\ FailCount \in Nat /\ (FailCount > 0 <=> \E i \in Index : result[i] \in Failures)
  BY <1>0, CountPositive DEF FailCount, Failures
<1>4. /\ final' \in {"success", "partial_failed", "failed", "canceled"}
      /\ final' = "canceled" => flag
      /\ final' = "failed" => (req.failFast /\ FailCount > 0) \/ ~(Count("ok") > 0)
      /\ final' = "partial_failed" => Count("ok") > 0 /\ ~(FailCount = 0)
      /\ final' = "success" => \/ Serial /\ \A i \in Index : Ended(i) => result[i] = "ok"
                               \/ Count("ok") > 0 /\ FailCount = 0
  <2>1. CASE seen
    BY <1>2, <2>1 DEF DeploymentStatus, ReadFlag
  <2>2. CASE ~seen
    BY <1>2, <2>2 DEF DeploymentStatus
  <2> QED
    BY <2>1, <2>2
<1>5. final' = "success" => (flag => misread')
  BY <1>2 DEF DeploymentStatus, ReadFlag
<1>6. Causes /\ \A i \in Index : Ended(i) <=> result[i] # "none"
  BY <1>0 DEF Ended
<1>7. SuccessMeansEveryServer'
  <2> SUFFICES ASSUME final' = "success", NEW i \in Index
               PROVE  result[i] = "ok" \/ (misread' /\ result[i] \notin Failures)
    BY <1>1 DEF SuccessMeansEveryServer, Failures
  <2>1. CASE Serial /\ \A h \in Index : result[h] # "none" => result[h] = "ok"
    <3>1. ~aborted
      BY <1>6, <2>1 DEF Causes, Failures
    <3>2. i < wave
      BY <1>0, <1>1, <2>1, <3>1
    <3> QED
      BY <1>6, <2>1, <3>2 DEF Causes
  <2>2. CASE \A h \in Index : result[h] \notin Failures
    <3>1. CASE aborted
      BY <1>5, <1>6, <2>2, <3>1 DEF Causes
    <3>2. CASE ~aborted
      <4>1. result[i] # "none"
        BY <1>0, <1>1, <1>6, <3>2 DEF Causes
      <4> QED
        BY <1>0, <1>6, <2>2, <3>2, <4>1 DEF Causes, RolloutTypeOK, Failures
    <3> QED
      BY <3>1, <3>2
  <2> QED
    BY <1>3, <1>4, <1>6, <2>1, <2>2
<1>8. FailureIsHonest'
  <2>1. final' = "failed" /\ ~req.failFast => \A i \in Index : result[i] # "ok"
    BY <1>3, <1>4
  <2>2. final' = "failed" => \E i \in Index : result[i] # "ok"
    BY <1>0, <1>3, <1>4, Geometry DEF Failures
  <2>3. final' = "partial_failed" => \E i, j \in Index : result[i] = "ok" /\ result[j] # "ok"
    BY <1>3, <1>4 DEF Failures
  <2> QED
    BY <1>1, <1>4, <2>1, <2>2, <2>3 DEF FailureIsHonest
<1>9. RowsAgree'
  BY <1>0, <1>1 DEF Rows, RowsAgree, Failures
<1> QED
  BY <1>7, <1>8, <1>9

\* Before the report nothing is claimed; after it nothing is worked on any more.
LEMMA ReportStep ==
    ASSUME RolloutInv, [RolloutNext]_rolloutVars
    PROVE  ReportIsHonest'
<1>0. RolloutTypeOK' /\ Causes' /\ Typed /\ RolloutTypeOK /\ Rows /\ Causes /\ req' = req
  BY RolloutTypeStep, CausesStep, SameWaves DEF RolloutInv, Typed
<1>1. SuccessMeansEveryServer /\ FailureIsHonest /\ RowsAgree
  BY DEF RolloutInv, ReportIsHonest
<1>2. CASE Finalize
  BY <1>0, <1>2, FinalizeIsHonest DEF ReportIsHonest
<1>3. CASE UNCHANGED <<final, row, result>> /\ (misread => misread') /\ (flag => flag')
  BY <1>0, <1>1, <1>3 DEF ReportIsHonest, SuccessMeansEveryServer, FailureIsHonest, RowsAgree
<1>4. ASSUME final' = "none" PROVE ReportIsHonest'
  BY <1>0, <1>4 DEF ReportIsHonest, SuccessMeansEveryServer, FailureIsHonest, RowsAgree
<1>5. ASSUME final' = "canceled", flag, flag' = flag, UNCHANGED <<row, result>>,
             \A i \in begun \cap Members : result[i] # "none"
      PROVE  ReportIsHonest'
  <2>1. \A i \in Index : result[i] = "none" => row[i] = "none"
    BY <1>0, <1>5 DEF Rows, Members
  <2>2. RowsAgree'
    BY <1>0, <1>5, <2>1 DEF RowsAgree, Rows, Failures
  <2> QED
    BY <1>0, <1>5, <2>2 DEF ReportIsHonest, SuccessMeansEveryServer, FailureIsHonest
<1>6. ASSUME StopBeforeWave PROVE ReportIsHonest'
  BY <1>4, <1>5, <1>6 DEF StopBeforeWave, WaveIdle, WaveOpen, ReadFlag
<1>7. ASSUME NextServer PROVE ReportIsHonest'
  <2>1. CASE result[wave] = "canceled"
    <3>1. wave \in Index
      BY <1>0, <1>7, Geometry DEF Typed, RolloutTypeOK, NextServer, WaveEnded, WaveOpen
    <3> QED
      BY <1>0, <1>5, <1>7, <2>1, <3>1 DEF NextServer, WaveEnded, Ended, Causes
  <2>2. CASE result[wave] # "canceled"
    BY <1>4, <1>7, <2>2 DEF NextServer, WaveEnded, WaveOpen
  <2> QED
    BY <2>1, <2>2
<1>8. ASSUME NextWave \/ SkipRest PROVE ReportIsHonest'
  BY <1>4, <1>8 DEF NextWave, SkipRest, WaveEnded, WaveOpen
<1>9. ASSUME NEW h \in Index, BeginServer(h) \/ RowFails(h) \/ RefuseServer(h)
      PROVE  ReportIsHonest'
  BY <1>4, <1>9 DEF BeginServer, RowFails, RefuseServer, WaveOpen
<1>10. ASSUME NEW h \in Index, EndServer(h) PROVE ReportIsHonest'
  BY <1>0, <1>4, <1>10 DEF EndServer, Ended, Rows
<1>11. ASSUME RequestCancel \/ (\E i \in Index : Hangs(i)) \/ UNCHANGED rolloutVars
      PROVE  ReportIsHonest'
  BY <1>3, <1>11 DEF RequestCancel, Hangs, rolloutVars
<1> QED
  BY <1>2, <1>6, <1>7, <1>8, <1>9, <1>10, <1>11 DEF RolloutNext, RolloutStep

LEMMA RolloutKeeps ==
    ASSUME RolloutInv, [RolloutNext]_rolloutVars
    PROVE  RolloutInv'
  BY RolloutTypeStep, RowsStep, CausesStep, OutageStep, ReportStep DEF RolloutInv

-----------------------------------------------------------------------------
\* The inductive invariant holds at every moment of every rollout.
THEOREM RolloutInvariance == RolloutSpec => []RolloutInv
<1>1. RolloutInit => RolloutInv
  BY RolloutStarts
<1>2. RolloutInv /\ [RolloutNext]_rolloutVars => RolloutInv'
  BY RolloutKeeps
<1> QED
  BY <1>1, <1>2, PTL DEF RolloutSpec

\* What the run reports of the deployment is what it did on the servers, whatever the
\* list of servers, the request, and the order in which the coroutines end.
THEOREM HonestReport == RolloutSpec => []ReportIsHonest
<1>1. RolloutInv => ReportIsHonest
  BY DEF RolloutInv
<1> QED
  BY <1>1, RolloutInvariance, PTL

\* Waves, the semaphore and fail_fast bound the servers that are out of service or newly
\* broken, for any number of servers.
THEOREM BoundedOutages == RolloutSpec => []OutageIsBounded
<1>1. RolloutInv => OutageIsBounded
  BY DEF RolloutInv
<1> QED
  BY <1>1, RolloutInvariance, PTL

-----------------------------------------------------------------------------
(* The releases on one server *)

Standard == <<"deploy", "switch", "restart", "health">>

\* What a run that met no rollback has done to the link it can take back, unless its
\* switch found no previous target.
Reversible ==
    InRun /\ ~overlap =>
        /\ marred \/ was = lastGood
        /\ bare \/ \/ link = was /\ saved \in {Nothing, was}
                   \/ link = ver /\ saved = was /\ was # Nothing

\* How far such a run has come, if its recipe is the standard one.
Served ==
    at = "step" /\ ~overlap /\ steps = Standard =>
        /\ k > 1 => ver \in whole
        /\ k > 2 => link = ver
        /\ k > 3 => running = ver

ReleaseInv == LinkIsSound /\ (InRun => ver \in Version) /\ Reversible /\ Served

\* The step of the recipe a run is at.
LEMMA StepAtHand ==
    ASSUME ReleaseInv, InRun
    PROVE  /\ steps \in Seq(StepType) /\ k \in 1 .. Len(steps) /\ Len(steps) \in Nat
           /\ ver \in Version /\ ver # Nothing /\ ver # Loop
<1>1. steps \in Recipes \cup {<<>>} /\ k \in Nat \ {0} /\ k <= Len(steps)
  BY DEF ReleaseInv, LinkIsSound, ReleaseTypeOK
<1>2. steps \in Seq(StepType)
  BY <1>1, ReleaseAssumption
<1>3. Len(steps) \in Nat
  BY <1>2
<1> QED
  BY <1>1, <1>2, <1>3, ReleaseAssumption DEF ReleaseInv

\* No step leaves the types.
LEMMA ReleaseTypeStep ==
    ASSUME ReleaseInv, [ReleaseNext]_releaseVars
    PROVE  ReleaseTypeOK' /\ (InRun => ver \in Version)'
<1>0. ReleaseTypeOK /\ (InRun => ver \in Version)
  BY DEF ReleaseInv, LinkIsSound
<1>1. CASE UNCHANGED releaseVars
  BY <1>0, <1>1 DEF ReleaseTypeOK, releaseVars, server, run, reports, InRun
<1>2. ASSUME NEW v \in Version, NEW r \in Recipes, Starts(v, r)
      PROVE  ReleaseTypeOK' /\ (InRun => ver \in Version)'
  <2>1. r \in Seq(StepType) \ {<<>>}
    BY <1>2, ReleaseAssumption
  <2>2. 1 <= Len(r)
    BY <2>1
  <2>3. /\ UNCHANGED <<made, whole, link, running, told, undoable, lastGood, prior, marred>>
        /\ at' = "step" /\ ver' = v /\ steps' = r /\ k' = 1 /\ saved' = Nothing
        /\ stop' = FALSE /\ bare' = FALSE /\ was' = link /\ overlap' = FALSE
    BY <1>2 DEF Starts, server, reports
  <2>4. runs' \in 0 .. MaxRuns
    BY <1>0, <1>2, ReleaseAssumption DEF Starts, ReleaseTypeOK
  <2>5. steps' \in Recipes /\ k' \in Nat \ {0} /\ k' <= Len(steps')
    BY <1>2, <2>2, <2>3
  <2>6. made' \in [Version -> Nat] /\ whole' \subseteq Version
    BY <1>0, <2>3 DEF ReleaseTypeOK
  <2> QED
    BY <1>0, <2>3, <2>4, <2>5, <2>6 DEF ReleaseTypeOK, InRun, Target
<1>3. CASE RaisesFlag
  BY <1>0, <1>3 DEF RaisesFlag, ReleaseTypeOK, server, reports, InRun
<1>4. ASSUME InRun
      PROVE  ver \in Version /\ k \in Nat /\ k + 1 \in Nat \ {0} /\ Len(steps) \in Nat
  BY <1>4, StepAtHand
<1>5. CASE Cancels
  BY <1>0, <1>5 DEF Cancels, EndsBadly, Ends, ReleaseTypeOK, server, InRun
<1>13. ASSUME Goes \/ Fails, at = "step"
       PROVE  /\ UNCHANGED <<ver, steps, stop, runs, was, overlap>>
              /\ at' \in {"idle", "step", "undo"} /\ k' \in Nat \ {0}
              /\ at' # "idle" => k' <= Len(steps)
              /\ told' \in {"none", "success", "failed", "canceled"}
              /\ undoable' \in BOOLEAN /\ marred' \in BOOLEAN
              /\ lastGood' \in {lastGood, link'} /\ prior' \in {prior, was}
  <2>1. /\ k \in Nat \ {0} /\ k <= Len(steps) /\ Len(steps) \in Nat
        /\ told \in {"none", "success", "failed", "canceled"}
        /\ undoable \in BOOLEAN /\ marred \in BOOLEAN /\ overlap \in BOOLEAN
    BY <1>0, <1>4, <1>13 DEF ReleaseTypeOK, InRun
  <2>2. CASE at' = at
    BY <1>13, <2>1, <2>2 DEF Goes, Fails, EndsWell, Ends, reports
  <2>3. CASE Fails
    BY <1>13, <2>1, <2>3 DEF Fails, reports
  <2>4. CASE EndsWell
    <3>1. told' \in {"success", "canceled"} /\ at' = "idle"
      BY <2>4 DEF EndsWell, Ends
    <3>2. UNCHANGED <<ver, steps, k, stop, runs, was, overlap>>
      BY <2>4 DEF EndsWell, Ends
    <3>3. /\ undoable' \in BOOLEAN /\ marred' \in BOOLEAN
          /\ lastGood' \in {lastGood, link'} /\ prior' \in {prior, was}
      BY <2>1, <2>4 DEF EndsWell
    <3> QED
      BY <2>1, <3>1, <3>2, <3>3
  <2> QED
    BY <1>13, <2>2, <2>3, <2>4 DEF Goes
<1>6. CASE Deploys
  <2>1. made' \in [Version -> Nat] /\ whole' \subseteq Version
    BY <1>0, <1>4, <1>6 DEF Deploys, Written, ReleaseTypeOK, InRun, At
  <2> QED
    BY <1>0, <1>6, <1>13, <2>1 DEF Deploys, ReleaseTypeOK, InRun, At
<1>7. CASE Switches
  <2>1. link' \in Target /\ saved' \in Target /\ bare' \in BOOLEAN
    BY <1>0, <1>4, <1>7 DEF Switches, Saves, Seen, ReleaseTypeOK, InRun, At, Target
  <2> QED
    BY <1>0, <1>7, <1>13, <2>1 DEF Switches, ReleaseTypeOK, InRun, At
<1>8. CASE Restarts
  <2>1. running' \in Version \cup {Nothing}
    BY <1>0, <1>8 DEF Restarts, Loaded, ReleaseTypeOK
  <2> QED
    BY <1>0, <1>8, <1>13, <2>1 DEF Restarts, ReleaseTypeOK, InRun, At
<1>9. CASE ChecksHealth
  BY <1>0, <1>9, <1>13 DEF ChecksHealth, ReleaseTypeOK, InRun, At, server
<1>10. CASE Undoes
  <2>1. link' \in Target
    BY <1>0, <1>10 DEF Undoes, Undone, ReleaseTypeOK
  <2> QED
    BY <1>0, <1>10, <2>1 DEF Undoes, EndsBadly, Ends, ReleaseTypeOK, InRun
<1>11. CASE Dies
  BY <1>0, <1>11 DEF Dies, ReleaseTypeOK, InRun, server
<1>12. CASE RollsBack
  <2>1. link' \in Target /\ marred' \in BOOLEAN
    BY <1>0, <1>12 DEF RollsBack, ReleaseTypeOK, Target
  <2> QED
    BY <1>0, <1>12, <2>1 DEF RollsBack, ReleaseTypeOK, InRun, run
<1> QED
  BY <1>1, <1>2, <1>3, <1>5, <1>6, <1>7, <1>8, <1>9, <1>10, <1>11, <1>12 DEF ReleaseNext

\* What a run leaves linked can be taken back, and between runs the link names what the
\* last success or rollback linked.
LEMMA ReversibleStep ==
    ASSUME ReleaseInv, [ReleaseNext]_releaseVars
    PROVE  Reversible' /\ AtRestLinkIsLastGood'
<1>0. Reversible /\ AtRestLinkIsLastGood
  BY DEF ReleaseInv, LinkIsSound
<1>1. CASE UNCHANGED releaseVars
  BY <1>0, <1>1 DEF Reversible, AtRestLinkIsLastGood, releaseVars, server, run, reports, InRun
<1>2. ASSUME NEW v \in Version, NEW r \in Recipes, Starts(v, r)
      PROVE  Reversible' /\ AtRestLinkIsLastGood'
  BY <1>0, <1>2 DEF Starts, Reversible, AtRestLinkIsLastGood, server, reports, InRun
<1>3. CASE RaisesFlag
  BY <1>0, <1>3 DEF RaisesFlag, Reversible, AtRestLinkIsLastGood, server, reports, InRun
<1>4. CASE Cancels \/ Dies
  BY <1>4 DEF Cancels, Dies, EndsBadly, Ends, Reversible, AtRestLinkIsLastGood, InRun
<1>5. ASSUME Goes \/ Fails, InRun
      PROVE  /\ at' # "idle" => /\ UNCHANGED <<ver, lastGood, marred, was, overlap>>
                                /\ InRun' /\ (at' = "undo" \/ at' = at)
             /\ at' = "idle" => marred' \/ lastGood' = link'
  BY <1>5 DEF Goes, Fails, EndsWell, Ends, reports, InRun
<1>6. CASE Deploys \/ Restarts \/ ChecksHealth
  <2>1. UNCHANGED <<link, saved, bare>> /\ (Goes \/ Fails) /\ InRun
    BY <1>6 DEF Deploys, Restarts, ChecksHealth, server, At, InRun
  <2> QED
    BY <1>0, <1>5, <2>1 DEF Reversible, AtRestLinkIsLastGood, InRun
<1>7. CASE Switches
  <2>1. InRun /\ (Goes \/ Fails)
    BY <1>7 DEF Switches, At, InRun
  <2>2. ASSUME ~bare', bare \/ \/ link = was /\ saved \in {Nothing, was}
                               \/ link = ver /\ saved = was /\ was # Nothing
        PROVE  \/ link' = was /\ saved' \in {Nothing, was}
               \/ link' = ver /\ saved' = was /\ was # Nothing
    <3>1. PICK seen \in {Seen, Nothing} :
              /\ saved' = Saves(seen) /\ bare' = (bare \/ seen = Nothing \/ link = Nothing)
              /\ link' \in {link, ver}
      BY <1>7 DEF Switches
    <3>2. seen = link /\ link # Nothing /\ ~bare
      BY <2>2, <3>1 DEF Seen
    <3> QED
      BY <2>2, <3>1, <3>2 DEF Saves
  <2> QED
    BY <1>0, <1>5, <2>1, <2>2 DEF Reversible, AtRestLinkIsLastGood, InRun
<1>8. CASE Undoes
  BY <1>0, <1>8 DEF Undoes, Undone, EndsBadly, Ends, Reversible, AtRestLinkIsLastGood, InRun
<1>9. CASE RollsBack
  BY <1>9 DEF RollsBack, Reversible, AtRestLinkIsLastGood
<1> QED
  BY <1>1, <1>2, <1>3, <1>4, <1>6, <1>7, <1>8, <1>9 DEF ReleaseNext

\* A standard run deploys, links and loads its version one after the other.
LEMMA ServedStep ==
    ASSUME ReleaseInv, [ReleaseNext]_releaseVars
    PROVE  Served'
<1> SUFFICES ASSUME at' = "step", ~overlap', steps' = Standard PROVE Served'
  BY DEF Served
<1>0. Served
  BY DEF ReleaseInv
<1>1. CASE UNCHANGED releaseVars
  BY <1>0, <1>1 DEF Served, releaseVars, server, run
<1>2. ASSUME NEW v \in Version, NEW r \in Recipes, Starts(v, r) PROVE Served'
  BY <1>2 DEF Starts, Served
<1>3. CASE RaisesFlag
  BY <1>0, <1>3 DEF RaisesFlag, Served, server
<1>4. CASE Cancels \/ Dies \/ Undoes
  BY <1>4 DEF Cancels, Dies, Undoes, EndsBadly, Ends
<1>5. ASSUME Goes \/ Fails, at = "step"
      PROVE  /\ k' = k + 1 /\ UNCHANGED <<ver, steps, overlap>> /\ k \in 1 .. 4
             /\ k' > 1 /\ (k' > 2 => k > 1) /\ (k' > 3 => k > 2) /\ Standard[k] = steps[k]
  <2>1. k' = k + 1 /\ UNCHANGED <<ver, steps, overlap>>
    BY <1>5 DEF Goes, Fails, EndsWell, Ends
  <2>2. k \in 1 .. Len(Standard)
    BY <1>5, <2>1, StepAtHand DEF InRun
  <2> QED
    BY <2>1, <2>2 DEF Standard
<1>6. CASE Deploys
  <2>1. at = "step" /\ (Goes \/ Fails) /\ UNCHANGED <<link, running>>
        /\ (at' = "step" => Goes)
    BY <1>6 DEF Deploys, At, Fails
  <2>2. k = 1 /\ whole' = whole \cup {ver}
    BY <1>5, <1>6, <2>1 DEF Deploys, At, Standard, Fails
  <2> QED
    BY <1>0, <1>5, <2>1, <2>2 DEF Served
<1>7. CASE Switches
  <2>1. at = "step" /\ (Goes \/ Fails) /\ UNCHANGED <<whole, running>> /\ link' = ver
    BY <1>7 DEF Switches, At, Fails
  <2>2. k = 2
    BY <1>5, <1>7, <2>1 DEF Switches, At, Standard
  <2> QED
    BY <1>0, <1>5, <2>1, <2>2 DEF Served
<1>8. CASE Restarts
  <2>1. at = "step" /\ (Goes \/ Fails) /\ UNCHANGED <<whole, link>> /\ running' = Loaded
    BY <1>8 DEF Restarts, At, Fails
  <2>2. k = 3
    BY <1>5, <1>8, <2>1 DEF Restarts, At, Standard
  <2> QED
    BY <1>0, <1>5, <2>1, <2>2 DEF Served, Loaded
<1>9. CASE ChecksHealth
  <2>1. at = "step" /\ (Goes \/ Fails) /\ k < Len(steps)
    BY <1>9 DEF ChecksHealth, At, Fails, Goes, EndsWell, Ends
  <2>2. k = 4
    BY <1>5, <1>9, <2>1 DEF ChecksHealth, At, Standard
  <2>3. k < 4
    BY <1>5, <2>1 DEF Standard
  <2> QED
    BY <2>2, <2>3
<1>10. CASE RollsBack
  BY <1>10 DEF RollsBack
<1> QED
  BY <1>1, <1>2, <1>3, <1>4, <1>6, <1>7, <1>8, <1>9, <1>10 DEF ReleaseNext

\* Nothing runs at the start.
LEMMA ReleaseStart ==
    ASSUME ReleaseInit
    PROVE  ReleaseInv
<1>1. ReleaseTypeOK
  <2>1. made \in [Version -> Nat] /\ whole \subseteq Version
    BY ReleaseAssumption DEF ReleaseInit
  <2>2. link \in Target /\ running \in Version \cup {Nothing} /\ Nothing \in Target
    BY ReleaseAssumption DEF ReleaseInit, Target
  <2>3. /\ at = "idle" /\ steps = <<>> /\ k = 1 /\ runs = 0 /\ MaxRuns \in Nat
        /\ saved = Nothing /\ lastGood = link /\ prior = Nothing /\ was = Nothing
    BY ReleaseAssumption DEF ReleaseInit
  <2>4. /\ stop \in BOOLEAN /\ bare \in BOOLEAN /\ told = "none" /\ ver = Nothing
        /\ undoable \in BOOLEAN /\ marred \in BOOLEAN /\ overlap \in BOOLEAN
    BY DEF ReleaseInit
  <2> QED
    BY <2>1, <2>2, <2>3, <2>4 DEF ReleaseTypeOK, InRun
<1>2. at = "idle" /\ link = lastGood
  BY DEF ReleaseInit
<1> QED
  BY <1>1, <1>2 DEF ReleaseInv, LinkIsSound, AtRestLinkIsLastGood, Reversible, Served, InRun

\* The invariant of the releases is inductive.
THEOREM ReleaseInductive == ReleaseSpec => []ReleaseInv
<1>1. ReleaseInit => ReleaseInv
  BY ReleaseStart
<1>2. ReleaseInv /\ [ReleaseNext]_releaseVars => ReleaseInv'
  BY ReleaseTypeStep, ReversibleStep, ServedStep DEF ReleaseInv, LinkIsSound
<1> QED
  BY <1>1, <1>2, PTL DEF ReleaseSpec

\* Between two runs of PipelineEngine.run the link names what the last success or
\* rollback linked, but for the causes marred names, and a run of the standard recipe
\* that reports success leaves its version linked, running and healthy.
THEOREM ReleaseSound == ReleaseSpec => ReleaseIsSound
<1>1. ReleaseInv => LinkIsSound
  BY DEF ReleaseInv
<1>2. ASSUME ReleaseInv, ReleaseNext, InRun, told' = "success", ~InRun', steps = Standard
      PROVE  overlap \/ (link = ver /\ running = ver /\ ver \in Sound)
  <2>1. ~Undoes /\ ~Cancels /\ ~Dies
    BY <1>2 DEF Undoes, Cancels, Dies, EndsBadly, Ends
  <2>2. at' = "idle" /\ at # "idle"
    BY <1>2 DEF InRun
  <2>3. (Deploys \/ Switches \/ Restarts \/ ChecksHealth) /\ at = "step"
    BY <1>2, <2>1, <2>2 DEF ReleaseNext, Starts, RaisesFlag, RollsBack, run, Deploys, Switches,
                            Restarts, ChecksHealth, At
  <2>4. Goes /\ k = Len(steps)
    BY <2>2, <2>3 DEF Deploys, Switches, Restarts, ChecksHealth, Goes, Fails, InRun
  <2>5. k = 4 /\ steps[k] = "health"
    BY <1>2, <2>4 DEF Standard
  <2>6. ChecksHealth
    BY <2>3, <2>5 DEF Deploys, Switches, Restarts, At
  <2>7. Healthy
    BY <2>2, <2>6 DEF ChecksHealth, Fails
  <2> QED
    BY <1>2, <2>3, <2>5, <2>7 DEF ReleaseInv, Served, Healthy
<1>3. ReleaseInv /\ [ReleaseNext]_releaseVars =>
          [InRun /\ told' = "success" /\ ~InRun'
              /\ steps = <<"deploy", "switch", "restart", "health">>
           => overlap \/ (link = ver /\ running = ver /\ ver \in Sound)]_releaseVars
  BY <1>2 DEF Standard
<1> QED
  BY <1>1, <1>3, ReleaseInductive, PTL DEF ReleaseSpec, ReleaseIsSound, SuccessIsServed

-----------------------------------------------------------------------------
(* Blue-green updates *)

Places == {"probe", "upload", "snapshot", "update", "verify", "switch", "recheck", "rollback",
           "confirm", "over"}
Outcomes == {"none", "ok", "failed", "rolled", "warned"}
Held == [Server -> [Dir -> Update \cup {NoUpdate}]]

ServersOK ==
    /\ port \in [Server -> Dir] /\ zip \in Held /\ disk \in Held /\ live \in Held
    /\ pid \in [Server -> [Dir -> Nat]]
UpdatesOK ==
    /\ place \in [Update -> Places] /\ n \in [Update -> Nat]
    /\ \A u \in Update : n[u] \in 1 .. Len(Targets[u])
    /\ active \in [Update -> Dir] /\ before \in [Update -> Nat]
    /\ polls \in [Update -> 0 .. VERIFY_POLL_TIMES]
    /\ outcome \in [Update -> [Server -> Outcomes]]
HistoryOK ==
    /\ hurt \subseteq Server /\ shared \subseteq Server /\ drifted \subseteq Server
    /\ unsure \subseteq Update \X Server

\* An update looks three times at most, and only after its switch.
Counted ==
    \A u \in Update :
        /\ place[u] = "recheck" => polls[u] < VERIFY_POLL_TIMES
        /\ place[u] \notin {"recheck", "rollback", "confirm"} => polls[u] = 0

\* Where two updates meet is remembered.
Met ==
    \A u, o \in Update : u # o /\ Here(u) = Here(o) /\ On(u, Here(u)) /\ On(o, Here(u)) =>
        Here(u) \in shared

\* What an update has found and done on a server where it met no other.
Alone(u) ==
    LET s == Here(u)
        pids == pid[s][standby(u)]
    IN /\ place[u] \in {"upload", "snapshot", "update", "verify", "switch"} =>
              port[s] = active[u]
       /\ place[u] \in {"snapshot", "update"} /\ u \in Packaged => zip[s][standby(u)] = u
       /\ place[u] = "update" /\ before[u] # NoPid => pids = before[u]
       /\ place[u] = "verify" /\ u \in Packaged /\ before[u] # NoPid =>
              pids = before[u] \/ live[s][standby(u)] = u
       /\ place[u] \in {"switch", "recheck"} /\ u \in Packaged /\ before[u] # NoPid =>
              live[s][standby(u)] = u

BlueGreenInv ==
    /\ LiveIsSound /\ Counted /\ Met
    /\ \A u \in Update : On(u, Here(u)) /\ Here(u) \notin shared => Alone(u)

\* What an update is.
LEMMA UpdateTypes ==
    ASSUME UpdatesOK, NEW u \in Update
    PROVE  /\ Here(u) \in Server /\ standby(u) \in Dir /\ standby(u) # active[u]
           /\ active[u] \in Dir /\ Len(Targets[u]) \in Nat /\ n[u] \in 1 .. Len(Targets[u])
           /\ n[u] \in Nat
<1>1. Targets[u] \in Seq(Server) /\ n[u] \in 1 .. Len(Targets[u]) /\ active[u] \in Dir
      /\ n[u] \in Nat
  BY BlueGreenAssumption DEF UpdatesOK
<1>2. Here(u) \in Server /\ Len(Targets[u]) \in Nat
  BY <1>1 DEF Here
<1>3. standby(u) \in Dir /\ standby(u) # active[u]
  BY <1>1 DEF standby, Other, Dir
<1> QED
  BY <1>1, <1>2, <1>3

\* The types in three parts.
LEMMA TypeParts == BlueGreenTypeOK <=> ServersOK /\ UpdatesOK /\ HistoryOK
<1>1. DOMAIN After \cup {"recheck", "rollback", "confirm", "over"} = Places
  BY DEF After, Places
<1> QED
  BY <1>1 DEF BlueGreenTypeOK, ServersOK, UpdatesOK, HistoryOK, Held, Outcomes

\* Where a step leads.
LEMMA Leads ==
    ASSUME UpdatesOK, NEW u \in Update
    PROVE  /\ Probes(u) => place' = [place EXCEPT ![u] = "upload"]
           /\ Uploads(u) => place' = [place EXCEPT ![u] = "snapshot"]
           /\ Snapshots(u) => place' = [place EXCEPT ![u] = "update"]
           /\ Updates(u) => place' = [place EXCEPT ![u] = "verify"] \/ Reports(u, "failed")
           /\ Verifies(u) => place' = [place EXCEPT ![u] = "switch"]
           /\ SwitchesPort(u) => place' = [place EXCEPT ![u] = "recheck"] \/ Reports(u, "failed")
<1>1. /\ After.probe = "upload" /\ After["upload"] = "snapshot" /\ After.snapshot = "update"
      /\ After["update"] = "verify" /\ After["verify"] = "switch" /\ After["switch"] = "recheck"
  BY DEF After
<1>2. /\ Probes(u) => place' = [place EXCEPT ![u] = After.probe]
      /\ Uploads(u) => place' = [place EXCEPT ![u] = After["upload"]]
      /\ Snapshots(u) => place' = [place EXCEPT ![u] = After.snapshot]
  BY DEF Probes, Uploads, Snapshots, Enters, Proceeds
<1>3. Updates(u) => place' = [place EXCEPT ![u] = After["update"]] \/ Reports(u, "failed")
  BY DEF Updates, Enters, Proceeds
<1>4. /\ Verifies(u) => place' = [place EXCEPT ![u] = After["verify"]]
      /\ SwitchesPort(u) => place' = [place EXCEPT ![u] = After["switch"]] \/ Reports(u, "failed")
  BY DEF Verifies, SwitchesPort, Enters, Proceeds
<1> QED
  BY <1>1, <1>2, <1>3, <1>4

\* What a report leaves.
LEMMA Reported ==
    ASSUME UpdatesOK, NEW u \in Update, NEW x \in Outcomes, Reports(u, x)
    PROVE  /\ UpdatesOK'
           /\ place'[u] \in {"probe", "over"} /\ polls'[u] = 0
           /\ \A o \in Update \ {u} :
                  /\ place'[o] = place[o] /\ n'[o] = n[o] /\ active'[o] = active[o]
                  /\ before'[o] = before[o] /\ polls'[o] = polls[o]
                  /\ outcome'[o] = outcome[o]
           /\ outcome'[u][Here(u)] = x
           /\ \A s \in Server \ {Here(u)} : outcome'[u][s] = outcome[u][s]
<1>0. /\ Here(u) \in Server /\ Len(Targets[u]) \in Nat /\ n[u] \in 1 .. Len(Targets[u])
      /\ n[u] \in Nat
  BY UpdateTypes
<1>1. /\ active' \in [Update -> Dir] /\ before' \in [Update -> Nat]
      /\ polls' \in [Update -> 0 .. VERIFY_POLL_TIMES] /\ polls'[u] = 0
  BY DEF UpdatesOK, Reports, Dir, VERIFY_POLL_TIMES, NoPid
<1>2. /\ outcome' = [outcome EXCEPT ![u] = [outcome[u] EXCEPT ![Here(u)] = x]]
      /\ outcome \in [Update -> [Server -> Outcomes]] /\ outcome[u] \in [Server -> Outcomes]
  BY DEF UpdatesOK, Reports
<1>3. /\ outcome' \in [Update -> [Server -> Outcomes]] /\ outcome'[u][Here(u)] = x
      /\ \A s \in Server \ {Here(u)} : outcome'[u][s] = outcome[u][s]
      /\ \A o \in Update \ {u} : outcome'[o] = outcome[o]
  BY <1>0, <1>2
<1>4. n' = [n EXCEPT ![u] = n'[u]] /\ n'[u] \in Nat /\ n'[u] \in 1 .. Len(Targets[u])
  BY <1>0 DEF Reports, UpdatesOK
<1>5. n' \in [Update -> Nat] /\ \A o \in Update : n'[o] \in 1 .. Len(Targets[o])
  BY <1>4 DEF UpdatesOK
<1>6. /\ place' = [place EXCEPT ![u] = place'[u]] /\ place'[u] \in {"probe", "over"}
  BY DEF Reports, UpdatesOK
<1>7. place' \in [Update -> Places]
  BY <1>6 DEF UpdatesOK, Places
<1>8. \A o \in Update \ {u} :
          /\ place'[o] = place[o] /\ n'[o] = n[o] /\ active'[o] = active[o]
          /\ before'[o] = before[o] /\ polls'[o] = polls[o]
  BY <1>4, <1>6 DEF Reports, UpdatesOK
<1> QED
  BY <1>1, <1>3, <1>5, <1>6, <1>7, <1>8 DEF UpdatesOK

\* What a step changes of its update, and of the servers: nothing but here.
LEMMA StepOfUpdate ==
    ASSUME ServersOK, UpdatesOK, Counted, NEW u \in Update, UpdateStep(u)
    PROVE  /\ UpdatesOK' /\ Counted'
           /\ \A o \in Update \ {u} :
                  /\ place'[o] = place[o] /\ n'[o] = n[o] /\ active'[o] = active[o]
                  /\ before'[o] = before[o] /\ outcome'[o] = outcome[o]
           /\ place'[u] \notin {"probe", "over"} => n'[u] = n[u] /\ outcome' = outcome
<1>1. ASSUME NEW x \in {"ok", "failed", "rolled", "warned"}, Reports(u, x)
      PROVE  /\ UpdatesOK' /\ Counted' /\ place'[u] \in {"probe", "over"}
             /\ \A o \in Update \ {u} :
                    /\ place'[o] = place[o] /\ n'[o] = n[o] /\ active'[o] = active[o]
                    /\ before'[o] = before[o] /\ outcome'[o] = outcome[o]
  <2>1. x \in Outcomes
    BY DEF Outcomes
  <2> QED
    BY <1>1, <2>1, Reported DEF Counted
<1>2. ASSUME NEW where \in Places, place' = [place EXCEPT ![u] = where],
             UNCHANGED <<n, outcome>>,
             active' \in [Update -> Dir], before' \in [Update -> Nat],
             polls' \in [Update -> 0 .. VERIFY_POLL_TIMES],
             where = "recheck" => polls'[u] < VERIFY_POLL_TIMES,
             where \notin {"recheck", "rollback", "confirm"} => polls'[u] = 0,
             \A o \in Update \ {u} :
                 active'[o] = active[o] /\ before'[o] = before[o] /\ polls'[o] = polls[o]
      PROVE  /\ UpdatesOK' /\ Counted' /\ n'[u] = n[u] /\ outcome' = outcome
             /\ \A o \in Update \ {u} :
                    /\ place'[o] = place[o] /\ n'[o] = n[o] /\ active'[o] = active[o]
                    /\ before'[o] = before[o] /\ outcome'[o] = outcome[o]
  <2>1. place' \in [Update -> Places] /\ place'[u] = where
    BY <1>2 DEF UpdatesOK
  <2>2. \A o \in Update \ {u} : place'[o] = place[o]
    BY <1>2 DEF UpdatesOK
  <2>3. UpdatesOK'
    BY <1>2, <2>1 DEF UpdatesOK
  <2>4. Counted'
    BY <1>2, <2>1, <2>2 DEF Counted
  <2> QED
    BY <1>2, <2>2, <2>3, <2>4
<1>3. polls[u] \in 0 .. VERIFY_POLL_TIMES /\ VERIFY_POLL_TIMES = 3
  BY DEF UpdatesOK, VERIFY_POLL_TIMES
<1>4. /\ active \in [Update -> Dir] /\ before \in [Update -> Nat]
      /\ polls \in [Update -> 0 .. VERIFY_POLL_TIMES]
  BY DEF UpdatesOK
<1>5. place[u] \notin {"recheck", "rollback", "confirm"} => polls[u] = 0
  BY DEF Counted
<1>6. CASE Probes(u)
  <2>1. place' = [place EXCEPT ![u] = "upload"] /\ UNCHANGED <<n, outcome, before, polls>>
        /\ active' = [active EXCEPT ![u] = Probed(u)] /\ place[u] = "probe"
    BY <1>6, Leads DEF Probes, Enters
  <2>2. Probed(u) \in Dir
    BY UpdateTypes DEF Probed, ServersOK
  <2>3. "upload" \in Places
    BY DEF Places
  <2> QED
    BY <1>2, <1>3, <1>4, <1>5, <2>1, <2>2, <2>3
<1>7. CASE Uploads(u)
  <2>1. place' = [place EXCEPT ![u] = "snapshot"] /\ place[u] = "upload"
        /\ UNCHANGED <<n, outcome, active, before, polls>>
    BY <1>7, Leads DEF Uploads, Proceeds, Enters, local
  <2>2. "snapshot" \in Places
    BY DEF Places
  <2> QED
    BY <1>2, <1>3, <1>4, <1>5, <2>1, <2>2
<1>8. CASE Snapshots(u)
  <2>1. place' = [place EXCEPT ![u] = "update"] /\ place[u] = "snapshot"
        /\ UNCHANGED <<n, outcome, active, polls>>
    BY <1>8, Leads DEF Snapshots, Enters
  <2>2. PICK p \in {pid[Here(u)][standby(u)], NoPid} : before' = [before EXCEPT ![u] = p]
    BY <1>8 DEF Snapshots
  <2>3. p \in Nat /\ "update" \in Places
    BY <2>2, UpdateTypes DEF ServersOK, NoPid, Places
  <2> QED
    BY <1>2, <1>3, <1>4, <1>5, <2>1, <2>2, <2>3
<1>9. CASE Updates(u)
  <2>1. CASE Reports(u, "failed")
    BY <1>1, <2>1
  <2>2. CASE ~Reports(u, "failed")
    <3>1. place' = [place EXCEPT ![u] = "verify"] /\ place[u] = "update"
          /\ UNCHANGED <<n, outcome, active, before, polls>>
      BY <1>9, <2>2, Leads DEF Updates, Proceeds, Enters, local
    <3>2. "verify" \in Places
      BY DEF Places
    <3> QED
      BY <1>2, <1>3, <1>4, <1>5, <3>1, <3>2
  <2> QED
    BY <2>1, <2>2
<1>10. CASE Verifies(u)
  <2>1. place' = [place EXCEPT ![u] = "switch"] /\ place[u] = "verify"
        /\ UNCHANGED <<n, outcome, active, before, polls>>
    BY <1>10, Leads DEF Verifies, Proceeds, Enters, local
  <2>2. "switch" \in Places
    BY DEF Places
  <2> QED
    BY <1>2, <1>3, <1>4, <1>5, <2>1, <2>2
<1>11. CASE SwitchesPort(u)
  <2>1. CASE Reports(u, "failed")
    BY <1>1, <2>1
  <2>2. CASE ~Reports(u, "failed")
    <3>1. place' = [place EXCEPT ![u] = "recheck"] /\ place[u] = "switch"
          /\ UNCHANGED <<n, outcome, active, before, polls>>
      BY <1>11, <2>2, Leads DEF SwitchesPort, Proceeds, Enters, local
    <3>2. "recheck" \in Places
      BY DEF Places
    <3>3. polls'[u] < VERIFY_POLL_TIMES
      BY <1>3, <1>5, <3>1
    <3> QED
      BY <1>2, <1>4, <3>1, <3>2, <3>3
  <2> QED
    BY <2>1, <2>2
<1>12. CASE Rechecks(u)
  <2>1. CASE Reports(u, "ok")
    BY <1>1, <2>1
  <2>2. CASE ~Reports(u, "ok")
    <3>1. /\ polls' = [polls EXCEPT ![u] = polls[u] + 1] /\ place[u] = "recheck"
          /\ place' = [place EXCEPT ![u] = IF polls'[u] = VERIFY_POLL_TIMES THEN "rollback"
                                           ELSE "recheck"]
          /\ UNCHANGED <<n, outcome, active, before>>
      BY <1>12, <2>2 DEF Rechecks, Enters
    <3>2. polls[u] < VERIFY_POLL_TIMES
      BY <3>1 DEF Counted
    <3>3. polls' \in [Update -> 0 .. VERIFY_POLL_TIMES] /\ polls'[u] = polls[u] + 1
      BY <1>3, <1>4, <3>1, <3>2
    <3>4. "rollback" \in Places /\ "recheck" \in Places
      BY DEF Places
    <3>5. CASE polls'[u] = VERIFY_POLL_TIMES
      BY <1>2, <1>4, <3>1, <3>3, <3>4, <3>5
    <3>6. CASE polls'[u] # VERIFY_POLL_TIMES
      <4>1. polls'[u] < VERIFY_POLL_TIMES
        BY <1>3, <3>2, <3>3, <3>6
      <4> QED
        BY <1>2, <1>4, <3>1, <3>3, <3>4, <3>6, <4>1
    <3> QED
      BY <3>5, <3>6
  <2> QED
    BY <2>1, <2>2
<1>13. CASE SwitchesBack(u)
  <2>1. CASE Reports(u, "warned") \/ Reports(u, "failed")
    BY <1>1, <2>1
  <2>2. CASE ~Reports(u, "warned") /\ ~Reports(u, "failed")
    <3>1. place' = [place EXCEPT ![u] = "confirm"]
          /\ UNCHANGED <<n, outcome, active, before, polls>>
      BY <1>13, <2>2 DEF SwitchesBack, Enters, local
    <3>2. "confirm" \in Places
      BY DEF Places
    <3>3. active' = active /\ before' = before /\ polls' = polls /\ UNCHANGED <<n, outcome>>
      BY <3>1
    <3> QED
      BY <1>2, <1>4, <3>1, <3>2, <3>3
  <2> QED
    BY <2>1, <2>2
<1>14. CASE Confirms(u) \/ GivesUp(u)
  BY <1>1, <1>14 DEF Confirms, GivesUp
<1> QED
  BY <1>6, <1>7, <1>8, <1>9, <1>10, <1>11, <1>12, <1>13, <1>14 DEF UpdateStep

\* A step changes nothing of the servers but what is here, and forgets nothing.
LEMMA StepOnServers ==
    ASSUME ServersOK, UpdatesOK, HistoryOK, NEW u \in Update, UpdateStep(u)
    PROVE  /\ ServersOK' /\ HistoryOK'
           /\ \A s \in Server \ {Here(u)} :
                  /\ port'[s] = port[s] /\ zip'[s] = zip[s] /\ live'[s] = live[s]
                  /\ pid'[s] = pid[s]
           /\ place[u] # "over"
           /\ place[u] = "probe" => UNCHANGED serverVars
           /\ shared \subseteq shared' /\ drifted \subseteq drifted'
<1>1. /\ Here(u) \in Server /\ standby(u) \in Dir /\ active[u] \in Dir
      /\ NoUpdate \in Update \cup {NoUpdate} /\ u \in Update \cup {NoUpdate}
  BY UpdateTypes
<1>2. place[u] # "over" /\ (place[u] = "probe" => UNCHANGED serverVars)
  BY DEF UpdateStep, Probes, Uploads, Snapshots, Updates, Verifies, SwitchesPort, Rechecks,
         SwitchesBack, Confirms, GivesUp
<1>3. /\ port' \in [Server -> Dir] /\ \A s \in Server \ {Here(u)} : port'[s] = port[s]
  <2>1. \/ port' = port
        \/ \E d \in {standby(u), active[u]} : port' = [port EXCEPT ![Here(u)] = d]
    BY DEF UpdateStep, Probes, Uploads, Snapshots, Updates, Verifies, SwitchesPort, Rechecks,
           SwitchesBack, Confirms, GivesUp, PortUpdate, serverVars
  <2> QED
    BY <1>1, <2>1 DEF ServersOK
<1>4. /\ zip' \in Held /\ \A s \in Server \ {Here(u)} : zip'[s] = zip[s]
  <2>1. \/ zip' = zip
        \/ zip' = [zip EXCEPT ![Here(u)] = [zip[Here(u)] EXCEPT ![standby(u)] = u]]
    BY DEF UpdateStep, Probes, Uploads, Snapshots, Updates, Verifies, SwitchesPort, Rechecks,
           SwitchesBack, Confirms, GivesUp, serverVars
  <2>2. zip \in [Server -> [Dir -> Update \cup {NoUpdate}]]
    BY DEF ServersOK, Held
  <2>3. zip[Here(u)] \in [Dir -> Update \cup {NoUpdate}]
    BY <1>1, <2>2
  <2>4. [zip[Here(u)] EXCEPT ![standby(u)] = u] \in [Dir -> Update \cup {NoUpdate}]
    BY <1>1, <2>3
  <2> QED
    BY <1>1, <2>1, <2>2, <2>4 DEF Held
<1>5. CASE Updates(u)
  <2>1. /\ disk' \in Held /\ live' \in Held /\ pid' \in [Server -> [Dir -> Nat]]
        /\ \A s \in Server \ {Here(u)} : live'[s] = live[s] /\ pid'[s] = pid[s]
        /\ hurt' \subseteq Server /\ drifted' \subseteq Server /\ drifted \subseteq drifted'
    <3>1. /\ disk \in [Server -> [Dir -> Update \cup {NoUpdate}]]
          /\ live \in [Server -> [Dir -> Update \cup {NoUpdate}]]
          /\ pid \in [Server -> [Dir -> Nat]]
          /\ disk[Here(u)] \in [Dir -> Update \cup {NoUpdate}]
          /\ live[Here(u)] \in [Dir -> Update \cup {NoUpdate}]
          /\ pid[Here(u)] \in [Dir -> Nat]
          /\ zip[Here(u)][standby(u)] \in Update \cup {NoUpdate}
      BY <1>1 DEF ServersOK, Held
    <3>2. \/ disk' = disk
          \/ disk' = [disk EXCEPT ![Here(u)] =
                         [disk[Here(u)] EXCEPT ![standby(u)] = zip[Here(u)][standby(u)]]]
      BY <1>5 DEF Updates, BinUpdate
    <3>3. [disk[Here(u)] EXCEPT ![standby(u)] = zip[Here(u)][standby(u)]]
              \in [Dir -> Update \cup {NoUpdate}]
      BY <1>1, <3>1
    <3>4. disk' \in [Server -> [Dir -> Update \cup {NoUpdate}]]
      BY <1>1, <3>1, <3>2, <3>3
    <3>5. CASE live' = live /\ pid' = pid /\ UNCHANGED <<hurt, drifted>>
      BY <3>1, <3>4, <3>5 DEF Held, HistoryOK
    <3>6. ASSUME NEW d \in Dir, RestartsProcess(Here(u), d),
                 drifted' \in {drifted, drifted \cup {Here(u)}}
          PROVE  /\ disk' \in Held /\ live' \in Held /\ pid' \in [Server -> [Dir -> Nat]]
                 /\ \A s \in Server \ {Here(u)} : live'[s] = live[s] /\ pid'[s] = pid[s]
                 /\ hurt' \subseteq Server /\ drifted' \subseteq Server
                 /\ drifted \subseteq drifted'
      <4>1. disk'[Here(u)][d] \in Update \cup {NoUpdate} /\ pid[Here(u)][d] + 1 \in Nat
        BY <1>1, <3>1, <3>4, <3>6
      <4>2. /\ live' = [live EXCEPT ![Here(u)] = [live[Here(u)] EXCEPT ![d] = disk'[Here(u)][d]]]
            /\ pid' = [pid EXCEPT ![Here(u)] = [pid[Here(u)] EXCEPT ![d] = pid[Here(u)][d] + 1]]
        BY <3>6 DEF RestartsProcess
      <4>3. /\ [live[Here(u)] EXCEPT ![d] = disk'[Here(u)][d]]
                   \in [Dir -> Update \cup {NoUpdate}]
            /\ [pid[Here(u)] EXCEPT ![d] = pid[Here(u)][d] + 1] \in [Dir -> Nat]
        BY <3>1, <4>1
      <4>4. live' \in Held /\ \A s \in Server \ {Here(u)} : live'[s] = live[s]
        BY <1>1, <3>1, <4>2, <4>3 DEF Held
      <4>5. /\ pid' \in [Server -> [Dir -> Nat]]
            /\ \A s \in Server \ {Here(u)} : pid'[s] = pid[s]
        BY <1>1, <3>1, <4>2, <4>3
      <4>6. hurt' \subseteq Server
        BY <1>1, <3>6 DEF RestartsProcess, HistoryOK
      <4> QED
        BY <1>1, <3>4, <3>6, <4>4, <4>5, <4>6 DEF Held, HistoryOK
    <3>7. \/ live' = live /\ pid' = pid /\ UNCHANGED <<hurt, drifted>>
          \/ \E d \in {standby(u), active[u]} :
                /\ RestartsProcess(Here(u), d)
                /\ drifted' \in {drifted, drifted \cup {Here(u)}}
      BY <1>5 DEF Updates, BinUpdate
    <3> QED
      BY <1>1, <3>5, <3>6, <3>7
  <2> QED
    BY <1>2, <1>3, <1>4, <1>5, <2>1 DEF Updates, ServersOK, HistoryOK
<1>6. CASE ~Updates(u)
  <2>1. UNCHANGED <<disk, live, pid, hurt, drifted>>
    BY <1>6 DEF UpdateStep, Probes, Uploads, Snapshots, Verifies, SwitchesPort, Rechecks,
           SwitchesBack, Confirms, GivesUp, serverVars, history
  <2>2. \/ shared' = shared
        \/ shared' = shared \cup {s \in {Here(u)} : \E o \in Update \ {u} : On(o, s)}
    BY <1>6 DEF UpdateStep, Probes, Uploads, Snapshots, Verifies, SwitchesPort, Rechecks,
           SwitchesBack, Confirms, GivesUp, history
  <2>3. unsure' = unsure \/ unsure' = unsure \cup {<<u, Here(u)>>}
    BY <1>6 DEF UpdateStep, Probes, Uploads, Snapshots, Verifies, SwitchesPort, Rechecks,
           SwitchesBack, Confirms, GivesUp, history, Doubts
  <2>4. shared' \subseteq Server /\ shared \subseteq shared' /\ unsure' \subseteq Update \X Server
    BY <1>1, <2>2, <2>3 DEF HistoryOK
  <2> QED
    BY <1>2, <1>3, <1>4, <2>1, <2>4 DEF ServersOK, HistoryOK
<1> QED
  BY <1>5, <1>6

\* Two updates that meet are remembered.
LEMMA MetStep ==
    ASSUME ServersOK, UpdatesOK, HistoryOK, Counted, Met, NEW w \in Update, UpdateStep(w)
    PROVE  Met'
<1>1. shared \subseteq shared' /\ place[w] # "over"
  BY StepOnServers
<1>2. \A o \in Update \ {w} : place'[o] = place[o] /\ Here(o)' = Here(o)
  BY StepOfUpdate DEF Here
<1>3. place'[w] \notin {"probe", "over"} => Here(w)' = Here(w)
  BY StepOfUpdate DEF Here
<1>4. ASSUME NEW o \in Update \ {w}, Here(w)' = Here(o)', On(w, Here(w))', On(o, Here(w))'
      PROVE  Here(w)' \in shared'
  <2>1. /\ place'[w] \notin {"probe", "over"} /\ place'[o] \notin {"probe", "over"}
        /\ Here(w)' = Here(w) /\ Here(w) = Here(o) /\ On(o, Here(w))
    BY <1>2, <1>3, <1>4 DEF On
  <2>2. CASE place[w] = "probe"
    <3>1. Probes(w)
      <4>1. ~GivesUp(w)
        BY <2>1, Reported DEF GivesUp, Outcomes
      <4> QED
        BY <2>2, <4>1 DEF UpdateStep, Uploads, Snapshots, Updates, Verifies, SwitchesPort,
                          Rechecks, SwitchesBack, Confirms
    <3> QED
      BY <2>1, <3>1 DEF Probes
  <2>3. CASE place[w] # "probe"
    BY <1>1, <2>1, <2>3 DEF Met, On
  <2> QED
    BY <2>2, <2>3
<1>5. ASSUME NEW u \in Update \ {w}, NEW o \in Update \ {w}, u # o, Here(u)' = Here(o)',
             On(u, Here(u))', On(o, Here(u))'
      PROVE  Here(u)' \in shared'
  BY <1>1, <1>2, <1>5 DEF Met, On
<1>6. ASSUME NEW u \in Update, NEW o \in Update, u # o, Here(u)' = Here(o)',
             On(u, Here(u))', On(o, Here(u))'
      PROVE  Here(u)' \in shared'
  BY <1>4, <1>5, <1>6
<1> QED
  BY <1>6 DEF Met

\* What an update that meets no other found stays so, and what it did is done.
LEMMA AloneStep ==
    ASSUME ServersOK, UpdatesOK, HistoryOK, Counted, Met, NEW w \in Update, UpdateStep(w),
           NEW u \in Update, On(u, Here(u)) /\ Here(u) \notin shared => Alone(u),
           On(u, Here(u))', Here(u)' \notin shared'
    PROVE  Alone(u)'
<1>1. /\ Here(u)' = Here(u) /\ Here(u) \notin shared
      /\ place'[u] \notin {"probe", "over"}
  BY StepOfUpdate, StepOnServers DEF Here, On
<1>2. CASE u # w
  <2>1. /\ place'[u] = place[u] /\ active'[u] = active[u] /\ before'[u] = before[u]
        /\ standby(u)' = standby(u)
    BY <1>2, StepOfUpdate DEF standby
  <2>2. Alone(u) /\ On(u, Here(u))
    BY <1>1, <2>1 DEF On
  <2>3. Here(w) # Here(u) \/ place[w] = "probe"
    BY <1>1, <1>2, <2>2, StepOnServers DEF Met, On
  <2>4. /\ port'[Here(u)] = port[Here(u)] /\ zip'[Here(u)] = zip[Here(u)]
        /\ live'[Here(u)] = live[Here(u)] /\ pid'[Here(u)] = pid[Here(u)]
    BY <2>3, UpdateTypes, StepOnServers DEF serverVars
  <2> QED
    BY <1>1, <2>1, <2>2, <2>4 DEF Alone
<1>3. CASE u = w
  <2>0. /\ Here(u) \in Server /\ standby(u) \in Dir /\ active[u] \in Dir
        /\ standby(u) # active[u]
    BY UpdateTypes
  <2>1. \A x \in Outcomes : ~Reports(u, x)
    BY <1>1, Reported
  <2>2. "ok" \in Outcomes /\ "failed" \in Outcomes /\ "warned" \in Outcomes
        /\ "rolled" \in Outcomes
    BY DEF Outcomes
  <2>3. CASE Probes(u)
    <3>1. place'[u] = "upload" /\ active'[u] = port[Here(u)] /\ UNCHANGED port
      BY <2>3, Leads DEF Probes, Probed, UpdatesOK, serverVars
    <3> QED
      BY <1>1, <3>1 DEF Alone
  <2>4. CASE ~Probes(u)
    <3>1. place[u] # "probe" /\ Alone(u) /\ standby(u)' = standby(u) /\ active'[u] = active[u]
      <4>1. place[u] # "probe"
        BY <1>3, <2>1, <2>2, <2>4 DEF UpdateStep, Uploads, Snapshots, Updates, Verifies,
              SwitchesPort, Rechecks, SwitchesBack, Confirms, GivesUp
      <4>2. Alone(u)
        BY <1>1, <1>3, <4>1, StepOnServers DEF On
      <4>3. active' = active
        BY <1>3, <2>1, <2>2, <2>4 DEF UpdateStep, Uploads, Snapshots, Updates, Verifies,
              SwitchesPort, Rechecks, SwitchesBack, Confirms, GivesUp, Proceeds, local
      <4> QED
        BY <4>1, <4>2, <4>3 DEF standby
    <3>2. CASE Uploads(u)
      <4>1. /\ place'[u] = "snapshot" /\ place[u] = "upload" /\ UNCHANGED port
            /\ before'[u] = before[u]
        BY <3>2, Leads DEF Uploads, UpdatesOK, Proceeds, local
      <4>2. u \in Packaged => zip'[Here(u)][standby(u)] = u
        BY <2>0, <3>2 DEF Uploads, ServersOK, Held
      <4> QED
        BY <1>1, <3>1, <4>1, <4>2 DEF Alone
    <3>3. CASE Snapshots(u)
      <4>1. place'[u] = "update" /\ place[u] = "snapshot" /\ UNCHANGED <<port, zip, pid>>
        <5>1. place[u] = "snapshot" /\ UNCHANGED <<port, zip, pid>>
          BY <3>3 DEF Snapshots, serverVars
        <5>2. place' = [place EXCEPT ![u] = "update"]
          BY <3>3, Leads
        <5> QED
          BY <5>1, <5>2 DEF UpdatesOK
      <4>2. before'[u] \in {pid[Here(u)][standby(u)], NoPid}
        BY <3>3 DEF Snapshots, UpdatesOK
      <4> QED
        BY <1>1, <3>1, <4>1, <4>2 DEF Alone
    <3>4. CASE Updates(u)
      <4>1. /\ place'[u] = "verify" /\ place[u] = "update" /\ UNCHANGED port
            /\ before'[u] = before[u] /\ BinUpdate(u, Here(u))
        BY <2>1, <2>2, <3>4, Leads DEF Updates, UpdatesOK, Proceeds, local
      <4>2. CASE live' = live /\ pid' = pid
        BY <1>1, <3>1, <4>1, <4>2 DEF Alone
      <4>3. CASE RestartsProcess(Here(u), active[u])
        <5>1. pid'[Here(u)][standby(u)] = pid[Here(u)][standby(u)]
          BY <2>0, <4>3 DEF RestartsProcess, ServersOK
        <5> QED
          BY <1>1, <3>1, <4>1, <5>1 DEF Alone
      <4>4. CASE /\ RestartsProcess(Here(u), standby(u))
                 /\ disk' = [disk EXCEPT ![Here(u)][standby(u)] = zip[Here(u)][standby(u)]]
        <5>1. disk'[Here(u)][standby(u)] = zip[Here(u)][standby(u)]
          BY <2>0, <4>4 DEF ServersOK, Held
        <5>2. live'[Here(u)][standby(u)] = disk'[Here(u)][standby(u)]
          BY <2>0, <4>4 DEF RestartsProcess, ServersOK, Held
        <5> QED
          BY <1>1, <3>1, <4>1, <5>1, <5>2 DEF Alone
      <4> QED
        BY <4>1, <4>2, <4>3, <4>4 DEF BinUpdate
    <3>5. CASE Verifies(u)
      <4>1. /\ place'[u] = "switch" /\ place[u] = "verify" /\ UNCHANGED <<port, live, pid>>
            /\ before'[u] = before[u] /\ MayPass(u)
        BY <3>5, Leads DEF Verifies, UpdatesOK, Proceeds, local, serverVars
      <4> QED
        BY <1>1, <3>1, <4>1 DEF Alone, MayPass
    <3>6. CASE SwitchesPort(u)
      <4>1. /\ place'[u] = "recheck" /\ place[u] = "switch" /\ UNCHANGED live
            /\ before'[u] = before[u]
        BY <2>1, <2>2, <3>6, Leads DEF SwitchesPort, UpdatesOK, Proceeds, local
      <4> QED
        BY <1>1, <3>1, <4>1 DEF Alone
    <3>7. CASE Rechecks(u)
      <4>1. /\ place'[u] \in {"recheck", "rollback"} /\ place[u] = "recheck"
            /\ UNCHANGED live /\ before'[u] = before[u]
        BY <2>1, <2>2, <3>7 DEF Rechecks, UpdatesOK, Enters, serverVars
      <4> QED
        BY <1>1, <3>1, <4>1 DEF Alone
    <3>8. CASE SwitchesBack(u)
      <4>1. place'[u] = "confirm"
        BY <2>1, <2>2, <3>8 DEF SwitchesBack, UpdatesOK, Enters
      <4> QED
        BY <4>1 DEF Alone
    <3> QED
      BY <1>3, <2>1, <2>2, <2>4, <3>2, <3>3, <3>4, <3>5, <3>6, <3>7, <3>8
         DEF UpdateStep, Confirms, GivesUp
  <2> QED
    BY <2>3, <2>4
<1> QED
  BY <1>2, <1>3

\* The process that serves is restarted for the named causes only.
LEMMA HurtStep ==
    ASSUME ServersOK, UpdatesOK, HistoryOK, LiveIsLeftAlone, NEW w \in Update, UpdateStep(w),
           On(w, Here(w)) /\ Here(w) \notin shared => Alone(w)
    PROVE  LiveIsLeftAlone'
<1>1. shared \subseteq shared' /\ drifted \subseteq drifted'
  BY StepOnServers
<1>2. CASE hurt' = hurt
  BY <1>1, <1>2 DEF LiveIsLeftAlone
<1>3. CASE Updates(w) /\ hurt' # hurt
  <2>1. /\ place[w] = "update" /\ BinUpdate(w, Here(w)) /\ standby(w) # active[w]
    BY <1>3, UpdateTypes DEF Updates
  <2>2. CASE RestartsProcess(Here(w), active[w]) /\ drifted' = drifted \cup {Here(w)}
    BY <1>1, <2>2 DEF RestartsProcess, LiveIsLeftAlone
  <2>3. CASE RestartsProcess(Here(w), standby(w))
    <3>1. port[Here(w)] = standby(w) /\ hurt' = hurt \cup {Here(w)}
      BY <1>3, <2>3 DEF RestartsProcess
    <3>2. Here(w) \in shared
      BY <2>1, <3>1 DEF Alone, On
    <3> QED
      BY <1>1, <3>1, <3>2 DEF LiveIsLeftAlone
  <2> QED
    BY <1>3, <2>1, <2>2, <2>3 DEF BinUpdate
<1>4. CASE ~Updates(w)
  <2>1. hurt' = hurt
    BY <1>4 DEF UpdateStep, Probes, Uploads, Snapshots, Verifies, SwitchesPort, Rechecks,
           SwitchesBack, Confirms, GivesUp, history
  <2> QED
    BY <1>2, <2>1
<1> QED
  BY <1>2, <1>3, <1>4

\* At the start every update is about to look at its first server.
LEMMA BlueGreenStart ==
    ASSUME BlueGreenInit
    PROVE  BlueGreenInv
<1>1. ServersOK
  <2>1. /\ zip \in [Server -> [Dir -> Update \cup {NoUpdate}]] /\ disk = zip /\ live = zip
        /\ port \in [Server -> Dir] /\ pid \in [Server -> [Dir -> Nat]]
    BY DEF BlueGreenInit
  <2> QED
    BY <2>1 DEF ServersOK, Held
<1>2. UpdatesOK
  <2>1. /\ place \in [Update -> Places] /\ active \in [Update -> Dir]
        /\ before \in [Update -> Nat] /\ polls \in [Update -> 0 .. VERIFY_POLL_TIMES]
        /\ outcome \in [Update -> [Server -> Outcomes]]
    BY DEF BlueGreenInit, Places, Dir, NoPid, VERIFY_POLL_TIMES, Outcomes
  <2>2. n = [u \in Update |-> 1]
    BY DEF BlueGreenInit
  <2>3. ASSUME NEW u \in Update PROVE Len(Targets[u]) > 0 /\ Len(Targets[u]) \in Nat
    <3>1. Targets[u] \in Seq(Server)
      BY BlueGreenAssumption
    <3> QED
      BY <3>1, BlueGreenAssumption
  <2> QED
    BY <2>1, <2>2, <2>3 DEF UpdatesOK
<1>3. HistoryOK /\ LiveIsLeftAlone
  BY DEF BlueGreenInit, HistoryOK, LiveIsLeftAlone
<1>4. \A u \in Update : place[u] = "probe" /\ polls[u] = 0
  BY DEF BlueGreenInit
<1>5. Counted /\ Met /\ \A u \in Update : ~On(u, Here(u))
  BY <1>4 DEF Counted, Met, On
<1> QED
  BY <1>1, <1>2, <1>3, <1>5, TypeParts DEF BlueGreenInv, LiveIsSound

\* And no step breaks the invariant.
LEMMA BlueGreenKeep ==
    ASSUME BlueGreenInv, [BlueGreenNext]_blueGreenVars
    PROVE  BlueGreenInv'
<1>1. ServersOK /\ UpdatesOK /\ HistoryOK /\ Counted /\ Met /\ LiveIsLeftAlone
  BY TypeParts DEF BlueGreenInv, LiveIsSound
<1>2. DOMAIN After \cup {"recheck", "rollback", "confirm", "over"} = Places
  BY DEF After, Places
<1>3. ASSUME NEW w \in Update, UpdateStep(w) PROVE BlueGreenInv'
  <2>1. (ServersOK /\ UpdatesOK /\ HistoryOK)' /\ Counted'
    BY <1>1, <1>3, StepOfUpdate, StepOnServers
  <2>2. Met' /\ LiveIsLeftAlone'
    BY <1>1, <1>3, MetStep, HurtStep DEF BlueGreenInv
  <2>3. \A u \in Update : On(u, Here(u))' /\ Here(u)' \notin shared' => Alone(u)'
    BY <1>1, <1>3, AloneStep DEF BlueGreenInv
  <2>4. BlueGreenTypeOK'
    BY <1>2, <2>1 DEF BlueGreenTypeOK, ServersOK, UpdatesOK, HistoryOK, Held, Outcomes
  <2> QED
    BY <2>1, <2>2, <2>3, <2>4 DEF BlueGreenInv, LiveIsSound
<1>4. CASE UNCHANGED blueGreenVars
  <2>1. /\ UNCHANGED <<port, zip, disk, live, pid, place, n, active, before, polls, outcome>>
        /\ UNCHANGED <<hurt, shared, drifted, unsure>>
    BY <1>4 DEF blueGreenVars, serverVars, updateVars, local, history
  <2>2. (ServersOK /\ UpdatesOK /\ HistoryOK)' /\ Counted' /\ LiveIsLeftAlone'
    BY <1>1, <2>1 DEF ServersOK, UpdatesOK, HistoryOK, Counted, LiveIsLeftAlone
  <2>3. \A u \in Update : Here(u)' = Here(u) /\ standby(u)' = standby(u)
    BY <2>1 DEF Here, standby
  <2>4. Met'
    BY <1>1, <2>1, <2>3 DEF Met, On
  <2>5. \A u \in Update : On(u, Here(u))' /\ Here(u)' \notin shared' => Alone(u)'
    BY <2>1, <2>3 DEF BlueGreenInv, Alone, On
  <2>6. BlueGreenTypeOK'
    BY <1>2, <2>2 DEF BlueGreenTypeOK, ServersOK, UpdatesOK, HistoryOK, Held, Outcomes
  <2> QED
    BY <2>2, <2>4, <2>5, <2>6 DEF BlueGreenInv, LiveIsSound
<1> QED
  BY <1>3, <1>4 DEF BlueGreenNext

\* The invariant of the updates is inductive.
THEOREM BlueGreenInductive == BlueGreenSpec => []BlueGreenInv
BY BlueGreenStart, BlueGreenKeep, PTL DEF BlueGreenSpec

\* What an update reports of a server it was alone on is what the server does.
LEMMA ReportOfUpdate ==
    ASSUME BlueGreenInv, NEW w \in Update, UpdateStep(w), NEW u \in Update, NEW s \in Server,
           s \notin shared
    PROVE  /\ Told(u, s, "ok") =>
                 /\ port'[s] = standby(u)
                 /\ u \in Packaged /\ before[u] # NoPid => live[s][standby(u)] = u
           /\ Told(u, s, "failed") /\ On(u, s) /\ <<u, s>> \notin unsure' =>
                 port'[s] = active[u]
<1>1. ServersOK /\ UpdatesOK /\ HistoryOK /\ Counted
  BY TypeParts DEF BlueGreenInv, LiveIsSound
<1>2. ASSUME NEW x \in {"ok", "failed"}, Told(u, s, x)
      PROVE  u = w /\ s = Here(u) /\ Reports(u, x)
  <2>1. u = w
    BY <1>1, <1>2, StepOfUpdate DEF Told
  <2>2. outcome' # outcome
    BY <1>2 DEF Told
  <2>3. \E y \in {"ok", "failed", "warned", "rolled"} : Reports(u, y)
    BY <2>1, <2>2 DEF UpdateStep, Probes, Uploads, Snapshots, Updates, Verifies, SwitchesPort,
          Rechecks, SwitchesBack, Confirms, GivesUp, Proceeds, Enters
  <2>4. PICK y \in {"ok", "failed", "warned", "rolled"} : Reports(u, y)
    BY <2>3
  <2>5. y \in Outcomes
    BY DEF Outcomes
  <2>6. outcome'[u][Here(u)] = y /\ \A t \in Server \ {Here(u)} : outcome'[u][t] = outcome[u][t]
    BY <1>1, <2>4, <2>5, Reported
  <2> QED
    BY <1>2, <2>1, <2>4, <2>6 DEF Told
<1>3. ASSUME Told(u, s, "ok")
      PROVE  /\ port'[s] = standby(u)
             /\ u \in Packaged /\ before[u] # NoPid => live[s][standby(u)] = u
  <2>1. u = w /\ s = Here(u) /\ outcome'[u][Here(u)] = "ok"
    BY <1>2, <1>3 DEF Told
  <2>2. Rechecks(u) /\ port[Here(u)] = standby(u) /\ UNCHANGED port
    BY <1>1, <1>2, <1>3, <2>1, Reported DEF UpdateStep, Probes, Uploads, Snapshots, Updates,
       Verifies, SwitchesPort, Rechecks, SwitchesBack, Confirms, GivesUp, Proceeds, Enters,
       Outcomes, Told, serverVars
  <2>3. place[u] = "recheck"
    BY <2>2 DEF Rechecks
  <2>4. Alone(u)
    BY <2>1, <2>3 DEF BlueGreenInv, On
  <2> QED
    BY <2>1, <2>2, <2>3, <2>4 DEF Alone
<1>4. ASSUME Told(u, s, "failed"), On(u, s), <<u, s>> \notin unsure'
      PROVE  port'[s] = active[u]
  <2>1. u = w /\ s = Here(u) /\ outcome'[u][Here(u)] = "failed" /\ Reports(u, "failed")
    BY <1>2, <1>4 DEF Told
  <2>2. ~Doubts(u)
    BY <1>4, <2>1 DEF Doubts
  <2>3. \/ Updates(u)
        \/ GivesUp(u) /\ place[u] \notin {"recheck", "confirm"}
        \/ ~GivesUp(u) /\ ~Updates(u) /\ \E y \in Outcomes \ {"failed"} : Reports(u, y)
        \/ outcome' = outcome
    BY <2>1, <2>2 DEF UpdateStep, Probes, Uploads, Snapshots, Verifies, SwitchesPort, Rechecks,
       SwitchesBack, Confirms, GivesUp, Proceeds, Enters, Outcomes
  <2>4. place[u] \in {"upload", "snapshot", "update", "verify"} /\ UNCHANGED port
    <3>1. ~ \E y \in Outcomes \ {"failed"} : Reports(u, y)
      BY <1>1, <2>1, Reported
    <3>2. outcome' # outcome
      BY <1>4 DEF Told
    <3> QED
      BY <1>4, <2>3, <3>1, <3>2 DEF Updates, GivesUp, On, serverVars
  <2>5. Alone(u)
    BY <1>4, <2>1 DEF BlueGreenInv
  <2> QED
    BY <2>1, <2>4, <2>5 DEF Alone
<1> QED
  BY <1>3, <1>4

\* execute_blue_green_update restarts what serves only where two updates met or a pm2 id
\* was off; a server it reports as updated serves the other directory, whose process it
\* restarted on its package, and one it reports as failed serves as before.
THEOREM BlueGreenSound == BlueGreenSpec => BlueGreenIsSound
<1>1. BlueGreenInv => LiveIsSound
  BY DEF BlueGreenInv
<1>2. BlueGreenInv /\ [BlueGreenNext]_blueGreenVars =>
         [\A u \in Update, s \in Server : Told(u, s, "ok") /\ s \notin shared =>
              /\ port'[s] = standby(u)
              /\ u \in Packaged /\ before[u] # NoPid => live[s][standby(u)] = u]_blueGreenVars
  BY ReportOfUpdate DEF BlueGreenNext
<1>3. BlueGreenInv /\ [BlueGreenNext]_blueGreenVars =>
         [\A u \in Update, s \in Server :
              Told(u, s, "failed") /\ On(u, s) /\ s \notin shared /\ <<u, s>> \notin unsure' =>
                 port'[s] = active[u]]_blueGreenVars
  BY ReportOfUpdate DEF BlueGreenNext
<1> QED
  BY <1>1, <1>2, <1>3, BlueGreenInductive, PTL
     DEF BlueGreenSpec, BlueGreenIsSound, ReportIsTrue, SuccessServesThePackage,
         FailureLeavesThePort

-----------------------------------------------------------------------------
(* The log of a run *)

\* A sequence in order, one without repetition; numbers below others.
Rising(s) == \A i, j \in 1..Len(s) : i < j => s[i] < s[j]
Once(s) == \A i, j \in 1..Len(s) : s[i] = s[j] => i = j
Before(X, Y) == \A x \in X, y \in Y : x < y

\* The lines of the batches that are being written.
InHand == UNION {Range(held[w]) : w \in Writer}

\* Every line is in one place only, and waiting lines are in order.
OnePlace ==
    /\ Range(buffer) \cup Range(db) \cup lost \cup InHand = 1..logged
    /\ Range(buffer) \cap (Range(db) \cup lost \cup InHand) = {}
    /\ Range(db) \cap (lost \cup InHand) = {} /\ lost \cap InHand = {}
    /\ \A v, w \in Writer : v # w => Range(held[v]) \cap Range(held[w]) = {}
    /\ Once(db) /\ Rising(buffer) /\ \A w \in Writer : Rising(held[w])

\* As long as one batch was out at a time: the table, the batch, the buffer.
OneBatch ==
    ~raced =>
        /\ \A v, w \in Writer : held[v] # <<>> /\ held[w] # <<>> => v = w
        /\ Rising(db) /\ Before(Range(db), InHand) /\ Before(Range(db), Range(buffer))
        /\ Before(InHand, Range(buffer))

\* Who holds a batch is about to write it.
HoldsToWrite ==
    /\ \A t \in Thread : held[t] # <<>> => tpc[t] = "write"
    /\ \A p \in Page : held[p] # <<>> => page[p] \in {"loading", "polling"}

\* A line is published once, by the thread that logged it.
SentOnce ==
    /\ Once(sent) /\ Range(sent) \subseteq 1..logged
    /\ \A p \in Page : from[p] <= Len(sent)
    /\ \A t \in Thread : tpc[t] \in {"write", "publish"} =>
        /\ line[t] \in 1..logged /\ line[t] \notin Range(sent)
        /\ \A u \in Thread \ {t} : tpc[u] \in {"write", "publish"} => line[u] # line[t]

\* Only who missed a message, or is too old, is taken off the subscribers.
Subscribed ==
    /\ IsFiniteSet(subs)
    /\ \A t \in Thread : dead[t] \subseteq full \cup expired
    /\ \A p \in Page \ (full \cup expired) : page[p] = "open" => p \in subs

StreamInv ==
    StreamTypeOK /\ OnePlace /\ OneBatch /\ HoldsToWrite /\ SentOnce /\ Subscribed /\ NoGap

-----------------------------------------------------------------------------
\* What a sequence holds, and holds after an append, a concatenation, a tail.
LEMMA RangeOf ==
    ASSUME NEW S, NEW s \in Seq(S)
    PROVE  /\ Range(s) \subseteq S /\ \A i \in 1..Len(s) : s[i] \in Range(s)
           /\ \A x \in Range(s) : \E i \in 1..Len(s) : x = s[i]
           /\ Len(s) \in Nat /\ (s # <<>> <=> Range(s) # {}) /\ (s = <<>> <=> Len(s) = 0)
<1>1. Len(s) \in Nat /\ s \in [1..Len(s) -> S] /\ DOMAIN s = 1..Len(s)
  BY LenProperties
<1>2. s = <<>> <=> Len(s) = 0
  BY EmptySeq
<1> QED
  BY <1>1, <1>2 DEF Range

LEMMA RangeOfAppend ==
    ASSUME NEW S, NEW s \in Seq(S), NEW e \in S
    PROVE  /\ Append(s, e) \in Seq(S) /\ Len(Append(s, e)) = Len(s) + 1
           /\ Range(Append(s, e)) = Range(s) \cup {e}
           /\ \A i \in 1..Len(s) : Append(s, e)[i] = s[i]
           /\ Append(s, e)[Len(s) + 1] = e
<1>1. /\ Append(s, e) \in Seq(S) /\ Len(Append(s, e)) = Len(s) + 1
      /\ \A i \in 1..Len(s) : Append(s, e)[i] = s[i]
      /\ Append(s, e)[Len(s) + 1] = e
  BY LenProperties
<1>2. \A x \in Range(Append(s, e)) : x \in Range(s) \cup {e}
  <2> TAKE x \in Range(Append(s, e))
  <2> DEFINE u == Append(s, e)
  <2>0. u \in Seq(S) /\ Len(u) = Len(s) + 1 /\ x \in Range(u)
    BY <1>1
  <2> HIDE DEF u
  <2>3. \E i \in 1..(Len(s) + 1) : x = u[i]
    BY <2>0, RangeOf
  <2>1. PICK i \in 1..(Len(s) + 1) : x = Append(s, e)[i]
    BY <2>3 DEF u
  <2>2. i \in 1..Len(s) \/ i = Len(s) + 1
    BY <2>1, LenProperties
  <2> QED
    BY <1>1, <2>1, <2>2, RangeOf
<1>3. \A x \in Range(s) \cup {e} : x \in Range(Append(s, e))
  <2> TAKE x \in Range(s) \cup {e}
  <2>1. PICK i \in 1..(Len(s) + 1) : x = Append(s, e)[i]
    <3>1. CASE x = e
      BY <3>1, <1>1, LenProperties
    <3>2. CASE x \in Range(s)
      <4>1. PICK i \in 1..Len(s) : x = s[i]
        BY <3>2, RangeOf
      <4>2. i \in 1..(Len(s) + 1)
        BY <4>1, LenProperties
      <4> QED
        BY <1>1, <4>1, <4>2
    <3> QED
      BY <3>1, <3>2
  <2> QED
    BY <2>1, <1>1, RangeOf
<1> QED
  BY <1>1, <1>2, <1>3

LEMMA RangeOfConcat ==
    ASSUME NEW S, NEW s \in Seq(S), NEW t \in Seq(S)
    PROVE  /\ s \o t \in Seq(S) /\ Len(s \o t) = Len(s) + Len(t)
           /\ Range(s \o t) = Range(s) \cup Range(t)
           /\ \A i \in 1..(Len(s) + Len(t)) :
                 (s \o t)[i] = IF i <= Len(s) THEN s[i] ELSE t[i - Len(s)]
<1>1. /\ s \o t \in Seq(S) /\ Len(s \o t) = Len(s) + Len(t)
      /\ \A i \in 1..(Len(s) + Len(t)) :
            (s \o t)[i] = IF i <= Len(s) THEN s[i] ELSE t[i - Len(s)]
  BY ConcatProperties
<1>0. Len(s) \in Nat /\ Len(t) \in Nat
  BY LenProperties
<1>2. \A x \in Range(s \o t) : x \in Range(s) \cup Range(t)
  <2> TAKE x \in Range(s \o t)
  <2> DEFINE u == s \o t
  <2>0. u \in Seq(S) /\ Len(u) = Len(s) + Len(t) /\ x \in Range(u)
    BY <1>1
  <2> HIDE DEF u
  <2>4. \E i \in 1..(Len(s) + Len(t)) : x = u[i]
    BY <2>0, RangeOf
  <2>1. PICK i \in 1..(Len(s) + Len(t)) : x = (s \o t)[i]
    BY <2>4 DEF u
  <2>2. CASE i <= Len(s)
    BY <2>1, <2>2, <1>0, <1>1, RangeOf
  <2>3. CASE i > Len(s)
    <3>1. i - Len(s) \in 1..Len(t) /\ x = t[i - Len(s)]
      BY <2>1, <2>3, <1>0, <1>1
    <3> QED
      BY <3>1, RangeOf
  <2> QED
    BY <2>2, <2>3, <1>0
<1>3. \A x \in Range(s) : x \in Range(s \o t)
  <2> TAKE x \in Range(s)
  <2>1. PICK i \in 1..Len(s) : x = s[i]
    BY RangeOf
  <2>2. i \in 1..(Len(s) + Len(t)) /\ x = (s \o t)[i]
    BY <2>1, <1>0, <1>1
  <2> QED
    BY <2>2, <1>1, RangeOf
<1>4. \A x \in Range(t) : x \in Range(s \o t)
  <2> TAKE x \in Range(t)
  <2>1. PICK i \in 1..Len(t) : x = t[i]
    BY RangeOf
  <2>2. Len(s) + i \in 1..(Len(s) + Len(t)) /\ ~(Len(s) + i <= Len(s)) /\ Len(s) + i - Len(s) = i
    BY <2>1, <1>0
  <2>3. x = (s \o t)[Len(s) + i]
    BY <2>1, <2>2, <1>1
  <2> QED
    BY <2>2, <2>3, <1>1, RangeOf
<1> QED
  BY <1>1, <1>2, <1>3, <1>4

LEMMA RangeOfTail ==
    ASSUME NEW S, NEW s \in Seq(S), s # <<>>
    PROVE  /\ Tail(s) \in Seq(S) /\ Len(Tail(s)) = Len(s) - 1 /\ Head(s) \in S
           /\ Range(s) \subseteq Range(Tail(s)) \cup {Head(s)}
<1>1. /\ Head(s) \in S /\ Tail(s) \in Seq(S) /\ Len(Tail(s)) = Len(s) - 1
      /\ \A i \in 1..Len(Tail(s)) : Tail(s)[i] = s[i + 1]
  BY HeadTailProperties
<1>2. ASSUME NEW x \in Range(s) PROVE x \in Range(Tail(s)) \cup {Head(s)}
  <2>1. PICK i \in 1..Len(s) : x = s[i]
    BY RangeOf
  <2>2. CASE i = 1
    BY <2>1, <2>2
  <2>3. CASE i # 1
    <3>1. i - 1 \in 1..Len(Tail(s)) /\ Tail(s)[i - 1] = x
      BY <2>1, <2>3, <1>1, LenProperties
    <3> QED
      BY <3>1, <1>1, RangeOf
  <2> QED
    BY <2>2, <2>3
<1> QED
  BY <1>1, <1>2

\* Order and absence of repetition are kept by what the buffer and the table do.
LEMMA RisingAppend ==
    ASSUME NEW most \in Nat, NEW s \in Seq(1..most), Rising(s), NEW m \in Nat, m > most
    PROVE  Rising(Append(s, m))
<1>1. s \in Seq(Nat)
  BY SeqMonotonic
<1>2. \A i \in 1..Len(s) : s[i] \in 1..most
  BY ElementOfSeq
<1>3. Len(s) \in Nat
  BY LenProperties
<1>4. /\ Len(Append(s, m)) = Len(s) + 1
      /\ \A i \in 1..Len(s) : Append(s, m)[i] = s[i]
      /\ Append(s, m)[Len(s) + 1] = m
  BY <1>1, RangeOfAppend
<1>5. ASSUME NEW i \in 1..(Len(s) + 1), NEW j \in 1..(Len(s) + 1), i < j
      PROVE  Append(s, m)[i] < Append(s, m)[j]
  <2>1. i \in 1..Len(s) /\ (j \in 1..Len(s) \/ j = Len(s) + 1)
    BY <1>5, <1>3
  <2> QED
    BY <2>1, <1>5, <1>2, <1>4 DEF Rising
<1> QED
  BY <1>4, <1>5 DEF Rising

LEMMA OnceRising ==
    ASSUME NEW s \in Seq(Nat), Rising(s)
    PROVE  Once(s)
<1>1. \A i \in 1..Len(s) : s[i] \in Nat
  BY ElementOfSeq
<1>2. Len(s) \in Nat
  BY LenProperties
<1>3. ASSUME NEW i \in 1..Len(s), NEW j \in 1..Len(s), s[i] = s[j], i # j PROVE FALSE
  <2>1. i < j \/ j < i
    BY <1>3, <1>2
  <2> QED
    BY <2>1, <1>1, <1>3 DEF Rising
<1> QED
  BY <1>3 DEF Once

LEMMA OnceAppend ==
    ASSUME NEW S, NEW s \in Seq(S), Once(s), NEW e \in S, e \notin Range(s)
    PROVE  Once(Append(s, e))
<1>1. Len(s) \in Nat /\ \A i \in 1..Len(s) : s[i] # e
  BY RangeOf
<1>2. ASSUME NEW i \in 1..(Len(s) + 1), NEW j \in 1..(Len(s) + 1), Append(s, e)[i] = Append(s, e)[j]
      PROVE  i = j
  <2>1. (i \in 1..Len(s) \/ i = Len(s) + 1) /\ (j \in 1..Len(s) \/ j = Len(s) + 1)
    BY <1>1
  <2> QED
    BY <2>1, <1>1, <1>2, RangeOfAppend DEF Once
<1> QED
  BY <1>2, RangeOfAppend DEF Once

LEMMA RisingConcat ==
    ASSUME NEW s \in Seq(Nat), NEW t \in Seq(Nat), Rising(s), Rising(t), Before(Range(s), Range(t))
    PROVE  Rising(s \o t)
<1>1. Len(s) \in Nat /\ Len(t) \in Nat
  BY LenProperties
<1>2. ASSUME NEW i \in 1..(Len(s) + Len(t)), NEW j \in 1..(Len(s) + Len(t)), i < j
      PROVE  (s \o t)[i] < (s \o t)[j]
  <2>0. /\ (s \o t)[i] = IF i <= Len(s) THEN s[i] ELSE t[i - Len(s)]
        /\ (s \o t)[j] = IF j <= Len(s) THEN s[j] ELSE t[j - Len(s)]
    BY RangeOfConcat
  <2>1. CASE j <= Len(s)
    <3>1. i \in 1..Len(s) /\ j \in 1..Len(s) /\ i <= Len(s)
      BY <1>1, <1>2, <2>1
    <3> QED
      BY <3>1, <2>0, <1>2, <2>1 DEF Rising
  <2>2. CASE i <= Len(s) /\ ~(j <= Len(s))
    <3>1. i \in 1..Len(s) /\ j - Len(s) \in 1..Len(t)
      BY <1>1, <1>2, <2>2
    <3>2. s[i] \in Range(s) /\ t[j - Len(s)] \in Range(t)
      BY <3>1, RangeOf
    <3> QED
      BY <3>2, <2>0, <2>2 DEF Before
  <2>3. CASE ~(i <= Len(s))
    <3>1. /\ i - Len(s) \in 1..Len(t) /\ j - Len(s) \in 1..Len(t)
          /\ i - Len(s) < j - Len(s) /\ ~(j <= Len(s))
      BY <1>1, <1>2, <2>3
    <3> QED
      BY <3>1, <2>0, <2>3 DEF Rising
  <2> QED
    BY <2>1, <2>2, <2>3, <1>1
<1> QED
  BY <1>2, RangeOfConcat DEF Rising

LEMMA OnceConcat ==
    ASSUME NEW S, NEW s \in Seq(S), NEW t \in Seq(S), Once(s), Once(t), Range(s) \cap Range(t) = {}
    PROVE  Once(s \o t)
<1>1. Len(s) \in Nat /\ Len(t) \in Nat
  BY LenProperties
<1>2. ASSUME NEW i \in 1..(Len(s) + Len(t)), NEW j \in 1..(Len(s) + Len(t)),
             (s \o t)[i] = (s \o t)[j], i < j
      PROVE  FALSE
  <2>0. /\ (s \o t)[i] = IF i <= Len(s) THEN s[i] ELSE t[i - Len(s)]
        /\ (s \o t)[j] = IF j <= Len(s) THEN s[j] ELSE t[j - Len(s)]
    BY RangeOfConcat
  <2>1. CASE j <= Len(s)
    <3>1. i \in 1..Len(s) /\ j \in 1..Len(s) /\ i <= Len(s)
      BY <1>1, <1>2, <2>1
    <3>2. i = j
      BY <3>1, <2>0, <1>2, <2>1 DEF Once
    <3> QED
      BY <3>2, <1>2
  <2>2. CASE i <= Len(s) /\ ~(j <= Len(s))
    <3>1. i \in 1..Len(s) /\ j - Len(s) \in 1..Len(t)
      BY <1>1, <1>2, <2>2
    <3>2. s[i] \in Range(s) /\ t[j - Len(s)] \in Range(t)
      BY <3>1, RangeOf
    <3> QED
      BY <3>2, <2>0, <2>2, <1>2
  <2>3. CASE ~(i <= Len(s))
    <3>1. /\ i - Len(s) \in 1..Len(t) /\ j - Len(s) \in 1..Len(t)
          /\ i - Len(s) # j - Len(s) /\ ~(j <= Len(s))
      BY <1>1, <1>2, <2>3
    <3> QED
      BY <3>1, <2>0, <2>3, <1>2 DEF Once
  <2> QED
    BY <2>1, <2>2, <2>3, <1>1
<1>3. \A i, j \in 1..(Len(s) + Len(t)) : (s \o t)[i] = (s \o t)[j] => i = j
  <2> TAKE i, j \in 1..(Len(s) + Len(t))
  <2>1. i < j \/ j < i \/ i = j
    BY <1>1
  <2> QED
    BY <2>1, <1>2
<1>4. Len(s \o t) = Len(s) + Len(t)
  BY RangeOfConcat
<1> QED
  BY ONLY <1>3, <1>4 DEF Once

\* Without repetition the length counts the lines.
LEMMA OnceCounts ==
    ASSUME NEW S, NEW s \in Seq(S), Once(s)
    PROVE  IsFiniteSet(Range(s)) /\ Cardinality(Range(s)) = Len(s)
<1>1. Len(s) \in Nat /\ s \in [1..Len(s) -> S] /\ DOMAIN s = 1..Len(s)
  BY LenProperties
<1>2. IsFiniteSet(1..Len(s)) /\ Cardinality(1..Len(s)) = Len(s)
  BY <1>1, FS_Interval
<1>3. s \in Bijection(1..Len(s), Range(s))
  <2>1. s \in [1..Len(s) -> Range(s)]
    BY <1>1 DEF Range
  <2>2. s \in Injection(1..Len(s), Range(s))
    BY <2>1, <1>1 DEF Injection, IsInjective, Once
  <2>3. s \in Surjection(1..Len(s), Range(s))
    BY <2>1, <1>1 DEF Surjection, Range
  <2> QED
    BY <2>2, <2>3 DEF Bijection
<1> QED
  BY <1>2, <1>3, FS_Bijection DEF ExistsBijection

-----------------------------------------------------------------------------
\* The types of the lines, fact by fact.
LEMMA StreamTypes ==
    ASSUME StreamTypeOK
    PROVE  /\ logged \in Nat /\ logged <= Lines /\ Lines \in Nat
           /\ buffer \in Seq(Nat) /\ buffer \in Seq(Line) /\ db \in Seq(Nat) /\ db \in Seq(Line)
           /\ \A w \in Writer : held[w] \in Seq(Nat) /\ held[w] \in Seq(Line)
           /\ held \in [Writer -> Seq(Line)]
<1>1. Lines \in Nat /\ logged \in 0..Lines
  BY StreamAssumption DEF StreamTypeOK, BufferTypes
<1>2. Line \subseteq Nat
  BY <1>1 DEF Line
<1>3. \A s \in Seq(Line) : s \in Seq(Nat)
  BY <1>2, SeqMonotonic
<1> QED
  BY <1>1, <1>3 DEF StreamTypeOK, BufferTypes

\* The lines at hand after a writer with empty hands took a batch.
LEMMA HandWritten ==
    ASSUME NEW w \in Writer, held \in [Writer -> Seq(Line)], held[w] = <<>>, NEW rows \in Seq(Line),
           held' = [held EXCEPT ![w] = rows]
    PROVE  /\ InHand' = InHand \cup Range(rows)
           /\ \A v \in Writer : Range(held'[v]) = IF v = w THEN Range(rows) ELSE Range(held[v])
<1>1. Range(held[w]) = {}
  BY RangeOf
<1>2. \A v \in Writer : held'[v] = IF v = w THEN rows ELSE held[v]
  OBVIOUS
<1>3. InHand' = UNION {Range(held'[v]) : v \in Writer}
  BY DEF InHand
<1> QED
  BY ZenonT(20), <1>1, <1>2, <1>3 DEF InHand

\* Taking a batch, adding a line to the buffer and writing a batch keep every line in
\* one place and in order.
LEMMA TakesKeeps ==
    ASSUME StreamTypeOK, OnePlace, OneBatch,
           NEW w \in Writer, held[w] = <<>>, NEW rows \in Seq(Line), Rising(rows),
           Takes(w, rows), UNCHANGED <<db, lost>>,
           logged' \in Nat, logged' >= logged,
           Range(rows) = Range(buffer) \cup ((logged + 1)..logged')
    PROVE  OnePlace' /\ OneBatch'
<1>0. /\ held' = [held EXCEPT ![w] = rows] /\ buffer' = <<>> /\ db' = db /\ lost' = lost
      /\ raced' = (raced \/ \E v \in Writer \ {w} : held[v] # <<>>)
  BY DEF Takes
<1>1. /\ InHand' = InHand \cup Range(rows)
      /\ \A v \in Writer : Range(held'[v]) = IF v = w THEN Range(rows) ELSE Range(held[v])
  BY <1>0, StreamTypes, HandWritten
<1>2. Range(buffer') = {} /\ buffer' \in Seq(Nat)
  <2>1. <<>> \in Seq(Nat)
    BY EmptySeq
  <2> QED
    BY <2>1, <1>0, RangeOf
<1>3. \A v \in Writer : Range(held[v]) \subseteq InHand
  BY DEF InHand
<1>4. OnePlace'
  <2>1. \A x \in Range(buffer) \cup Range(db) \cup lost \cup InHand : x \in Nat /\ x <= logged
    BY StreamTypes DEF OnePlace
  <2>2. (Range(buffer) \cup Range(db) \cup lost \cup InHand) \cap ((logged + 1)..logged') = {}
    BY <2>1, StreamTypes
  <2>3. 1..logged' = (1..logged) \cup ((logged + 1)..logged')
    BY StreamTypes
  <2>4. Range(buffer') \cup Range(db') \cup lost' \cup InHand' = 1..logged'
    BY <2>3, <1>0, <1>1, <1>2 DEF OnePlace
  <2>5. Range(rows) \cap (Range(db) \cup lost \cup InHand) = {}
    BY <2>2 DEF OnePlace
  <2>6. \A v \in Writer : Rising(held'[v])
    BY <1>0, StreamTypes DEF OnePlace
  <2>7. Rising(buffer')
    BY <1>0 DEF Rising
  <2>8. \A u, v \in Writer : u # v => Range(held'[u]) \cap Range(held'[v]) = {}
    BY <2>5, <1>1, <1>3 DEF OnePlace
  <2> QED
    BY <2>4, <2>5, <2>6, <2>7, <2>8, <1>0, <1>1, <1>2 DEF OnePlace
<1>5. OneBatch'
  <2> SUFFICES ASSUME ~raced'
               PROVE /\ \A u, v \in Writer : held'[u] # <<>> /\ held'[v] # <<>> => u = v
                     /\ Rising(db') /\ Before(Range(db'), InHand')
                     /\ Before(Range(db'), Range(buffer')) /\ Before(InHand', Range(buffer'))
    BY DEF OneBatch
  <2>1. ~raced /\ \A v \in Writer : held[v] = <<>>
    BY <1>0
  <2>2. InHand = {}
    <3>1. \A v \in Writer : Range(held[v]) = {}
      BY <2>1, RangeOf, StreamTypes
    <3> QED
      BY <3>1 DEF InHand
  <2>3. \A x \in Range(db), y \in (logged + 1)..logged' : x < y
    BY StreamTypes DEF OnePlace
  <2>4. Before(Range(db'), InHand')
    BY <2>1, <2>2, <2>3, <1>0, <1>1 DEF Before, OneBatch
  <2> QED
    BY <2>1, <2>4, <1>0, <1>2, StreamTypes DEF Before, OneBatch
<1> QED
  BY <1>4, <1>5

LEMMA WaitsKeeps ==
    ASSUME StreamTypeOK, OnePlace, OneBatch, logged < Lines,
           logged' = logged + 1, buffer' = Append(buffer, logged'),
           UNCHANGED <<held, raced, db, lost>>
    PROVE  OnePlace' /\ OneBatch'
<1>1. /\ logged + 1 \in Nat /\ buffer \in Seq(Nat) /\ logged \in Nat
      /\ \A w \in Writer : held[w] \in Seq(Line)
  BY StreamTypes
<1>2. Range(buffer') = Range(buffer) \cup {logged + 1}
  BY <1>1, RangeOfAppend
<1>3. buffer \in Seq(1..logged)
  <2>1. \A i \in 1..Len(buffer) : buffer[i] \in 1..logged
    BY <1>1, RangeOf DEF OnePlace
  <2>2. Len(buffer) \in Nat /\ buffer \in [1..Len(buffer) -> 1..logged]
    BY <2>1, <1>1, LenProperties
  <2> QED
    BY <2>2, SeqDef
<1>4. Rising(buffer')
  BY <1>1, <1>3, RisingAppend DEF OnePlace
<1>5. InHand' = InHand
  BY DEF InHand
<1>6. OnePlace'
  <2>1. 1..logged' = 1..logged \cup {logged + 1} /\ logged + 1 \notin 1..logged
    BY <1>1
  <2>2. \A x \in Range(buffer) \cup Range(db) \cup lost \cup InHand : x # logged + 1
    BY <1>1 DEF OnePlace
  <2>3. Range(buffer') \cup Range(db') \cup lost' \cup InHand' = 1..logged'
    BY <2>1, <1>2, <1>5 DEF OnePlace
  <2>4. Range(buffer') \cap (Range(db') \cup lost' \cup InHand') = {}
    BY <2>2, <1>2, <1>5 DEF OnePlace
  <2>5. /\ \A v, w \in Writer : v # w => Range(held'[v]) \cap Range(held'[w]) = {}
        /\ Once(db') /\ \A w \in Writer : Rising(held'[w])
    BY DEF OnePlace
  <2> QED
    BY <2>3, <2>4, <2>5, <1>4, <1>5 DEF OnePlace
<1>7. OneBatch'
  <2>1. \A x \in Range(db) \cup InHand : x < logged + 1
    BY <1>1 DEF OnePlace
  <2> QED
    BY <2>1, <1>2, <1>5 DEF OneBatch, Before
<1> QED
  BY <1>6, <1>7

LEMMA WritesKeeps ==
    ASSUME StreamTypeOK, OnePlace, OneBatch, NEW w \in Writer, Writes(w)
    PROVE  OnePlace' /\ OneBatch'
<1>0. /\ held[w] # <<>> /\ held' = [held EXCEPT ![w] = <<>>]
      /\ logged' = logged /\ buffer' = buffer /\ raced' = raced
      /\ \/ db' = db \o held[w] /\ lost' = lost
         \/ db' = db /\ lost' = lost \cup Range(held[w])
  BY DEF Writes
<1>1. /\ db \in Seq(Nat) /\ held[w] \in Seq(Nat) /\ buffer \in Seq(Nat)
      /\ \A v \in Writer : held[v] \in Seq(Nat)
      /\ held \in [Writer -> Seq(Line)]
  BY StreamTypes
<1>2. Range(<<>>) = {} /\ Rising(<<>>)
  <2>1. <<>> \in Seq(Nat) /\ Len(<<>>) = 0
    BY EmptySeq
  <2> QED
    BY <2>1, RangeOf DEF Rising
<1>3. \A v \in Writer : held'[v] = IF v = w THEN <<>> ELSE held[v]
  BY <1>0, <1>1
<1>4. InHand' = InHand \ Range(held[w])
  <2>1. \A v \in Writer : Range(held'[v]) = IF v = w THEN {} ELSE Range(held[v])
    BY <1>2, <1>3
  <2>2. InHand' = UNION {Range(held'[v]) : v \in Writer}
    BY DEF InHand
  <2>3. \A v \in Writer : v # w => Range(held[v]) \cap Range(held[w]) = {}
    BY DEF OnePlace
  <2>4. ASSUME NEW x \in InHand' PROVE x \in InHand /\ x \notin Range(held[w])
    <3>1. PICK v \in Writer : x \in Range(held'[v])
      BY <2>2
    <3> QED
      BY <3>1, <2>1, <2>3 DEF InHand
  <2>5. ASSUME NEW x \in InHand, x \notin Range(held[w]) PROVE x \in InHand'
    <3>1. PICK v \in Writer : x \in Range(held[v])
      BY DEF InHand
    <3> QED
      BY <3>1, <2>1, <2>2, <2>5
  <2> QED
    BY <2>4, <2>5
<1>5. Range(held[w]) \subseteq InHand
  BY DEF InHand
<1>6. /\ \A u, v \in Writer : u # v => Range(held'[u]) \cap Range(held'[v]) = {}
      /\ \A v \in Writer : Rising(held'[v])
  BY <1>2, <1>3 DEF OnePlace
<1>7. ~raced => \A v \in Writer : held'[v] = <<>>
  BY <1>0, <1>3 DEF OneBatch
<1>8. ~raced => InHand' = {}
  <2>1. ASSUME ~raced PROVE \A v \in Writer : Range(held'[v]) = {}
    BY <2>1, <1>2, <1>7
  <2> QED
    BY <2>1 DEF InHand
<1>9. CASE db' = db \o held[w] /\ lost' = lost
  <2>1. Range(db') = Range(db) \cup Range(held[w])
    BY <1>9, <1>1, RangeOfConcat
  <2>2. Once(held[w]) /\ Range(db) \cap Range(held[w]) = {}
    BY <1>1, <1>5, OnceRising DEF OnePlace
  <2>3. Once(db')
    BY <2>2, <1>9, <1>1, OnceConcat DEF OnePlace
  <2>4. OnePlace'
    <3>1. Range(buffer') \cup Range(db') \cup lost' \cup InHand' = 1..logged'
      BY <2>1, <1>0, <1>4, <1>5, <1>9 DEF OnePlace
    <3>2. /\ Range(buffer') \cap (Range(db') \cup lost' \cup InHand') = {}
          /\ Range(db') \cap (lost' \cup InHand') = {} /\ lost' \cap InHand' = {}
      BY <2>1, <1>0, <1>4, <1>5, <1>9 DEF OnePlace
    <3> QED
      BY <3>1, <3>2, <2>3, <1>0, <1>6 DEF OnePlace
  <2>5. ASSUME ~raced PROVE Rising(db') /\ Before(Range(db'), Range(buffer))
    <3>1. Rising(db) /\ Rising(held[w]) /\ Before(Range(db), Range(held[w]))
      BY <2>5, <1>5 DEF OneBatch, OnePlace, Before
    <3> QED
      BY <3>1, <2>5, <2>1, <1>1, <1>5, <1>9, RisingConcat DEF OneBatch, Before
  <2>6. OneBatch'
    BY <2>5, <1>0, <1>7, <1>8 DEF OneBatch, Before
  <2> QED
    BY <2>4, <2>6
<1>10. CASE db' = db /\ lost' = lost \cup Range(held[w])
  <2>1. Range(buffer') \cup Range(db') \cup lost' \cup InHand' = 1..logged'
    BY <1>0, <1>4, <1>5, <1>10 DEF OnePlace
  <2>2. /\ Range(buffer') \cap (Range(db') \cup lost' \cup InHand') = {}
        /\ Range(db') \cap (lost' \cup InHand') = {} /\ lost' \cap InHand' = {}
    BY <1>0, <1>4, <1>5, <1>10 DEF OnePlace
  <2>3. OnePlace'
    BY <2>1, <2>2, <1>0, <1>6, <1>10 DEF OnePlace
  <2>4. OneBatch'
    BY <1>0, <1>7, <1>8, <1>10 DEF OneBatch, Before
  <2> QED
    BY <2>3, <2>4
<1> QED
  BY <1>0, <1>9, <1>10

\* Where a line is, and in which order, whatever step is taken.
LEMMA PlaceStep ==
    ASSUME StreamInv, [StreamNext]_streamVars
    PROVE  OnePlace' /\ OneBatch'
<1>0. StreamTypeOK /\ OnePlace /\ OneBatch /\ HoldsToWrite
  BY DEF StreamInv
<1>1. ASSUME NEW t \in Thread, Logs(t) PROVE OnePlace' /\ OneBatch'
  <2> DEFINE rows == Append(buffer, logged')
  <2>1. /\ tpc[t] = "idle" /\ logged < Lines /\ logged' = logged + 1 /\ UNCHANGED <<db, lost>>
        /\ Takes(t, rows) \/ (buffer' = rows /\ UNCHANGED <<held, raced>>)
    BY <1>1 DEF Logs
  <2>2. CASE Takes(t, rows)
    <3>1. held[t] = <<>> /\ t \in Writer
      BY <1>0, <2>1 DEF HoldsToWrite, Writer
    <3>2. buffer \in Seq(Line) /\ logged + 1 \in Line /\ logged \in Nat /\ Lines \in Nat
      BY <1>0, <2>1, StreamTypes DEF Line
    <3>3. rows \in Seq(Line) /\ Range(rows) = Range(buffer) \cup {logged + 1}
      BY <2>1, <3>2, RangeOfAppend
    <3>4. {logged + 1} = (logged + 1)..logged'
      BY <2>1, <3>2
    <3>5. Rising(rows)
      <4>1. \A i \in 1..Len(buffer) : buffer[i] \in 1..logged
        BY <1>0, <3>2, RangeOf DEF OnePlace
      <4>2. Len(buffer) \in Nat /\ buffer \in [1..Len(buffer) -> 1..logged]
        BY <4>1, <3>2, LenProperties
      <4>3. buffer \in Seq(1..logged)
        BY <4>2, SeqDef
      <4> QED
        BY <4>3, <1>0, <2>1, <3>2, RisingAppend DEF OnePlace
    <3> HIDE DEF rows
    <3> QED
      BY <1>0, <2>1, <2>2, <3>1, <3>2, <3>3, <3>4, <3>5, TakesKeeps
  <2>3. CASE buffer' = rows /\ UNCHANGED <<held, raced>>
    BY <1>0, <2>1, <2>3, WaitsKeeps
  <2> QED
    BY <2>1, <2>2, <2>3
<1>2. ASSUME NEW p \in Page, Flushes(p) PROVE OnePlace' /\ OneBatch'
  <2>1. CASE buffer = <<>>
    <3>1. UNCHANGED <<logged, db, lost, held, buffer, raced>>
      BY <1>2, <2>1 DEF Flushes
    <3> QED
      BY <3>1, <1>0 DEF OnePlace, OneBatch, InHand
  <2>2. CASE buffer # <<>>
    <3>1. /\ Takes(p, buffer) /\ UNCHANGED <<logged, db, lost>>
          /\ p \in Writer /\ held[p] = <<>>
      BY <1>0, <1>2, <2>2 DEF Flushes, HoldsToWrite, Writer
    <3>2. buffer \in Seq(Line) /\ logged \in Nat /\ Rising(buffer)
      BY <1>0, StreamTypes DEF OnePlace
    <3>3. (logged + 1)..logged' = {} /\ logged' >= logged
      BY <3>1, <3>2
    <3> QED
      BY <1>0, <3>1, <3>2, <3>3, TakesKeeps
  <2> QED
    BY <2>1, <2>2
<1>3. ASSUME NEW w \in Writer, Writes(w) PROVE OnePlace' /\ OneBatch'
  BY <1>0, <1>3, WritesKeeps
<1>4. CASE UNCHANGED log
  BY <1>0, <1>4 DEF log, OnePlace, OneBatch, InHand
<1> QED
  BY ZenonT(30), <1>1, <1>2, <1>3, <1>4 DEF StreamNext, ThreadStep, ThreadGoesOn, PageStep,
     RunStep,
     ThreadWrites, PageWrites, ThreadPublishes, ThreadDrops, EndsRun, PublishesDone, EndsSilently,
     Expires, Opens, Connects, TooSlow, Gets, Breaks, Reads, ReadsStatus, streamVars, Writer

\* A thread or a page that writes, or takes, holds its batch alone.
LEMMA HoldStep ==
    ASSUME StreamInv, [StreamNext]_streamVars
    PROVE  HoldsToWrite'
<1>0. /\ HoldsToWrite /\ Thread \cap Page = {} /\ Writer = Thread \cup Page
      /\ held \in [Writer -> Seq(Line)]
      /\ tpc \in [Thread -> {"idle", "write", "publish", "drop"}]
      /\ page \in [Page -> {"off", "load", "loading", "asked", "open", "poll", "polling",
                         "status", "over", "dead"}]
  BY StreamAssumption DEF StreamInv, StreamTypeOK, BufferTypes, ThreadTypes, PageTypes, Writer
<1>1. ASSUME NEW t \in Thread, Logs(t) PROVE HoldsToWrite'
  BY <1>0, <1>1 DEF Logs, Takes, HoldsToWrite, pageVars
<1>2. ASSUME NEW p \in Page, Flushes(p) PROVE HoldsToWrite'
  BY <1>0, <1>2 DEF Flushes, Takes, Turns, HoldsToWrite
<1>3. ASSUME NEW t \in Thread, ThreadWrites(t) PROVE HoldsToWrite'
  BY <1>0, <1>3 DEF ThreadWrites, Writes, HoldsToWrite, pageVars
<1>4. ASSUME NEW p \in Page, PageWrites(p) PROVE HoldsToWrite'
  BY <1>0, <1>4 DEF PageWrites, Writes, HoldsToWrite, pageVars
<1>5. ASSUME NEW t \in Thread, ThreadPublishes(t) \/ ThreadDrops(t) PROVE HoldsToWrite'
  BY <1>0, <1>5 DEF ThreadPublishes, ThreadDrops, HoldsToWrite, pageVars, log
<1>6. ASSUME NEW p \in Page,
             \/ Opens(p) \/ Connects(p) \/ TooSlow(p) \/ Gets(p) \/ Breaks(p)
             \/ Reads(p) \/ ReadsStatus(p)
      PROVE  HoldsToWrite'
  <2>1. /\ UNCHANGED <<held, tpc>> /\ \A q \in Page : q # p => page'[q] = page[q]
        /\ page[p] \in {"off", "asked", "open", "status"} \/ held[p] = <<>>
    BY <1>0, <1>6 DEF Opens, Connects, TooSlow, Gets, Breaks, Reads, ReadsStatus, Turns, log
  <2> QED
    BY <2>1, <1>0 DEF HoldsToWrite
<1>7. CASE UNCHANGED <<held, tpc, page>>
  BY <1>0, <1>7 DEF HoldsToWrite
<1> QED
  BY ZenonT(30), <1>1, <1>2, <1>3, <1>4, <1>5, <1>6, <1>7 DEF StreamNext, ThreadStep, ThreadGoesOn,
     PageStep, RunStep, EndsRun, PublishesDone, EndsSilently, Expires, streamVars, log, pageVars

\* The lines that were published.
LEMMA SentStep ==
    ASSUME StreamInv, [StreamNext]_streamVars
    PROVE  SentOnce' /\ sent' \in Seq(Line)
<1>0. /\ SentOnce /\ logged \in Nat /\ sent \in Seq(Line) /\ Lines \in Nat /\ logged <= Lines
      /\ tpc \in [Thread -> {"idle", "write", "publish", "drop"}]
      /\ line \in [Thread -> Message] /\ from \in [Page -> 0..Lines] /\ Len(sent) \in Nat
  <2>1. StreamTypeOK
    BY DEF StreamInv
  <2> QED
    BY <2>1, StreamTypes, LenProperties DEF StreamInv, StreamTypeOK, ThreadTypes, PageTypes
<1>1. ASSUME NEW t \in Thread, Logs(t) PROVE SentOnce' /\ sent' \in Seq(Line)
  <2>1. /\ tpc[t] = "idle" /\ logged' = logged + 1 /\ line' = [line EXCEPT ![t] = logged + 1]
        /\ sent' = sent /\ from' = from
        /\ \A u \in Thread : u # t => tpc'[u] = tpc[u]
    BY <1>0, <1>1 DEF Logs, pageVars
  <2>2. 1..logged \subseteq 1..logged' /\ logged + 1 \notin 1..logged /\ logged + 1 \in 1..logged'
    BY <1>0, <2>1
  <2>3. \A u \in Thread : line'[u] = IF u = t THEN logged + 1 ELSE line[u]
    BY <1>0, <2>1
  <2>4. Range(sent') \subseteq 1..logged' /\ logged + 1 \notin Range(sent)
    BY <1>0, <2>1, <2>2 DEF SentOnce
  <2> QED
    BY <1>0, <2>1, <2>2, <2>3, <2>4 DEF SentOnce
<1>2. ASSUME NEW t \in Thread, ThreadPublishes(t) PROVE SentOnce' /\ sent' \in Seq(Line)
  <2>1. /\ tpc[t] = "publish" /\ sent' = Append(sent, line[t]) /\ line' = line /\ logged' = logged
        /\ from' = from
        /\ \A u \in Thread : tpc'[u] = IF u = t THEN tpc'[t] ELSE tpc[u]
        /\ tpc'[t] \in {"idle", "drop"}
    BY <1>0, <1>2 DEF ThreadPublishes, pageVars, log
  <2>2. line[t] \in Line /\ line[t] \in 1..logged /\ line[t] \notin Range(sent)
    BY <1>0, <2>1 DEF SentOnce, Line
  <2>3. /\ sent' \in Seq(Line) /\ Range(sent') = Range(sent) \cup {line[t]} /\ Once(sent')
        /\ Len(sent') = Len(sent) + 1
    BY <1>0, <2>1, <2>2, RangeOfAppend, OnceAppend DEF SentOnce
  <2>4. Range(sent') \subseteq 1..logged' /\ \A p \in Page : from'[p] <= Len(sent')
    BY <1>0, <2>1, <2>2, <2>3 DEF SentOnce
  <2> QED
    BY <1>0, <2>1, <2>2, <2>3, <2>4 DEF SentOnce
<1>3. ASSUME NEW t \in Thread, ThreadWrites(t) \/ ThreadDrops(t)
      PROVE  SentOnce' /\ sent' \in Seq(Line)
  <2>1. /\ UNCHANGED <<sent, from, line, logged>>
        /\ \A u \in Thread : tpc'[u] \in {"write", "publish"} => tpc[u] \in {"write", "publish"}
    BY <1>0, <1>3 DEF ThreadWrites, ThreadDrops, Writes, pageVars, log
  <2> QED
    BY <2>1, <1>0 DEF SentOnce
<1>4. ASSUME NEW p \in Page, Connects(p) PROVE SentOnce' /\ sent' \in Seq(Line)
  <2>1. /\ UNCHANGED <<sent, line, logged, tpc>>
        /\ \A q \in Page : from'[q] \in {from[q], Len(sent)}
    BY <1>0, <1>4 DEF Connects, log
  <2> QED
    BY <2>1, <1>0 DEF SentOnce
<1>5. CASE UNCHANGED <<sent, from, line, logged, tpc>>
  BY <1>0, <1>5 DEF SentOnce
<1> QED
  BY ZenonT(30), <1>1, <1>2, <1>3, <1>4, <1>5 DEF StreamNext, ThreadStep, ThreadGoesOn,
     PageStep, RunStep, EndsRun, PublishesDone, EndsSilently, Expires, streamVars, log, pageVars,
     Opens, TooSlow, Gets, Breaks, Reads, ReadsStatus, Flushes, PageWrites, Writes

\* The subscribers and their queues.
LEMMA QueueStep ==
    ASSUME StreamInv, [StreamNext]_streamVars
    PROVE  QueueTypes'
<1>0. /\ QueueTypes /\ IsFiniteSet(subs) /\ dead \in [Thread -> SUBSET Page]
      /\ line \in [Thread -> Message] /\ Done \in Message /\ Room \in Nat \ {0} /\ Limit \in Nat
  BY StreamAssumption DEF StreamInv, StreamTypeOK, ThreadTypes, Subscribed, Message, Done
<1>1. IsFiniteSet(Live) /\ Cardinality(Live) \in Nat
  BY <1>0, FS_Subset, FS_CardinalityType DEF Live
\* The room for subscribers.
<1>2. ASSUME Live' \subseteq Live PROVE Cardinality(Live') <= Limit
  <2>1. Cardinality(Live') <= Cardinality(Live) /\ IsFiniteSet(Live')
    BY <1>1, <1>2, FS_Subset
  <2>2. Cardinality(Live') \in Nat
    BY <2>1, FS_CardinalityType
  <2> QED
    BY <1>0, <1>1, <2>1, <2>2 DEF QueueTypes
\* The room in a queue.
<1>3. ASSUME NEW m \in Message, Publishes(m)
      PROVE  /\ queue' \in [Page -> Seq(Message)] /\ \A p \in Page : Len(queue'[p]) <= Room
             /\ full' \subseteq Page
  <2>1. ASSUME NEW p \in Page PROVE queue'[p] \in Seq(Message) /\ Len(queue'[p]) <= Room
    <3>1. queue[p] \in Seq(Message) /\ Len(queue[p]) \in Nat /\ Len(queue[p]) <= Room
      BY <1>0, LenProperties DEF QueueTypes
    <3>2. /\ Append(queue[p], m) \in Seq(Message)
          /\ Len(Append(queue[p], m)) = Len(queue[p]) + 1
      BY <3>1, RangeOfAppend
    <3>3. queue'[p] = queue[p] \/ (queue'[p] = Append(queue[p], m) /\ Len(queue[p]) < Room)
      BY <1>3 DEF Publishes, Fits
    <3>4. CASE queue'[p] = Append(queue[p], m) /\ Len(queue[p]) < Room
      <4>1. Len(queue[p]) + 1 <= Room
        BY <1>0, <3>1, <3>4
      <4> QED
        BY ONLY <3>2, <3>4, <4>1
    <3> QED
      BY ONLY <3>1, <3>3, <3>4
  <2>2. queue' = [p \in Page |-> queue'[p]]
    BY <1>3 DEF Publishes
  <2>3. full' \subseteq Page
    BY <1>0, <1>3 DEF Publishes, QueueTypes, Live
  <2> QED
    BY <2>1, <2>2, <2>3
<1>4. ASSUME NEW t \in Thread, ThreadPublishes(t) PROVE QueueTypes'
  <2>1. Publishes(line[t]) /\ line[t] \in Message /\ UNCHANGED <<subs, expired>>
    BY <1>0, <1>4 DEF ThreadPublishes
  <2>2. Live' \subseteq Live
    BY <2>1 DEF Live
  <2> QED
    BY <1>0, <1>2, <1>3, <2>1, <2>2 DEF QueueTypes
<1>5. ASSUME PublishesDone PROVE QueueTypes'
  <2>1. Publishes(Done) /\ subs' \subseteq subs /\ UNCHANGED expired
    BY <1>5 DEF PublishesDone
  <2>2. Live' \subseteq Live
    BY <2>1 DEF Live
  <2> QED
    BY <1>0, <1>2, <1>3, <2>1, <2>2 DEF QueueTypes
<1>6. ASSUME NEW t \in Thread, ThreadDrops(t) PROVE QueueTypes'
  <2>1. subs' \subseteq subs /\ UNCHANGED <<expired, queue, full>>
    BY <1>6 DEF ThreadDrops
  <2>2. Live' \subseteq Live
    BY <2>1 DEF Live
  <2> QED
    BY <1>0, <1>2, <2>1, <2>2 DEF QueueTypes
<1>7. ASSUME NEW p \in Page, Expires(p) PROVE QueueTypes'
  <2>1. expired' = expired \cup {p} /\ UNCHANGED <<subs, queue, full>>
    BY <1>7 DEF Expires
  <2>2. Live' \subseteq Live
    BY <2>1 DEF Live
  <2> QED
    BY <1>0, <1>2, <2>1, <2>2 DEF QueueTypes
<1>8. ASSUME NEW p \in Page, Connects(p) PROVE QueueTypes'
  <2>1. UNCHANGED <<expired, queue, full>>
    BY <1>8 DEF Connects
  <2>2. CASE Cardinality(Live) < Limit /\ subs' = Joined(p)
    <3>1. Live' \subseteq Live \cup {p} /\ subs' \subseteq Page
      BY <1>0, <2>1, <2>2 DEF Live, Joined, QueueTypes
    <3>0. /\ IsFiniteSet(Live \cup {p})
          /\ Cardinality(Live \cup {p}) =
                IF p \in Live THEN Cardinality(Live) ELSE Cardinality(Live) + 1
      BY <1>1, FS_AddElement
    <3>2. IsFiniteSet(Live \cup {p}) /\ Cardinality(Live \cup {p}) <= Cardinality(Live) + 1
      BY ONLY <1>1, <3>0
    <3>3. IsFiniteSet(Live') /\ Cardinality(Live') <= Cardinality(Live \cup {p})
      BY <3>1, <3>2, FS_Subset
    <3>4. Cardinality(Live') \in Nat /\ Cardinality(Live \cup {p}) \in Nat
      BY <3>2, <3>3, FS_CardinalityType
    <3>5. Cardinality(Live') <= Limit
      BY <1>0, <1>1, <2>2, <3>2, <3>3, <3>4
    <3> QED
      BY <1>0, <2>1, <3>1, <3>5 DEF QueueTypes
  <2>3. CASE subs' = subs
    <3>1. Live' = Live
      BY <2>1, <2>3 DEF Live
    <3> QED
      BY <1>0, <2>1, <2>3, <3>1 DEF QueueTypes
  <2> QED
    BY <1>8, <2>2, <2>3 DEF Connects
<1>9. ASSUME NEW p \in Page, Gets(p) PROVE QueueTypes'
  <2>1. /\ queue[p] # <<>> /\ queue' = [queue EXCEPT ![p] = Tail(queue[p])] /\ subs' \subseteq subs
        /\ UNCHANGED <<expired, full>>
    BY <1>9 DEF Gets
  <2>2. Live' \subseteq Live
    BY <2>1 DEF Live
  <2>3. queue[p] \in Seq(Message) /\ Len(queue[p]) \in Nat /\ Len(queue[p]) <= Room
    BY <1>0, LenProperties DEF QueueTypes
  <2>4. Tail(queue[p]) \in Seq(Message) /\ Len(Tail(queue[p])) = Len(queue[p]) - 1
    BY <2>1, <2>3, RangeOfTail
  <2>5. Len(Tail(queue[p])) <= Room
    BY <1>0, <2>3, <2>4
  <2> QED
    BY <1>0, <1>2, <2>1, <2>2, <2>4, <2>5 DEF QueueTypes
<1>10. ASSUME NEW p \in Page, Breaks(p) PROVE QueueTypes'
  <2>1. /\ queue' = [queue EXCEPT ![p] = <<>>] /\ subs' \subseteq subs
        /\ UNCHANGED <<expired, full>>
    BY <1>10 DEF Breaks
  <2>2. Live' \subseteq Live
    BY <2>1 DEF Live
  <2>3. <<>> \in Seq(Message) /\ Len(<<>>) <= Room
    BY <1>0, EmptySeq
  <2> QED
    BY <1>0, <1>2, <2>1, <2>2, <2>3 DEF QueueTypes
<1>11. CASE UNCHANGED stream
  BY <1>0, <1>11 DEF stream, QueueTypes, Live
<1> QED
  BY ZenonT(30), <1>4, <1>5, <1>6, <1>7, <1>8, <1>9, <1>10, <1>11 DEF StreamNext, ThreadStep,
     ThreadGoesOn, PageStep, RunStep, EndsRun, EndsSilently, streamVars,
     Opens, TooSlow, Reads, ReadsStatus, Flushes, PageWrites, ThreadWrites, Logs

\* Who is on the list of subscribers.
LEMMA SubscribedStep ==
    ASSUME StreamInv, [StreamNext]_streamVars
    PROVE  Subscribed'
<1>0. /\ Subscribed /\ QueueTypes /\ dead \in [Thread -> SUBSET Page]
      /\ page \in [Page -> {"off", "load", "loading", "asked", "open", "poll", "polling",
                         "status", "over", "dead"}]
  BY DEF StreamInv, StreamTypeOK, ThreadTypes, PageTypes
<1>1. ASSUME NEW m, Publishes(m)
      PROVE  full \subseteq full' /\ Unreached \subseteq full' \cup expired
  BY <1>1 DEF Publishes, Unreached, Live
<1>2. ASSUME IsFiniteSet(subs) PROVE \A T \in SUBSET subs : IsFiniteSet(T)
  BY <1>2, FS_Subset
<1>3. ASSUME NEW t \in Thread, ThreadPublishes(t) PROVE Subscribed'
  <2>1. /\ Publishes(line[t]) /\ dead' = [dead EXCEPT ![t] = Unreached]
        /\ UNCHANGED <<subs, expired, page>>
    BY <1>3 DEF ThreadPublishes, pageVars
  <2>2. full \subseteq full' /\ Unreached \subseteq full' \cup expired
    BY <2>1, <1>1
  <2> QED
    BY <1>0, <2>1, <2>2 DEF Subscribed
<1>4. ASSUME PublishesDone PROVE Subscribed'
  <2>1. Publishes(Done) /\ subs' = subs \ Unreached /\ UNCHANGED <<expired, page, dead>>
    BY <1>4 DEF PublishesDone, pageVars
  <2>2. full \subseteq full' /\ Unreached \subseteq full' \cup expired
    BY <2>1, <1>1
  <2> QED
    BY <1>0, <1>2, <2>1, <2>2 DEF Subscribed
<1>5. ASSUME NEW t \in Thread, ThreadDrops(t) PROVE Subscribed'
  <2>1. /\ subs' = subs \ dead[t] /\ dead' = [dead EXCEPT ![t] = {}]
        /\ UNCHANGED <<expired, full, page>>
    BY <1>5 DEF ThreadDrops, pageVars
  <2>2. dead[t] \subseteq full \cup expired
    BY <1>0 DEF Subscribed
  <2> QED
    BY <1>0, <1>2, <2>1, <2>2 DEF Subscribed
<1>6. ASSUME NEW p \in Page, Expires(p) PROVE Subscribed'
  <2>1. expired' = expired \cup {p} /\ UNCHANGED <<subs, dead, full, page>>
    BY <1>6 DEF Expires, pageVars
  <2> QED
    BY <1>0, <2>1 DEF Subscribed
<1>7. ASSUME NEW p \in Page, Connects(p) PROVE Subscribed'
  <2>1. /\ UNCHANGED <<expired, dead, full>>
        /\ \/ subs' = Live \cup {p} /\ page' = [page EXCEPT ![p] = "open"]
           \/ subs' = subs /\ page' = [page EXCEPT ![p] = AfterError(p)]
    BY <1>7 DEF Connects, Turns, Joined
  <2>2. IsFiniteSet(Live \cup {p}) /\ Live = subs \ expired
    BY <1>0, FS_Subset, FS_AddElement DEF Live, Subscribed
  <2>3. AfterError(p) \in {"dead", "poll"}
    BY DEF AfterError
  <2> QED
    BY <1>0, <2>1, <2>2, <2>3 DEF Subscribed
<1>8. ASSUME NEW p \in Page, Gets(p) PROVE Subscribed'
  <2>1. /\ UNCHANGED <<expired, dead, full>>
        /\ \/ subs' = subs \ {p} /\ page' = [page EXCEPT ![p] = "over"]
           \/ subs' = subs /\ page' = page
    BY <1>8 DEF Gets, Turns
  <2> QED
    BY <1>0, <1>2, <2>1 DEF Subscribed
<1>9. ASSUME NEW p \in Page, Breaks(p) PROVE Subscribed'
  <2>1. /\ UNCHANGED <<expired, dead, full>> /\ AfterError(p) # "open"
        /\ subs' = subs \ {p} /\ page' = [page EXCEPT ![p] = AfterError(p)]
    BY <1>9 DEF Breaks, Turns, AfterError
  <2> QED
    BY <1>0, <1>2, <2>1 DEF Subscribed
<1>10. ASSUME NEW p \in Page,
              Opens(p) \/ TooSlow(p) \/ Flushes(p) \/ PageWrites(p) \/ Reads(p) \/ ReadsStatus(p)
       PROVE  Subscribed'
  <2>1. /\ UNCHANGED <<subs, expired, dead, full>>
        /\ \A q \in Page : page'[q] = "open" => page[q] = "open"
    BY <1>0, <1>10 DEF Opens, TooSlow, Flushes, PageWrites, Reads, ReadsStatus, Turns, stream,
       pageVars
  <2> QED
    BY <1>0, <2>1 DEF Subscribed
<1>11. CASE UNCHANGED <<subs, expired, dead, full, page>>
  BY <1>0, <1>11 DEF Subscribed
<1> QED
  BY ZenonT(30), <1>3, <1>4, <1>5, <1>6, <1>7, <1>8, <1>9, <1>10, <1>11 DEF StreamNext, ThreadStep,
     ThreadGoesOn, PageStep, RunStep, EndsRun, EndsSilently, streamVars, stream, pageVars,
     ThreadWrites, Logs

\* What a subscriber that was missed by no message has been sent.
LEMMA GapStep ==
    ASSUME StreamInv, [StreamNext]_streamVars
    PROVE  NoGap'
<1> DEFINE Due(p) == {sent[i] : i \in (from[p] + 1)..Len(sent)}
           Kept(p) == Due(p) \subseteq shown[p] \cup Range(queue[p])
           Clear(p) == p \notin full \cup expired /\ page[p] = "open"
<1>0. /\ \A p \in Page : Clear(p) => Kept(p) /\ p \in Live
      /\ QueueTypes /\ sent \in Seq(Line) /\ Len(sent) \in Nat
      /\ line \in [Thread -> Message] /\ from \in [Page -> 0..Lines] /\ Lines \in Nat
      /\ page \in [Page -> {"off", "load", "loading", "asked", "open", "poll", "polling",
                         "status", "over", "dead"}]
      /\ shown \in [Page -> SUBSET Line] /\ Done \in Message
  BY StreamAssumption, LenProperties DEF StreamInv, StreamTypeOK, ThreadTypes, PageTypes, NoGap,
     Subscribed, Live, Message, Done
<1>1. SUFFICES ASSUME NEW p \in Page, Clear(p)' PROVE Kept(p)'
  BY DEF NoGap
<1>2. \A m \in Message : Publishes(m) /\ p \in Live =>
          /\ p \notin full /\ Range(queue'[p]) = Range(queue[p]) \cup {m}
  <2> SUFFICES ASSUME NEW m \in Message, Publishes(m), p \in Live
               PROVE  p \notin full /\ Range(queue'[p]) = Range(queue[p]) \cup {m}
    OBVIOUS
  <2>1. p \notin full /\ Fits(p) /\ queue'[p] = Append(queue[p], m)
    BY <1>1 DEF Publishes
  <2>2. queue[p] \in Seq(Message)
    BY <1>0 DEF QueueTypes
  <2> QED
    BY <2>1, <2>2, RangeOfAppend
<1>3. ASSUME NEW t \in Thread, ThreadPublishes(t) PROVE Kept(p)'
  <2>1. /\ Publishes(line[t]) /\ line[t] \in Message /\ sent' = Append(sent, line[t])
        /\ tpc[t] = "publish" /\ UNCHANGED <<subs, expired, page, shown, from>>
    BY <1>0, <1>3 DEF ThreadPublishes, pageVars
  <2>2. full \subseteq full'
    BY <2>1 DEF Publishes
  <2>3. Kept(p) /\ p \in Live
    BY <1>0, <1>1, <2>1, <2>2
  <2>4. Range(queue'[p]) = Range(queue[p]) \cup {line[t]}
    BY <1>2, <2>1, <2>3
  <2>5. line[t] \in Line
    <3>1. line[t] \in 1..logged /\ logged \in 0..Lines
      BY <2>1 DEF StreamInv, SentOnce, StreamTypeOK, BufferTypes
    <3> QED
      BY <1>0, <3>1 DEF Line
  <2>6. /\ Len(sent') = Len(sent) + 1 /\ sent'[Len(sent) + 1] = line[t]
        /\ \A i \in 1..Len(sent) : sent'[i] = sent[i]
    BY <1>0, <2>1, <2>5, RangeOfAppend
  <2>7. ASSUME NEW i \in (from'[p] + 1)..Len(sent')
        PROVE  sent'[i] \in shown'[p] \cup Range(queue'[p])
    <3>1. i = Len(sent) + 1 \/ (i \in 1..Len(sent) /\ i \in (from[p] + 1)..Len(sent))
      BY <1>0, <2>1, <2>6
    <3>2. CASE i = Len(sent) + 1
      BY <3>2, <2>4, <2>6
    <3>3. CASE i \in 1..Len(sent) /\ i \in (from[p] + 1)..Len(sent)
      BY <3>3, <2>1, <2>3, <2>4, <2>6
    <3> QED
      BY <3>1, <3>2, <3>3
  <2> QED
    BY <2>7
<1>4. ASSUME PublishesDone PROVE Kept(p)'
  <2>1. Publishes(Done) /\ UNCHANGED <<expired, page, shown, from, sent>>
    BY <1>4 DEF PublishesDone, pageVars
  <2>2. full \subseteq full'
    BY <2>1 DEF Publishes
  <2>3. Kept(p) /\ p \in Live
    BY <1>0, <1>1, <2>1, <2>2
  <2>4. Range(queue'[p]) = Range(queue[p]) \cup {Done}
    BY <1>0, <1>2, <2>1, <2>3
  <2> QED
    BY <2>1, <2>3, <2>4
<1>5. ASSUME NEW q \in Page, Connects(q) PROVE Kept(p)'
  <2>1. /\ UNCHANGED <<expired, full, queue, shown, sent>>
        /\ \A r \in Page : r # q => page'[r] = page[r] /\ from'[r] = from[r]
        /\ \/ from'[q] = Len(sent)
           \/ page'[q] = AfterError(q)
    BY <1>0, <1>5 DEF Connects, Turns
  <2>2. AfterError(q) # "open"
    BY DEF AfterError
  <2>3. CASE p = q
    <3>1. from'[p] = Len(sent)
      BY <1>1, <2>1, <2>2, <2>3
    <3>2. (from'[p] + 1)..Len(sent') = {}
      BY <1>0, <2>1, <3>1
    <3> QED
      BY <3>2
  <2>4. CASE p # q
    BY <1>0, <1>1, <2>1, <2>4
  <2> QED
    BY <2>3, <2>4
<1>6. ASSUME NEW q \in Page, Gets(q) PROVE Kept(p)'
  <2>1. /\ UNCHANGED <<expired, full, sent, from>>
        /\ queue[q] # <<>> /\ queue' = [queue EXCEPT ![q] = Tail(queue[q])]
        /\ \A r \in Page : r # q => page'[r] = page[r] /\ shown'[r] = shown[r]
        /\ \/ page'[q] = "over"
           \/ page' = page /\ shown'[q] = shown[q] \cup {Head(queue[q])}
    BY <1>0, <1>6 DEF Gets, Turns
  <2>2. CASE p = q
    <3>1. page' = page /\ shown'[p] = shown[p] \cup {Head(queue[p])}
      BY <1>1, <2>1, <2>2
    <3>2. Kept(p) /\ queue[p] \in Seq(Message) /\ queue[p] # <<>> /\ queue'[p] = Tail(queue[p])
      BY <1>0, <1>1, <2>1, <2>2, <3>1 DEF QueueTypes
    <3>3. Range(queue[p]) \subseteq Range(queue'[p]) \cup {Head(queue[p])}
      BY <3>2, RangeOfTail
    <3>4. Due(p)' = Due(p)
      BY <2>1
    <3>5. Due(p)' \subseteq shown'[p] \cup Range(queue'[p])
      <4> HIDE DEF Due
      <4> QED
        BY <3>1, <3>2, <3>3, <3>4
    <3> QED
      BY <3>5
  <2>3. CASE p # q
    <3>1. queue'[p] = queue[p] /\ shown'[p] = shown[p] /\ page'[p] = page[p]
      BY <1>0, <2>1, <2>3 DEF QueueTypes
    <3>2. Due(p)' = Due(p)
      BY <2>1
    <3>3. Kept(p)
      BY <1>0, <1>1, <2>1, <3>1
    <3>4. Due(p)' \subseteq shown'[p] \cup Range(queue'[p])
      <4> HIDE DEF Due
      <4> QED
        BY <3>1, <3>2, <3>3
    <3> QED
      BY <3>4
  <2> QED
    BY <2>2, <2>3
<1>7. ASSUME NEW q \in Page,
             \/ Breaks(q) \/ Opens(q) \/ TooSlow(q) \/ Flushes(q) \/ PageWrites(q)
             \/ Reads(q) \/ ReadsStatus(q) \/ Expires(q)
      PROVE  Kept(p)'
  <2>1. /\ UNCHANGED <<sent, from, full>> /\ expired \subseteq expired'
    BY <1>7 DEF Breaks, Opens, TooSlow, Flushes, PageWrites, Reads, ReadsStatus, Expires,
       stream, pageVars
  <2>2. Due(p)' = Due(p)
    BY <2>1
  <2>3. CASE Breaks(q)
    <3>1. /\ AfterError(q) # "open" /\ page' = [page EXCEPT ![q] = AfterError(q)]
          /\ queue' = [queue EXCEPT ![q] = <<>>] /\ UNCHANGED <<expired, shown>>
      BY <2>3 DEF Breaks, AfterError, Turns
    <3>2. p # q
      BY <1>0, <1>1, <3>1
    <3>3. queue'[p] = queue[p] /\ page'[p] = page[p]
      BY <1>0, <3>1, <3>2 DEF QueueTypes
    <3> QED
      BY <1>0, <1>1, <2>1, <2>2, <3>1, <3>3
  <2>4. CASE Opens(q) \/ TooSlow(q) \/ Flushes(q) \/ ReadsStatus(q)
    <3>1. UNCHANGED <<queue, shown>> /\ (page'[p] = "open" => page[p] = "open")
      BY <1>0, <2>4 DEF Opens, TooSlow, Flushes, ReadsStatus, Turns, stream
    <3> QED
      BY <1>0, <1>1, <2>1, <3>1
  <2>5. CASE Reads(q)
    <3>1. UNCHANGED queue /\ page[p] = "open" /\ p # q
      BY <1>0, <1>1, <2>5 DEF Reads, Turns, stream
    <3>2. shown'[p] = shown[p]
      BY <1>0, <2>5, <3>1 DEF Reads
    <3> QED
      BY <1>0, <1>1, <2>1, <3>1, <3>2
  <2>6. CASE PageWrites(q) \/ Expires(q)
    BY <1>0, <1>1, <2>1, <2>6 DEF PageWrites, Expires, stream, pageVars
  <2> QED
    BY <1>7, <2>3, <2>4, <2>5, <2>6
<1>8. CASE UNCHANGED <<sent, from, full, expired, page, queue, shown>>
  BY <1>0, <1>1, <1>8
<1> HIDE DEF Kept
<1> QED
  BY ZenonT(30), <1>3, <1>4, <1>5, <1>6, <1>7, <1>8 DEF StreamNext, ThreadStep, ThreadGoesOn,
     PageStep, RunStep, EndsRun, EndsSilently, streamVars, stream, pageVars,
     ThreadWrites, ThreadDrops, Logs

\* The types of the rest.
LEMMA BufferTypeStep ==
    ASSUME StreamInv, [StreamNext]_streamVars
    PROVE  BufferTypes'
<1>0. /\ BufferTypes /\ Lines \in Nat /\ Batch \in Nat \ {0} /\ logged \in Nat /\ logged <= Lines
      /\ <<>> \in Seq(Line) /\ Len(<<>>) = 0
  BY StreamAssumption, EmptySeq DEF StreamInv, StreamTypeOK, BufferTypes
<1>6. Thread \subseteq Writer /\ Page \subseteq Writer
  BY DEF Writer
<1>4. ASSUME NEW w \in Writer, NEW rows \in Seq(Line), Takes(w, rows)
      PROVE  /\ held' \in [Writer -> Seq(Line)] /\ raced' \in BOOLEAN
             /\ buffer' \in Seq(Line) /\ Len(buffer') < Batch
  BY <1>0, <1>4 DEF BufferTypes, Takes
<1>1. ASSUME NEW t \in Thread, Logs(t) PROVE BufferTypes'
  <2>1. /\ logged < Lines /\ logged' = logged + 1 /\ UNCHANGED <<db, lost>>
        /\ \/ Takes(t, Append(buffer, logged'))
           \/ /\ Len(Append(buffer, logged')) < Batch /\ buffer' = Append(buffer, logged')
              /\ UNCHANGED <<held, raced>>
    BY <1>1 DEF Logs
  <2>2. logged' \in Line /\ logged' \in 0..Lines
    BY <1>0, <2>1 DEF Line
  <2>3. Append(buffer, logged') \in Seq(Line)
    BY <1>0, <2>2, RangeOfAppend DEF BufferTypes
  <2>4. CASE Takes(t, Append(buffer, logged'))
    BY <1>0, <1>4, <1>6, <2>1, <2>2, <2>3, <2>4 DEF BufferTypes
  <2>5. CASE /\ Len(Append(buffer, logged')) < Batch /\ buffer' = Append(buffer, logged')
             /\ UNCHANGED <<held, raced>>
    BY <1>0, <2>1, <2>2, <2>3, <2>5 DEF BufferTypes
  <2> QED
    BY <2>1, <2>4, <2>5
<1>2. ASSUME NEW p \in Page, Flushes(p) PROVE BufferTypes'
  <2>1. /\ UNCHANGED <<logged, db, lost>>
        /\ Takes(p, buffer) \/ UNCHANGED <<held, buffer, raced>>
    BY <1>2 DEF Flushes
  <2> QED
    BY <1>0, <1>4, <1>6, <2>1 DEF BufferTypes
<1>3. ASSUME NEW w \in Writer, Writes(w) PROVE BufferTypes'
  <2>1. held[w] \in Seq(Line) /\ db \in Seq(Line)
    BY <1>0 DEF BufferTypes
  <2>2. Range(held[w]) \subseteq Line /\ db \o held[w] \in Seq(Line)
    BY <2>1, RangeOf, RangeOfConcat
  <2> QED
    BY <1>0, <1>3, <2>2 DEF BufferTypes, Writes
<1>5. CASE UNCHANGED log
  BY <1>0, <1>5 DEF BufferTypes, log
<1> QED
  BY ZenonT(30), <1>1, <1>2, <1>3, <1>5, <1>6 DEF StreamNext, ThreadStep, ThreadGoesOn, PageStep,
     RunStep,
     ThreadWrites, PageWrites, ThreadPublishes, ThreadDrops, EndsRun, PublishesDone, EndsSilently,
     Expires, Opens, Connects, TooSlow, Gets, Breaks, Reads, ReadsStatus, streamVars

LEMMA ThreadTypeStep ==
    ASSUME StreamInv, [StreamNext]_streamVars
    PROVE  ThreadTypes'
<1>0. /\ ThreadTypes /\ logged \in 0..Lines /\ subs \subseteq Page /\ sent' \in Seq(Line)
      /\ Lines \in Nat /\ MaxFaults \in Nat
  BY SentStep, StreamAssumption DEF StreamInv, StreamTypeOK, BufferTypes, QueueTypes
<1> USE <1>0 DEF ThreadTypes
<1>1. ASSUME NEW t \in Thread, Logs(t) PROVE ThreadTypes'
  <2>1. logged < Lines /\ logged' = logged + 1 /\ logged + 1 \in Message
    BY <1>1 DEF Logs, Message
  <2> QED
    BY <1>1, <2>1 DEF Logs
<1>2. ASSUME NEW t \in Thread, ThreadWrites(t) PROVE ThreadTypes'
  <2>1. faults' \in 0..MaxFaults
    BY <1>2 DEF ThreadWrites, Writes, Fault
  <2> QED
    BY <1>2, <2>1 DEF ThreadWrites
<1>3. ASSUME NEW t \in Thread, ThreadPublishes(t) PROVE ThreadTypes'
  <2>1. Unreached \subseteq Page
    BY DEF Unreached
  <2> QED
    BY <1>3, <2>1 DEF ThreadPublishes
<1>4. ASSUME NEW t \in Thread, ThreadDrops(t) PROVE ThreadTypes'
  BY <1>4 DEF ThreadDrops
<1>5. ASSUME EndsRun \/ PublishesDone \/ EndsSilently PROVE ThreadTypes'
  <2>1. UNCHANGED <<line, dead, tpc, sent>>
    BY <1>5 DEF EndsRun, PublishesDone, EndsSilently
  <2>2. status' \in {"ended", "published", "silent"} /\ faults' \in 0..MaxFaults
    <3>1. CASE EndsRun \/ PublishesDone
      BY <3>1 DEF EndsRun, PublishesDone
    <3>2. CASE EndsSilently
      BY <3>2 DEF EndsSilently, Fault
    <3> QED
      BY <1>5, <3>1, <3>2
  <2> QED
    BY <2>1, <2>2
<1>6. ASSUME NEW p \in Page, Expires(p) \/ TooSlow(p) \/ Breaks(p) \/ PageWrites(p)
      PROVE  ThreadTypes'
  BY <1>6 DEF Expires, TooSlow, Breaks, PageWrites, Writes, Fault
<1>7. CASE UNCHANGED <<line, dead, tpc, sent, status, faults>>
  BY <1>7
<1> HIDE <1>0 DEF ThreadTypes
<1> QED
  BY ZenonT(30), <1>1, <1>2, <1>3, <1>4, <1>5, <1>6, <1>7 DEF StreamNext, ThreadStep, ThreadGoesOn,
     PageStep, RunStep, Opens, Connects, Gets, Flushes, Reads, ReadsStatus, streamVars

LEMMA PageTypeStep ==
    ASSUME StreamInv, [StreamNext]_streamVars
    PROVE  PageTypes'
<1>0. /\ PageTypes /\ db \in Seq(Line) /\ \A p \in Page : queue[p] \in Seq(Message)
      /\ Lines \in Nat
  BY StreamAssumption DEF StreamInv, StreamTypeOK, BufferTypes, QueueTypes
<1>1. Len(sent) \in 0..Lines
  <2>1. sent \in Seq(Line) /\ Once(sent) /\ Range(sent) \subseteq 1..logged /\ logged \in 0..Lines
    BY DEF StreamInv, StreamTypeOK, BufferTypes, ThreadTypes, SentOnce
  <2>2. Cardinality(Range(sent)) = Len(sent) /\ Len(sent) \in Nat
    BY <2>1, OnceCounts, LenProperties
  <2>3. IsFiniteSet(1..logged) /\ Cardinality(1..logged) = logged
    BY <2>1, <1>0, FS_Interval
  <2>4. Cardinality(Range(sent)) <= logged
    BY <2>1, <2>3, FS_Subset
  <2> QED
    BY <1>0, <2>1, <2>2, <2>4
<1>2. Range(db) \subseteq Line
  BY <1>0, RangeOf
<1>3. \A p \in Page : queue[p] # <<>> /\ Head(queue[p]) # Done => Head(queue[p]) \in Line
  <2> SUFFICES ASSUME NEW p \in Page, queue[p] # <<>>, Head(queue[p]) # Done
               PROVE  Head(queue[p]) \in Line
    OBVIOUS
  <2>1. Head(queue[p]) \in Message
    BY <1>0, RangeOfTail
  <2> QED
    BY <2>1, <1>0 DEF Message, Line, Done
<1> USE <1>0 DEF PageTypes, Turns
<1>4. ASSUME NEW p \in Page, Connects(p) PROVE PageTypes'
  BY <1>1, <1>4 DEF Connects, AfterError
<1>5. ASSUME NEW p \in Page, Gets(p) PROVE PageTypes'
  <2>1. UNCHANGED <<stale, from, late>> /\ (page' = page \/ page' = [page EXCEPT ![p] = "over"])
    BY <1>5 DEF Gets
  <2>2. shown' \in [Page -> SUBSET Line]
    <3>1. CASE Head(queue[p]) = Done
      BY <1>5, <3>1 DEF Gets
    <3>2. CASE Head(queue[p]) # Done
      <4>1. Head(queue[p]) \in Line
        BY <1>3, <1>5, <3>2 DEF Gets
      <4>2. shown' = [shown EXCEPT ![p] = @ \cup {Head(queue[p])}]
        BY <1>5, <3>2 DEF Gets
      <4> QED
        BY <4>1, <4>2
    <3> QED
      BY <3>1, <3>2
  <2> QED
    BY <2>1, <2>2
<1>6. ASSUME NEW p \in Page, Reads(p) PROVE PageTypes'
  BY <1>2, <1>6 DEF Reads
<1>7. ASSUME NEW p \in Page, Opens(p) PROVE PageTypes'
  BY <1>7 DEF Opens
<1>8. ASSUME NEW p \in Page, TooSlow(p) \/ Breaks(p) \/ Flushes(p) \/ ReadsStatus(p)
      PROVE  PageTypes'
  BY <1>8 DEF TooSlow, Breaks, Flushes, ReadsStatus, AfterError
<1>9. CASE UNCHANGED pageVars
  BY <1>9 DEF pageVars
<1> HIDE <1>0 DEF PageTypes
<1> QED
  BY ZenonT(30), <1>4, <1>5, <1>6, <1>7, <1>8, <1>9 DEF StreamNext, ThreadStep, ThreadGoesOn,
     PageStep, RunStep, ThreadWrites, PageWrites, ThreadPublishes, ThreadDrops, EndsRun,
     PublishesDone, EndsSilently, Expires, Logs, streamVars

\* A stream starts without a line.
LEMMA StreamStart == StreamInit => StreamInv
<1> SUFFICES ASSUME StreamInit PROVE StreamInv
  OBVIOUS
<1> USE StreamAssumption DEF StreamInit
<1>1. /\ \A S : <<>> \in Seq(S)
      /\ Len(<<>>) = 0 /\ Range(<<>>) = {}
  BY EmptySeq, RangeOf
<1>2. StreamTypeOK
  <2>1. BufferTypes
    <3>1. /\ <<>> \in Seq(Line) /\ Len(<<>>) = 0
          /\ Lines \in Nat /\ Batch \in Nat \ {0} /\ 0 \in 0..Lines
      BY <1>1
    <3>2. held \in [Writer -> Seq(Line)]
      BY <1>1
    <3>3. logged = 0 /\ buffer = <<>> /\ db = <<>> /\ lost = {} /\ raced = FALSE
      OBVIOUS
    <3> HIDE DEF StreamInit
    <3>4. logged \in 0..Lines /\ buffer \in Seq(Line) /\ db \in Seq(Line)
      BY <3>1, <3>3
    <3>5. Len(buffer) < Batch
      BY <3>1, <3>3
    <3> QED
      BY <3>2, <3>3, <3>4, <3>5 DEF BufferTypes
  <2>2. ThreadTypes
    BY <1>1 DEF ThreadTypes, Message, Done
  <2>3. QueueTypes
    BY <1>1, FS_EmptySet DEF QueueTypes, Live
  <2>4. PageTypes
    BY DEF PageTypes
  <2> QED
    BY <2>1, <2>2, <2>3, <2>4 DEF StreamTypeOK
<1>3. InHand = {}
  BY <1>1 DEF InHand
<1>4. OnePlace /\ OneBatch
  BY <1>1, <1>3 DEF OnePlace, OneBatch, Once, Rising, Before
<1>5. HoldsToWrite /\ SentOnce /\ Subscribed /\ NoGap
  BY <1>1, FS_EmptySet DEF HoldsToWrite, SentOnce, Subscribed, NoGap, Once, Writer
<1> QED
  BY <1>2, <1>4, <1>5 DEF StreamInv

\* Every step keeps the invariant: of the lines, of who writes, and of the subscribers.
THEOREM StreamInductive == StreamSpec => []StreamInv
<1>1. StreamInv /\ [StreamNext]_streamVars => StreamInv'
  BY PlaceStep, HoldStep, SentStep, QueueStep, SubscribedStep, GapStep, BufferTypeStep,
     ThreadTypeStep, PageTypeStep DEF StreamInv, StreamTypeOK
<1> QED
  BY StreamStart, <1>1, PTL DEF StreamSpec

\* The lines that wait, are written, lost or at hand are those that were logged.
LEMMA KeptCounts == StreamInv => KeptInOrder
<1> SUFFICES ASSUME StreamInv PROVE KeptInOrder
  OBVIOUS
<1>1. /\ logged \in Nat /\ buffer \in Seq(Nat) /\ db \in Seq(Nat)
      /\ OnePlace /\ OneBatch
  BY StreamTypes DEF StreamInv
<1>2. IsFiniteSet(1..logged) /\ Cardinality(1..logged) = logged
  BY <1>1, FS_Interval
<1>3. Cardinality(Range(buffer)) = Len(buffer) /\ Cardinality(Range(db)) = Len(db)
  BY <1>1, OnceRising, OnceCounts DEF OnePlace
<1> DEFINE B == Range(buffer)
           D == Range(db)
<1>4. /\ B \cup D \cup lost \cup InHand = 1..logged
      /\ B \cap (D \cup lost \cup InHand) = {}
      /\ D \cap (lost \cup InHand) = {} /\ lost \cap InHand = {}
  BY <1>1 DEF OnePlace
<1>5. /\ Cardinality(B) = Len(buffer) /\ Cardinality(D) = Len(db)
  BY <1>3
<1>6. Len(buffer) + Len(db) + Cardinality(lost) + Cardinality(InHand) = logged
  <2> HIDE DEF B, D
  <2>1. IsFiniteSet(B) /\ IsFiniteSet(D) /\ IsFiniteSet(lost) /\ IsFiniteSet(InHand)
    BY <1>2, <1>4, FS_Subset
  <2>2. /\ IsFiniteSet(lost \cup InHand)
        /\ Cardinality(lost \cup InHand) =
              Cardinality(lost) + Cardinality(InHand) - Cardinality(lost \cap InHand)
    BY <2>1, FS_Union
  <2>3. /\ IsFiniteSet(D \cup (lost \cup InHand))
        /\ Cardinality(D \cup (lost \cup InHand)) =
              Cardinality(D) + Cardinality(lost \cup InHand)
              - Cardinality(D \cap (lost \cup InHand))
    BY <2>1, <2>2, FS_Union
  <2>4. Cardinality(B \cup (D \cup (lost \cup InHand))) =
           Cardinality(B) + Cardinality(D \cup (lost \cup InHand))
           - Cardinality(B \cap (D \cup (lost \cup InHand)))
    BY <2>1, <2>3, FS_Union
  <2>5. /\ B \cup (D \cup (lost \cup InHand)) = 1..logged /\ B \cap (D \cup (lost \cup InHand)) = {}
        /\ D \cap (lost \cup InHand) = {} /\ lost \cap InHand = {}
    BY <1>4
  <2>6. /\ Cardinality(B) \in Nat /\ Cardinality(D) \in Nat /\ Cardinality(lost) \in Nat
        /\ Cardinality(InHand) \in Nat /\ Cardinality({}) = 0
    BY <2>1, FS_CardinalityType, FS_EmptySet
  <2>7. /\ Cardinality(lost \cap InHand) = 0 /\ Cardinality(D \cap (lost \cup InHand)) = 0
        /\ Cardinality(B \cap (D \cup (lost \cup InHand))) = 0
    BY <2>5, <2>6
  <2>8. /\ Cardinality(lost \cup InHand) \in Nat /\ Cardinality(D \cup (lost \cup InHand)) \in Nat
    BY <2>2, <2>3, FS_CardinalityType
  <2>9. Cardinality(B \cup (D \cup (lost \cup InHand))) =
           Cardinality(B) + Cardinality(D) + Cardinality(lost) + Cardinality(InHand)
    BY ONLY <2>2, <2>3, <2>4, <2>6, <2>7, <2>8
  <2>10. Cardinality(1..logged) =
            Cardinality(B) + Cardinality(D) + Cardinality(lost) + Cardinality(InHand)
    BY ONLY <2>5, <2>9
  <2> QED
    BY ONLY <1>2, <1>5, <2>10, <2>6
<1>7. ~raced => \A i \in 2..Len(db) : db[i - 1] < db[i]
  <2> SUFFICES ASSUME ~raced, NEW i \in 2..Len(db) PROVE db[i - 1] < db[i]
    OBVIOUS
  <2>1. Rising(db) /\ Len(db) \in Nat
    BY <1>1, LenProperties DEF OneBatch
  <2>2. i - 1 \in 1..Len(db) /\ i \in 1..Len(db) /\ i - 1 < i
    BY <2>1
  <2> QED
    BY <2>1, <2>2 DEF Rising
<1> QED
  BY <1>1, <1>4, <1>6, <1>7 DEF KeptInOrder, InHand

\* No line that was logged is lost silently: it waits in the buffer, is in a writer's
\* hands, in the table, or was in a batch whose write raised; the table is in order unless
\* two batches were out at once; and a subscriber that no message missed has been sent,
\* or will find in its queue, every line published since it subscribed.
THEOREM LinesKept == StreamSpec => []LinesAreKept
<1>1. StreamInv => LinesAreKept
  BY KeptCounts DEF StreamInv, LinesAreKept
<1> QED
  BY StreamInductive, <1>1, PTL
=============================================================================
