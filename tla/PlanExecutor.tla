---------------------------- MODULE PlanExecutor ----------------------------
(***************************************************************************)
(* The execution of an approved plan: PlanExecutor.execute, _run_steps and *)
(* _final_status of app/services/plan_executor.py.  The steps run in their *)
(* declared order; a dependency may name any step of the plan, itself and  *)
(* later ones included (_normalize_steps of execution_plan.py checks only  *)
(* that it exists).                                                        *)
(*                                                                         *)
(* A step of the model is one commit or one call of a handler.  The        *)
(* process may die between any two of them, a statement on the database    *)
(* may raise at any of them, and execute may be called again for the same  *)
(* plan.  A handler that waits for a command on a server may never return. *)
(***************************************************************************)
EXTENDS Integers, FiniteSets

CONSTANTS
    StepCount,    \* the number of steps of the plan
    MaxCrashes    \* bound on the number of crashes

ASSUME StepCountAssumption == StepCount \in Nat \ {0}
ASSUME MaxCrashesAssumption == MaxCrashes \in Nat

Step == 1..StepCount

VARIABLES
    deps,             \* step -> the steps it depends on
    continueOnError,  \* policy.continue_on_error
    plan,             \* ExecutionPlan.status
    step,             \* step -> ExecutionPlanStep.status
    partial,          \* steps whose failed result has a success_count > 0
    pc,               \* where the call of execute stands
    cur,              \* the step the loop of _run_steps looks at
    calls,            \* history: how often the handler of a step was called
    failedBefore,     \* history: the steps that had failed when it was called
    crashes,          \* crashes so far
    mishaps           \* history: "resumed", "excepted", "unwritten"

vars == <<deps, continueOnError, plan, step, partial, pc, cur, calls, failedBefore, crashes, mishaps>>

Init ==
    /\ deps \in [Step -> SUBSET Step]
    /\ continueOnError \in BOOLEAN
    /\ plan = "APPROVED"
    /\ step = [i \in Step |-> "PENDING"]
    /\ partial = {}
    /\ pc = "idle" /\ cur = 1
    /\ calls = [i \in Step |-> 0]
    /\ failedBefore = [i \in Step |-> {}]
    /\ crashes = 0 /\ mishaps = {}

\* Mutant: RUNNING is not committed before the handler is called.
SetStepLate(i, s) == step' = [step EXCEPT ![i] = IF s = "RUNNING" THEN @ ELSE s]

SetStep(i, s) == step' = [step EXCEPT ![i] = s]
Are(s) == {i \in Step : step[i] = s}

\* execute loads the plan: APPROVED and RUNNING go on, a RUNNING plan with a
\* step left RUNNING is failed.
Execute ==
    /\ pc = "idle" /\ plan \in {"APPROVED", "RUNNING"}
    /\ plan = "RUNNING" => Are("RUNNING") = {}
    /\ plan' = "RUNNING"
    /\ pc' = "loop" /\ cur' = 1
    /\ mishaps' = mishaps \cup {m \in {"resumed"} : plan = "RUNNING"}
    /\ UNCHANGED <<deps, continueOnError, step, partial, calls, failedBefore, crashes>>

ExecuteLeftover ==
    /\ pc = "idle" /\ plan = "RUNNING" /\ Are("RUNNING") # {}
    /\ plan' = "FAILED"
    /\ UNCHANGED <<deps, continueOnError, step, partial, pc, cur, calls, failedBefore, crashes, mishaps>>

\* Steps that are not PENDING are passed over.
PassStep ==
    /\ pc = "loop" /\ cur \in Step /\ step[cur] # "PENDING"
    /\ cur' = cur + 1
    /\ UNCHANGED <<deps, continueOnError, plan, step, partial, pc, calls, failedBefore, crashes, mishaps>>

Blocked(i) == \E d \in deps[i] : step[d] # "SUCCEEDED"

SkipStep ==
    /\ pc = "loop" /\ cur \in Step /\ step[cur] = "PENDING" /\ Blocked(cur)
    /\ SetStep(cur, "SKIPPED")
    /\ cur' = cur + 1
    /\ UNCHANGED <<deps, continueOnError, plan, partial, pc, calls, failedBefore, crashes, mishaps>>

StartStep ==
    /\ pc = "loop" /\ cur \in Step /\ step[cur] = "PENDING" /\ ~Blocked(cur)
    /\ SetStep(cur, "RUNNING")
    /\ pc' = "call"
    /\ UNCHANGED <<deps, continueOnError, plan, partial, cur, calls, failedBefore, crashes, mishaps>>

\* The handler acts on the servers; what it did is committed in the next step.
\* recv_exit_status and sftp.put have no timeout, so it may hang.
CallHandler ==
    /\ pc = "call"
    /\ calls' = [calls EXCEPT ![cur] = @ + 1]
    /\ failedBefore' = [failedBefore EXCEPT ![cur] = Are("FAILED")]
    /\ pc' \in {"succeeded", "failed", "hung"}
    /\ UNCHANGED <<deps, continueOnError, plan, step, partial, cur, crashes, mishaps>>

HandlerReturns ==
    /\ pc = "hung"
    /\ pc' \in {"succeeded", "failed"}
    /\ UNCHANGED <<deps, continueOnError, plan, step, partial, cur, calls, failedBefore,
                   crashes, mishaps>>

StepSucceeds ==
    /\ pc = "succeeded"
    /\ SetStep(cur, "SUCCEEDED")
    /\ pc' = "loop" /\ cur' = cur + 1
    /\ UNCHANGED <<deps, continueOnError, plan, partial, calls, failedBefore, crashes, mishaps>>

\* A failure ends the loop unless the policy says continue_on_error.
StepFails ==
    /\ pc = "failed"
    /\ SetStep(cur, "FAILED")
    /\ partial' \in {partial, partial \cup {cur}}
    /\ IF continueOnError THEN pc' = "loop" /\ cur' = cur + 1
                          ELSE pc' = "final" /\ UNCHANGED cur
    /\ UNCHANGED <<deps, continueOnError, plan, calls, failedBefore, crashes, mishaps>>

\* Mutant: the loop waits for a step after the last one.
LoopEndsLate ==
    /\ pc = "loop" /\ cur > StepCount + 1
    /\ pc' = "final"
    /\ UNCHANGED <<deps, continueOnError, plan, step, partial, cur, calls, failedBefore, crashes, mishaps>>

LoopEnds ==
    /\ pc = "loop" /\ cur \notin Step
    /\ pc' = "final"
    /\ UNCHANGED <<deps, continueOnError, plan, step, partial, cur, calls, failedBefore, crashes, mishaps>>

\* Mutant: skipped steps are overlooked.
FinalStatusBlindToSkips == IF Are("FAILED") = {} THEN "SUCCEEDED" ELSE "PARTIAL_FAILED"

FinalStatus ==
    IF Are("SUCCEEDED") = Step THEN "SUCCEEDED"
    ELSE IF \/ Are("SUCCEEDED") # {} /\ Are("FAILED") \cup Are("SKIPPED") # {}
            \/ partial # {}
         THEN "PARTIAL_FAILED"
    ELSE "FAILED"

Finish ==
    /\ pc = "final"
    /\ plan' = FinalStatus
    /\ pc' = "idle"
    /\ UNCHANGED <<deps, continueOnError, step, partial, cur, calls, failedBefore, crashes, mishaps>>

\* A read or a commit of _run_steps or _final_status raises: what was not yet
\* committed is rolled back, and execute goes on in its except block, ...
Raises ==
    /\ pc \in {"loop", "call", "succeeded", "failed", "final"}
    /\ pc' = "except"
    /\ UNCHANGED <<deps, continueOnError, plan, step, partial, cur, calls, failedBefore,
                   crashes, mishaps>>

\* ... which fails the plan whatever its steps did.
Excepts ==
    /\ pc = "except"
    /\ plan' = "FAILED"
    /\ mishaps' = mishaps \cup {"excepted"}
    /\ pc' = "idle"
    /\ UNCHANGED <<deps, continueOnError, step, partial, cur, calls, failedBefore, crashes>>

\* The last commit, behind the try statement, raises out of execute: neither of
\* the two statuses is written.
CommitRaises ==
    /\ pc \in {"final", "except"}
    /\ mishaps' = mishaps \cup {"unwritten"}
    /\ pc' = "idle"
    /\ UNCHANGED <<deps, continueOnError, plan, step, partial, cur, calls, failedBefore, crashes>>

\* The process dies: the rows stay as they were last committed.
Crash ==
    /\ pc # "idle" /\ crashes < MaxCrashes
    /\ crashes' = crashes + 1
    /\ pc' = "idle"
    /\ UNCHANGED <<deps, continueOnError, plan, step, partial, cur, calls, failedBefore, mishaps>>

Call == Execute \/ ExecuteLeftover
Run ==
    \/ PassStep \/ SkipStep \/ StartStep \/ CallHandler \/ StepSucceeds
    \/ StepFails \/ LoopEnds \/ Finish \/ Excepts
Trouble == HandlerReturns \/ Raises \/ CommitRaises \/ Crash

Next == Call \/ Run \/ Trouble

\* The thread of execute goes on.  Nothing bounds how long a handler hangs, and
\* nobody is bound to call execute again after a crash.
Spec == Init /\ [][Next]_vars /\ WF_vars(Run)

-----------------------------------------------------------------------------
Terminal == {"SUCCEEDED", "FAILED", "PARTIAL_FAILED"}

TypeOK ==
    /\ deps \in [Step -> SUBSET Step]
    /\ continueOnError \in BOOLEAN
    /\ plan \in {"APPROVED", "RUNNING"} \cup Terminal
    /\ step \in [Step -> {"PENDING", "RUNNING", "SUCCEEDED", "FAILED", "SKIPPED"}]
    /\ partial \subseteq Step
    /\ pc \in {"idle", "loop", "call", "hung", "succeeded", "failed", "final", "except"}
    /\ cur \in 1..(StepCount + 1)
    /\ calls \in [Step -> Nat]
    /\ failedBefore \in [Step -> SUBSET Step]
    /\ crashes \in 0..MaxCrashes
    /\ mishaps \subseteq {"resumed", "excepted", "unwritten"}

\* No handler is called twice, whatever crashes and however often the plan is
\* executed again: a step that may have acted is never repeated.
CalledAtMostOnce == \A i \in Step : calls[i] <= 1

\* A handler is called only after all its dependencies have succeeded, and a
\* step that depends on itself or in a circle is never called.
DependenciesFirst ==
    \A i \in Step : calls[i] > 0 => \A d \in deps[i] : step[d] = "SUCCEEDED"

\* The status of a finished plan tells what was done: SUCCEEDED means that
\* every handler was called and succeeded, FAILED that no step succeeded, that a
\* step was left without a result or that the except block wrote it.
StatusIsHonest ==
    /\ plan = "SUCCEEDED" => \A i \in Step : step[i] = "SUCCEEDED" /\ calls[i] = 1
    /\ plan = "FAILED" =>
           Are("SUCCEEDED") = {} \/ Are("RUNNING") # {} \/ "excepted" \in mishaps
    /\ plan = "PARTIAL_FAILED" => Are("FAILED") # {} \/ Are("SKIPPED") # {}
    /\ plan \in Terminal /\ continueOnError =>
           Are("PENDING") = {} \/ Are("RUNNING") # {} \/ "excepted" \in mishaps

\* Without continue_on_error no handler is called once a step has failed, unless
\* execute was called again for a plan it had left RUNNING.
StopsUnlessResumed ==
    ~continueOnError /\ "resumed" \notin mishaps => \A i \in Step : failedBefore[i] = {}

\* The handlers that were called are called once, in an order the dependencies
\* allow, and none after the failure that stops the plan.
CallsInOrder == CalledAtMostOnce /\ DependenciesFirst /\ StopsUnlessResumed

\* The final status of a plan does not change any more.
FinalIsFinal == [][(plan \in Terminal) => (plan' = plan)]_vars

\* A call of execute comes to a final status unless the process dies, a handler
\* hangs on a server or the last commit raises.
ExecuteEnds ==
    (pc # "idle") ~>
        (plan \in Terminal \/ crashes > 0 \/ pc = "hung" \/ "unwritten" \in mishaps)
=============================================================================
