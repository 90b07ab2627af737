--------------------------- MODULE MCDeployLiveness ---------------------------
(***************************************************************************)
(* Small instances of DeployQueue for its liveness.  A behaviour is about  *)
(* one of two of them, which share their variables: the one the            *)
(* configuration gives, or T, in which a tool cancels and locks lapse.     *)
(***************************************************************************)
EXTENDS DeployQueue

VARIABLE about

\* Two rollbacks of one deployment, one run by its coroutine and one by the
\* worker, and a cancellation.
RollbackTask == {"d1", "r1", "r2"}
RollbackVia == [d1 |-> "tool", r1 |-> "web", r2 |-> "step"]
RollbackKeys == [d1 |-> <<"base">>, r1 |-> <<"rollback">>, r2 |-> <<"rollback">>]
RollbackOf == [d1 |-> "d1", r1 |-> "d1", r2 |-> "d1"]
WebCancelVia == [c1 |-> "web"]
RollbackCancelOf == [c1 |-> "d1"]
NoRetry == [d \in {} |-> d]

\* One deployment of the web with two keys, canceled by a tool; nobody asks for a
\* rollback.
ToolVia == [RollbackVia EXCEPT !["d1"] = "web"]
ToolKeys == [RollbackKeys EXCEPT !["d1"] = <<"base", "rollback">>]
ToolCancelVia == [c1 |-> "tool"]

T == INSTANCE DeployQueue WITH
         Via <- ToolVia, LockKeys <- ToolKeys, CancelVia <- ToolCancelVia,
         MaxClock <- 2, MaxForced <- 1

ASSUME T!QueueAssumption

-----------------------------------------------------------------------------
MCInit == about \in {"rollbacks", "tool"} /\ Init

\* A step of the instance the behaviour is about.
Step(A, B) == /\ \/ about = "rollbacks" /\ A
                 \/ about = "tool" /\ B
              /\ UNCHANGED about

NoRollback == \A r \in Rollback : pc'[r] = "idle"
MCNext == Step(Next, T!Next /\ NoRollback)

\* Fairness, which is T!Fairness where the behaviour is about T.
allVars == <<about, vars>>
MCFairness ==
    /\ SF_allVars(Step(WorkerRead, T!WorkerRead))
    /\ WF_allVars(Step(WorkerStep, T!WorkerStep))
    /\ \A j \in Task : /\ WF_allVars(Step(HandlerStep(j), T!HandlerStep(j)))
                       /\ SF_allVars(Step(RunStep(j), T!RunStep(j)))
    /\ WF_allVars(Step(CancelStep("c1"), T!CancelStep("c1")))

MCSpec == MCInit /\ [][MCNext]_allVars /\ MCFairness
=============================================================================
