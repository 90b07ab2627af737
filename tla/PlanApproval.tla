---------------------------- MODULE PlanApproval ----------------------------
(***************************************************************************)
(* The approval of execution plans: ExecutionPlanService of                *)
(* app/services/execution_plan.py, called by sessions that run in threads  *)
(* of their own (tools, web endpoints).  consume and the execution that    *)
(* follows it in the same call are approval_execute_plan of                *)
(* services/tool_adapters/approval_tools.py.                               *)
(*                                                                         *)
(* A step is one commit, or one read whose answer is used after it: a      *)
(* session decides on the row it loaded, and an ORM write updates the row  *)
(* by its id whatever its status has become.  Only the update in consume   *)
(* and the sweep of expire_stale name the status they expect.              *)
(*                                                                         *)
(* All plans have the same content, hence the same digest and the same     *)
(* confirmation phrase.                                                    *)
(***************************************************************************)
EXTENDS Naturals, FiniteSets

CONSTANTS Plan, Session, NoPlan

ASSUME NoPlanAssumption == NoPlan \notin Plan

VARIABLES
    status,     \* ExecutionPlan.status, "absent" before the row exists
    consumed,   \* plans with a consumed_at
    late,       \* plans whose expires_at has passed
    drifted,    \* plans whose targets have left their environment
    pc,         \* where the call of a session stands
    at,         \* the plan a session works on
    runs,       \* history: how often a plan was set running
    clobbered   \* history: plans whose status was overwritten out of turn

vars == <<status, consumed, late, drifted, pc, at, runs, clobbered>>

Finals == {"SUCCEEDED", "FAILED", "PARTIAL_FAILED"}
Status == {"absent", "PENDING_APPROVAL", "APPROVED", "RUNNING", "REJECTED",
           "EXPIRED"} \cup Finals

Init ==
    /\ status = [p \in Plan |-> "absent"]
    /\ consumed = {} /\ late = {} /\ drifted = {} /\ clobbered = {}
    /\ pc = [s \in Session |-> "idle"]
    /\ at = [s \in Session |-> NoPlan]
    /\ runs = [p \in Plan |-> 0]

Goto(s, where) == pc' = [pc EXCEPT ![s] = where]
Loads(s, p) == at' = [at EXCEPT ![s] = p]

\* An ORM write of status x on p by a session that saw it in status `seen'.
Writes(p, seen, x) ==
    /\ status' = [status EXCEPT ![p] = x]
    /\ clobbered' = IF status[p] = seen THEN clobbered ELSE clobbered \cup {p}

-----------------------------------------------------------------------------
(* prepare: an equal plan that is pending is returned, else one is inserted. *)

PrepareRead(s) ==
    /\ pc[s] = "idle"
    /\ Goto(s, IF \E p \in Plan : status[p] = "PENDING_APPROVAL"
               THEN "done" ELSE "inserting")
    /\ UNCHANGED <<status, consumed, late, drifted, at, runs, clobbered>>

PrepareInsert(s, p) ==
    /\ pc[s] = "inserting" /\ status[p] = "absent"
    /\ status' = [status EXCEPT ![p] = "PENDING_APPROVAL"]
    /\ Goto(s, "done")
    /\ UNCHANGED <<consumed, late, drifted, at, runs, clobbered>>

-----------------------------------------------------------------------------
(* consume, for a caller whose phrase, room and identity are right.        *)

ConsumeRead(s, p) ==
    /\ pc[s] = "idle"
    /\ status[p] = "PENDING_APPROVAL" /\ p \notin consumed
    /\ Goto(s, "loaded") /\ Loads(s, p)
    /\ UNCHANGED <<status, consumed, late, drifted, runs, clobbered>>

ConsumeExpires(s) ==
    /\ pc[s] = "loaded" /\ at[s] \in late
    /\ Writes(at[s], "PENDING_APPROVAL", "EXPIRED")
    /\ Goto(s, "done")
    /\ UNCHANGED <<consumed, late, drifted, at, runs>>

ConsumeInTime(s) ==
    /\ pc[s] = "loaded" /\ at[s] \notin late
    /\ Goto(s, "inTime")
    /\ UNCHANGED <<status, consumed, late, drifted, at, runs, clobbered>>

\* The digest of the stored manifest or the production clause does not match:
\* the call ends and leaves the status alone.
ConsumeRefuses(s) ==
    /\ pc[s] = "inTime"
    /\ Goto(s, "done")
    /\ UNCHANGED <<status, consumed, late, drifted, at, runs, clobbered>>

ConsumeIsolates(s) ==
    /\ pc[s] = "inTime" /\ at[s] \in drifted
    /\ Writes(at[s], "PENDING_APPROVAL", "REJECTED")
    /\ Goto(s, "done")
    /\ UNCHANGED <<consumed, late, drifted, at, runs>>

ConsumeChecked(s) ==
    /\ pc[s] = "inTime" /\ at[s] \notin drifted
    /\ Goto(s, "checked")
    /\ UNCHANGED <<status, consumed, late, drifted, at, runs, clobbered>>

\* Mutants: an update that names no expected status; one that only asks whether
\* the plan was consumed.
ClaimableAlways(p) == p \in Plan
ClaimableOnce(p) == p \notin consumed

\* The update with WHERE status = PENDING_APPROVAL AND consumed_at IS NULL.
Claimable(p) == status[p] = "PENDING_APPROVAL" /\ p \notin consumed

Consume(s) ==
    /\ pc[s] = "checked" /\ Claimable(at[s])
    /\ status' = [status EXCEPT ![at[s]] = "APPROVED"]
    /\ consumed' = consumed \cup {at[s]}
    /\ Goto(s, "won")
    /\ UNCHANGED <<late, drifted, at, runs, clobbered>>

ConsumeLoses(s) ==
    /\ pc[s] = "checked" /\ ~Claimable(at[s])
    /\ Goto(s, "done")
    /\ UNCHANGED <<status, consumed, late, drifted, at, runs, clobbered>>

-----------------------------------------------------------------------------
(* PlanExecutor.execute, called with the plan just consumed; the steps are *)
(* in module PlanExecutor.                                                 *)

ExecuteRead(s) ==
    /\ pc[s] = "won"
    /\ Goto(s, IF status[at[s]] = "APPROVED" THEN "starting" ELSE "done")
    /\ UNCHANGED <<status, consumed, late, drifted, at, runs, clobbered>>

ExecuteStart(s) ==
    /\ pc[s] = "starting"
    /\ Writes(at[s], "APPROVED", "RUNNING")
    /\ runs' = [runs EXCEPT ![at[s]] = @ + 1]
    /\ Goto(s, "running")
    /\ UNCHANGED <<consumed, late, drifted, at>>

ExecuteFinish(s) ==
    /\ pc[s] = "running"
    /\ \E x \in Finals : Writes(at[s], "RUNNING", x)
    /\ Goto(s, "done")
    /\ UNCHANGED <<consumed, late, drifted, at, runs>>

-----------------------------------------------------------------------------
(* reject, and the tool and the endpoint around it: the row is loaded      *)
(* once, and the second look is at the same object.                        *)

RejectRead(s, p) ==
    /\ pc[s] = "idle" /\ status[p] = "PENDING_APPROVAL"
    /\ Goto(s, "rejecting") /\ Loads(s, p)
    /\ UNCHANGED <<status, consumed, late, drifted, runs, clobbered>>

RejectWrite(s) ==
    /\ pc[s] = "rejecting"
    /\ Writes(at[s], "PENDING_APPROVAL", "REJECTED")
    /\ Goto(s, "done")
    /\ UNCHANGED <<consumed, late, drifted, at, runs>>

\* Mutant: the sweep does not ask for the status.
SweptLate == late

\* expire_stale: one update of every pending plan that is late.
Swept == {p \in late : status[p] = "PENDING_APPROVAL"}

ExpireStale ==
    /\ Swept # {}
    /\ status' = [p \in Plan |-> IF p \in Swept THEN "EXPIRED" ELSE status[p]]
    /\ UNCHANGED <<consumed, late, drifted, pc, at, runs, clobbered>>

-----------------------------------------------------------------------------
(* The environment: time, the configuration, the death of the process.     *)

Lapse(p) ==
    /\ status[p] # "absent" /\ p \notin late
    /\ late' = late \cup {p}
    /\ UNCHANGED <<status, consumed, drifted, pc, at, runs, clobbered>>

Drift(p) ==
    /\ status[p] # "absent" /\ p \notin drifted
    /\ drifted' = drifted \cup {p}
    /\ UNCHANGED <<status, consumed, late, pc, at, runs, clobbered>>

\* Nothing resumes a plan after a restart.
Restart ==
    /\ \E s \in Session : pc[s] \notin {"idle", "done"}
    /\ pc' = [s \in Session |-> IF pc[s] = "idle" THEN "idle" ELSE "done"]
    /\ UNCHANGED <<status, consumed, late, drifted, at, runs, clobbered>>

SessionStep(s) ==
    \/ PrepareRead(s) \/ \E p \in Plan : PrepareInsert(s, p)
    \/ \E p \in Plan : ConsumeRead(s, p)
    \/ ConsumeExpires(s) \/ ConsumeInTime(s) \/ ConsumeRefuses(s)
    \/ ConsumeIsolates(s) \/ ConsumeChecked(s) \/ Consume(s) \/ ConsumeLoses(s)
    \/ ExecuteRead(s) \/ ExecuteStart(s) \/ ExecuteFinish(s)
    \/ \E p \in Plan : RejectRead(s, p)
    \/ RejectWrite(s)

Next ==
    \/ \E s \in Session : SessionStep(s)
    \/ ExpireStale
    \/ \E p \in Plan : Lapse(p) \/ Drift(p)
    \/ Restart

Spec == Init /\ [][Next]_vars

-----------------------------------------------------------------------------
Places == {"idle", "inserting", "loaded", "inTime", "checked", "won",
           "starting", "running", "rejecting", "done"}

TypeOK ==
    /\ status \in [Plan -> Status]
    /\ consumed \subseteq Plan /\ late \subseteq Plan
    /\ drifted \subseteq Plan /\ clobbered \subseteq Plan
    /\ pc \in [Session -> Places]
    /\ at \in [Session -> Plan \cup {NoPlan}]
    /\ runs \in [Plan -> Nat]

\* The sessions whose update claimed a plan and that have not ended.
Claimed(s) == pc[s] \in {"won", "starting", "running"}

\* However many sessions race with the same phrase, one of them claims the plan
\* and it is set running at most once.
OneExecution ==
    /\ \A s, t \in Session : Claimed(s) /\ Claimed(t) /\ at[s] = at[t] => s = t
    /\ \A p \in Plan : runs[p] <= 1

\* As long as no write landed on a status it did not expect, the status tells
\* the truth: a running session works on a RUNNING plan, and a plan that is
\* REJECTED or EXPIRED was never consumed, whatever sweeps and late approvals
\* do meanwhile.
StatusTellsTheTruth ==
    \A p \in Plan \ clobbered :
        /\ \A s \in Session : pc[s] = "running" /\ at[s] = p => status[p] = "RUNNING"
        /\ status[p] \in {"REJECTED", "EXPIRED", "PENDING_APPROVAL"} => p \notin consumed

\* The phase of a plan in the abstract life cycle, read off the columns the
\* races do not touch.
Phase(p) ==
    IF status[p] = "absent" THEN "absent"
    ELSE IF \E s \in Session : pc[s] = "running" /\ at[s] = p THEN "executing"
    ELSE IF runs[p] > 0 THEN "over"
    ELSE IF \E s \in Session : pc[s] \in {"won", "starting"} /\ at[s] = p THEN "approved"
    ELSE IF p \notin consumed /\ status[p] = "PENDING_APPROVAL" THEN "pending"
    ELSE "closed"

Lifecycle == INSTANCE ApprovalLifecycle WITH phase <- [p \in Plan |-> Phase(p)]

\* The races of consume, reject, expiry and restart implement the life cycle:
\* executed at most once, only when approved, never once closed.
ImplementsLifecycle == Lifecycle!Spec

\* A plan marked REJECTED is not executed afterwards, as the description of the
\* tool reject_plan puts it.
RejectionStopsExecution ==
    [][\A p \in Plan : status[p] = "REJECTED" => status'[p] # "RUNNING"]_vars
=============================================================================
