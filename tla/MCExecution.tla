----------------------------- MODULE MCExecution -----------------------------
(***************************************************************************)
(* An instance of the three components that carry a deployment out: the    *)
(* steps of a plan (PlanExecutor), the servers of one deployment (Rollout) *)
(* and the log of a run on its way to the pages (LogStream).  A behaviour  *)
(* is about one of them; the others stay in a state they start in.         *)
(***************************************************************************)
EXTENDS PlanExecutor, Rollout, LogStream

CONSTANTS t1, p1, p2

VARIABLE about

ThreeServers == <<"s1", "s2", "s3">>
MCThread == {t1}
MCPage == {p1, p2}

\* The same with room for one subscriber only: the second page is turned away.
F == INSTANCE LogStream WITH Limit <- 1, MaxFaults <- 1

ASSUME F!StreamAssumption

all == <<about, vars, rolloutVars, streamVars>>

AnyPlan == <<[i \in Step |-> {}], FALSE>>
AnyRequest == [parallelism |-> 2, waveSize |-> 0, failFast |-> FALSE]

MCInit ==
    /\ about \in {"plan", "rollout", "log", "full log"} /\ Init /\ RolloutInit /\ StreamInit
    /\ about # "plan" => <<deps, continueOnError>> = AnyPlan
    /\ about # "rollout" => req = AnyRequest

PlanNext == about = "plan" /\ Next /\ UNCHANGED <<about, rolloutVars, streamVars>>
ServersNext == about = "rollout" /\ RolloutNext /\ UNCHANGED <<about, vars, streamVars>>
LogNext == about = "log" /\ StreamNext /\ UNCHANGED <<about, vars, rolloutVars>>
FullNext == about = "full log" /\ F!StreamNext /\ UNCHANGED <<about, vars, rolloutVars>>
MCNext == PlanNext \/ ServersNext \/ LogNext \/ FullNext

\* The fairness of the three specifications; the crowded log is checked for safety.
MCSpec ==
    /\ MCInit /\ [][MCNext]_all
    /\ WF_vars(about = "plan" /\ Run) /\ WF_rolloutVars(about = "rollout" /\ RolloutStep)
    /\ WF_streamVars(about = "log" /\ RunStep)
    /\ \A t \in Thread : WF_streamVars(about = "log" /\ ThreadGoesOn(t))
    /\ \A p \in Page : WF_streamVars(about = "log" /\ PageStep(p))

\* A plan ends unless the process dies; a rollout reports in the end, and reports
\* a cancellation that came in time.
WorkEnds == ExecuteEnds /\ (about = "rollout" => RunEnds)

\* A page that watches a run shows its end, unless one of the named causes keeps it.
PageLearns == about = "log" => LearnsTheEnd
=============================================================================
