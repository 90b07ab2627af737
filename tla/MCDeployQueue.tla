---------------------------- MODULE MCDeployQueue ----------------------------
(***************************************************************************)
(* A small instance of DeployQueue.  A behaviour is about one of two       *)
(* groups of requests: "requests" of two deployments of one service, a     *)
(* rollback and two cancellations, or "lapses", in which locks expire, are *)
(* freed by an operator and are forgotten by a restart under a deployment, *)
(* its retry and a cancellation.  The other group never asks.              *)
(***************************************************************************)
EXTENDS DeployQueue

VARIABLE about

\* d1, d2 and r1: a web and a tool deployment of one service and server, and a
\* web rollback.  d3 and d4: the deployment of a plan step, and its retry.
QueueTask == {"d1", "d2", "r1", "d3", "d4"}
QueueVia == [d1 |-> "web", d2 |-> "tool", r1 |-> "web", d3 |-> "step", d4 |-> "retry"]
QueueKeys ==
    [d1 |-> <<"base", "server">>, d2 |-> <<"base", "server">>, r1 |-> <<"rollback">>,
     d3 |-> <<"base">>, d4 |-> <<"base">>]
QueueOf == [d1 |-> "d1", d2 |-> "d2", r1 |-> "d1", d3 |-> "d3", d4 |-> "d4"]
QueueRetry == [d4 |-> "d3"]
QueueCancelVia == [c1 |-> "tool", c2 |-> "web", c3 |-> "tool"]
QueueCancelOf == [c1 |-> "d1", c2 |-> "d1", c3 |-> "d3"]

\* These tasks and cancellations do not come in this step.
Absent(tasks, cancels) ==
    /\ \A j \in tasks : pc'[j] = "idle"
    /\ \A c \in cancels : cpc'[c] = "idle"

-----------------------------------------------------------------------------
MCInit == about \in {"requests", "lapses"} /\ Init

\* Bounds: a run that hangs is, to the others, one that takes long, so only that of d3
\* does; reads of the flag fail only among the requests, where runs end in fewer ways.
RequestsNext ==
    /\ about = "requests" /\ Next
    /\ Absent({"d3", "d4"}, {"c3"})
    /\ now' = 0 /\ boots' = 0 /\ forced' = 0
    /\ \A j \in Task : pc'[j] # "hung" /\ verdict'[j] # "partial_failed"
    /\ verdict'["d2"] # "failed"
LapsesNext ==
    /\ about = "lapses" /\ Next
    /\ Absent({"d1", "d2", "r1"}, {"c1", "c2"})
    /\ misread' = {} /\ pc'["d4"] # "hung"
MCNext == (RequestsNext \/ LapsesNext) /\ UNCHANGED about
MCSpec == MCInit /\ [][MCNext]_<<about, vars>>
=============================================================================
