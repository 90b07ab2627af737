-------------------------- MODULE ApprovalLifecycle --------------------------
(***************************************************************************)
(* What the approval of execution plans promises: a plan is executed at    *)
(* most once, only after it was approved, and never after it was closed    *)
(* (rejected or expired) first.                                            *)
(***************************************************************************)
CONSTANT Plan

VARIABLE phase

TypeOK == phase \in [Plan -> {"absent", "pending", "approved", "executing",
                              "over", "closed"}]

Init == phase = [p \in Plan |-> "absent"]

\* The steps a plan may take; "over" and "closed" are final.
Move == {<<"absent", "pending">>, <<"pending", "approved">>,
         <<"pending", "closed">>, <<"approved", "executing">>,
         <<"approved", "closed">>, <<"executing", "over">>}

\* One event may move several plans: the sweep of expired plans, a restart.
Next ==
    /\ phase' \in [Plan -> {"absent", "pending", "approved", "executing",
                            "over", "closed"}]
    /\ \A p \in Plan : phase'[p] # phase[p] => <<phase[p], phase'[p]>> \in Move

Spec == Init /\ [][Next]_phase
=============================================================================
