--------------------------- MODULE MCPlanApproval ---------------------------
(* Plans of equal content and sessions that race for them.                 *)
EXTENDS PlanApproval, TLC

Symmetry == Permutations(Plan) \cup Permutations(Session)
=============================================================================
