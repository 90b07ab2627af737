--------------------------- MODULE MCSelfApproval ---------------------------
(* Instances of SelfApproval.                                              *)
EXTENDS SelfApproval, TLC

Symmetric == Permutations(Call)
=============================================================================
