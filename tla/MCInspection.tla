---------------------------- MODULE MCInspection ----------------------------
(***************************************************************************)
(* Two servers of a batch and one project run, two checks each.  A         *)
(* behaviour is about one of the two kinds; the runs of the other are      *)
(* deleted already.                                                        *)
(***************************************************************************)
EXTENDS Inspection

VARIABLE about

\* Every check in one category, so that the worst of them counts.
OneCategory(i) == "A"

MCInit ==
    /\ about \in {"batch", "project"} /\ Init
    /\ {r \in Run : Exists(r)} = IF about = "batch" THEN 1..Batch ELSE Project

\* What the checks of a batch find, to keep two runs of two checks small: the first check
\* of the first server passes or cannot run, the others pass.
Few ==
    \A r \in 1..Batch : \A i \in DOMAIN rows'[r] :
        \/ rows'[r][i].found \in {"RUNNING", "PASS"}
        \/ rows'[r][i].found = "ERROR" /\ (<<r, i>> = <<1, 1>> \/ rows'[r][i].cat = "SYSTEM")

\* One thing is wrong in a batch at a time: a restart, a commit that raises, or a check
\* of the first server that hangs; and only its common report is discarded.
MCNext ==
    /\ Next /\ UNCHANGED about
    /\ about = "batch" =>
          /\ Few /\ discarded' \subseteq {Merged}
          /\ slow' \subseteq {1} /\ raises' + restarts' + Cardinality(slow') <= 1

MCSpec ==
    /\ MCInit /\ [][MCNext]_<<about, vars>>
    /\ WF_vars(about = "project" /\ \E r \in Project \ slow : Executes(r))

\* While the process lives and its checks answer a project run ends.
ProjectEnds == about = "project" => RunEnds
=============================================================================
