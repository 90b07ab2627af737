--------------------------- MODULE InspectionScore ---------------------------
(***************************************************************************)
(* The score of an inspection run: _aggregate_risk_counts, _compute_score  *)
(* and the verdict of _finalize_run (services/inspection_center.py).  A    *)
(* row is an item result: its category and what the check found.  The rows *)
(* of one run carry one server, so the score is never averaged.            *)
(***************************************************************************)
EXTENDS Naturals, Sequences, FiniteSets

\* The risk level of what was found; a check that cannot run is a MEDIUM ERROR.
Risk == [RUNNING |-> "NONE", PASS |-> "NONE", LOW |-> "LOW", HIGH |-> "HIGH",
         ERROR |-> "MEDIUM"]

RISK_WEIGHT == [HIGH |-> 15, MEDIUM |-> 8, LOW |-> 2, NONE |-> 0]

RowsOf(rows) == {rows[i] : i \in DOMAIN rows}

Levels(rows, cat) == {Risk[x.found] : x \in {y \in RowsOf(rows) : y.cat = cat}}

\* The worst level of a category (RISK_ORDER).
Worst(rows, cat) ==
    CHOOSE l \in Levels(rows, cat) :
        \A k \in Levels(rows, cat) : RISK_WEIGHT[k] <= RISK_WEIGHT[l]

\* How many categories a level is the worst of.
CountOf(rows, level) ==
    Cardinality({c \in {x.cat : x \in RowsOf(rows)} : Worst(rows, c) = level})

\* At most 60 points are taken off.
ScoreOf(rows) ==
    LET off == CountOf(rows, "HIGH") * RISK_WEIGHT.HIGH
               + CountOf(rows, "MEDIUM") * RISK_WEIGHT.MEDIUM
               + CountOf(rows, "LOW") * RISK_WEIGHT.LOW
    IN  100 - (IF off > 60 THEN 60 ELSE off)

Verdict(rows) ==
    IF \E x \in RowsOf(rows) : x.found = "ERROR" THEN "PARTIAL_SUCCESS" ELSE "SUCCESS"
=============================================================================
