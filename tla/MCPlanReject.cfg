SPECIFICATION Spec
CONSTANTS
    Plan = {p1, p2}
    Session = {s1, s2, s3, s4}
    NoPlan = none
PROPERTY RejectionStopsExecution
CHECK_DEADLOCK FALSE
