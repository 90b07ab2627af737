\* Two grants of one scope, one of which covers the plan's actions, two calls at
\* a time, the code dead after two wrong attempts.
SPECIFICATION GrantSpec
CONSTANTS
    g1 = g1
    g2 = g2
    s1 = s1
    s2 = s2
    NoGrant = NoGrant
    Grant = {g1, g2}
    Call = {s1, s2}
    Covering = {g1}
    MaxAttempts = 2
INVARIANTS ScopeIsExclusive
PROPERTIES SelfClaimHadGrant
SYMMETRY Symmetric
CHECK_DEADLOCK FALSE
