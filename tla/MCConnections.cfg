SPECIFICATION MCSpec
CONSTANTS
    u1 = u1  u2 = u2  u3 = u3  a1 = a1  a2 = a2  s1 = s1  s2 = s2  s3 = s3
    k1 = k1  k2 = k2  c1 = c1  c2 = c2
    User = {u1, u2, u3}
    Keeps = {u3}
    KeyFile = TRUE
    NoClient = nobody
    MaxLinks = 3
    Admin = {a1, a2}
    Session = {s1, s2, s3}
    Socket = {k1, k2}
    None = none
    Closer = {c1, c2}
    MaxSessions = 2
    PerUser = 1
    MaxCloses = 2
INVARIANTS PoolIsSound SessionsAreSound
SYMMETRY Symmetric
CHECK_DEADLOCK FALSE
