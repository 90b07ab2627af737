---------------------------- MODULE MCConnections ----------------------------
(***************************************************************************)
(* An instance of the two components that hold SSH connections: the pool   *)
(* (SshPool) and the terminals (TerminalSessions).  A behaviour is about   *)
(* one of them; the other stays as it starts.                              *)
(***************************************************************************)
EXTENDS SshPool, TerminalSessions, TLC

CONSTANTS u1, u2, u3, a1, a2, s1, s2, s3, k1, k2, c1, c2

VARIABLE about

MCInit == about \in {"pool", "terminals", "sharing"} /\ Init /\ ShellInit
PoolNext == about = "pool" /\ Next /\ UNCHANGED <<about, shellVars>>

\* Bounds: sessions either have a client each, whose shells do not end before they are
\* closed, or share clients; and the calls that close one and the browsers attached, all
\* in all, are three in the first case and one in the second.
Apart == \A s \in Session : ssh'[s] \in {None, s} /\ shell'[s] \notin {"severed", "ended"}
Busy == closes' + Cardinality({k \in Socket : spc'[k] # "off"})

TerminalsNext ==
    /\ ShellNext /\ UNCHANGED <<about, vars>>
    /\ \/ about = "terminals" /\ Apart /\ Busy <= 3
       \/ about = "sharing" /\ Busy <= 1
MCNext == PoolNext \/ TerminalsNext
MCSpec == MCInit /\ [][MCNext]_<<about, vars, shellVars>>

\* The users that close their client are alike.
Symmetric ==
    Permutations({u1, u2}) \cup Permutations({a1, a2}) \cup Permutations({s1, s2, s3})
    \cup Permutations({k1, k2}) \cup Permutations({c1, c2})
=============================================================================
