------------------------------- MODULE SshPool -------------------------------
(***************************************************************************)
(* SSHConnectionPool and SSHClient (ssh_client.py) for one pool key: every *)
(* user of a server gets the one client that is pooled, nothing counts its *)
(* users, and most of them close it when they are done (finally:           *)
(* ssh.close()).  A client is named after the user whose get made it.      *)
(*                                                                         *)
(* The paramiko objects a client holds one after another are numbered; one *)
(* that is not connected yet is "blank" and looks connected to everybody   *)
(* who only asks whether there is one.                                     *)
(***************************************************************************)
EXTENDS Naturals, FiniteSets

CONSTANTS
    User,
    Keeps,      \* users that leave the client to the pool (_ssh_session, SFTP)
    KeyFile,    \* the server is reached with a key file: nothing to forget
    NoClient,
    MaxLinks    \* bound: paramiko objects in all

NoLink == 0
Link == 1..MaxLinks

ASSUME PoolAssumption ==
    /\ Keeps \subseteq User /\ NoClient \notin User
    /\ KeyFile \in BOOLEAN /\ MaxLinks \in Nat

VARIABLES
    entry,      \* the client in the pool
    stale,      \* the last get of the entry is max_idle_time ago
    conn,       \* client -> its _client
    secret,     \* clients that still know password and key_content
    made,       \* paramiko objects so far
    link,       \* their connections
    at,         \* user -> its place
    client,     \* user -> the client it got
    line,       \* user -> the object its connect or its command is about
    disturbed,  \* history: users that shared their client, had it for longer than
                \*          max_idle_time, or lost it to the network or the shutdown
    left,       \* history: clients left by their last user, or overwritten after that
    orphans     \* history: objects forgotten while they were being connected

pool == <<entry, stale>>
clients == <<conn, secret, made, link>>
users == <<at, client, line>>
history == <<disturbed, left, orphans>>
vars == <<pool, clients, users, history>>

Init ==
    /\ entry = NoClient /\ stale = FALSE
    /\ conn = [c \in User |-> NoLink] /\ secret = {}
    /\ made = 0 /\ link = [k \in Link |-> "none"]
    /\ at = [u \in User |-> "idle"] /\ client = [u \in User |-> NoClient]
    /\ line = [u \in User |-> NoLink]
    /\ disturbed = {} /\ left = {} /\ orphans = {}

Has(u, c) == at[u] \notin {"idle", "connect", "over"} /\ client[u] = c
Holders(c) == {u \in User : Has(u, c)}
LinkOf(c) == IF c = NoClient \/ conn[c] = NoLink THEN "none" ELSE link[conn[c]]

\* SSHClient.close: the object is forgotten, connected or not, and the secrets too.
Closes(c) ==
    /\ conn' = [conn EXCEPT ![c] = NoLink] /\ secret' = secret \ {c}
    /\ link' = IF LinkOf(c) \in {"open", "dead"} THEN [link EXCEPT ![conn[c]] = "closed"]
                                                 ELSE link
    /\ orphans' = IF LinkOf(c) = "blank" THEN orphans \cup {conn[c]} ELSE orphans

\* SSHClient.connect up to the network: a new object, after closing c (if any).
Dials(u, c, mine, where) ==
    /\ made < MaxLinks /\ made' = made + 1
    /\ line' = [line EXCEPT ![u] = made'] /\ at' = [at EXCEPT ![u] = where]
    /\ conn' = [x \in User |-> IF x = mine THEN made' ELSE IF x = c THEN NoLink ELSE conn[x]]
    /\ link' = [k \in Link |->
                  IF k = made' THEN "blank"
                  ELSE IF c # NoClient /\ conn[c] = k /\ link[k] \in {"open", "dead"} THEN "closed"
                  ELSE link[k]]
    /\ orphans' = IF LinkOf(c) = "blank" THEN orphans \cup {conn[c]} ELSE orphans

Goes(u, where) == at' = [at EXCEPT ![u] = where]
Ready(u, where) == Goes(u, where) /\ line' = [line EXCEPT ![u] = NoLink]

Leaves(u) == Ready(u, "over") /\ client' = [client EXCEPT ![u] = NoClient]

\* An exception: the client is closed by all of its users alike.
Raises(u) ==
    /\ Leaves(u) /\ Closes(client[u]) /\ UNCHANGED made

-----------------------------------------------------------------------------
\* Mutant: a hit is not an access.
HitsNoAccess(u) ==
    /\ at[u] = "idle" /\ LinkOf(entry) \in {"open", "dead"}
    /\ Goes(u, "ready") /\ client' = [client EXCEPT ![u] = entry] /\ UNCHANGED stale
    /\ disturbed' = IF LinkOf(entry) = "dead" \/ Holders(entry) # {}
                       THEN disturbed \cup Holders(entry) \cup {u} ELSE disturbed
    /\ UNCHANGED <<entry, clients, line, left, orphans>>

\* get, the pooled client is alive: a connection that died silently may look so.
Hits(u) ==
    /\ at[u] = "idle" /\ LinkOf(entry) \in {"open", "dead"}
    /\ Goes(u, "ready") /\ client' = [client EXCEPT ![u] = entry] /\ stale' = FALSE
    /\ disturbed' = IF LinkOf(entry) = "dead" \/ Holders(entry) # {}
                       THEN disturbed \cup Holders(entry) \cup {u} ELSE disturbed
    /\ UNCHANGED <<entry, clients, line, left, orphans>>

\* get, there is none or it is not: it is dropped from the pool and closed, the
\* lock is given back, and a new one is connected.
Misses(u) ==
    /\ at[u] = "idle" /\ LinkOf(entry) # "open"
    /\ entry' = NoClient /\ stale' = FALSE
    /\ Dials(u, entry, u, "connect") /\ client' = [client EXCEPT ![u] = u]
    /\ secret' = (secret \ {entry}) \cup {u}
    /\ UNCHANGED <<disturbed, left>>

\* ... and put in the pool, over whatever another miss has put there meanwhile.
Puts(u) ==
    /\ at[u] = "connect" /\ Ready(u, "ready")
    /\ link' = [link EXCEPT ![line[u]] = "open"]
    /\ entry' = u /\ stale' = FALSE
    /\ left' = IF entry # NoClient /\ Holders(entry) = {} THEN left \cup {entry} ELSE left
    /\ UNCHANGED <<conn, secret, made, client, disturbed, orphans>>

Refused(u) ==
    /\ at[u] = "connect" /\ Leaves(u) /\ secret' = secret \ {u}
    /\ UNCHANGED <<pool, conn, made, link, history>>

\* exec: connect if there is no object; start the command; if the transport is dead,
\* close, connect and try once more.
Executes(u) ==
    /\ at[u] \in {"ready", "try", "last"}
    /\ LET c == client[u] IN
       \/ LinkOf(c) = "open" /\ Goes(u, "run") /\ line' = [line EXCEPT ![u] = conn[c]]
          /\ UNCHANGED <<clients, client, orphans>>
       \/ at[u] = "ready" /\ LinkOf(c) = "none" /\ Dials(u, NoClient, c, "first")
          /\ UNCHANGED <<secret, client>>
       \/ at[u] # "last" /\ LinkOf(c) = "dead" /\ Dials(u, c, c, "second")
          /\ secret' = secret \ {c} /\ UNCHANGED client
       \/ \/ LinkOf(c) = "blank"
          \/ at[u] # "ready" /\ LinkOf(c) = "none"
          \/ at[u] = "last" /\ LinkOf(c) = "dead"
          /\ Raises(u)
    /\ UNCHANGED <<pool, disturbed, left>>

CanLogIn(c) == KeyFile \/ c \in secret

\* connect ends: the object is open, whether or not its client still knows it.
Reconnected(u) ==
    /\ at[u] \in {"first", "second"} /\ CanLogIn(client[u])
    /\ link' = [link EXCEPT ![line[u]] = "open"]
    /\ Ready(u, IF at[u] = "first" THEN "try" ELSE "last")
    /\ UNCHANGED <<pool, conn, secret, made, client, history>>

NotReconnected(u) ==
    /\ at[u] \in {"first", "second"} /\ Raises(u)
    /\ disturbed' = IF CanLogIn(client[u]) THEN disturbed \cup {u} ELSE disturbed
    /\ UNCHANGED <<pool, left>>

\* recv_exit_status: the command's, or -1 if the connection is gone.
Answers(u) ==
    /\ at[u] = "run" /\ Ready(u, "ready")
    /\ UNCHANGED <<pool, clients, client, history>>

\* The user is done: close, or leave it to the pool.
Done(u) ==
    /\ at[u] = "ready" /\ Leaves(u)
    /\ \/ Closes(client[u]) /\ UNCHANGED left
       \/ /\ u \in Keeps /\ UNCHANGED <<conn, secret, link, orphans>>
          /\ left' = IF entry # client[u] THEN left \cup {client[u]} ELSE left
    /\ UNCHANGED <<pool, made, disturbed>>

\* cleanup, every minute: the time of the last get counts, not of the last command.
Cleanup ==
    /\ entry # NoClient /\ stale /\ entry' = NoClient /\ stale' = FALSE
    /\ Closes(entry)
    /\ UNCHANGED <<made, users, disturbed, left>>

\* close_all, when the process stops.
CloseAll ==
    /\ entry # NoClient /\ entry' = NoClient /\ stale' = FALSE
    /\ Closes(entry) /\ disturbed' = disturbed \cup Holders(entry)
    /\ UNCHANGED <<made, users, left>>

TimePasses ==
    /\ entry # NoClient /\ ~stale /\ stale' = TRUE
    /\ disturbed' = disturbed \cup Holders(entry)
    /\ UNCHANGED <<entry, clients, users, left, orphans>>

Drops(k) ==
    /\ link[k] = "open" /\ link' = [link EXCEPT ![k] = "dead"]
    /\ disturbed' = disturbed \cup UNION {Holders(c) : c \in {x \in User : conn[x] = k}}
    /\ UNCHANGED <<pool, conn, secret, made, users, left, orphans>>

UserStep(u) ==
    \/ Hits(u) \/ Misses(u) \/ Puts(u) \/ Refused(u) \/ Executes(u) \/ Reconnected(u)
    \/ NotReconnected(u) \/ Answers(u) \/ Done(u)

Next ==
    \/ \E u \in User : UserStep(u)
    \/ Cleanup \/ CloseAll \/ TimePasses \/ \E k \in Link : Drops(k)

Spec == Init /\ [][Next]_vars

-----------------------------------------------------------------------------
TypeOK ==
    /\ entry \in User \cup {NoClient} /\ stale \in BOOLEAN
    /\ conn \in [User -> Link \cup {NoLink}] /\ secret \subseteq User
    /\ made \in 0..MaxLinks
    /\ link \in [Link -> {"none", "blank", "open", "dead", "closed"}]
    /\ at \in [User -> {"idle", "connect", "ready", "first", "second", "try", "last", "run", "over"}]
    /\ client \in [User -> User \cup {NoClient}]
    /\ \A u \in User : client[u] = NoClient <=> at[u] \in {"idle", "over"}
    /\ line \in [User -> Link \cup {NoLink}]
    /\ disturbed \subseteq User /\ left \subseteq User /\ orphans \subseteq Link

\* Whoever has its client to itself, for less than max_idle_time, on a network that
\* holds, keeps one connection to the end: no command is cut off or finds none.
UndisturbedKeepsItsLine ==
    \A c \in User : \A u \in Holders(c) \ disturbed :
        at[u] \in {"ready", "run"} /\ LinkOf(c) = "open" /\ (at[u] = "run" => line[u] = conn[c])

\* An open connection can be closed by somebody: it is the pooled client's or a user
\* is on it; unless its user left it to a pool that had another one by then, or got one
\* later, or its client was closed while it was being connected.
LeakHasCause ==
    \A k \in Link : link[k] = "open" =>
        \/ \E c \in User : conn[c] = k /\ (c = entry \/ Holders(c) # {} \/ c \in left)
        \/ k \in orphans

\* A password is known only to clients somebody can still close.
SecretHasOwner ==
    \A c \in secret : c = entry \/ Holders(c) # {} \/ at[c] = "connect" \/ c \in left

\* Connections are neither cut under a command nor forgotten with their secrets.
PoolIsSound == TypeOK /\ UndisturbedKeepsItsLine /\ LeakHasCause /\ SecretHasOwner
=============================================================================
