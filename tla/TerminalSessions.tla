--------------------------- MODULE TerminalSessions -------------------------
(***************************************************************************)
(* The shells of the terminal workbench: the table of sessions with its    *)
(* two limits and its expiry (app/services/terminal_sessions.py), the      *)
(* handlers that open and close a session in threads, and the websockets   *)
(* that attach to one on the event loop (app/api/terminal.py).             *)
(*                                                                         *)
(* All sessions are on one server, so that they share the SSH client that  *)
(* the pool has for it (SshPool), and whoever closes it ends the shells of *)
(* all.  A client is named after the session whose get was the first to    *)
(* find it.  Of the time of a session's last activity it is kept which     *)
(* other sessions were active later.                                       *)
(***************************************************************************)
EXTENDS Naturals, FiniteSets

CONSTANTS
    Admin, Session, Socket,
    None,       \* no session, no user
    Closer,     \* DELETE handlers that may run at once
    MaxSessions,        \* MAX_TERMINAL_SESSIONS
    PerUser,    \* MAX_TERMINAL_SESSIONS_PER_USER_SERVER
    MaxCloses   \* bound: calls of the DELETE handler

ASSUME SessionsAssumption ==
    MaxSessions \in Nat \ {0} /\ PerUser \in Nat \ {0} /\ MaxCloses \in Nat
    /\ None \notin Session \cup Admin

VARIABLES
    table,      \* _sessions
    shell,      \* the shell of a session: none, opening, severed (opening, and the client
                \* was closed meanwhile), open, ended (with its record left), closed
    ssh,        \* session["client"], and that of a session whose shell is opened
    user,       \* whose session it is
    newer,      \* session -> the sessions with a later last_active_at
    due,        \* sessions that idled for ten minutes, or are an hour old
    connected,  \* ws_connected
    spc, place, \* of a websocket: its stage and its session
    cpc, target, caller,    \* of a DELETE handler
    closes,
    slipped,    \* history: sessions that were out of the table while someone who does not
                \* own them tried to close them
    broken      \* history: sessions whose websocket failed before its loop began

session == <<table, shell, ssh, user, newer, due, connected>>
socket == <<spc, place>>
closer == <<cpc, target, caller, closes>>
shellVars == <<session, socket, closer, slipped, broken>>

ShellInit ==
    /\ table = {} /\ shell = [s \in Session |-> "none"]
    /\ ssh = [s \in Session |-> None] /\ user = [s \in Session |-> None]
    /\ due = {} /\ newer = [s \in Session |-> {}]
    /\ connected = [s \in Session |-> FALSE]
    /\ spc = [k \in Socket |-> "off"] /\ place = [k \in Socket |-> None]
    /\ cpc = [c \in Closer |-> "idle"] /\ target = [c \in Closer |-> None]
    /\ caller = [c \in Closer |-> None] /\ closes = 0 /\ slipped = {} /\ broken = {}

In(s) == s \in table
Expired(s) == s \in due
\* The session has a record, in the table or in the hands of a handler.
Recorded(s) == shell[s] \in {"open", "ended"}

\* What its client's end does to a shell.
Cut(x) == IF x = "open" THEN "ended" ELSE IF x = "opening" THEN "severed" ELSE x

\* Whose client is closed with the sessions in gone: it is not theirs alone.
Sharing(gone) == {s \in Session : \E r \in gone : ssh[s] = ssh[r]}

Shut(gone) ==
    [s \in Session |-> IF s \in gone THEN "closed"
                       ELSE IF s \in Sharing(gone) THEN Cut(shell[s]) ELSE shell[s]]

\* Who was active later, when the sessions in gone are no more ...
Without(gone) == [s \in Session |-> IF s \in gone THEN {} ELSE newer[s] \ gone]

\* ... and when s, after that, is active now.
Active(s, gone) ==
    [r \in Session |-> IF r # s /\ Recorded(r) /\ r \notin gone
                          THEN (newer[r] \ gone) \cup {s} ELSE {}]

\* The record of the session is dropped with what it said.
Forgets(gone) ==
    /\ ssh' = [s \in Session |-> IF s \in gone THEN None ELSE ssh[s]]
    /\ connected' = [s \in Session |-> connected[s] /\ s \notin gone]
    /\ user' = [s \in Session |-> IF s \in gone THEN None ELSE user[s]]
    /\ due' = due \ gone
    /\ slipped' = slipped \ gone /\ broken' = broken \ gone

-----------------------------------------------------------------------------
(* create_session: the shell is opened before the lock is taken *)

\* pool.get returns: a client that sessions have, alive or connected again by another user
\* of the pool, or one that is new to them.
Opens(s) ==
    /\ shell[s] = "none" /\ shell' = [shell EXCEPT ![s] = "opening"]
    /\ \E c \in ({s} \cup {ssh[r] : r \in Session}) \ {None} : ssh' = [ssh EXCEPT ![s] = c]
    /\ \E u \in Admin : user' = [user EXCEPT ![s] = u]
    /\ UNCHANGED <<table, newer, due, connected, socket, closer, slipped, broken>>

\* The channel is not opened: the client is closed, whoever else is on it.
OpenFails(s) ==
    /\ shell[s] \in {"opening", "severed"} /\ shell' = Shut({s})
    /\ user' = [user EXCEPT ![s] = None] /\ ssh' = [ssh EXCEPT ![s] = None]
    /\ UNCHANGED <<table, newer, due, connected, socket, closer, slipped, broken>>

\* The shell exits, or the network or another user of the pool ends its client.
Ends(s) ==
    /\ shell[s] \in {"open", "opening"} /\ shell' = [shell EXCEPT ![s] = Cut(@)]
    /\ UNCHANGED <<table, ssh, user, newer, due, connected, socket, closer, slipped,
                   broken>>

\* The least recent is closed until there is room for one more: fewer than max stay.
Recent(them, max) == {s \in them : Cardinality(newer[s] \cap them) + 1 < max}

\* The new shell, if the sessions in gone are closed after it was opened: a severed one
\* was open before, or was opened when its client was connected again.
Opened(s, gone) ==
    IF s \in Sharing(gone) THEN {"ended"}
    ELSE IF shell[s] = "severed" THEN {"open", "ended"} ELSE {"open"}

Registers(s) ==
    LET fresh == {r \in table : ~Expired(r)}
        some == Recent(fresh, MaxSessions)
        mine == {r \in some : user[r] = user[s]}
        kept == (some \ mine) \cup Recent(mine, PerUser)
        gone == table \ kept
    IN  /\ shell[s] \in {"opening", "severed"}
        /\ \E new \in Opened(s, gone) : shell' = [Shut(gone) EXCEPT ![s] = new]
        /\ table' = kept \cup {s} /\ newer' = Active(s, gone) /\ Forgets(gone)
        /\ UNCHANGED <<socket, closer>>

-----------------------------------------------------------------------------
(* Time, and the calls that look for what it has expired *)

Idles(s) ==
    /\ In(s)
    /\ s \notin due /\ due' = due \cup {s}
    /\ UNCHANGED <<table, shell, ssh, user, newer, connected, socket, closer, slipped, broken>>

\* _cleanup_locked, for each of them.
Removes(gone) ==
    /\ table' = table \ gone /\ shell' = Shut(gone) /\ newer' = Without(gone)
    /\ Forgets(gone)

\* list_sessions, which the resource page calls as well.
Lists ==
    LET gone == {s \in table : Expired(s)}
    IN  gone # {} /\ Removes(gone) /\ UNCHANGED <<socket, closer>>

\* get_session, when it answers None: the session is not there, or it has expired.
LooksInVain(s) == (~In(s) \/ Expired(s)) /\ Removes({s} \cap table)

-----------------------------------------------------------------------------
(* DELETE: get_session, then close_session in two or three steps *)

CloserTo(c, stage, s, u) ==
    /\ cpc' = [cpc EXCEPT ![c] = stage] /\ target' = [target EXCEPT ![c] = s]
    /\ caller' = [caller EXCEPT ![c] = u]
Replies(c) == CloserTo(c, "idle", None, None)

Finds(c) ==
    /\ cpc[c] = "idle" /\ closes < MaxCloses /\ closes' = closes + 1
    /\ \E s \in Session :
          \/ /\ In(s) /\ ~Expired(s) /\ \E u \in Admin : CloserTo(c, "found", s, u)
             /\ UNCHANGED <<session, slipped, broken>>
          \/ shell[s] # "none" /\ LooksInVain(s) /\ Replies(c)
    /\ UNCHANGED socket

\* The session is popped, whoever asks for it.
Pops(c) ==
    LET s == target[c]
    IN  /\ cpc[c] = "found" /\ table' = table \ {s}
        /\ \/ ~In(s) /\ Replies(c) /\ UNCHANGED slipped
           \/ /\ In(s) /\ user[s] = caller[c]
              /\ CloserTo(c, "close", s, caller[c]) /\ UNCHANGED slipped
           \/ /\ In(s) /\ user[s] # caller[c]
              /\ CloserTo(c, "refuse", s, caller[c]) /\ slipped' = slipped \cup {s}
        /\ UNCHANGED <<shell, ssh, user, newer, due, connected, socket, closes, broken>>

\* Not the owner: the session is put back, and the answer is 403.  Its last activity is
\* what it was.
Refuses(c) ==
    /\ cpc[c] = "refuse" /\ Replies(c) /\ table' = table \cup {target[c]}
    /\ UNCHANGED <<shell, ssh, user, newer, due, connected, socket, closes, slipped, broken>>

\* The session's channel, and the client that it shares.
ClosesShell(c) ==
    /\ cpc[c] = "close" /\ Replies(c) /\ Forgets({target[c]})
    /\ shell' = Shut({target[c]}) /\ newer' = Without({target[c]})
    /\ UNCHANGED <<table, socket, closes>>

-----------------------------------------------------------------------------
(* The websocket *)

SocketTo(k, stage) == spc' = [spc EXCEPT ![k] = stage]

\* Mutant: the flag is not looked at.
MayAttachAnyhow(s) == In(s) /\ ~Expired(s)

MayAttach(s) == In(s) /\ ~Expired(s) /\ ~connected[s]

\* get_session and the checks.  No other websocket runs until the flag is set.
Checks(k) ==
    /\ spc[k] = "off" /\ \A j \in Socket : spc[j] # "checked"
    /\ \E s \in Session :
          MayAttach(s) /\ place' = [place EXCEPT ![k] = s] /\ SocketTo(k, "checked")
    /\ UNCHANGED <<session, closer, slipped, broken>>

Looks(k) ==
    /\ spc[k] = "off" /\ \A j \in Socket : spc[j] # "checked"
    /\ \E s \in table : LooksInVain(s)
    /\ UNCHANGED <<socket, closer>>

\* set_ws_connected: the record is looked up again, and may be out of the table.
Sets(s, b) == connected' = [connected EXCEPT ![s] = IF In(s) THEN b ELSE @]

Marks(k) ==
    /\ spc[k] = "checked" /\ Sets(place[k], TRUE) /\ SocketTo(k, "accept")
    /\ UNCHANGED <<table, shell, ssh, user, newer, due, place, closer, slipped, broken>>

\* accept and the first message: what they raise passes over the finally below.
Accepts(k) ==
    /\ spc[k] = "accept"
    /\ \/ SocketTo(k, "loop") /\ UNCHANGED <<place, broken>>
       \/ /\ SocketTo(k, "off") /\ place' = [place EXCEPT ![k] = None]
          /\ broken' = broken \cup {place[k]}
    /\ UNCHANGED <<session, closer, slipped>>

\* Input, output or a ping: touch_session, which does not make a session younger.
Touches(k) ==
    LET s == place[k]
    IN  /\ spc[k] = "loop" /\ In(s) /\ newer' = Active(s, {})
        /\ due' \in {due, due \ {s}}
        /\ UNCHANGED <<table, shell, ssh, user, connected, socket, closer, slipped, broken>>

\* The browser leaves: the finally.  That the shell has ended does not end the loop.
Detaches(k) ==
    /\ spc[k] = "loop" /\ SocketTo(k, "off") /\ Sets(place[k], FALSE)
    /\ place' = [place EXCEPT ![k] = None]
    /\ UNCHANGED <<table, shell, ssh, user, newer, due, closer, slipped, broken>>

-----------------------------------------------------------------------------
ShellNext ==
    \/ \E s \in Session : Opens(s) \/ OpenFails(s) \/ Registers(s) \/ Ends(s) \/ Idles(s)
    \/ Lists
    \/ \E c \in Closer : Finds(c) \/ Pops(c) \/ Refuses(c) \/ ClosesShell(c)
    \/ \E k \in Socket :
          Checks(k) \/ Looks(k) \/ Marks(k) \/ Accepts(k) \/ Touches(k) \/ Detaches(k)

ShellSpec == ShellInit /\ [][ShellNext]_shellVars

-----------------------------------------------------------------------------
\* Handlers that have popped s, and websockets that are attached to it.
Holding(s) == {c \in Closer : cpc[c] \in {"refuse", "close"} /\ target[c] = s}
On(s) == {k \in Socket : place[k] = s /\ spc[k] \in {"accept", "loop"}}

ShellTypeOK ==
    /\ table \subseteq Session /\ IsFiniteSet(table)
    /\ shell \in [Session -> {"none", "opening", "severed", "open", "ended", "closed"}]
    /\ ssh \in [Session -> Session \cup {None}]
    /\ user \in [Session -> Admin \cup {None}] /\ due \subseteq Session
    /\ newer \in [Session -> SUBSET Session]
    /\ connected \in [Session -> BOOLEAN]
    /\ spc \in [Socket -> {"off", "checked", "accept", "loop"}]
    /\ place \in [Socket -> Session \cup {None}]
    /\ cpc \in [Closer -> {"idle", "found", "refuse", "close"}]
    /\ target \in [Closer -> Session \cup {None}] /\ caller \in [Closer -> Admin \cup {None}]
    /\ closes \in 0..MaxCloses /\ slipped \subseteq Session /\ broken \subseteq Session

\* Of two sessions exactly one was active later, also when several are in the hands of
\* a handler: the one the limits close first is always known.
OrderIsKnown ==
    \A r, s \in Session : Recorded(r) /\ Recorded(s) =>
        /\ r # s => (s \in newer[r] <=> r \notin newer[s])
        /\ r \notin newer[r]
        /\ s \in newer[r] => newer[s] \subseteq newer[r]

\* A shell that is open is in the table, where a limit or the expiry will find it, or in
\* the hands of the one handler that popped it; so is one that ended with a client it
\* shared, and nothing else: what is closed is forgotten, whoever closes what at once.
NoShellIsLost ==
    \A s \in Session :
        /\ Recorded(s) <=> In(s) \/ Holding(s) # {}
        /\ \A c, d \in Holding(s) : c = d /\ ~In(s)
        /\ ssh[s] = None <=> shell[s] \in {"none", "closed"}

\* The limits hold, however many threads open and close sessions; what is put back by a
\* refused call may exceed them.
WithinLimits ==
    /\ Cardinality(table \ slipped) <= MaxSessions
    /\ \A u \in Admin : Cardinality({s \in table \ slipped : user[s] = u}) <= PerUser

\* A session is shown as connected exactly when one websocket is attached to it; except
\* one that was out of the table for a moment, or whose websocket failed at its start.
ConnectedIsTrue ==
    \A s \in table \ (slipped \cup broken) :
        /\ \A j, k \in On(s) : j = k
        /\ connected[s] <=> On(s) # {}

\* Shells are neither lost nor too many, their order is known, and they are shown as they
\* are.
SessionsAreSound ==
    ShellTypeOK /\ OrderIsKnown /\ NoShellIsLost /\ WithinLimits /\ ConnectedIsTrue
=============================================================================
