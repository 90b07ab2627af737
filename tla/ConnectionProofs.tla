--------------------------- MODULE ConnectionProofs --------------------------
(***************************************************************************)
(* Proofs about SshPool for any users, whoever of them closes its client,  *)
(* with a password or a key file, and for any number of connections; and   *)
(* about TerminalSessions for any administrators, sessions, websockets and *)
(* handlers, and any two limits.                                           *)
(***************************************************************************)
EXTENDS SshPool, TerminalSessions, FiniteSetTheorems, TLAPS

Dialers == {u \in User : at[u] \in {"connect", "first", "second"}}

\* The objects made so far are known by one client at most, and by none once closed.
Objects ==
    /\ \A k \in Link : link[k] = "none" <=> k > made
    /\ \A c \in User : conn[c] # NoLink => conn[c] <= made /\ link[conn[c]] # "closed"
    /\ \A c, d \in User : c # d /\ conn[c] # NoLink => conn[c] # conn[d]

\* Until its maker puts it in the pool, a client is known to nobody else.
Fresh ==
    \A u \in User :
        /\ at[u] \in {"idle", "connect"} =>
               entry # u /\ \A v \in User : client[v] = u => v = u
        /\ at[u] = "idle" => conn[u] = NoLink
        /\ at[u] = "connect" => client[u] = u /\ conn[u] = line[u]

\* What is being connected is the work of one user; its client knows it, or somebody
\* closed that client meanwhile.
Dialing ==
    /\ \A u \in Dialers :
           /\ line[u] \in Link /\ link[line[u]] = "blank"
           /\ conn[client[u]] = line[u] \/ line[u] \in orphans
    /\ \A u, v \in Dialers : u # v => line[u] # line[v]

\* Users that share a client were disturbed by that, and so were those of a client that
\* is about to be cleaned up.
Alone ==
    /\ \A u, v \in User : u # v /\ client[u] = client[v] /\ client[u] # NoClient
           => u \in disturbed /\ v \in disturbed
    /\ stale => entry # NoClient /\ \A u \in User : client[u] = entry => u \in disturbed

\* Where the users are, and with which client.
UserTypes ==
    /\ at \in [User -> {"idle", "connect", "ready", "first", "second", "try", "last", "run",
                       "over"}]
    /\ client \in [User -> User \cup {NoClient}]
    /\ \A u \in User : client[u] = NoClient <=> at[u] \in {"idle", "over"}

\* The inductive invariant.
IndInv == /\ TypeOK /\ Objects /\ Fresh /\ Dialing /\ Alone
          /\ UndisturbedKeepsItsLine /\ LeakHasCause /\ SecretHasOwner

-----------------------------------------------------------------------------
\* No client has an object, nobody has a client.
LEMMA InitInv ==
    ASSUME Init PROVE IndInv
<1>1. /\ conn \in [User -> Link \cup {NoLink}] /\ line \in [User -> Link \cup {NoLink}]
      /\ link \in [Link -> {"none", "blank", "open", "dead", "closed"}]
  BY DEF Init, NoLink
<1>2. UserTypes
  BY DEF Init, UserTypes
<1>3. made \in 0..MaxLinks
  <2>1. made = 0 /\ MaxLinks \in Nat
    BY PoolAssumption DEF Init
  <2> QED
    BY <2>1
<1>4. entry \in User \cup {NoClient} /\ stale \in BOOLEAN
  BY DEF Init
<1>5. TypeOK
  BY <1>1, <1>2, <1>3, <1>4 DEF Init, TypeOK, UserTypes
<1>6. Objects /\ Fresh /\ Dialing /\ Alone
  BY PoolAssumption DEF Init, Objects, Fresh, Dialing, Dialers, Alone, Link, NoLink
<1>7. UndisturbedKeepsItsLine /\ LeakHasCause /\ SecretHasOwner
  BY DEF Init, UndisturbedKeepsItsLine, LeakHasCause, SecretHasOwner, Holders, Has
<1> QED
  BY <1>5, <1>6, <1>7 DEF IndInv

\* What a client knows is an object.
LEMMA Known ==
    ASSUME TypeOK, NEW c \in User \cup {NoClient}, LinkOf(c) # "none"
    PROVE  c \in User /\ conn[c] \in Link /\ LinkOf(c) = link[conn[c]]
  BY DEF LinkOf, TypeOK, NoLink

\* A new object is put where objects belong, and so is what it replaces.
LEMMA DialTypes ==
    ASSUME TypeOK, NEW u \in User, NEW c \in User \cup {NoClient}, NEW mine \in User, NEW where,
           Dials(u, c, mine, where)
    PROVE  /\ made' \in 0..MaxLinks
           /\ conn' \in [User -> Link \cup {NoLink}] /\ line' \in [User -> Link \cup {NoLink}]
           /\ link' \in [Link -> {"none", "blank", "open", "dead", "closed"}]
           /\ orphans' \subseteq Link
<1>1. made' \in 0..MaxLinks /\ made' \in Link
  BY PoolAssumption DEF Dials, TypeOK, Link
<1>2. conn' \in [User -> Link \cup {NoLink}] /\ line' \in [User -> Link \cup {NoLink}]
  BY <1>1 DEF Dials, TypeOK
<1>3. link' \in [Link -> {"none", "blank", "open", "dead", "closed"}]
  BY DEF Dials, TypeOK
<1>4. orphans' \subseteq Link
  <2>1. LinkOf(c) = "blank" => conn[c] \in Link
    BY Known
  <2> QED
    BY <2>1 DEF Dials, TypeOK
<1> QED
  BY <1>1, <1>2, <1>3, <1>4

\* Closing keeps the types.
LEMMA CloseTypes ==
    ASSUME TypeOK, NEW c \in User, Closes(c)
    PROVE  /\ conn' \in [User -> Link \cup {NoLink}] /\ secret' \subseteq User
           /\ link' \in [Link -> {"none", "blank", "open", "dead", "closed"}]
           /\ orphans' \subseteq Link
<1>1. LinkOf(c) = "blank" => conn[c] \in Link
  BY Known
<1>2. conn' \in [User -> Link \cup {NoLink}] /\ secret' \subseteq User
  BY DEF Closes, TypeOK
<1>3. link' \in [Link -> {"none", "blank", "open", "dead", "closed"}]
  BY DEF Closes, TypeOK
<1>4. orphans' \subseteq Link
  BY <1>1 DEF Closes, TypeOK
<1> QED
  BY <1>2, <1>3, <1>4

\* Every step keeps the types.
LEMMA TypeStep ==
    ASSUME IndInv, [Next]_vars
    PROVE  TypeOK'
<1>0. TypeOK
  BY DEF IndInv
<1>1. ASSUME NEW u \in User, Hits(u) PROVE TypeOK'
  BY <1>0, PoolAssumption, <1>1 DEF Hits, Goes, clients, TypeOK, Link, NoLink, LinkOf, Holders,
     Has
<1>2. ASSUME NEW u \in User, Misses(u) PROVE TypeOK'
  <2>1. UserTypes'
    BY <1>2, <1>0, PoolAssumption DEF Misses, Dials, TypeOK, UserTypes
  <2>2. Dials(u, entry, u, "connect") /\ entry \in User \cup {NoClient} /\ secret' \subseteq User
    BY <1>2, <1>0 DEF Misses, TypeOK
  <2> QED
    BY <1>2, <1>0, <2>1, <2>2, DialTypes DEF Misses, TypeOK, UserTypes
<1>3. ASSUME NEW u \in User, Puts(u) PROVE TypeOK'
  BY <1>0, PoolAssumption, <1>3 DEF Puts, Ready, Goes, TypeOK, Link, NoLink, Holders, Has
<1>4. ASSUME NEW u \in User, Refused(u) PROVE TypeOK'
  BY <1>0, PoolAssumption, <1>4 DEF Refused, Leaves, Ready, Goes, pool, history, TypeOK, Link,
     NoLink
<1>5. ASSUME NEW u \in User, Executes(u) PROVE TypeOK'
  <2> DEFINE c == client[u]
  <2>1. c \in User
    BY <1>5, <1>0 DEF Executes, TypeOK
  <2>2. UserTypes'
    BY <1>5, <1>0, PoolAssumption DEF Executes, Goes, Dials, Raises, Leaves, Ready, TypeOK,
       UserTypes
  <2>3. CASE LinkOf(c) = "open" /\ line' = [line EXCEPT ![u] = conn[c]]
            /\ UNCHANGED <<clients, orphans>>
    <3>1. line' \in [User -> Link \cup {NoLink}]
      BY <2>1, <2>3, <1>0 DEF TypeOK
    <3> QED
      BY <1>5, <1>0, <2>2, <2>3, <3>1 DEF Executes, TypeOK, UserTypes, pool, clients
  <2>4. CASE Dials(u, NoClient, c, "first") /\ UNCHANGED secret
    BY <1>5, <1>0, <2>1, <2>2, <2>4, DialTypes DEF Executes, TypeOK, UserTypes, pool
  <2>5. CASE Dials(u, c, c, "second") /\ secret' = secret \ {c}
    BY <1>5, <1>0, <2>1, <2>2, <2>5, DialTypes DEF Executes, TypeOK, UserTypes, pool
  <2>6. CASE Raises(u)
    <3>1. Closes(c) /\ made' = made /\ line' \in [User -> Link \cup {NoLink}]
      BY <2>6, <1>0 DEF Raises, Leaves, Ready, TypeOK
    <3> QED
      BY <1>5, <1>0, <2>1, <2>2, <3>1, CloseTypes DEF Executes, TypeOK, UserTypes, pool
  <2> QED
    BY <1>5, <2>3, <2>4, <2>5, <2>6 DEF Executes
<1>6. ASSUME NEW u \in User, Reconnected(u) PROVE TypeOK'
  BY <1>0, PoolAssumption, <1>6 DEF Reconnected, Ready, Goes, pool, history, TypeOK, Link, NoLink
<1>7. ASSUME NEW u \in User, NotReconnected(u) PROVE TypeOK'
  BY <1>0, PoolAssumption, <1>7 DEF NotReconnected, Raises, Leaves, Ready, Goes, Closes, pool,
     TypeOK, Link, NoLink, LinkOf
<1>8. ASSUME NEW u \in User, Answers(u) PROVE TypeOK'
  BY <1>0, PoolAssumption, <1>8 DEF Answers, Ready, Goes, pool, clients, history, TypeOK, Link,
     NoLink
<1>9. ASSUME NEW u \in User, Done(u) PROVE TypeOK'
  <2>1. UserTypes'
    BY <1>9, <1>0, PoolAssumption DEF Done, Leaves, Ready, Goes, TypeOK, UserTypes
  <2>2. client[u] \in User /\ line' \in [User -> Link \cup {NoLink}] /\ left' \subseteq User
    BY <1>9, <1>0 DEF Done, Leaves, Ready, TypeOK
  <2> QED
    BY <1>9, <1>0, <2>1, <2>2, CloseTypes DEF Done, TypeOK, UserTypes, pool
<1>10. ASSUME Cleanup PROVE TypeOK'
  BY <1>0, PoolAssumption, <1>10 DEF Cleanup, Closes, users, TypeOK, Link, NoLink, LinkOf
<1>11. ASSUME CloseAll PROVE TypeOK'
  BY <1>0, PoolAssumption, <1>11 DEF CloseAll, Closes, users, TypeOK, Link, NoLink, LinkOf,
     Holders, Has
<1>12. ASSUME TimePasses PROVE TypeOK'
  BY <1>0, PoolAssumption, <1>12 DEF TimePasses, clients, users, TypeOK, Link, NoLink, Holders,
     Has
<1>13. ASSUME NEW k \in Link, Drops(k) PROVE TypeOK'
  BY <1>0, PoolAssumption, <1>13 DEF Drops, pool, users, TypeOK, Link, NoLink, Holders, Has
<1>14. CASE UNCHANGED vars
  BY <1>0, PoolAssumption, <1>14 DEF vars, pool, clients, users, history, TypeOK, Link, NoLink
<1> QED
  BY <1>1, <1>2, <1>3, <1>4, <1>5, <1>6, <1>7, <1>8, <1>9, <1>10, <1>11, <1>12, <1>13, <1>14,
     ZenonT(30) DEF Next, UserStep

\* Every step gives an object to one client, and closes what nobody knows.
LEMMA ObjectsStep ==
    ASSUME IndInv, [Next]_vars
    PROVE  Objects'
<1>0. TypeOK /\ Objects /\ Fresh /\ Dialing
  BY DEF IndInv
<1>1. ASSUME NEW u \in User, Hits(u) PROVE Objects'
  BY <1>0, PoolAssumption, <1>1 DEF Hits, Goes, Objects, Fresh, Dialing, Dialers, clients, TypeOK,
     Link, NoLink, LinkOf, Holders, Has
<1>2. ASSUME NEW u \in User, Misses(u) PROVE Objects'
  BY <1>0, PoolAssumption, <1>2 DEF Misses, Dials, Objects, Fresh, Dialing, Dialers, TypeOK, Link,
     NoLink, LinkOf
<1>3. ASSUME NEW u \in User, Puts(u) PROVE Objects'
  BY <1>0, PoolAssumption, <1>3 DEF Puts, Ready, Goes, Objects, Fresh, Dialing, Dialers, TypeOK,
     Link, NoLink, Holders, Has
<1>4. ASSUME NEW u \in User, Refused(u) PROVE Objects'
  BY <1>0, PoolAssumption, <1>4 DEF Refused, Leaves, Ready, Goes, Objects, Fresh, Dialing,
     Dialers, pool, history, TypeOK, Link, NoLink
<1>5. ASSUME NEW u \in User, Executes(u) PROVE Objects'
  BY <1>0, PoolAssumption, <1>5 DEF Executes, Goes, Dials, Raises, Leaves, Ready, Closes, Objects,
     Fresh, Dialing, Dialers, pool, clients, TypeOK, Link, NoLink, LinkOf
<1>6. ASSUME NEW u \in User, Reconnected(u) PROVE Objects'
  BY <1>0, PoolAssumption, <1>6 DEF Reconnected, Ready, Goes, Objects, Fresh, Dialing, Dialers,
     pool, history, TypeOK, Link, NoLink
<1>7. ASSUME NEW u \in User, NotReconnected(u) PROVE Objects'
  BY <1>0, PoolAssumption, <1>7 DEF NotReconnected, Raises, Leaves, Ready, Goes, Closes, Objects,
     Fresh, Dialing, Dialers, pool, TypeOK, Link, NoLink, LinkOf
<1>8. ASSUME NEW u \in User, Answers(u) PROVE Objects'
  BY <1>0, PoolAssumption, <1>8 DEF Answers, Ready, Goes, Objects, Fresh, Dialing, Dialers, pool,
     clients, history, TypeOK, Link, NoLink
<1>9. ASSUME NEW u \in User, Done(u) PROVE Objects'
  <2>1. ASSUME Closes(client[u]), made' = made PROVE Objects'
    BY <1>0, <1>9, <2>1 DEF Done, Closes, Objects, TypeOK, NoLink, LinkOf
  <2>2. ASSUME UNCHANGED <<conn, link, made>> PROVE Objects'
    BY <1>0, <2>2 DEF Objects
  <2> QED
    BY <1>9, <2>1, <2>2 DEF Done
<1>10. ASSUME Cleanup PROVE Objects'
  BY <1>0, PoolAssumption, <1>10 DEF Cleanup, Closes, Objects, Fresh, Dialing, Dialers, users,
     TypeOK, Link, NoLink, LinkOf
<1>11. ASSUME CloseAll PROVE Objects'
  BY <1>0, PoolAssumption, <1>11 DEF CloseAll, Closes, Objects, Fresh, Dialing, Dialers, users,
     TypeOK, Link, NoLink, LinkOf, Holders, Has
<1>12. ASSUME TimePasses PROVE Objects'
  BY <1>0, PoolAssumption, <1>12 DEF TimePasses, Objects, Fresh, Dialing, Dialers, clients, users,
     TypeOK, Link, NoLink, Holders, Has
<1>13. ASSUME NEW k \in Link, Drops(k) PROVE Objects'
  BY <1>0, PoolAssumption, <1>13 DEF Drops, Objects, Fresh, Dialing, Dialers, pool, users, TypeOK,
     Link, NoLink, Holders, Has
<1>14. CASE UNCHANGED vars
  BY <1>0, PoolAssumption, <1>14 DEF vars, Objects, Fresh, Dialing, Dialers, pool, clients, users,
     history, TypeOK, Link, NoLink
<1> QED
  BY <1>1, <1>2, <1>3, <1>4, <1>5, <1>6, <1>7, <1>8, <1>9, <1>10, <1>11, <1>12, <1>13, <1>14,
     ZenonT(30) DEF Next, UserStep

\* Nobody gets a client before it is in the pool.
LEMMA FreshStep ==
    ASSUME IndInv, [Next]_vars
    PROVE  Fresh'
<1>0. TypeOK /\ Objects /\ Fresh
  BY DEF IndInv
<1>1. ASSUME NEW u \in User, Hits(u) PROVE Fresh'
  BY <1>0, PoolAssumption, <1>1 DEF Hits, Goes, Fresh, clients, TypeOK, Link, NoLink, LinkOf,
     Holders, Has
<1>2. ASSUME NEW u \in User, Misses(u) PROVE Fresh'
  BY <1>0, PoolAssumption, <1>2 DEF Misses, Dials, Fresh, TypeOK, Link, NoLink, LinkOf
<1>3. ASSUME NEW u \in User, Puts(u) PROVE Fresh'
  BY <1>0, PoolAssumption, <1>3 DEF Puts, Ready, Goes, Fresh, TypeOK, Link, NoLink, Holders, Has
<1>4. ASSUME NEW u \in User, Refused(u) PROVE Fresh'
  BY <1>0, PoolAssumption, <1>4 DEF Refused, Leaves, Ready, Goes, Fresh, pool, history, TypeOK,
     Link, NoLink
<1>5. ASSUME NEW u \in User, Executes(u) PROVE Fresh'
  BY <1>0, PoolAssumption, <1>5 DEF Executes, Goes, Dials, Raises, Leaves, Ready, Closes, Fresh,
     pool, clients, TypeOK, Link, NoLink, LinkOf
<1>6. ASSUME NEW u \in User, Reconnected(u) PROVE Fresh'
  BY <1>0, PoolAssumption, <1>6 DEF Reconnected, Ready, Goes, Fresh, pool, history, TypeOK, Link,
     NoLink
<1>7. ASSUME NEW u \in User, NotReconnected(u) PROVE Fresh'
  BY <1>0, PoolAssumption, <1>7 DEF NotReconnected, Raises, Leaves, Ready, Goes, Closes, Fresh,
     pool, TypeOK, Link, NoLink, LinkOf
<1>8. ASSUME NEW u \in User, Answers(u) PROVE Fresh'
  BY <1>0, PoolAssumption, <1>8 DEF Answers, Ready, Goes, Fresh, pool, clients, history, TypeOK,
     Link, NoLink
<1>9. ASSUME NEW u \in User, Done(u) PROVE Fresh'
  BY <1>0, PoolAssumption, <1>9 DEF Done, Leaves, Ready, Goes, Closes, Fresh, pool, TypeOK, Link,
     NoLink, LinkOf
<1>10. ASSUME Cleanup PROVE Fresh'
  BY <1>0, PoolAssumption, <1>10 DEF Cleanup, Closes, Fresh, users, TypeOK, Link, NoLink, LinkOf
<1>11. ASSUME CloseAll PROVE Fresh'
  BY <1>0, PoolAssumption, <1>11 DEF CloseAll, Closes, Fresh, users, TypeOK, Link, NoLink, LinkOf,
     Holders, Has
<1>12. ASSUME TimePasses PROVE Fresh'
  BY <1>0, PoolAssumption, <1>12 DEF TimePasses, Fresh, clients, users, TypeOK, Link, NoLink,
     Holders, Has
<1>13. ASSUME NEW k \in Link, Drops(k) PROVE Fresh'
  BY <1>0, PoolAssumption, <1>13 DEF Drops, Fresh, pool, users, TypeOK, Link, NoLink, Holders, Has
<1>14. CASE UNCHANGED vars
  BY <1>0, PoolAssumption, <1>14 DEF vars, Fresh, pool, clients, users, history, TypeOK, Link,
     NoLink
<1> QED
  BY <1>1, <1>2, <1>3, <1>4, <1>5, <1>6, <1>7, <1>8, <1>9, <1>10, <1>11, <1>12, <1>13, <1>14,
     ZenonT(30) DEF Next, UserStep

\* What is being connected stays the work of one user.
LEMMA DialingStep ==
    ASSUME IndInv, [Next]_vars
    PROVE  Dialing'
<1>0. TypeOK /\ Objects /\ Fresh /\ Dialing
  BY DEF IndInv
<1>1. ASSUME NEW u \in User, Hits(u) PROVE Dialing'
  BY <1>0, PoolAssumption, <1>1 DEF Hits, Goes, Dialing, Dialers, Objects, Fresh, clients, TypeOK,
     Link, NoLink, LinkOf, Holders, Has
<1>2. ASSUME NEW u \in User, Misses(u) PROVE Dialing'
  BY <1>0, PoolAssumption, <1>2 DEF Misses, Dials, Dialing, Dialers, Objects, Fresh, TypeOK, Link,
     NoLink, LinkOf
<1>3. ASSUME NEW u \in User, Puts(u) PROVE Dialing'
  BY <1>0, PoolAssumption, <1>3 DEF Puts, Ready, Goes, Dialing, Dialers, Objects, Fresh, TypeOK,
     Link, NoLink, Holders, Has
<1>4. ASSUME NEW u \in User, Refused(u) PROVE Dialing'
  BY <1>0, PoolAssumption, <1>4 DEF Refused, Leaves, Ready, Goes, Dialing, Dialers, Objects,
     Fresh, pool, history, TypeOK, Link, NoLink
<1>5. ASSUME NEW u \in User, Executes(u) PROVE Dialing'
  <2>1. ASSUME LinkOf(client[u]) = "open", Goes(u, "run"),
               line' = [line EXCEPT ![u] = conn[client[u]]],
               UNCHANGED <<clients, client, orphans, pool, disturbed, left>>
        PROVE  Dialing'
    BY <1>5, <1>0, <2>1 DEF Goes, Dialing, Dialers, Objects, Fresh, pool, clients, TypeOK, Link,
       NoLink, LinkOf
  <2>2. ASSUME at[u] = "ready", LinkOf(client[u]) = "none", Dials(u, NoClient, client[u], "first"),
               UNCHANGED <<secret, client, pool, disturbed, left>>
        PROVE  Dialing'
    BY <1>5, <1>0, <2>2, PoolAssumption DEF Dials, Dialing, Dialers, Objects, Fresh, pool, TypeOK,
       Link, NoLink, LinkOf
  <2>3. ASSUME LinkOf(client[u]) = "dead", Dials(u, client[u], client[u], "second"),
               secret' = secret \ {client[u]}, UNCHANGED <<client, pool, disturbed, left>>
        PROVE  Dialing'
    BY <1>5, <1>0, <2>3, PoolAssumption DEF Dials, Dialing, Dialers, Objects, Fresh, pool, TypeOK,
       Link, NoLink, LinkOf
  <2>4. ASSUME LinkOf(client[u]) # "open", Raises(u), UNCHANGED <<pool, disturbed, left>>
        PROVE  Dialing'
    BY <1>5, <1>0, <2>4, PoolAssumption DEF Raises, Leaves, Ready, Goes, Closes, Dialing, Dialers,
       Objects, Fresh, pool, TypeOK, Link, NoLink, LinkOf
  <2> QED
    BY <1>5, <2>1, <2>2, <2>3, <2>4 DEF Executes
<1>6. ASSUME NEW u \in User, Reconnected(u) PROVE Dialing'
  BY <1>0, PoolAssumption, <1>6 DEF Reconnected, Ready, Goes, Dialing, Dialers, Objects, Fresh,
     pool, history, TypeOK, Link, NoLink
<1>7. ASSUME NEW u \in User, NotReconnected(u) PROVE Dialing'
  BY <1>0, PoolAssumption, <1>7 DEF NotReconnected, Raises, Leaves, Ready, Goes, Closes, Dialing,
     Dialers, Objects, Fresh, pool, TypeOK, Link, NoLink, LinkOf
<1>8. ASSUME NEW u \in User, Answers(u) PROVE Dialing'
  BY <1>0, PoolAssumption, <1>8 DEF Answers, Ready, Goes, Dialing, Dialers, Objects, Fresh, pool,
     clients, history, TypeOK, Link, NoLink
<1>9. ASSUME NEW u \in User, Done(u) PROVE Dialing'
  BY <1>0, PoolAssumption, <1>9 DEF Done, Leaves, Ready, Goes, Closes, Dialing, Dialers, Objects,
     Fresh, pool, TypeOK, Link, NoLink, LinkOf
<1>10. ASSUME Cleanup PROVE Dialing'
  BY <1>0, PoolAssumption, <1>10 DEF Cleanup, Closes, Dialing, Dialers, Objects, Fresh, users,
     TypeOK, Link, NoLink, LinkOf
<1>11. ASSUME CloseAll PROVE Dialing'
  BY <1>0, PoolAssumption, <1>11 DEF CloseAll, Closes, Dialing, Dialers, Objects, Fresh, users,
     TypeOK, Link, NoLink, LinkOf, Holders, Has
<1>12. ASSUME TimePasses PROVE Dialing'
  BY <1>0, PoolAssumption, <1>12 DEF TimePasses, Dialing, Dialers, Objects, Fresh, clients, users,
     TypeOK, Link, NoLink, Holders, Has
<1>13. ASSUME NEW k \in Link, Drops(k) PROVE Dialing'
  BY <1>0, PoolAssumption, <1>13 DEF Drops, Dialing, Dialers, Objects, Fresh, pool, users, TypeOK,
     Link, NoLink, Holders, Has
<1>14. CASE UNCHANGED vars
  BY <1>0, PoolAssumption, <1>14 DEF vars, Dialing, Dialers, Objects, Fresh, pool, clients, users,
     history, TypeOK, Link, NoLink
<1> QED
  BY <1>1, <1>2, <1>3, <1>4, <1>5, <1>6, <1>7, <1>8, <1>9, <1>10, <1>11, <1>12, <1>13, <1>14,
     ZenonT(30) DEF Next, UserStep

\* Whoever comes to a client that somebody has disturbs both; so does time.
LEMMA AloneStep ==
    ASSUME IndInv, [Next]_vars
    PROVE  Alone'
<1>0. TypeOK /\ Fresh /\ Alone
  BY DEF IndInv
<1>1. ASSUME NEW u \in User, Hits(u) PROVE Alone'
  BY <1>0, PoolAssumption, <1>1 DEF Hits, Goes, Alone, Fresh, clients, TypeOK, Link, NoLink,
     LinkOf, Holders, Has
<1>2. ASSUME NEW u \in User, Misses(u) PROVE Alone'
  BY <1>0, PoolAssumption, <1>2 DEF Misses, Dials, Alone, Fresh, TypeOK, Link, NoLink, LinkOf
<1>3. ASSUME NEW u \in User, Puts(u) PROVE Alone'
  BY <1>0, PoolAssumption, <1>3 DEF Puts, Ready, Goes, Alone, Fresh, TypeOK, Link, NoLink,
     Holders, Has
<1>4. ASSUME NEW u \in User, Refused(u) PROVE Alone'
  BY <1>0, PoolAssumption, <1>4 DEF Refused, Leaves, Ready, Goes, Alone, Fresh, pool, history,
     TypeOK, Link, NoLink
<1>5. ASSUME NEW u \in User, Executes(u) PROVE Alone'
  BY <1>0, PoolAssumption, <1>5 DEF Executes, Goes, Dials, Raises, Leaves, Ready, Closes, Alone,
     Fresh, pool, clients, TypeOK, Link, NoLink, LinkOf
<1>6. ASSUME NEW u \in User, Reconnected(u) PROVE Alone'
  BY <1>0, PoolAssumption, <1>6 DEF Reconnected, Ready, Goes, Alone, Fresh, pool, history, TypeOK,
     Link, NoLink
<1>7. ASSUME NEW u \in User, NotReconnected(u) PROVE Alone'
  BY <1>0, PoolAssumption, <1>7 DEF NotReconnected, Raises, Leaves, Ready, Goes, Closes, Alone,
     Fresh, pool, TypeOK, Link, NoLink, LinkOf
<1>8. ASSUME NEW u \in User, Answers(u) PROVE Alone'
  BY <1>0, PoolAssumption, <1>8 DEF Answers, Ready, Goes, Alone, Fresh, pool, clients, history,
     TypeOK, Link, NoLink
<1>9. ASSUME NEW u \in User, Done(u) PROVE Alone'
  BY <1>0, PoolAssumption, <1>9 DEF Done, Leaves, Ready, Goes, Closes, Alone, Fresh, pool, TypeOK,
     Link, NoLink, LinkOf
<1>10. ASSUME Cleanup PROVE Alone'
  BY <1>0, PoolAssumption, <1>10 DEF Cleanup, Closes, Alone, Fresh, users, TypeOK, Link, NoLink,
     LinkOf
<1>11. ASSUME CloseAll PROVE Alone'
  BY <1>0, PoolAssumption, <1>11 DEF CloseAll, Closes, Alone, Fresh, users, TypeOK, Link, NoLink,
     LinkOf, Holders, Has
<1>12. ASSUME TimePasses PROVE Alone'
  BY <1>0, PoolAssumption, <1>12 DEF TimePasses, Alone, Fresh, clients, users, TypeOK, Link,
     NoLink, Holders, Has
<1>13. ASSUME NEW k \in Link, Drops(k) PROVE Alone'
  BY <1>0, PoolAssumption, <1>13 DEF Drops, Alone, Fresh, pool, users, TypeOK, Link, NoLink,
     Holders, Has
<1>14. CASE UNCHANGED vars
  BY <1>0, PoolAssumption, <1>14 DEF vars, Alone, Fresh, pool, clients, users, history, TypeOK,
     Link, NoLink
<1> QED
  BY <1>1, <1>2, <1>3, <1>4, <1>5, <1>6, <1>7, <1>8, <1>9, <1>10, <1>11, <1>12, <1>13, <1>14,
     ZenonT(30) DEF Next, UserStep

\* No step takes the connection of a user who was not disturbed.
LEMMA UndisturbedStep ==
    ASSUME IndInv, [Next]_vars
    PROVE  UndisturbedKeepsItsLine'
<1>0. TypeOK /\ Objects /\ Fresh /\ Dialing /\ Alone /\ UndisturbedKeepsItsLine
  BY DEF IndInv
<1>1. ASSUME NEW u \in User, Hits(u) PROVE UndisturbedKeepsItsLine'
  BY <1>0, PoolAssumption, <1>1 DEF Hits, Goes, UndisturbedKeepsItsLine, Alone, Objects, Fresh,
     Dialing, Dialers, clients, TypeOK, Link, NoLink, LinkOf, Holders, Has
<1>2. ASSUME NEW u \in User, Misses(u) PROVE UndisturbedKeepsItsLine'
  BY <1>0, PoolAssumption, <1>2 DEF Misses, Dials, UndisturbedKeepsItsLine, Alone, Objects, Fresh,
     Dialing, Dialers, TypeOK, Link, NoLink, LinkOf, Holders, Has
<1>3. ASSUME NEW u \in User, Puts(u) PROVE UndisturbedKeepsItsLine'
  BY <1>0, PoolAssumption, <1>3 DEF Puts, Ready, Goes, UndisturbedKeepsItsLine, Alone, Objects,
     Fresh, Dialing, Dialers, TypeOK, Link, NoLink, LinkOf, Holders, Has
<1>4. ASSUME NEW u \in User, Refused(u) PROVE UndisturbedKeepsItsLine'
  BY <1>0, PoolAssumption, <1>4 DEF Refused, Leaves, Ready, Goes, UndisturbedKeepsItsLine, Alone,
     Objects, Fresh, Dialing, Dialers, pool, history, TypeOK, Link, NoLink, LinkOf, Holders, Has
<1>5. ASSUME NEW u \in User, Executes(u) PROVE UndisturbedKeepsItsLine'
  BY <1>0, PoolAssumption, <1>5 DEF Executes, Goes, Dials, Raises, Leaves, Ready, Closes,
     UndisturbedKeepsItsLine, Alone, Objects, Fresh, Dialing, Dialers, pool, clients, TypeOK,
     Link,
     NoLink, LinkOf, Holders, Has
<1>6. ASSUME NEW u \in User, Reconnected(u) PROVE UndisturbedKeepsItsLine'
  BY <1>0, PoolAssumption, <1>6 DEF Reconnected, Ready, Goes, UndisturbedKeepsItsLine, Alone,
     Objects, Fresh, Dialing, Dialers, pool, history, TypeOK, Link, NoLink, LinkOf, Holders, Has
<1>7. ASSUME NEW u \in User, NotReconnected(u) PROVE UndisturbedKeepsItsLine'
  BY <1>0, PoolAssumption, <1>7 DEF NotReconnected, Raises, Leaves, Ready, Goes, Closes,
     UndisturbedKeepsItsLine, Alone, Objects, Fresh, Dialing, Dialers, pool, TypeOK, Link, NoLink,
     LinkOf, Holders, Has
<1>8. ASSUME NEW u \in User, Answers(u) PROVE UndisturbedKeepsItsLine'
  BY <1>0, PoolAssumption, <1>8 DEF Answers, Ready, Goes, UndisturbedKeepsItsLine, Alone, Objects,
     Fresh, Dialing, Dialers, pool, clients, history, TypeOK, Link, NoLink, LinkOf, Holders, Has
<1>9. ASSUME NEW u \in User, Done(u) PROVE UndisturbedKeepsItsLine'
  BY <1>0, PoolAssumption, <1>9 DEF Done, Leaves, Ready, Goes, Closes, UndisturbedKeepsItsLine,
     Alone, Objects, Fresh, Dialing, Dialers, pool, TypeOK, Link, NoLink, LinkOf, Holders, Has
<1>10. ASSUME Cleanup PROVE UndisturbedKeepsItsLine'
  BY <1>0, PoolAssumption, <1>10 DEF Cleanup, Closes, UndisturbedKeepsItsLine, Alone, Objects,
     Fresh, Dialing, Dialers, users, TypeOK, Link, NoLink, LinkOf, Holders, Has
<1>11. ASSUME CloseAll PROVE UndisturbedKeepsItsLine'
  BY <1>0, PoolAssumption, <1>11 DEF CloseAll, Closes, UndisturbedKeepsItsLine, Alone, Objects,
     Fresh, Dialing, Dialers, users, TypeOK, Link, NoLink, LinkOf, Holders, Has
<1>12. ASSUME TimePasses PROVE UndisturbedKeepsItsLine'
  BY <1>0, PoolAssumption, <1>12 DEF TimePasses, UndisturbedKeepsItsLine, Alone, Objects, Fresh,
     Dialing, Dialers, clients, users, TypeOK, Link, NoLink, LinkOf, Holders, Has
<1>13. ASSUME NEW k \in Link, Drops(k) PROVE UndisturbedKeepsItsLine'
  BY <1>0, PoolAssumption, <1>13 DEF Drops, UndisturbedKeepsItsLine, Alone, Objects, Fresh,
     Dialing, Dialers, pool, users, TypeOK, Link, NoLink, LinkOf, Holders, Has
<1>14. CASE UNCHANGED vars
  BY <1>0, PoolAssumption, <1>14 DEF vars, UndisturbedKeepsItsLine, Alone, Objects, Fresh,
     Dialing, Dialers, pool, clients, users, history, TypeOK, Link, NoLink, LinkOf, Holders, Has
<1> QED
  BY <1>1, <1>2, <1>3, <1>4, <1>5, <1>6, <1>7, <1>8, <1>9, <1>10, <1>11, <1>12, <1>13, <1>14,
     ZenonT(30) DEF Next, UserStep

\* A connection is left open for a named cause only.
LEMMA LeakStep ==
    ASSUME IndInv, [Next]_vars
    PROVE  LeakHasCause'
<1>0. TypeOK /\ Objects /\ Fresh /\ Dialing /\ LeakHasCause
  BY DEF IndInv
<1>1. ASSUME NEW u \in User, Hits(u) PROVE LeakHasCause'
  BY <1>0, PoolAssumption, <1>1 DEF Hits, Goes, LeakHasCause, Objects, Fresh, Dialing, Dialers,
     clients, TypeOK, Link, NoLink, LinkOf, Holders, Has
<1>2. ASSUME NEW u \in User, Misses(u) PROVE LeakHasCause'
  BY <1>0, PoolAssumption, <1>2 DEF Misses, Dials, LeakHasCause, Objects, Fresh, Dialing, Dialers,
     TypeOK, Link, NoLink, LinkOf, Holders, Has
<1>3. ASSUME NEW u \in User, Puts(u) PROVE LeakHasCause'
  BY <1>0, PoolAssumption, <1>3 DEF Puts, Ready, Goes, LeakHasCause, Objects, Fresh, Dialing,
     Dialers, TypeOK, Link, NoLink, Holders, Has
<1>4. ASSUME NEW u \in User, Refused(u) PROVE LeakHasCause'
  BY <1>0, PoolAssumption, <1>4 DEF Refused, Leaves, Ready, Goes, LeakHasCause, Objects, Fresh,
     Dialing, Dialers, pool, history, TypeOK, Link, NoLink, Holders, Has
<1>5. ASSUME NEW u \in User, Executes(u) PROVE LeakHasCause'
  BY <1>0, PoolAssumption, <1>5 DEF Executes, Goes, Dials, Raises, Leaves, Ready, Closes,
     LeakHasCause, Objects, Fresh, Dialing, Dialers, pool, clients, TypeOK, Link, NoLink, LinkOf,
     Holders, Has
<1>6. ASSUME NEW u \in User, Reconnected(u) PROVE LeakHasCause'
  BY <1>0, PoolAssumption, <1>6 DEF Reconnected, Ready, Goes, LeakHasCause, Objects, Fresh,
     Dialing, Dialers, pool, history, TypeOK, Link, NoLink, Holders, Has
<1>7. ASSUME NEW u \in User, NotReconnected(u) PROVE LeakHasCause'
  BY <1>0, PoolAssumption, <1>7 DEF NotReconnected, Raises, Leaves, Ready, Goes, Closes,
     LeakHasCause, Objects, Fresh, Dialing, Dialers, pool, TypeOK, Link, NoLink, LinkOf,
     Holders, Has
<1>8. ASSUME NEW u \in User, Answers(u) PROVE LeakHasCause'
  BY <1>0, PoolAssumption, <1>8 DEF Answers, Ready, Goes, LeakHasCause, Objects, Fresh, Dialing,
     Dialers, pool, clients, history, TypeOK, Link, NoLink, Holders, Has
<1>9. ASSUME NEW u \in User, Done(u) PROVE LeakHasCause'
  BY <1>0, PoolAssumption, <1>9 DEF Done, Leaves, Ready, Goes, Closes, LeakHasCause, Objects,
     Fresh, Dialing, Dialers, pool, TypeOK, Link, NoLink, LinkOf, Holders, Has
<1>10. ASSUME Cleanup PROVE LeakHasCause'
  BY <1>0, PoolAssumption, <1>10 DEF Cleanup, Closes, LeakHasCause, Objects, Fresh, Dialing,
     Dialers, users, TypeOK, Link, NoLink, LinkOf, Holders, Has
<1>11. ASSUME CloseAll PROVE LeakHasCause'
  BY <1>0, PoolAssumption, <1>11 DEF CloseAll, Closes, LeakHasCause, Objects, Fresh, Dialing,
     Dialers, users, TypeOK, Link, NoLink, LinkOf, Holders, Has
<1>12. ASSUME TimePasses PROVE LeakHasCause'
  BY <1>0, PoolAssumption, <1>12 DEF TimePasses, LeakHasCause, Objects, Fresh, Dialing, Dialers,
     clients, users, TypeOK, Link, NoLink, Holders, Has
<1>13. ASSUME NEW k \in Link, Drops(k) PROVE LeakHasCause'
  BY <1>0, PoolAssumption, <1>13 DEF Drops, LeakHasCause, Objects, Fresh, Dialing, Dialers, pool,
     users, TypeOK, Link, NoLink, Holders, Has
<1>14. CASE UNCHANGED vars
  BY <1>0, PoolAssumption, <1>14 DEF vars, LeakHasCause, Objects, Fresh, Dialing, Dialers, pool,
     clients, users, history, TypeOK, Link, NoLink, Holders, Has
<1> QED
  BY <1>1, <1>2, <1>3, <1>4, <1>5, <1>6, <1>7, <1>8, <1>9, <1>10, <1>11, <1>12, <1>13, <1>14,
     ZenonT(30) DEF Next, UserStep

\* A password is left with a client for a named cause only.
LEMMA SecretStep ==
    ASSUME IndInv, [Next]_vars
    PROVE  SecretHasOwner'
<1>0. TypeOK /\ Fresh /\ SecretHasOwner
  BY DEF IndInv
<1>1. ASSUME NEW u \in User, Hits(u) PROVE SecretHasOwner'
  BY <1>0, PoolAssumption, <1>1 DEF Hits, Goes, SecretHasOwner, Fresh, clients, TypeOK, Link,
     NoLink, LinkOf, Holders, Has
<1>2. ASSUME NEW u \in User, Misses(u) PROVE SecretHasOwner'
  BY <1>0, PoolAssumption, <1>2 DEF Misses, Dials, SecretHasOwner, Fresh, TypeOK, Link, NoLink,
     LinkOf, Holders, Has
<1>3. ASSUME NEW u \in User, Puts(u) PROVE SecretHasOwner'
  BY <1>0, PoolAssumption, <1>3 DEF Puts, Ready, Goes, SecretHasOwner, Fresh, TypeOK, Link,
     NoLink, Holders, Has
<1>4. ASSUME NEW u \in User, Refused(u) PROVE SecretHasOwner'
  BY <1>0, PoolAssumption, <1>4 DEF Refused, Leaves, Ready, Goes, SecretHasOwner, Fresh, pool,
     history, TypeOK, Link, NoLink, Holders, Has
<1>5. ASSUME NEW u \in User, Executes(u) PROVE SecretHasOwner'
  <2>1. ASSUME LinkOf(client[u]) = "open", Goes(u, "run"),
               line' = [line EXCEPT ![u] = conn[client[u]]],
               UNCHANGED <<clients, client, orphans, pool, disturbed, left>>
        PROVE  SecretHasOwner'
    BY <1>5, <1>0, <2>1 DEF Goes, SecretHasOwner, Fresh, pool, clients, TypeOK, Link, NoLink,
       LinkOf, Holders, Has
  <2>2. ASSUME at[u] = "ready", LinkOf(client[u]) = "none", Dials(u, NoClient, client[u], "first"),
               UNCHANGED <<secret, client, pool, disturbed, left>>
        PROVE  SecretHasOwner'
    BY <1>5, <1>0, <2>2, PoolAssumption DEF Dials, SecretHasOwner, Fresh, pool, TypeOK, Link,
       NoLink, LinkOf, Holders, Has
  <2>3. ASSUME LinkOf(client[u]) = "dead", Dials(u, client[u], client[u], "second"),
               secret' = secret \ {client[u]}, UNCHANGED <<client, pool, disturbed, left>>
        PROVE  SecretHasOwner'
    BY <1>5, <1>0, <2>3, PoolAssumption DEF Dials, SecretHasOwner, Fresh, pool, TypeOK, Link,
       NoLink, LinkOf, Holders, Has
  <2>4. ASSUME LinkOf(client[u]) # "open", Raises(u), UNCHANGED <<pool, disturbed, left>>
        PROVE  SecretHasOwner'
    BY <1>5, <1>0, <2>4, PoolAssumption DEF Raises, Leaves, Ready, Goes, Closes, SecretHasOwner,
       Fresh, pool, TypeOK, Link, NoLink, LinkOf, Holders, Has
  <2> QED
    BY <1>5, <2>1, <2>2, <2>3, <2>4 DEF Executes
<1>6. ASSUME NEW u \in User, Reconnected(u) PROVE SecretHasOwner'
  BY <1>0, PoolAssumption, <1>6 DEF Reconnected, Ready, Goes, SecretHasOwner, Fresh, pool,
     history, TypeOK, Link, NoLink, Holders, Has
<1>7. ASSUME NEW u \in User, NotReconnected(u) PROVE SecretHasOwner'
  BY <1>0, PoolAssumption, <1>7 DEF NotReconnected, Raises, Leaves, Ready, Goes, Closes,
     SecretHasOwner, Fresh, pool, TypeOK, Link, NoLink, LinkOf, Holders, Has
<1>8. ASSUME NEW u \in User, Answers(u) PROVE SecretHasOwner'
  BY <1>0, PoolAssumption, <1>8 DEF Answers, Ready, Goes, SecretHasOwner, Fresh, pool, clients,
     history, TypeOK, Link, NoLink, Holders, Has
<1>9. ASSUME NEW u \in User, Done(u) PROVE SecretHasOwner'
  BY <1>0, PoolAssumption, <1>9 DEF Done, Leaves, Ready, Goes, Closes, SecretHasOwner, Fresh,
     pool, TypeOK, Link, NoLink, LinkOf, Holders, Has
<1>10. ASSUME Cleanup PROVE SecretHasOwner'
  BY <1>0, PoolAssumption, <1>10 DEF Cleanup, Closes, SecretHasOwner, Fresh, users, TypeOK, Link,
     NoLink, LinkOf, Holders, Has
<1>11. ASSUME CloseAll PROVE SecretHasOwner'
  BY <1>0, PoolAssumption, <1>11 DEF CloseAll, Closes, SecretHasOwner, Fresh, users, TypeOK, Link,
     NoLink, LinkOf, Holders, Has
<1>12. ASSUME TimePasses PROVE SecretHasOwner'
  BY <1>0, PoolAssumption, <1>12 DEF TimePasses, SecretHasOwner, Fresh, clients, users, TypeOK,
     Link, NoLink, Holders, Has
<1>13. ASSUME NEW k \in Link, Drops(k) PROVE SecretHasOwner'
  BY <1>0, PoolAssumption, <1>13 DEF Drops, SecretHasOwner, Fresh, pool, users, TypeOK, Link,
     NoLink, Holders, Has
<1>14. CASE UNCHANGED vars
  BY <1>0, PoolAssumption, <1>14 DEF vars, SecretHasOwner, Fresh, pool, clients, users, history,
     TypeOK, Link, NoLink, Holders, Has
<1> QED
  BY <1>1, <1>2, <1>3, <1>4, <1>5, <1>6, <1>7, <1>8, <1>9, <1>10, <1>11, <1>12, <1>13, <1>14,
     ZenonT(30) DEF Next, UserStep

-----------------------------------------------------------------------------
\* Every step keeps the invariant.
LEMMA IndStep ==
    ASSUME IndInv, [Next]_vars
    PROVE  IndInv'
  BY TypeStep, ObjectsStep, FreshStep, DialingStep, AloneStep, UndisturbedStep,
     LeakStep, SecretStep DEF IndInv

-----------------------------------------------------------------------------
\* The invariant holds at every moment, whoever shares a client and whatever is closed.
THEOREM Inductive == Spec => []IndInv
<1>1. Init => IndInv
  BY InitInv
<1>2. IndInv /\ [Next]_vars => IndInv'
  BY IndStep
<1> QED
  BY <1>1, <1>2, PTL DEF Spec

\* A user who shares its client with nobody, is not idle too long and is not cut off by the
\* network keeps its connection to the end; a connection or password that nobody can close
\* any more has one of the named causes: for any number of users and connections.
THEOREM PoolSound == Spec => []PoolIsSound
<1>1. IndInv => PoolIsSound
  BY DEF IndInv, PoolIsSound
<1> QED
  BY <1>1, Inductive, PTL

-----------------------------------------------------------------------------
(* The sessions *)


Shells == {"none", "opening", "severed", "open", "ended", "closed"}

\* A session nobody has registered yet is not connected, and no websocket is at it.
Unattached ==
    \A s \in Session : shell[s] \in {"none", "opening", "severed"} =>
        connected[s] = FALSE /\ \A k \in Socket : place[k] # s

\* Who is at work knows on what, and what is about to be put back has slipped.
AtWork ==
    /\ \A c \in Closer : cpc[c] # "idle" => target[c] \in Session
    /\ \A c \in Closer : cpc[c] = "refuse" => target[c] \in slipped
    /\ \A k \in Socket : spc[k] # "off" => place[k] \in Session

\* Of the websockets one at most is between its checks and the flag, and until then the
\* session it checked stays unattached.
Checking ==
    \A k \in Socket : spc[k] = "checked" =>
        /\ \A j \in Socket : spc[j] = "checked" => j = k
        /\ place[k] \in table \ (slipped \cup broken) =>
               On(place[k]) = {} /\ connected[place[k]] = FALSE

\* The inductive invariant of the sessions.
SessionInv == SessionsAreSound /\ Unattached /\ AtWork /\ Checking

-----------------------------------------------------------------------------
\* Of any sessions in the table fewer than the limit are kept: the number of those that
\* were active later tells them apart, and is smaller than the limit.
LEMMA RecentAreFew ==
    ASSUME ShellTypeOK, OrderIsKnown, NoShellIsLost, NEW them \in SUBSET table,
           NEW max \in Nat \ {0}
    PROVE  IsFiniteSet(Recent(them, max)) /\ Cardinality(Recent(them, max)) + 1 <= max
<1> DEFINE Later(s) == newer[s] \cap them
           R == Recent(them, max)
           f == [s \in R |-> Cardinality(Later(s))]
<1>1. IsFiniteSet(them)
  BY FS_Subset DEF ShellTypeOK
<1>2. \A s \in R : s \in Session /\ Recorded(s)
  BY DEF ShellTypeOK, NoShellIsLost, In, Recent
<1>3. \A s \in R : IsFiniteSet(Later(s)) /\ Cardinality(Later(s)) \in Nat
  BY <1>1, FS_Subset, FS_CardinalityType
<1>4. \A s \in R : Cardinality(Later(s)) \in 0..(max - 2)
  <2>1. \A s \in R : Cardinality(Later(s)) + 1 < max
    BY DEF Recent
  <2> HIDE DEF Later, R
  <2> QED
    BY <2>1, <1>3
<1>5. f \in [R -> 0..(max - 2)]
  BY <1>4
<1>6. ASSUME NEW r \in R, NEW s \in R, s \in newer[r] PROVE f[s] < f[r]
  <2>1. /\ newer[s] \subseteq newer[r] /\ s \notin newer[s]
    BY <1>2, <1>6 DEF OrderIsKnown
  <2>2. Later(s) \subseteq Later(r) /\ s \in Later(r) /\ s \notin Later(s)
    BY <2>1, <1>6 DEF Recent
  <2>3. Cardinality(Later(s)) <= Cardinality(Later(r))
        /\ (Cardinality(Later(s)) = Cardinality(Later(r)) => Later(s) = Later(r))
    BY <2>2, <1>3, FS_Subset
  <2>4. Cardinality(Later(s)) < Cardinality(Later(r))
    <3>1. Later(s) # Later(r)
      BY <2>2
    <3> HIDE DEF Later
    <3> QED
      BY <3>1, <2>3, <1>3
  <2> QED
    BY <2>4
<1>7. \A r, s \in R : f[r] = f[s] => r = s
  <2> SUFFICES ASSUME NEW r \in R, NEW s \in R, r # s PROVE f[r] # f[s]
    OBVIOUS
  <2>1. s \in newer[r] \/ r \in newer[s]
    BY <1>2 DEF OrderIsKnown
  <2>2. f[s] < f[r] \/ f[r] < f[s]
    BY <2>1, <1>6
  <2>3. f[s] \in Int /\ f[r] \in Int
    <3>1. \A n \in 0..(max - 2) : n \in Int
      OBVIOUS
    <3> HIDE DEF f
    <3> QED
      BY <3>1, <1>5
  <2> QED
    BY <2>2, <2>3
<1>8. f \in Injection(R, 0..(max - 2))
  <2> HIDE DEF f
  <2> QED
    BY <1>5, <1>7 DEF Injection, IsInjective
<1>9. IsFiniteSet(0..(max - 2)) /\ Cardinality(0..(max - 2)) = (IF max < 2 THEN 0 ELSE max - 1)
  <2>1. 0 \in Int /\ max - 2 \in Int
    OBVIOUS
  <2>2. IsFiniteSet(0..(max - 2))
        /\ Cardinality(0..(max - 2)) = (IF 0 > max - 2 THEN 0 ELSE max - 2 - 0 + 1)
    BY <2>1, FS_Interval
  <2> QED
    BY <2>2
<1>10. IsFiniteSet(R) /\ Cardinality(R) <= Cardinality(0..(max - 2))
  <2> HIDE DEF f, R
  <2> QED
    BY <1>8, <1>9, FS_Injection
<1>11. Cardinality(R) \in Nat
  BY <1>10, FS_CardinalityType
<1> QED
  BY <1>9, <1>10, <1>11

-----------------------------------------------------------------------------
\* Nothing is registered, nobody is at work.
LEMMA SessionInitInv ==
    ASSUME ShellInit PROVE SessionInv
<1>1. ShellTypeOK
  <2>1. IsFiniteSet(table)
    BY FS_EmptySet DEF ShellInit
  <2> QED
    BY <2>1, SessionsAssumption DEF ShellInit, ShellTypeOK
<1>2. OrderIsKnown /\ NoShellIsLost /\ ConnectedIsTrue
  BY DEF ShellInit, OrderIsKnown, NoShellIsLost, ConnectedIsTrue, Holding, In, Recorded
<1>3. WithinLimits
  <2>1. table \ slipped = {} /\ \A u \in Admin : {s \in table \ slipped : user[s] = u} = {}
    BY DEF ShellInit
  <2> QED
    BY <2>1, FS_EmptySet, SessionsAssumption DEF WithinLimits
<1>4. Unattached /\ AtWork /\ Checking
  BY SessionsAssumption DEF ShellInit, Unattached, AtWork, Checking
<1> QED
  BY <1>1, <1>2, <1>3, <1>4 DEF SessionInv, SessionsAreSound

\* What Registers does, with names for what stays and what goes.
LEMMA Registered ==
    ASSUME ShellTypeOK, NEW s \in Session, Registers(s)
    PROVE  \E some \in SUBSET table, gone \in SUBSET table :
               LET mine == {r \in some : user[r] = user[s]} IN
               /\ some = Recent({r \in table : ~Expired(r)}, MaxSessions)
               /\ gone = table \ ((some \ mine) \cup Recent(mine, PerUser))
               /\ shell[s] \in {"opening", "severed"}
               /\ \E new \in {"open", "ended"} : shell' = [Shut(gone) EXCEPT ![s] = new]
               /\ table' = (table \ gone) \cup {s} /\ newer' = Active(s, gone)
               /\ Forgets(gone) /\ UNCHANGED <<socket, closer>>
<1> DEFINE some == Recent({r \in table : ~Expired(r)}, MaxSessions)
           mine == {r \in some : user[r] = user[s]}
           kept == (some \ mine) \cup Recent(mine, PerUser)
           gone == table \ kept
<1>1. some \subseteq table /\ mine \subseteq table /\ kept \subseteq table
  BY DEF Recent
<1>2. kept = table \ gone
  BY <1>1
<1>3. /\ shell[s] \in {"opening", "severed"}
      /\ \E new \in {"open", "ended"} : shell' = [Shut(gone) EXCEPT ![s] = new]
      /\ table' = kept \cup {s} /\ newer' = Active(s, gone) /\ Forgets(gone)
      /\ UNCHANGED <<socket, closer>>
  BY DEF Registers, Opened
<1> QED
  BY <1>1, <1>2, <1>3

\* Closing the clients of some sessions closes their shells; of the others it ends those
\* that are open, so that they still have their record, and severs those that are opened.
LEMMA ShutIs ==
    ASSUME ShellTypeOK, NEW gone \in SUBSET Session
    PROVE  /\ Shut(gone) \in [Session -> Shells]
           /\ \A s \in Session :
                 /\ s \in gone => Shut(gone)[s] = "closed"
                 /\ s \notin gone =>
                     /\ Shut(gone)[s] \in {"open", "ended"} <=> Recorded(s)
                     /\ Shut(gone)[s] \in {"none", "opening", "severed"} <=>
                            shell[s] \in {"none", "opening", "severed"}
                     /\ Shut(gone)[s] \in {"none", "closed"} <=> shell[s] \in {"none", "closed"}
  BY DEF ShellTypeOK, Shut, Cut, Recorded, Shells

\* The steps that concern neither the table nor who is at work.
Small(s) == Opens(s) \/ OpenFails(s) \/ Ends(s) \/ Idles(s)

\* None of them gives a session its record or takes it away.
LEMMA SmallStep ==
    ASSUME ShellTypeOK, NEW r \in Session, Small(r)
    PROVE  /\ UNCHANGED <<table, newer, connected, socket, closer, slipped, broken>>
           /\ shell' \in [Session -> Shells] /\ ssh' \in [Session -> Session \cup {None}]
           /\ due' \subseteq Session /\ user' \in [Session -> Admin \cup {None}]
           /\ \A s \in Session :
                 /\ shell'[s] \in {"open", "ended"} <=> Recorded(s)
                 /\ shell'[s] \in {"none", "opening", "severed"} =>
                        shell[s] \in {"none", "opening", "severed"}
                 /\ user'[s] = user[s] \/ ~Recorded(s)
                 /\ (ssh[s] = None <=> shell[s] \in {"none", "closed"}) =>
                        (ssh'[s] = None <=> shell'[s] \in {"none", "closed"})
<1> USE DEF ShellTypeOK, Recorded, Shells
<1>1. CASE Opens(r)
  <2>1. PICK c \in ({r} \cup {ssh[q] : q \in Session}) \ {None} : ssh' = [ssh EXCEPT ![r] = c]
    BY <1>1 DEF Opens
  <2>2. c \in Session /\ c # None
    BY <2>1
  <2>3. \A s \in Session : s # r => shell'[s] = shell[s] /\ ssh'[s] = ssh[s] /\ user'[s] = user[s]
    BY <1>1, <2>1 DEF Opens
  <2>4. shell[r] = "none" /\ shell'[r] = "opening" /\ ssh'[r] = c
    BY <1>1, <2>1 DEF Opens
  <2>5. /\ shell' \in [Session -> Shells] /\ ssh' \in [Session -> Session \cup {None}]
        /\ user' \in [Session -> Admin \cup {None}] /\ due' = due
        /\ UNCHANGED <<table, newer, connected, socket, closer, slipped, broken>>
    BY <1>1, <2>1, <2>2 DEF Opens
  <2> QED
    BY <2>2, <2>3, <2>4, <2>5
<1>2. CASE OpenFails(r)
  <2>1. /\ shell[r] \in {"opening", "severed"} /\ shell' = Shut({r})
        /\ user' = [user EXCEPT ![r] = None] /\ ssh' = [ssh EXCEPT ![r] = None]
        /\ UNCHANGED <<table, newer, due, connected, socket, closer, slipped, broken>>
    BY <1>2 DEF OpenFails
  <2>2. {r} \in SUBSET Session
    OBVIOUS
  <2>3. /\ Shut({r}) \in [Session -> Shells] /\ Shut({r})[r] = "closed"
        /\ \A s \in Session : s # r =>
              /\ Shut({r})[s] \in {"open", "ended"} <=> Recorded(s)
              /\ Shut({r})[s] \in {"none", "opening", "severed"} <=>
                     shell[s] \in {"none", "opening", "severed"}
              /\ Shut({r})[s] \in {"none", "closed"} <=> shell[s] \in {"none", "closed"}
    BY <2>2, ShutIs
  <2> QED
    BY <2>1, <2>3
<1>3. CASE Ends(r)
  BY <1>3 DEF Ends, Cut
<1>4. CASE Idles(r)
  BY <1>4 DEF Idles
<1> QED
  BY <1>1, <1>2, <1>3, <1>4 DEF Small

\* What the steps that remove sessions from the table have in common, and who takes them.
Clears(gone) == Removes(gone) /\ UNCHANGED socket
Called ==
    \/ UNCHANGED closer
    \/ \E c \in Closer : /\ cpc[c] = "idle" /\ closes < MaxCloses /\ closes' = closes + 1
                         /\ Replies(c)
Found(c, s, u) ==
    /\ cpc[c] = "idle" /\ closes < MaxCloses /\ closes' = closes + 1
    /\ CloserTo(c, "found", s, u) /\ UNCHANGED <<session, socket, slipped, broken>>

\* Every step is of one of these kinds.
Kinds ==
    \/ \E s \in Session : Small(s) \/ Registers(s)
    \/ \E gone \in SUBSET table : Clears(gone) /\ Called
    \/ \E c \in Closer, s \in Session, u \in Admin : Found(c, s, u)
    \/ \E c \in Closer : Pops(c) \/ Refuses(c) \/ ClosesShell(c)
    \/ \E k \in Socket : Checks(k) \/ Marks(k) \/ Accepts(k) \/ Touches(k) \/ Detaches(k)

LEMMA EveryStep ==
    ASSUME ShellTypeOK, ShellNext PROVE Kinds
<1>1. CASE Lists
  BY <1>1 DEF Lists, Clears, Called, Kinds
<1>2. ASSUME NEW c \in Closer, Finds(c) PROVE Kinds
  <2>1. PICK s \in Session :
          \/ \E u \in Admin : Found(c, s, u)
          \/ Clears({s} \cap table) /\ Called
    BY <1>2 DEF Finds, Found, LooksInVain, Clears, Called
  <2>2. {s} \cap table \in SUBSET table
    OBVIOUS
  <2> QED
    BY <2>1, <2>2 DEF Kinds
<1>3. ASSUME NEW k \in Socket, Looks(k) PROVE Kinds
  <2>1. PICK s \in table : Clears({s} \cap table) /\ Called
    BY <1>3 DEF Looks, LooksInVain, Clears, Called
  <2>2. {s} \cap table \in SUBSET table
    OBVIOUS
  <2> QED
    BY <2>1, <2>2 DEF Kinds
<1> QED
  BY <1>1, <1>2, <1>3 DEF ShellNext, Kinds, Small

\* Forgetting keeps the types.
LEMMA ForgetTypes ==
    ASSUME ShellTypeOK, NEW gone \in SUBSET Session, Forgets(gone)
    PROVE  /\ connected' \in [Session -> BOOLEAN] /\ due' \subseteq Session
           /\ user' \in [Session -> Admin \cup {None}]
           /\ slipped' \subseteq Session /\ broken' \subseteq Session
           /\ ssh' \in [Session -> Session \cup {None}]
           /\ Without(gone) \in [Session -> SUBSET Session]
  BY DEF ShellTypeOK, Forgets, Without

LEMMA ActiveTypes ==
    ASSUME ShellTypeOK, NEW gone \in SUBSET Session, NEW s \in Session
    PROVE  Active(s, gone) \in [Session -> SUBSET Session]
  BY DEF ShellTypeOK, Active

\* What a step does to the handlers and websockets keeps their types.
LEMMA WorkerTypes ==
    ASSUME ShellTypeOK, ShellNext
    PROVE  /\ spc' \in [Socket -> {"off", "checked", "accept", "loop"}]
           /\ place' \in [Socket -> Session \cup {None}]
           /\ cpc' \in [Closer -> {"idle", "found", "refuse", "close"}]
           /\ target' \in [Closer -> Session \cup {None}]
           /\ caller' \in [Closer -> Admin \cup {None}]
           /\ closes' \in 0..MaxCloses
<1> USE DEF session, socket, closer
<1>1. ASSUME NEW s \in Session, Small(s) \/ Registers(s) PROVE UNCHANGED <<socket, closer>>
  BY <1>1, SmallStep DEF Registers
<1>2. ASSUME NEW gone \in SUBSET table, Clears(gone), Called
      PROVE  /\ UNCHANGED socket
             /\ cpc' \in [Closer -> {"idle", "found", "refuse", "close"}]
             /\ target' \in [Closer -> Session \cup {None}]
             /\ caller' \in [Closer -> Admin \cup {None}] /\ closes' \in 0..MaxCloses
  BY <1>2, SessionsAssumption DEF Clears, Called, Replies, CloserTo, ShellTypeOK
<1>3. ASSUME NEW c \in Closer, NEW s \in Session, NEW u \in Admin, Found(c, s, u)
      PROVE  /\ UNCHANGED socket
             /\ cpc' \in [Closer -> {"idle", "found", "refuse", "close"}]
             /\ target' \in [Closer -> Session \cup {None}]
             /\ caller' \in [Closer -> Admin \cup {None}] /\ closes' \in 0..MaxCloses
  BY <1>3, SessionsAssumption DEF Found, CloserTo, ShellTypeOK
<1>4. ASSUME NEW c \in Closer, Pops(c) \/ Refuses(c) \/ ClosesShell(c)
      PROVE  /\ UNCHANGED <<socket, closes>>
             /\ cpc' \in [Closer -> {"idle", "found", "refuse", "close"}]
             /\ target' \in [Closer -> Session \cup {None}]
             /\ caller' \in [Closer -> Admin \cup {None}]
  BY <1>4 DEF Pops, Refuses, ClosesShell, Replies, CloserTo, ShellTypeOK
<1>5. ASSUME NEW k \in Socket, Checks(k) \/ Marks(k) \/ Accepts(k) \/ Touches(k) \/ Detaches(k)
      PROVE  /\ UNCHANGED closer
             /\ spc' \in [Socket -> {"off", "checked", "accept", "loop"}]
             /\ place' \in [Socket -> Session \cup {None}]
  BY <1>5 DEF Checks, Marks, Accepts, Touches, Detaches, SocketTo, ShellTypeOK
<1>6. Kinds
  BY EveryStep
<1>7. CASE UNCHANGED <<socket, closer>>
  BY <1>7 DEF ShellTypeOK
<1> QED
  BY <1>1, <1>2, <1>3, <1>4, <1>5, <1>6, <1>7 DEF Kinds, ShellTypeOK

\* Every step keeps the types.
LEMMA ShellTypeStep ==
    ASSUME SessionInv, ShellNext PROVE ShellTypeOK'
<1> USE DEF SessionInv, SessionsAreSound, session, socket, closer
<1> DEFINE Types == /\ table' \subseteq Session /\ IsFiniteSet(table')
                    /\ shell' \in [Session -> Shells]
                    /\ ssh' \in [Session -> Session \cup {None}]
                    /\ user' \in [Session -> Admin \cup {None}] /\ due' \subseteq Session
                    /\ newer' \in [Session -> SUBSET Session]
                    /\ connected' \in [Session -> BOOLEAN]
                    /\ slipped' \subseteq Session /\ broken' \subseteq Session
<1>1. ASSUME NEW s \in Session, Small(s) PROVE Types
  BY <1>1, SmallStep DEF ShellTypeOK
<1>2. ASSUME NEW s \in Session, Registers(s) PROVE Types
  <2>1. PICK gone \in SUBSET table :
          /\ \E new \in {"open", "ended"} : shell' = [Shut(gone) EXCEPT ![s] = new]
          /\ table' = (table \ gone) \cup {s} /\ newer' = Active(s, gone)
          /\ Forgets(gone)
    BY <1>2, Registered
  <2>2. gone \in SUBSET Session
    BY DEF ShellTypeOK
  <2>3. IsFiniteSet(table')
    <3>1. IsFiniteSet(table \ gone)
      BY FS_Subset DEF ShellTypeOK
    <3> QED
      BY <3>1, <2>1, FS_AddElement
  <2>4. Shut(gone) \in [Session -> Shells]
    BY <2>2, ShutIs
  <2>5. shell' \in [Session -> Shells]
    BY <2>1, <2>4 DEF Shells
  <2> QED
    BY <2>1, <2>2, <2>3, <2>5, ForgetTypes, ActiveTypes DEF ShellTypeOK
<1>3. ASSUME NEW gone \in SUBSET table, Clears(gone) PROVE Types
  <2>1. gone \in SUBSET Session
    BY DEF ShellTypeOK
  <2>2. IsFiniteSet(table \ gone)
    BY FS_Subset DEF ShellTypeOK
  <2> QED
    BY <1>3, <2>1, <2>2, ForgetTypes, ShutIs DEF Clears, Removes, ShellTypeOK
<1>4. ASSUME NEW c \in Closer, NEW s \in Session, NEW u \in Admin, Found(c, s, u) PROVE Types
  BY <1>4 DEF Found, ShellTypeOK, Shells
<1>5. ASSUME NEW c \in Closer, Pops(c) PROVE Types
  <2>1. IsFiniteSet(table \ {target[c]})
    BY FS_Subset DEF ShellTypeOK
  <2>2. target[c] \in Session
    BY <1>5 DEF Pops, AtWork
  <2> QED
    BY <1>5, <2>1, <2>2 DEF Pops, ShellTypeOK, Shells
<1>6. ASSUME NEW c \in Closer, Refuses(c) PROVE Types
  <2>1. IsFiniteSet(table \cup {target[c]})
    BY FS_AddElement DEF ShellTypeOK
  <2>2. target[c] \in Session
    BY <1>6 DEF Refuses, AtWork
  <2> QED
    BY <1>6, <2>1, <2>2 DEF Refuses, ShellTypeOK, Shells
<1>7. ASSUME NEW c \in Closer, ClosesShell(c) PROVE Types
  <2>1. {target[c]} \in SUBSET Session
    BY <1>7 DEF ClosesShell, AtWork
  <2> QED
    BY <1>7, <2>1, ForgetTypes, ShutIs DEF ClosesShell, ShellTypeOK
<1>8. ASSUME NEW k \in Socket, Checks(k) \/ Marks(k) \/ Accepts(k) \/ Detaches(k) PROVE Types
  <2>1. spc[k] # "off" => place[k] \in Session
    BY DEF AtWork
  <2>2. CASE Checks(k)
    BY <2>2 DEF Checks, ShellTypeOK, Shells
  <2>3. CASE Accepts(k)
    BY <2>1, <2>3 DEF Accepts, ShellTypeOK, Shells
  <2>4. CASE Marks(k) \/ Detaches(k)
    <3>1. place[k] \in Session /\ (Sets(place[k], TRUE) \/ Sets(place[k], FALSE))
      BY <2>1, <2>4 DEF Marks, Detaches
    <3>2. connected' \in [Session -> BOOLEAN]
      BY <3>1 DEF Sets, ShellTypeOK
    <3> QED
      BY <2>4, <3>2 DEF Marks, Detaches, ShellTypeOK, Shells
  <2> QED
    BY <1>8, <2>2, <2>3, <2>4
<1>9. ASSUME NEW k \in Socket, Touches(k) PROVE Types
  <2>1. place[k] \in Session
    BY <1>9 DEF Touches, AtWork
  <2>2. newer' \in [Session -> SUBSET Session]
    BY <1>9, <2>1, ActiveTypes DEF Touches
  <2> QED
    BY <1>9, <2>2 DEF Touches, ShellTypeOK, Shells
<1>10. Types
  <2>1. Kinds
    BY EveryStep
  <2> QED
    BY <2>1, <1>1, <1>2, <1>3, <1>4, <1>5, <1>6, <1>7, <1>8, <1>9 DEF Kinds
<1> QED
  BY <1>10, WorkerTypes DEF ShellTypeOK, Shells

-----------------------------------------------------------------------------
\* The order of the sessions that stay open is the one it was, and the one that is
\* active now comes last.
LEMMA OrderStep ==
    ASSUME SessionInv, ShellNext PROVE OrderIsKnown'
<1> USE DEF SessionInv, SessionsAreSound, session, socket, closer
<1>1. ASSUME UNCHANGED newer, \A s \in Session : Recorded(s)' => Recorded(s)
      PROVE  OrderIsKnown'
  BY <1>1 DEF OrderIsKnown
<1>2. ASSUME NEW gone \in SUBSET Session, newer' = Without(gone), shell' = Shut(gone)
      PROVE  OrderIsKnown'
  <2>1. \A s \in Session : Recorded(s)' =>
            s \notin gone /\ Recorded(s) /\ newer'[s] = newer[s] \ gone
    BY <1>2, ShutIs DEF Without, Recorded
  <2> QED
    BY <2>1 DEF OrderIsKnown
<1>3. ASSUME NEW gone \in SUBSET Session, NEW s \in Session, newer' = Active(s, gone),
             \A r \in Session : r # s /\ Recorded(r)' => r \notin gone /\ Recorded(r)
      PROVE  OrderIsKnown'
  <2>1. \A r \in Session : r # s /\ Recorded(r)' =>
            /\ r \notin gone /\ Recorded(r)
            /\ newer'[r] = (newer[r] \ gone) \cup {s}
    BY <1>3 DEF Active
  <2>2. newer'[s] = {}
    BY <1>3 DEF Active
  <2> SUFFICES ASSUME NEW q \in Session, NEW r \in Session, Recorded(q)', Recorded(r)'
               PROVE  /\ q # r => (r \in newer'[q] <=> q \notin newer'[r])
                      /\ q \notin newer'[q]
                      /\ r \in newer'[q] => newer'[r] \subseteq newer'[q]
    BY DEF OrderIsKnown
  <2>3. CASE q = s
    BY <2>1, <2>2, <2>3
  <2>4. CASE r = s
    BY <2>1, <2>2, <2>4 DEF OrderIsKnown
  <2>5. CASE q # s /\ r # s
    BY <2>1, <2>5 DEF OrderIsKnown
  <2> QED
    BY <2>3, <2>4, <2>5
<1>4. ASSUME NEW s \in Session, Small(s) PROVE OrderIsKnown'
  <2>1. UNCHANGED newer /\ \A r \in Session : Recorded(r)' => Recorded(r)
    BY <1>4, SmallStep DEF Recorded
  <2> QED
    BY <2>1, <1>1
<1>5. ASSUME NEW s \in Session, Registers(s) PROVE OrderIsKnown'
  <2>1. PICK gone \in SUBSET table :
          /\ \E new \in {"open", "ended"} : shell' = [Shut(gone) EXCEPT ![s] = new]
          /\ newer' = Active(s, gone)
    BY <1>5, Registered
  <2>2. gone \in SUBSET Session
    BY DEF ShellTypeOK
  <2>3. \A r \in Session : r # s /\ Recorded(r)' => r \notin gone /\ Recorded(r)
    BY <2>1, <2>2, ShutIs DEF Recorded
  <2> QED
    BY <2>1, <2>2, <2>3, <1>3
<1>6. ASSUME NEW gone \in SUBSET table, Clears(gone) PROVE OrderIsKnown'
  <2>1. gone \in SUBSET Session
    BY DEF ShellTypeOK
  <2> QED
    BY <2>1, <1>6, <1>2 DEF Clears, Removes
<1>7. ASSUME NEW c \in Closer, Pops(c) \/ Refuses(c) PROVE OrderIsKnown'
  BY <1>7, <1>1 DEF Pops, Refuses, Recorded
<1>8. ASSUME NEW c \in Closer, ClosesShell(c) PROVE OrderIsKnown'
  <2>1. {target[c]} \in SUBSET Session
    BY <1>8 DEF ClosesShell, AtWork
  <2> QED
    BY <1>8, <2>1, <1>2 DEF ClosesShell
<1>9. ASSUME NEW k \in Socket, Touches(k) PROVE OrderIsKnown'
  <2>1. place[k] \in Session
    BY <1>9 DEF Touches, AtWork
  <2>2. UNCHANGED shell /\ newer' = Active(place[k], {})
    BY <1>9 DEF Touches
  <2> QED
    BY <2>1, <2>2, <1>3 DEF Recorded
<1>10. ASSUME NEW k \in Socket, Checks(k) \/ Marks(k) \/ Accepts(k) \/ Detaches(k)
       PROVE  OrderIsKnown'
  <2>1. UNCHANGED <<shell, newer>>
    BY <1>10 DEF Checks, Marks, Accepts, Detaches
  <2> QED
    BY <2>1, <1>1 DEF Recorded
<1>11. ASSUME NEW c \in Closer, NEW s \in Session, NEW u \in Admin, Found(c, s, u)
       PROVE  OrderIsKnown'
  <2>1. UNCHANGED <<shell, newer>>
    BY <1>11 DEF Found
  <2> QED
    BY <2>1, <1>1 DEF Recorded
<1>12. Kinds
  BY EveryStep
<1> QED
  BY <1>4, <1>5, <1>6, <1>7, <1>8, <1>9, <1>10, <1>11, <1>12 DEF Kinds

-----------------------------------------------------------------------------
\* Who holds what after a step: nobody more than before, except that Pops takes one.
LEMMA HoldingStep ==
    ASSUME SessionInv, ShellNext, NEW s \in Session
    PROVE  \A c \in Holding(s)' : c \in Holding(s) \/ (Pops(c) /\ target[c] = s /\ In(s))
<1> USE DEF SessionInv, SessionsAreSound, session, socket, closer
<1> SUFFICES ASSUME NEW c \in Closer, cpc'[c] \in {"refuse", "close"}, target'[c] = s
             PROVE  c \in Holding(s) \/ (Pops(c) /\ target[c] = s /\ In(s))
  BY DEF Holding
<1>1. ASSUME UNCHANGED closer PROVE c \in Holding(s)
  BY <1>1 DEF Holding
<1>2. ASSUME Called PROVE c \in Holding(s)
  BY <1>2 DEF Called, Holding, Replies, CloserTo, ShellTypeOK
<1>3. ASSUME NEW d \in Closer, NEW r \in Session, NEW u \in Admin, Found(d, r, u)
      PROVE c \in Holding(s)
  BY <1>3 DEF Found, Holding, CloserTo, ShellTypeOK
<1>4. ASSUME NEW d \in Closer, Refuses(d) \/ ClosesShell(d) PROVE c \in Holding(s)
  BY <1>4 DEF Refuses, ClosesShell, Holding, Replies, CloserTo, ShellTypeOK
<1>5. ASSUME NEW d \in Closer, Pops(d)
      PROVE  c \in Holding(s) \/ (d = c /\ target[c] = s /\ In(s))
  BY <1>5 DEF Pops, Holding, Replies, CloserTo, ShellTypeOK
<1>6. ASSUME NEW r \in Session, Small(r) \/ Registers(r) PROVE UNCHANGED closer
  BY <1>6, SmallStep DEF Registers
<1>7. ASSUME NEW k \in Socket, Checks(k) \/ Marks(k) \/ Accepts(k) \/ Touches(k) \/ Detaches(k)
      PROVE  UNCHANGED closer
  BY <1>7 DEF Checks, Marks, Accepts, Touches, Detaches
<1>8. Kinds
  BY EveryStep
<1> QED
  BY <1>1, <1>2, <1>3, <1>4, <1>5, <1>6, <1>7, <1>8 DEF Kinds

\* A shell that opens is put in the table, one that is popped is in one handler's hands,
\* and one that is in neither is closed.
LEMMA LostStep ==
    ASSUME SessionInv, ShellNext PROVE NoShellIsLost'
<1> USE DEF SessionInv, SessionsAreSound, session, socket, closer
<1> SUFFICES ASSUME NEW s \in Session
             PROVE  /\ Recorded(s)' <=> s \in table' \/ Holding(s)' # {}
                    /\ \A c, d \in Holding(s)' : c = d /\ s \notin table'
                    /\ ssh'[s] = None <=> shell'[s] \in {"none", "closed"}
  BY DEF NoShellIsLost, In
<1>1. /\ Recorded(s) <=> s \in table \/ Holding(s) # {}
      /\ \A c, d \in Holding(s) : c = d /\ s \notin table
      /\ ssh[s] = None <=> shell[s] \in {"none", "closed"}
  BY DEF NoShellIsLost, In
<1> DEFINE Same == UNCHANGED Holding(s)
           Goal == /\ Recorded(s)' <=> s \in table' \/ Holding(s)' # {}
                   /\ \A c, d \in Holding(s)' : c = d /\ s \notin table'
                   /\ ssh'[s] = None <=> shell'[s] \in {"none", "closed"}
<1>2. ASSUME UNCHANGED closer PROVE Same
  BY <1>2 DEF Holding
<1>3. ASSUME NEW r \in Session, Small(r) PROVE Goal
  <2>1. /\ UNCHANGED closer /\ UNCHANGED table /\ (Recorded(s)' <=> Recorded(s))
        /\ ssh'[s] = None <=> shell'[s] \in {"none", "closed"}
    BY <1>1, <1>3, SmallStep DEF Recorded
  <2> QED
    BY <2>1, <1>1, <1>2
<1>4. ASSUME NEW r \in Session, Registers(r) PROVE Goal
  <2>1. PICK gone \in SUBSET table :
          /\ shell[r] \in {"opening", "severed"}
          /\ \E new \in {"open", "ended"} : shell' = [Shut(gone) EXCEPT ![r] = new]
          /\ table' = (table \ gone) \cup {r} /\ Forgets(gone) /\ UNCHANGED closer
    BY <1>4, Registered
  <2>2. Same /\ gone \in SUBSET Session
    BY <2>1, <1>2 DEF ShellTypeOK
  <2>3. ssh'[s] = (IF s \in gone THEN None ELSE ssh[s])
    BY <2>1 DEF Forgets
  <2>4. Shut(gone) \in [Session -> Shells]
    BY <2>2, ShutIs
  <2>5. CASE s = r
    <3>1. ~Recorded(s) /\ ssh[s] # None
      BY <2>1, <2>5, <1>1 DEF Recorded
    <3>2. s \notin table /\ Holding(s) = {}
      BY <3>1, <1>1
    <3>3. shell'[s] \in {"open", "ended"} /\ s \in table' /\ s \notin gone
      BY <2>1, <2>4, <2>5, <3>2
    <3> QED
      BY <2>2, <2>3, <3>1, <3>2, <3>3 DEF Recorded
  <2>6. CASE s # r
    <3>1. shell'[s] = Shut(gone)[s] /\ (s \in table' <=> s \in table /\ s \notin gone)
      BY <2>1, <2>4, <2>6
    <3>2. s \in gone => s \in table /\ Holding(s) = {}
      BY <1>1
    <3> QED
      BY <2>2, <2>3, <3>1, <3>2, <1>1, ShutIs DEF Recorded
  <2> QED
    BY <2>5, <2>6
<1>5. ASSUME Called PROVE Same
  BY <1>5 DEF Called, Holding, Replies, CloserTo, ShellTypeOK
<1>6. ASSUME NEW gone \in SUBSET table, Clears(gone), Called PROVE Goal
  <2>1. table' = table \ gone /\ shell' = Shut(gone) /\ gone \in SUBSET Session
    BY <1>6 DEF Clears, Removes, ShellTypeOK
  <2>2. ssh'[s] = (IF s \in gone THEN None ELSE ssh[s])
    BY <1>6 DEF Clears, Removes, Forgets
  <2>3. s \in gone => s \in table /\ Holding(s) = {}
    BY <1>1
  <2> QED
    BY <2>1, <2>2, <2>3, <1>1, <1>5, <1>6, ShutIs DEF Recorded
<1>7. ASSUME NEW c \in Closer, NEW r \in Session, NEW u \in Admin, Found(c, r, u) PROVE Goal
  <2>1. UNCHANGED <<table, shell, ssh>> /\ Same
    BY <1>7 DEF Found, Holding, CloserTo, ShellTypeOK
  <2> QED
    BY <2>1, <1>1 DEF Recorded
<1>8. ASSUME NEW c \in Closer, Pops(c) PROVE Goal
  <2>1. /\ cpc[c] = "found" /\ target[c] \in Session /\ UNCHANGED <<shell, ssh>>
        /\ table' = table \ {target[c]}
    BY <1>8 DEF Pops, AtWork
  <2>2. CASE target[c] = s /\ s \in table
    <3>1. Holding(s)' = Holding(s) \cup {c}
      BY <1>8, <2>2, <2>1 DEF Pops, Holding, Replies, CloserTo, ShellTypeOK, In
    <3>2. Holding(s) = {}
      BY <2>2, <1>1
    <3> QED
      BY <2>1, <2>2, <3>1, <3>2, <1>1 DEF Recorded
  <2>3. CASE target[c] # s \/ s \notin table
    <3>1. Same
      BY <1>8, <2>3, <2>1 DEF Pops, Holding, Replies, CloserTo, ShellTypeOK, In
    <3> QED
      BY <2>1, <2>3, <3>1, <1>1 DEF Recorded
  <2> QED
    BY <2>2, <2>3
<1>9. ASSUME NEW c \in Closer, Refuses(c) PROVE Goal
  <2>1. /\ cpc[c] = "refuse" /\ target[c] \in Session /\ UNCHANGED <<shell, ssh>>
        /\ table' = table \cup {target[c]}
    BY <1>9 DEF Refuses, AtWork
  <2>2. Holding(s)' = Holding(s) \ {c}
    BY <1>9 DEF Refuses, Holding, Replies, CloserTo, ShellTypeOK
  <2>3. c \in Holding(s) <=> target[c] = s
    BY <2>1 DEF Holding
  <2>4. CASE target[c] = s
    BY <2>1, <2>2, <2>3, <2>4, <1>1 DEF Recorded
  <2>5. CASE target[c] # s
    BY <2>1, <2>2, <2>3, <2>5, <1>1 DEF Recorded
  <2> QED
    BY <2>4, <2>5
<1>10. ASSUME NEW c \in Closer, ClosesShell(c) PROVE Goal
  <2>1. /\ cpc[c] = "close" /\ target[c] \in Session /\ UNCHANGED table
        /\ shell' = Shut({target[c]}) /\ {target[c]} \in SUBSET Session
        /\ ssh'[s] = (IF s = target[c] THEN None ELSE ssh[s])
    BY <1>10 DEF ClosesShell, AtWork, Forgets
  <2>2. Holding(s)' = Holding(s) \ {c}
    BY <1>10 DEF ClosesShell, Holding, Replies, CloserTo, ShellTypeOK
  <2>3. c \in Holding(s) <=> target[c] = s
    BY <2>1 DEF Holding
  <2>4. CASE target[c] = s
    <3>1. shell'[s] = "closed" /\ ssh'[s] = None
      BY <2>1, <2>4, ShutIs
    <3>2. Holding(s)' = {} /\ s \notin table'
      BY <2>1, <2>2, <2>3, <2>4, <1>1
    <3> QED
      BY <3>1, <3>2 DEF Recorded
  <2>5. CASE target[c] # s
    BY <2>1, <2>2, <2>3, <2>5, <1>1, ShutIs DEF Recorded
  <2> QED
    BY <2>4, <2>5
<1>11. ASSUME NEW k \in Socket, Checks(k) \/ Marks(k) \/ Accepts(k) \/ Touches(k) \/ Detaches(k)
       PROVE  Goal
  <2>1. UNCHANGED <<table, shell, ssh>> /\ UNCHANGED closer
    BY <1>11 DEF Checks, Marks, Accepts, Touches, Detaches
  <2> QED
    BY <2>1, <1>1, <1>2 DEF Recorded
<1> QED
  <2>1. Kinds
    BY EveryStep
  <2> QED
    BY <2>1, <1>3, <1>4, <1>6, <1>7, <1>8, <1>9, <1>10, <1>11 DEF Kinds

-----------------------------------------------------------------------------
\* Whatever is counted was counted before, or was let in when there was room.
LEMMA LimitsStep ==
    ASSUME SessionInv, ShellNext PROVE WithinLimits'
<1> USE DEF SessionInv, SessionsAreSound, session, socket, closer
<1>1. IsFiniteSet(table \ slipped)
  BY FS_Subset DEF ShellTypeOK
<1>2. ASSUME table' \ slipped' \subseteq table \ slipped,
             \A s \in table' : user'[s] = user[s]
      PROVE  WithinLimits'
  <2>1. IsFiniteSet(table' \ slipped')
        /\ Cardinality(table' \ slipped') <= Cardinality(table \ slipped)
    BY <1>1, <1>2, FS_Subset
  <2>2. Cardinality(table' \ slipped') \in Nat /\ Cardinality(table \ slipped) \in Nat
    BY <2>1, <1>1, FS_CardinalityType
  <2>3. Cardinality(table' \ slipped') <= MaxSessions
    BY <2>1, <2>2, SessionsAssumption DEF WithinLimits
  <2>4. ASSUME NEW u \in Admin
        PROVE  Cardinality({s \in table' \ slipped' : user'[s] = u}) <= PerUser
    <3> DEFINE New == {s \in table' \ slipped' : user'[s] = u}
               Old == {s \in table \ slipped : user[s] = u}
    <3>1. New \subseteq Old
      BY <1>2
    <3>2. IsFiniteSet(Old)
      BY <1>1, FS_Subset
    <3>3. IsFiniteSet(New) /\ Cardinality(New) <= Cardinality(Old)
      BY <3>1, <3>2, FS_Subset
    <3>4. Cardinality(New) \in Nat /\ Cardinality(Old) \in Nat
      BY <3>2, <3>3, FS_CardinalityType
    <3>5. Cardinality(Old) <= PerUser
      BY DEF WithinLimits
    <3> HIDE DEF New, Old
    <3>6. Cardinality(New) <= PerUser
      BY <3>3, <3>4, <3>5, SessionsAssumption
    <3> QED
      BY <3>6 DEF New
  <2> QED
    BY <2>3, <2>4 DEF WithinLimits
<1>3. ASSUME NEW s \in Session, Small(s) PROVE WithinLimits'
  <2>1. UNCHANGED <<table, slipped>>
    BY <1>3, SmallStep
  <2>2. \A r \in table' : user'[r] = user[r]
    <3>1. \A r \in table : r \in Session /\ Recorded(r)
      BY DEF ShellTypeOK, NoShellIsLost, In
    <3> QED
      BY <1>3, <2>1, <3>1, SmallStep
  <2> QED
    BY <2>1, <2>2, <1>2
<1>4. ASSUME NEW s \in Session, Registers(s) PROVE WithinLimits'
  <2>1. PICK some \in SUBSET table, gone \in SUBSET table :
          LET mine == {r \in some : user[r] = user[s]} IN
          /\ some = Recent({r \in table : ~Expired(r)}, MaxSessions)
          /\ gone = table \ ((some \ mine) \cup Recent(mine, PerUser))
          /\ table' = (table \ gone) \cup {s} /\ Forgets(gone)
          /\ shell[s] \in {"opening", "severed"}
    BY <1>4, Registered
  <2> DEFINE mine == {r \in some : user[r] = user[s]}
             few == Recent(mine, PerUser)
  <2>2. table \ gone \subseteq some /\ \A r \in table \ gone : r \in mine => r \in few
    BY <2>1 DEF Recent
  <2>3. \A r \in table' : r \in Session /\ user'[r] = user[r]
    <3>1. s \notin table /\ table \subseteq Session
      BY <2>1 DEF NoShellIsLost, In, Recorded, ShellTypeOK
    <3> QED
      BY <2>1, <3>1 DEF Forgets
  <2>4. IsFiniteSet(some) /\ Cardinality(some) + 1 <= MaxSessions
    <3>1. {r \in table : ~Expired(r)} \in SUBSET table
      OBVIOUS
    <3> QED
      BY <3>1, <2>1, RecentAreFew, SessionsAssumption
  <2>5. IsFiniteSet(few) /\ Cardinality(few) + 1 <= PerUser
    <3>1. mine \in SUBSET table
      OBVIOUS
    <3> QED
      BY <3>1, RecentAreFew, SessionsAssumption
  <2>6. ASSUME NEW S, NEW T, NEW max \in Nat, IsFiniteSet(S), Cardinality(S) + 1 <= max,
               T \subseteq S \cup {s}
        PROVE  Cardinality(T) <= max
    <3>1. IsFiniteSet(S \cup {s}) /\ Cardinality(S \cup {s}) <= Cardinality(S) + 1
      <4>1. Cardinality(S) \in Nat
        BY <2>6, FS_CardinalityType
      <4>2. IsFiniteSet(S \cup {s})
            /\ Cardinality(S \cup {s}) = (IF s \in S THEN Cardinality(S) ELSE Cardinality(S) + 1)
        BY <2>6, FS_AddElement
      <4> QED
        BY <4>1, <4>2
    <3>2. IsFiniteSet(T) /\ Cardinality(T) <= Cardinality(S \cup {s})
      BY <2>6, <3>1, FS_Subset
    <3>3. Cardinality(T) \in Nat /\ Cardinality(S \cup {s}) \in Nat /\ Cardinality(S) \in Nat
      BY <2>6, <3>1, <3>2, FS_CardinalityType
    <3> QED
      BY <2>6, <3>1, <3>2, <3>3
  <2>7. Cardinality(table' \ slipped') <= MaxSessions
    <3>1. table' \ slipped' \subseteq some \cup {s}
      BY <2>1, <2>2
    <3> QED
      BY <3>1, <2>4, <2>6, SessionsAssumption
  <2>8. ASSUME NEW u \in Admin
        PROVE  Cardinality({r \in table' \ slipped' : user'[r] = u}) <= PerUser
    <3>1. CASE u = user[s]
      <4>1. {r \in table' \ slipped' : user'[r] = u} \subseteq few \cup {s}
        <5> SUFFICES ASSUME NEW r \in table', r # s, user[r] = u PROVE r \in few
          BY <2>3
        <5>1. r \in table \ gone
          BY <2>1
        <5> QED
          BY <2>2, <3>1, <5>1
      <4> QED
        BY <4>1, <2>5, <2>6, SessionsAssumption
    <3>2. CASE u # user[s]
      <4> DEFINE New == {r \in table' \ slipped' : user'[r] = u}
                 Old == {r \in table \ slipped : user[r] = u}
      <4>1. New \subseteq Old
        <5> SUFFICES ASSUME NEW r \in table', r \notin slipped', user[r] = u
                     PROVE  r \in table \ slipped
          BY <2>3
        <5>1. r \in table \ gone
          BY <2>1, <3>2
        <5> QED
          BY <2>1, <5>1 DEF Forgets
      <4>2. IsFiniteSet(Old) /\ Cardinality(Old) <= PerUser
        BY <1>1, FS_Subset DEF WithinLimits
      <4>3. IsFiniteSet(New) /\ Cardinality(New) <= Cardinality(Old)
        BY <4>1, <4>2, FS_Subset
      <4>4. Cardinality(New) \in Nat /\ Cardinality(Old) \in Nat
        BY <4>2, <4>3, FS_CardinalityType
      <4> HIDE DEF New, Old
      <4>5. Cardinality(New) <= PerUser
        BY <4>2, <4>3, <4>4, SessionsAssumption
      <4> QED
        BY <4>5 DEF New
    <3> QED
      BY <3>1, <3>2
  <2> QED
    BY <2>7, <2>8 DEF WithinLimits
<1>5. ASSUME NEW gone \in SUBSET table, Clears(gone) PROVE WithinLimits'
  <2>1. table' = table \ gone /\ Forgets(gone) /\ table \subseteq Session
    BY <1>5 DEF Clears, Removes, ShellTypeOK
  <2>2. table' \ slipped' \subseteq table \ slipped /\ \A s \in table' : user'[s] = user[s]
    BY <2>1 DEF Forgets
  <2> QED
    BY <2>2, <1>2
<1>6. ASSUME NEW c \in Closer, Pops(c) \/ Refuses(c) PROVE WithinLimits'
  <2>1. table' \ slipped' \subseteq table \ slipped /\ UNCHANGED user
    BY <1>6 DEF Pops, Refuses, AtWork
  <2> QED
    BY <2>1, <1>2
<1>7. ASSUME NEW c \in Closer, ClosesShell(c) PROVE WithinLimits'
  <2>1. target[c] \notin table
    BY <1>7 DEF ClosesShell, AtWork, NoShellIsLost, Holding, In
  <2>2. table' = table /\ Forgets({target[c]}) /\ table \subseteq Session
    BY <1>7 DEF ClosesShell, ShellTypeOK
  <2>3. table' \ slipped' \subseteq table \ slipped /\ \A s \in table' : user'[s] = user[s]
    BY <2>1, <2>2 DEF Forgets
  <2> QED
    BY <2>3, <1>2
<1>8. ASSUME NEW k \in Socket, Checks(k) \/ Marks(k) \/ Accepts(k) \/ Touches(k) \/ Detaches(k)
      PROVE  WithinLimits'
  <2>1. UNCHANGED <<table, slipped, user>>
    BY <1>8 DEF Checks, Marks, Accepts, Touches, Detaches
  <2> QED
    BY <2>1, <1>2
<1>9. ASSUME NEW c \in Closer, NEW s \in Session, NEW u \in Admin, Found(c, s, u)
      PROVE  WithinLimits'
  <2>1. UNCHANGED <<table, slipped, user>>
    BY <1>9 DEF Found
  <2> QED
    BY <2>1, <1>2
<1> QED
  <2>1. Kinds
    BY EveryStep
  <2> QED
    BY <2>1, <1>3, <1>4, <1>5, <1>6, <1>7, <1>8, <1>9 DEF Kinds

-----------------------------------------------------------------------------
\* Who is in the table, and has neither slipped nor broken, was so before and says the same
\* of its connection: except a session that was just registered, and the one a websocket
\* is at.
LEMMA SoundStep ==
    ASSUME SessionInv, ShellNext, NEW s \in table' \ (slipped' \cup broken')
    PROVE  \/ /\ s \in table \ (slipped \cup broken)
              /\ \/ connected'[s] = connected[s]
                 \/ \E k \in Socket : place[k] = s /\ (Marks(k) \/ Detaches(k))
           \/ /\ s \in Session /\ Registers(s) /\ shell[s] \in {"opening", "severed"}
              /\ connected'[s] = connected[s] /\ UNCHANGED socket
<1> USE DEF SessionInv, SessionsAreSound, session, socket, closer
<1> DEFINE Was == s \in table \ (slipped \cup broken)
<1>1. ASSUME NEW r \in Session, Small(r) PROVE Was /\ connected'[s] = connected[s]
  BY <1>1, SmallStep
<1>2. ASSUME NEW r \in Session, Registers(r), r # s
      PROVE  Was /\ connected'[s] = connected[s]
  <2>1. PICK gone \in SUBSET table :
          table' = (table \ gone) \cup {r} /\ Forgets(gone)
    BY <1>2, Registered
  <2>2. s \in table \ gone
    BY <2>1, <1>2
  <2>3. s \in Session /\ connected[s] \in BOOLEAN
    BY <2>2 DEF ShellTypeOK
  <2> QED
    BY <2>1, <2>2, <2>3 DEF Forgets
<1>3. ASSUME s \in Session, Registers(s)
      PROVE  /\ shell[s] \in {"opening", "severed"} /\ connected'[s] = connected[s]
             /\ UNCHANGED socket
  <2>1. PICK gone \in SUBSET table :
          shell[s] \in {"opening", "severed"} /\ Forgets(gone) /\ UNCHANGED socket
    BY <1>3, Registered
  <2>2. s \notin table
    BY <1>3, <2>1 DEF NoShellIsLost, In, Recorded
  <2>3. connected[s] \in BOOLEAN
    BY <1>3 DEF ShellTypeOK
  <2> QED
    BY <2>1, <2>2, <2>3, <1>3 DEF Forgets
<1>4. ASSUME NEW gone \in SUBSET table, Clears(gone)
      PROVE  Was /\ connected'[s] = connected[s]
  <2>1. s \in table \ gone /\ Forgets(gone)
    BY <1>4 DEF Clears, Removes
  <2>2. s \in Session /\ connected[s] \in BOOLEAN
    BY <2>1 DEF ShellTypeOK
  <2> QED
    BY <2>1, <2>2 DEF Forgets
<1>5. ASSUME NEW c \in Closer, Pops(c) \/ Refuses(c)
      PROVE  Was /\ connected'[s] = connected[s]
  BY <1>5 DEF Pops, Refuses, AtWork
<1>6. ASSUME NEW c \in Closer, ClosesShell(c)
      PROVE  Was /\ connected'[s] = connected[s]
  <2>1. target[c] \notin table /\ UNCHANGED table /\ Forgets({target[c]})
    BY <1>6 DEF ClosesShell, AtWork, NoShellIsLost, Holding, In
  <2>2. s \in Session /\ connected[s] \in BOOLEAN
    BY <2>1 DEF ShellTypeOK
  <2> QED
    BY <2>1, <2>2 DEF Forgets
<1>7. ASSUME NEW c \in Closer, NEW r \in Session, NEW u \in Admin, Found(c, r, u)
      PROVE  Was /\ connected'[s] = connected[s]
  BY <1>7 DEF Found
<1>8. ASSUME NEW k \in Socket, Checks(k) \/ Accepts(k) \/ Touches(k)
      PROVE  Was /\ connected'[s] = connected[s]
  BY <1>8 DEF Checks, Accepts, Touches
<1>9. ASSUME NEW k \in Socket, Marks(k) \/ Detaches(k)
      PROVE  Was /\ (connected'[s] = connected[s] \/ place[k] = s)
  <2>1. Was /\ (Sets(place[k], TRUE) \/ Sets(place[k], FALSE))
    BY <1>9 DEF Marks, Detaches
  <2>2. s \in Session
    BY <2>1 DEF ShellTypeOK
  <2> QED
    BY <2>1, <2>2 DEF Sets, ShellTypeOK
<1>10. Kinds
  BY EveryStep
<1>11. CASE \E r \in Session : Registers(r)
  BY <1>2, <1>3, <1>11
<1>12. CASE ~ \E r \in Session : Registers(r)
  BY <1>1, <1>4, <1>5, <1>6, <1>7, <1>8, <1>9, <1>10, <1>12 DEF Kinds
<1> QED
  BY <1>11, <1>12

\* What a step does to the websockets.
LEMMA SocketSteps ==
    ASSUME SessionInv, ShellNext
    PROVE  \/ UNCHANGED socket
           \/ \E k \in Socket : Checks(k) \/ Marks(k) \/ Accepts(k) \/ Detaches(k)
<1> USE DEF SessionInv, SessionsAreSound, session, socket, closer
<1>1. ASSUME NEW s \in Session, Small(s) \/ Registers(s) PROVE UNCHANGED socket
  BY <1>1, SmallStep DEF Registers
<1>2. ASSUME NEW c \in Closer, Pops(c) \/ Refuses(c) \/ ClosesShell(c) PROVE UNCHANGED socket
  BY <1>2 DEF Pops, Refuses, ClosesShell
<1>3. ASSUME NEW k \in Socket, Touches(k) PROVE UNCHANGED socket
  BY <1>3 DEF Touches
<1>4. Kinds
  BY EveryStep
<1> QED
  BY <1>1, <1>2, <1>3, <1>4 DEF Kinds, Clears, Found

\* The flag is set by the websocket that attaches and reset by the one that leaves.
LEMMA ConnectedStep ==
    ASSUME SessionInv, ShellNext PROVE ConnectedIsTrue'
<1> USE DEF SessionInv, SessionsAreSound, session, socket, closer
<1> SUFFICES ASSUME NEW s \in table' \ (slipped' \cup broken')
             PROVE  /\ \A j, k \in On(s)' : j = k
                    /\ connected'[s] <=> On(s)' # {}
  BY DEF ConnectedIsTrue
<1> DEFINE Goal == /\ \A j, k \in On(s)' : j = k
                   /\ connected'[s] <=> On(s)' # {}
<1>1. ASSUME UNCHANGED socket PROVE UNCHANGED On(s)
  BY <1>1 DEF On
<1>2. CASE /\ s \in Session /\ shell[s] \in {"opening", "severed"}
           /\ connected'[s] = connected[s] /\ UNCHANGED socket
  <2>1. connected[s] = FALSE /\ On(s) = {}
    BY <1>2 DEF Unattached, On
  <2> QED
    BY <2>1, <1>1, <1>2
<1>3. ASSUME s \in table \ (slipped \cup broken), connected'[s] = connected[s],
             UNCHANGED On(s)
      PROVE  Goal
  BY <1>3 DEF ConnectedIsTrue
<1>4. ASSUME s \in table \ (slipped \cup broken),
             NEW k \in Socket, Marks(k)
      PROVE  Goal
  <2>1. s \in Session /\ place[k] \in Session
    BY <1>4 DEF ShellTypeOK, Marks, AtWork
  <2>2. CASE place[k] = s
    <3>1. connected'[s] = TRUE
      BY <1>4, <2>1, <2>2 DEF Marks, Sets, In, ShellTypeOK
    <3>2. On(s) = {}
      BY <1>4, <2>2 DEF Marks, Checking
    <3>3. On(s)' = On(s) \cup {k}
      BY <1>4, <2>2 DEF Marks, SocketTo, On, ShellTypeOK
    <3> QED
      BY <3>1, <3>2, <3>3
  <2>3. CASE place[k] # s
    <3>1. connected'[s] = connected[s]
      BY <1>4, <2>1, <2>3 DEF Marks, Sets, ShellTypeOK
    <3>2. UNCHANGED On(s)
      BY <1>4, <2>3 DEF Marks, SocketTo, On, ShellTypeOK
    <3> QED
      BY <3>1, <3>2, <1>3, <1>4
  <2> QED
    BY <2>2, <2>3
<1>5. ASSUME s \in table \ (slipped \cup broken),
             NEW k \in Socket, Detaches(k)
      PROVE  Goal
  <2>1. s \in Session /\ place[k] \in Session
    BY <1>5 DEF ShellTypeOK, Detaches, AtWork
  <2>2. CASE place[k] = s
    <3>1. connected'[s] = FALSE
      BY <1>5, <2>1, <2>2 DEF Detaches, Sets, In, ShellTypeOK
    <3>2. k \in On(s)
      BY <1>5, <2>2 DEF Detaches, On
    <3>3. On(s)' = On(s) \ {k}
      BY <1>5, <2>2, SessionsAssumption DEF Detaches, SocketTo, On, ShellTypeOK
    <3>4. On(s)' = {}
      BY <1>5, <3>2, <3>3 DEF ConnectedIsTrue
    <3> QED
      BY <3>1, <3>4
  <2>3. CASE place[k] # s
    <3>1. connected'[s] = connected[s]
      BY <1>5, <2>1, <2>3 DEF Detaches, Sets, ShellTypeOK
    <3>2. UNCHANGED On(s)
      BY <1>5, <2>1, <2>3, SessionsAssumption DEF Detaches, SocketTo, On, ShellTypeOK
    <3> QED
      BY <3>1, <3>2, <1>3, <1>5
  <2> QED
    BY <2>2, <2>3
<1>6. ASSUME NEW k \in Socket, Checks(k) PROVE UNCHANGED On(s)
  BY <1>6 DEF Checks, SocketTo, On, ShellTypeOK
<1>7. ASSUME NEW k \in Socket, Accepts(k) PROVE UNCHANGED On(s)
  <2>1. CASE SocketTo(k, "loop") /\ UNCHANGED place
    BY <1>7, <2>1 DEF Accepts, SocketTo, On, ShellTypeOK
  <2>2. CASE SocketTo(k, "off") /\ place' = [place EXCEPT ![k] = None]
             /\ broken' = broken \cup {place[k]}
    <3>1. place[k] # s /\ s \in Session
      <4>1. place[k] \in broken'
        BY <2>2
      <4>2. s \in table
        BY <1>7 DEF Accepts
      <4> QED
        BY <4>1, <4>2 DEF ShellTypeOK
    <3> QED
      BY <1>7, <2>2, <3>1, SessionsAssumption DEF Accepts, SocketTo, On, ShellTypeOK
  <2> QED
    BY <1>7, <2>1, <2>2 DEF Accepts
<1>8. CASE s \in table \ (slipped \cup broken) /\ connected'[s] = connected[s]
  BY <1>1, <1>3, <1>4, <1>5, <1>6, <1>7, <1>8, SocketSteps
<1>9. CASE s \in table \ (slipped \cup broken)
           /\ \E k \in Socket : Marks(k) \/ Detaches(k)
  BY <1>4, <1>5, <1>9
<1> QED
  BY <1>2, <1>8, <1>9, SoundStep

-----------------------------------------------------------------------------
\* Only an open session is checked, and none is opened twice.
LEMMA UnattachedStep ==
    ASSUME SessionInv, ShellNext PROVE Unattached'
<1> USE DEF SessionInv, SessionsAreSound, session, socket, closer
<1> SUFFICES ASSUME NEW s \in Session, shell'[s] \in {"none", "opening", "severed"}
             PROVE  connected'[s] = FALSE /\ \A k \in Socket : place'[k] # s
  BY DEF Unattached
<1>1. shell[s] \in {"none", "opening", "severed"}
      /\ (connected'[s] = FALSE \/ connected'[s] = connected[s]
          \/ \E k \in Socket : place[k] = s /\ (Marks(k) \/ Detaches(k)))
  <2>1. ASSUME NEW r \in Session, Small(r)
        PROVE  shell[s] \in {"none", "opening", "severed"} /\ connected'[s] = connected[s]
    BY <2>1, SmallStep
  <2>2. ASSUME NEW gone \in SUBSET Session, Forgets(gone)
        PROVE  connected'[s] = FALSE \/ connected'[s] = connected[s]
    <3>1. connected[s] \in BOOLEAN
      BY DEF ShellTypeOK
    <3> QED
      BY <2>2, <3>1 DEF Forgets
  <2>3. ASSUME NEW r \in Session, Registers(r)
        PROVE  shell[s] \in {"none", "opening", "severed"}
               /\ (connected'[s] = FALSE \/ connected'[s] = connected[s])
    <3>1. PICK gone \in SUBSET table :
            /\ \E new \in {"open", "ended"} : shell' = [Shut(gone) EXCEPT ![r] = new]
            /\ Forgets(gone)
      BY <2>3, Registered
    <3>2. gone \in SUBSET Session
      BY DEF ShellTypeOK
    <3>3. shell[s] \in {"none", "opening", "severed"}
      <4>1. Shut(gone) \in [Session -> Shells]
        BY <3>2, ShutIs
      <4>2. s # r /\ shell'[s] = Shut(gone)[s]
        BY <3>1, <4>1
      <4> QED
        BY <3>2, <4>2, ShutIs
    <3> QED
      BY <3>1, <3>2, <3>3, <2>2
  <2>4. ASSUME NEW gone \in SUBSET Session, shell' = Shut(gone)
        PROVE  shell[s] \in {"none", "opening", "severed"}
    BY <2>4, ShutIs
  <2>5. ASSUME NEW gone \in SUBSET table, Clears(gone)
        PROVE  shell[s] \in {"none", "opening", "severed"}
               /\ (connected'[s] = FALSE \/ connected'[s] = connected[s])
    <3>1. gone \in SUBSET Session
      BY DEF ShellTypeOK
    <3> QED
      BY <3>1, <2>2, <2>4, <2>5 DEF Clears, Removes
  <2>6. ASSUME NEW c \in Closer, ClosesShell(c)
        PROVE  shell[s] \in {"none", "opening", "severed"}
               /\ (connected'[s] = FALSE \/ connected'[s] = connected[s])
    <3>1. {target[c]} \in SUBSET Session
      BY <2>6 DEF ClosesShell, AtWork
    <3> QED
      BY <3>1, <2>2, <2>4, <2>6 DEF ClosesShell
  <2>7. ASSUME NEW c \in Closer, Pops(c) \/ Refuses(c) PROVE UNCHANGED <<shell, connected>>
    BY <2>7 DEF Pops, Refuses
  <2>8. ASSUME NEW k \in Socket, Checks(k) \/ Accepts(k) \/ Touches(k)
        PROVE  UNCHANGED <<shell, connected>>
    BY <2>8 DEF Checks, Accepts, Touches
  <2>9. ASSUME NEW k \in Socket, Marks(k) \/ Detaches(k)
        PROVE  UNCHANGED shell /\ (connected'[s] = connected[s] \/ place[k] = s)
    <3>1. UNCHANGED shell /\ (Sets(place[k], TRUE) \/ Sets(place[k], FALSE))
      BY <2>9 DEF Marks, Detaches
    <3> QED
      BY <3>1 DEF Sets, ShellTypeOK
  <2>10. ASSUME NEW c \in Closer, NEW r \in Session, NEW u \in Admin, Found(c, r, u)
         PROVE  UNCHANGED <<shell, connected>>
    BY <2>10 DEF Found
  <2>11. Kinds
    BY EveryStep
  <2> QED
    BY <2>1, <2>3, <2>5, <2>6, <2>7, <2>8, <2>9, <2>10, <2>11 DEF Kinds
<1>2. connected[s] = FALSE /\ \A k \in Socket : place[k] # s
  BY <1>1 DEF Unattached
<1>3. ASSUME NEW k \in Socket PROVE place'[k] # s
  <2>1. ASSUME NEW j \in Socket, Checks(j) PROVE place'[k] # s
    <3>1. PICK r \in Session : r \in table /\ place' = [place EXCEPT ![j] = r]
      BY <2>1 DEF Checks, MayAttach, In
    <3>2. Recorded(r)
      BY <3>1 DEF NoShellIsLost, In
    <3> QED
      BY <3>1, <3>2, <1>1, <1>2 DEF ShellTypeOK, Recorded
  <2>2. ASSUME NEW j \in Socket, Marks(j) \/ Accepts(j) \/ Detaches(j) PROVE place'[k] # s
    BY <2>2, <1>2, SessionsAssumption DEF Marks, Accepts, Detaches, ShellTypeOK
  <2> QED
    BY <2>1, <2>2, <1>2, SocketSteps
<1> QED
  BY <1>1, <1>2, <1>3

\* What a handler or a websocket is at work on is a session, and a session that is about
\* to be put back stays slipped until it is.
LEMMA AtWorkStep ==
    ASSUME SessionInv, ShellNext PROVE AtWork'
<1> USE DEF SessionInv, SessionsAreSound, session, socket, closer
<1>1. \A k \in Socket : spc'[k] # "off" => place'[k] \in Session
  <2>1. ASSUME NEW j \in Socket, Checks(j) \/ Marks(j) \/ Accepts(j) \/ Detaches(j)
        PROVE  \A k \in Socket : spc'[k] # "off" => place'[k] \in Session
    BY <2>1 DEF Checks, Marks, Accepts, Detaches, SocketTo, AtWork, ShellTypeOK
  <2> QED
    BY <2>1, SocketSteps DEF AtWork
<1>2. ASSUME NEW c \in Closer
      PROVE  /\ cpc'[c] # "idle" => target'[c] \in Session
             /\ cpc'[c] = "refuse" => target'[c] \in slipped'
  <2> DEFINE Goal == /\ cpc'[c] # "idle" => target'[c] \in Session
                     /\ cpc'[c] = "refuse" => target'[c] \in slipped'
  <2>1. ASSUME UNCHANGED closer, slipped \subseteq slipped' PROVE Goal
    BY <2>1 DEF AtWork
  <2>2. ASSUME NEW gone \in SUBSET table, Forgets(gone), UNCHANGED closer PROVE Goal
    <3>1. cpc[c] = "refuse" => target[c] \notin gone
      BY DEF AtWork, NoShellIsLost, Holding, In
    <3> QED
      BY <2>2, <3>1 DEF AtWork, Forgets
  <2>3. ASSUME NEW s \in Session, Small(s) PROVE UNCHANGED closer /\ UNCHANGED slipped
    BY <2>3, SmallStep
  <2>4. ASSUME NEW s \in Session, Registers(s) PROVE Goal
    <3>1. PICK gone \in SUBSET table : Forgets(gone) /\ UNCHANGED closer
      BY <2>4, Registered
    <3> QED
      BY <3>1, <2>2
  <2>5. ASSUME NEW gone \in SUBSET table, Clears(gone), Called PROVE Goal
    <3>1. CASE UNCHANGED closer
      BY <3>1, <2>2, <2>5 DEF Clears, Removes
    <3>2. ASSUME NEW d \in Closer, cpc[d] = "idle", Replies(d) PROVE Goal
      <4>1. /\ cpc'[c] # "idle" => cpc[c] = cpc'[c]
            /\ cpc'[c] # "idle" => target[c] = target'[c]
        BY <3>2 DEF Replies, CloserTo, ShellTypeOK
      <4>2. cpc[c] = "refuse" => target[c] \notin gone
        BY DEF AtWork, NoShellIsLost, Holding, In
      <4>3. slipped' = slipped \ gone
        BY <2>5 DEF Clears, Removes, Forgets
      <4> QED
        BY <4>1, <4>2, <4>3 DEF AtWork
    <3> QED
      BY <3>1, <3>2, <2>5 DEF Called
  <2>6. ASSUME NEW d \in Closer, NEW s \in Session, NEW u \in Admin, Found(d, s, u) PROVE Goal
    BY <2>6 DEF Found, CloserTo, AtWork, ShellTypeOK
  <2>7. ASSUME NEW d \in Closer, Pops(d) PROVE Goal
    BY <2>7 DEF Pops, Replies, CloserTo, AtWork, ShellTypeOK
  <2>8. ASSUME NEW d \in Closer, Refuses(d) PROVE Goal
    BY <2>8 DEF Refuses, Replies, CloserTo, AtWork, ShellTypeOK
  <2>9. ASSUME NEW d \in Closer, ClosesShell(d) PROVE Goal
    <3>1. c # d /\ cpc[c] = "refuse" => target[c] # target[d]
      BY <2>9 DEF ClosesShell, AtWork, NoShellIsLost, Holding
    <3>2. /\ cpc'[c] # "idle" => c # d /\ cpc[c] = cpc'[c] /\ target[c] = target'[c]
          /\ slipped' = slipped \ {target[d]}
      BY <2>9 DEF ClosesShell, Replies, CloserTo, ShellTypeOK, Forgets
    <3> QED
      BY <3>1, <3>2 DEF AtWork
  <2>10. ASSUME NEW k \in Socket, Checks(k) \/ Marks(k) \/ Accepts(k) \/ Touches(k) \/ Detaches(k)
         PROVE  UNCHANGED closer /\ UNCHANGED slipped
    BY <2>10 DEF Checks, Marks, Accepts, Touches, Detaches
  <2>11. Kinds
    BY EveryStep
  <2> QED
    BY <2>1, <2>3, <2>4, <2>5, <2>6, <2>7, <2>8, <2>9, <2>10, <2>11 DEF Kinds
<1> QED
  BY <1>1, <1>2 DEF AtWork

\* Between its checks and the flag nothing attaches to the session of a websocket.
LEMMA CheckingStep ==
    ASSUME SessionInv, ShellNext PROVE Checking'
<1> USE DEF SessionInv, SessionsAreSound, session, socket, closer
<1> SUFFICES ASSUME NEW k \in Socket, spc'[k] = "checked"
             PROVE  /\ \A j \in Socket : spc'[j] = "checked" => j = k
                    /\ place'[k] \in table' \ (slipped' \cup broken') =>
                           On(place[k])' = {} /\ connected'[place'[k]] = FALSE
  BY DEF Checking, On
<1>1. CASE Checks(k)
  <2>1. PICK s \in Session :
          /\ MayAttach(s) /\ place' = [place EXCEPT ![k] = s] /\ SocketTo(k, "checked")
          /\ \A j \in Socket : spc[j] # "checked"
          /\ UNCHANGED <<table, connected, slipped, broken>>
    BY <1>1 DEF Checks
  <2>2. \A j \in Socket : spc'[j] = "checked" => j = k
    BY <2>1 DEF SocketTo, ShellTypeOK
  <2>3. place'[k] = s /\ connected[s] = FALSE
    BY <2>1 DEF MayAttach, ShellTypeOK
  <2>4. On(s)' \subseteq On(s)
    BY <2>1 DEF On, SocketTo, ShellTypeOK
  <2>5. s \notin slipped \cup broken => On(s) = {}
    BY <2>1, <2>3 DEF MayAttach, In, ConnectedIsTrue
  <2> QED
    BY <2>1, <2>2, <2>3, <2>4, <2>5 DEF On
<1>2. CASE ~Checks(k)
  <2>1. spc[k] = "checked" /\ place'[k] = place[k] /\ ~Marks(k)
        /\ \A j \in Socket : spc'[j] = "checked" => spc[j] = "checked"
    <3>1. CASE UNCHANGED socket
      <4>1. ~Marks(k)
        BY <3>1 DEF Marks, SocketTo, ShellTypeOK
      <4> QED
        BY <3>1, <4>1
    <3>2. ASSUME NEW i \in Socket, Checks(i) PROVE FALSE
      BY <1>2, <3>2 DEF Checks, SocketTo, ShellTypeOK
    <3>3. ASSUME NEW i \in Socket, Marks(i) \/ Accepts(i) \/ Detaches(i)
          PROVE  /\ i # k /\ spc[k] = "checked" /\ place'[k] = place[k]
                 /\ \A j \in Socket : spc'[j] = "checked" => spc[j] = "checked"
      BY <3>3 DEF Marks, Accepts, Detaches, SocketTo, ShellTypeOK
    <3>4. ~Marks(k)
      BY <3>3
    <3> QED
      BY <3>1, <3>2, <3>3, <3>4, SocketSteps
  <2>2. \A j \in Socket : spc'[j] = "checked" => j = k
    BY <2>1 DEF Checking
  <2>3. ASSUME place[k] \in table' \ (slipped' \cup broken')
        PROVE  On(place[k])' = {} /\ connected'[place[k]] = FALSE
    <3>1. PICK s \in Session : s = place[k] /\ \A j \in Socket : ~Marks(j)
      BY <2>1 DEF AtWork, Marks, Checking
    <3>2. shell[s] \notin {"opening", "severed"}
      BY <3>1 DEF Unattached
    <3>3. s \in table \ (slipped \cup broken)
          /\ (connected'[s] = connected[s] \/ \E j \in Socket : place[j] = s /\ Detaches(j))
      BY <2>3, <3>1, <3>2, SoundStep
    <3>4. On(s) = {} /\ connected[s] = FALSE
      BY <2>1, <3>1, <3>3 DEF Checking
    <3>5. ASSUME NEW j \in Socket, Detaches(j) PROVE place[j] # s
      BY <3>4, <3>5 DEF Detaches, On
    <3>6. connected'[s] = FALSE
      BY <3>3, <3>4, <3>5
    <3>7. On(s)' \subseteq On(s)
      <4>1. CASE UNCHANGED socket
        BY <4>1 DEF On
      <4>2. ASSUME NEW j \in Socket, Checks(j) \/ Accepts(j) \/ Detaches(j)
            PROVE  On(s)' \subseteq On(s)
        <5> SUFFICES ASSUME NEW i \in Socket, place'[i] = s, spc'[i] \in {"accept", "loop"}
                     PROVE  place[i] = s /\ spc[i] \in {"accept", "loop"}
          BY DEF On
        <5>1. CASE Checks(j)
          BY <5>1 DEF Checks, SocketTo, ShellTypeOK
        <5>2. CASE Accepts(j)
          BY <5>2 DEF Accepts, SocketTo, ShellTypeOK
        <5>3. CASE Detaches(j)
          BY <5>3 DEF Detaches, SocketTo, ShellTypeOK
        <5> QED
          BY <4>2, <5>1, <5>2, <5>3
      <4> QED
        BY <4>1, <4>2, <3>1, SocketSteps
    <3> QED
      BY <2>1, <3>1, <3>4, <3>6, <3>7 DEF On
  <2> QED
    BY <2>1, <2>2, <2>3 DEF On
<1> QED
  BY <1>1, <1>2

-----------------------------------------------------------------------------
\* A step in which nothing of the sessions changes keeps the invariant.
LEMMA SessionStutter ==
    ASSUME SessionInv, UNCHANGED shellVars PROVE SessionInv'
<1> USE DEF shellVars, session, socket, closer, SessionInv, SessionsAreSound
<1>1. ShellTypeOK'
  BY DEF ShellTypeOK
<1>2. OrderIsKnown' /\ NoShellIsLost' /\ WithinLimits'
  BY DEF OrderIsKnown, NoShellIsLost, WithinLimits, Holding, In, Recorded
<1>3. ConnectedIsTrue' /\ Unattached' /\ AtWork' /\ Checking'
  BY DEF ConnectedIsTrue, Unattached, AtWork, Checking, On
<1> QED
  BY <1>1, <1>2, <1>3

\* The inductive invariant holds in every reachable state.
THEOREM SessionInvariance == ShellSpec => []SessionInv
<1>1. ShellInit => SessionInv
  BY SessionInitInv
<1>2. SessionInv /\ [ShellNext]_shellVars => SessionInv'
  <2>1. ASSUME SessionInv, ShellNext PROVE SessionInv'
    BY <2>1, ShellTypeStep, OrderStep, LostStep, LimitsStep, ConnectedStep, UnattachedStep,
       AtWorkStep, CheckingStep DEF SessionInv, SessionsAreSound
  <2> QED
    BY <2>1, SessionStutter
<1> QED
  BY <1>1, <1>2, PTL DEF ShellSpec

\* For any two limits, however many threads and websockets there are and whichever sessions
\* share a client that one of them closes: every shell that was registered and not closed,
\* ended or not, is in the table or in one handler's hands; the limits hold but for what a
\* refused close puts back, the session to close first is known, and the flag of a session
\* tells whether a websocket is attached.
THEOREM SessionsSound == ShellSpec => []SessionsAreSound
<1>1. SessionInv => SessionsAreSound
  BY DEF SessionInv
<1> QED
  BY <1>1, SessionInvariance, PTL
=============================================================================
