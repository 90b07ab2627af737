---------------------------- MODULE CleanupProofs ----------------------------
(***************************************************************************)
(* Proofs about the two components that delete what is no longer needed.   *)
(* CleanupJob: any number of calls, threads, rows and restarts, and any    *)
(* batch size and cap.  Packages: any number of packages, calls and        *)
(* deployments, and any periods to keep them.                              *)
(***************************************************************************)
EXTENDS CleanupJob, Packages, FiniteSetTheorems, TLAPS

(***************************************************************************)
(* SQL cleanup jobs.                                                       *)
(***************************************************************************)

\* A loop that has deleted a batch since the job stopped running will not delete
\* another: it has yet to load the status, or has seen that it is not running.
LateInv ==
    \A l \in Loop :
        /\ late[l] <= 1
        /\ late[l] > 0 =>
              /\ status # "running"
              /\ \/ lpc[l] \in {"none", "deleted", "recorded", "capped"}
                 \/ lpc[l] = "top" /\ ~view[l].running

\* While no two loops have run at a time, there is one at most.
SingleInv == ~overlapped => \A l, m \in Alive : l = m

\* Such a loop has loaded the count there is, has counted all but the batch in its
\* hands, and takes no more than the cap leaves.
CountInv ==
    ~overlapped /\ ~torn =>
        /\ \A l \in Loop :
              /\ lpc[l] \in {"top", "deleting", "deleted"} => view[l].deleted = deleted
              /\ lpc[l] = "deleting" => size[l] + deleted <= MaxDelete
              /\ lpc[l] = "deleted" => deleted + got[l] = Deletions
        /\ (\A l \in Loop : lpc[l] # "deleted") => deleted = Deletions
        /\ Deletions <= MaxDelete

\* A thread that has not just seen the job stopped.
Awake(l) == lpc[l] # "none" /\ (lpc[l] = "top" => view[l].running)

WorkInv ==
    /\ status = "running" => broke \/ \E l \in Loop : Awake(l)
    /\ status = "dry_running" =>
          broke \/ restarts > 0 \/ \E s \in Session : pc[s] = "querying"

IndInv == TypeOK /\ LateInv /\ SingleInv /\ CountInv /\ WorkInv

-----------------------------------------------------------------------------
(* The invariant holds. *)

\* A draft has deleted nothing.
LEMMA InitInv == Init => IndInv
<1> SUFFICES ASSUME Init PROVE IndInv
  OBVIOUS
<1>1. TypeOK
  <2>1. /\ pc \in [Session -> Ops \cup {"idle", "querying"}]
        /\ lpc \in [Loop -> {"none", "boot", "top", "deleting", "deleted",
                             "recorded", "capped"}]
    BY DEF Init
  <2>2. view \in [Loop -> [running : BOOLEAN, deleted : Nat]]
    BY DEF Init
  <2>3. /\ status \in Statuses /\ left \in 0..Matching /\ restarts \in 0..MaxRestarts
        /\ size \in [Loop -> 0..BatchSize] /\ got \in [Loop -> 0..BatchSize]
    BY CleanupAssumption DEF Init, Statuses
  <2> QED
    BY <2>1, <2>2, <2>3 DEF Init, TypeOK
<1>2. LateInv /\ SingleInv /\ WorkInv
  BY DEF Init, LateInv, SingleInv, Alive, WorkInv
<1>3. CountInv
  BY CleanupAssumption DEF Init, CountInv, Deletions
<1> QED
  BY <1>1, <1>2, <1>3 DEF IndInv

\* There is a free place for a thread unless all are alive.
LEMMA FreshIsFree == ASSUME Alive # Loop PROVE Fresh \in Loop /\ lpc[Fresh] = "none"
<1>1. \E l \in Loop : lpc[l] = "none"
  BY DEF Alive
<1> QED
  BY <1>1 DEF Fresh

\* If no loop has a batch in its hands, all of it is counted.
LEMMA AllCounted ==
    ASSUME TypeOK, CountInv, ~overlapped, ~torn, \A m \in Loop : ~Tears(m)
    PROVE  deleted = Deletions /\ Deletions <= MaxDelete
<1>1. CASE \A m \in Loop : lpc[m] # "deleted"
  BY <1>1 DEF CountInv
<1>2. CASE \E m \in Loop : lpc[m] = "deleted"
  <2>1. PICK m \in Loop : lpc[m] = "deleted"
    BY <1>2
  <2>2. got[m] = 0
    BY <2>1, CleanupAssumption DEF TypeOK, Tears
  <2> QED
    BY <2>1, <2>2 DEF TypeOK, CountInv
<1> QED
  BY <1>1, <1>2

\* Every commit, batch and restart keeps the types.
LEMMA TypeStep ==
    ASSUME TypeOK, [Next]_vars
    PROVE  TypeOK'
<1>1. ASSUME NEW s \in Session, NEW op \in Ops, Decide(s, op) PROVE TypeOK'
  BY <1>1, CleanupAssumption DEF TypeOK, Decide, row, thread, history
<1>2. ASSUME NEW s \in Session, Apply(s) PROVE TypeOK'
  BY <1>2, CleanupAssumption DEF TypeOK, Statuses, Ops, Apply, To, SetStatus,
     row, thread, history
<1>3. ASSUME NEW s \in Session, DryRunEnds(s) PROVE TypeOK'
  BY <1>3, CleanupAssumption DEF TypeOK, Statuses, DryRunEnds, SetStatus,
     thread
<1>4. ASSUME NEW s \in Session, DryRunBreaks(s) PROVE TypeOK'
  BY <1>4, CleanupAssumption DEF TypeOK, DryRunBreaks, row, thread
<1>5. ASSUME NEW s \in Session, NEW l \in Loop, Launch(s, l) PROVE TypeOK'
  BY <1>5, CleanupAssumption DEF TypeOK, Statuses, Launch, SetStatus
<1>6. ASSUME NEW s \in Session, LaunchFails(s) PROVE TypeOK'
  BY <1>6, CleanupAssumption DEF TypeOK, LaunchFails, row, thread, history
<1>7. ASSUME DeleteJob PROVE TypeOK'
  BY <1>7, CleanupAssumption DEF TypeOK, Statuses, DeleteJob, thread, history
<1>8. ASSUME NEW l \in Loop, LoopBoot(l) PROVE TypeOK'
  BY <1>8, CleanupAssumption DEF TypeOK, LoopBoot, Loads, row, history
<1>9. ASSUME NEW l \in Loop, LoopBootFails(l) PROVE TypeOK'
  BY <1>9, CleanupAssumption DEF TypeOK, LoopBootFails, Ends, NoView, row
<1>10. ASSUME NEW l \in Loop, LoopStops(l) PROVE TypeOK'
  BY <1>10, CleanupAssumption DEF TypeOK, LoopStops, Ends, NoView, row, history
<1>11. ASSUME NEW l \in Loop, LoopPauses(l) PROVE TypeOK'
  BY <1>11, CleanupAssumption DEF TypeOK, Statuses, LoopPauses, Ends, NoView,
     SetStatus
<1>12. ASSUME NEW l \in Loop, LoopProceeds(l) PROVE TypeOK'
  BY <1>12, CleanupAssumption DEF TypeOK, LoopProceeds, RemainingCap, row,
     history
<1>13. ASSUME NEW l \in Loop, LoopDeletes(l) PROVE TypeOK'
  BY <1>13, CleanupAssumption DEF TypeOK, LoopDeletes, row
<1>14. ASSUME NEW l \in Loop, LoopFails(l) PROVE TypeOK'
  BY <1>14, CleanupAssumption DEF TypeOK, Statuses, LoopFails, Ends, NoView,
     SetStatus
<1>15. ASSUME NEW l \in Loop, LoopDies(l) PROVE TypeOK'
  BY <1>15, CleanupAssumption DEF TypeOK, LoopDies, Ends, NoView, row
<1>16. ASSUME NEW l \in Loop, LoopRecords(l) PROVE TypeOK'
  BY <1>16, CleanupAssumption DEF TypeOK, LoopRecords, NewCount, Continues,
     history
<1>17. ASSUME NEW l \in Loop, LoopCompletes(l) PROVE TypeOK'
  BY <1>17, CleanupAssumption DEF TypeOK, Statuses, LoopCompletes, Ends,
     NoView, SetStatus
<1>18. ASSUME NEW l \in Loop, LoopRefreshes(l) PROVE TypeOK'
  BY <1>18, CleanupAssumption DEF TypeOK, LoopRefreshes, Loads, row, history
<1>19. ASSUME NEW l \in Loop, LoopPausesAtCap(l) PROVE TypeOK'
  BY <1>19, CleanupAssumption DEF TypeOK, Statuses, LoopPausesAtCap, Ends,
     NoView, SetStatus
<1>20. ASSUME Restart PROVE TypeOK'
  BY <1>20, CleanupAssumption DEF TypeOK, Statuses, Restart, Recovered, NoView
<1>21. CASE UNCHANGED vars
  BY <1>21, CleanupAssumption DEF TypeOK, vars, row, thread, history
<1> QED
  BY <1>1, <1>2, <1>3, <1>4, <1>5, <1>6, <1>7, <1>8, <1>9, <1>10, <1>11, <1>12,
     <1>13, <1>14, <1>15, <1>16, <1>17, <1>18, <1>19, <1>20, <1>21 DEF Next,
     SessionStep, LoopStep

\* The status is loaded between two batches.
LEMMA LateStep ==
    ASSUME TypeOK, LateInv, [Next]_vars
    PROVE  LateInv'
<1>1. ASSUME NEW s \in Session, NEW op \in Ops, Decide(s, op) PROVE LateInv'
  BY <1>1 DEF LateInv, Decide, row, thread, history
<1>2. ASSUME NEW s \in Session, Apply(s) PROVE LateInv'
  BY <1>2 DEF LateInv, Apply, SetStatus, thread
<1>3. ASSUME NEW s \in Session, DryRunEnds(s) PROVE LateInv'
  BY <1>3 DEF LateInv, DryRunEnds, SetStatus, thread
<1>4. ASSUME NEW s \in Session, DryRunBreaks(s) PROVE LateInv'
  BY <1>4 DEF LateInv, DryRunBreaks, row, thread
<1>5. ASSUME NEW s \in Session, NEW l \in Loop, Launch(s, l) PROVE LateInv'
  BY <1>5 DEF LateInv, Launch, SetStatus
<1>6. ASSUME NEW s \in Session, LaunchFails(s) PROVE LateInv'
  BY <1>6 DEF LateInv, LaunchFails, row, thread, history
<1>7. ASSUME DeleteJob PROVE LateInv'
  BY <1>7 DEF LateInv, DeleteJob, thread, history
<1>8. ASSUME NEW l \in Loop, LoopBoot(l) PROVE LateInv'
  BY <1>8 DEF LateInv, LoopBoot, Loads, row, history
<1>9. ASSUME NEW l \in Loop, LoopBootFails(l) PROVE LateInv'
  BY <1>9 DEF LateInv, LoopBootFails, Ends, row
<1>10. ASSUME NEW l \in Loop, LoopStops(l) PROVE LateInv'
  BY <1>10 DEF LateInv, LoopStops, Ends, NoView, row, history
<1>11. ASSUME NEW l \in Loop, LoopPauses(l) PROVE LateInv'
  BY <1>11 DEF LateInv, LoopPauses, Ends, SetStatus
<1>12. ASSUME NEW l \in Loop, LoopProceeds(l) PROVE LateInv'
  BY <1>12 DEF LateInv, LoopProceeds, row, history
<1>13. ASSUME NEW l \in Loop, LoopDeletes(l) PROVE LateInv'
  BY <1>13 DEF TypeOK, LateInv, LoopDeletes, row, thread, history
<1>14. ASSUME NEW l \in Loop, LoopFails(l) PROVE LateInv'
  BY <1>14 DEF LateInv, LoopFails, Ends, SetStatus
<1>15. ASSUME NEW l \in Loop, LoopDies(l) PROVE LateInv'
  BY <1>15 DEF LateInv, LoopDies, Ends, NoView, row
<1>16. ASSUME NEW l \in Loop, LoopRecords(l) PROVE LateInv'
  BY <1>16 DEF LateInv, LoopRecords, Continues, history
<1>17. ASSUME NEW l \in Loop, LoopCompletes(l) PROVE LateInv'
  BY <1>17 DEF LateInv, LoopCompletes, Ends, SetStatus
<1>18. ASSUME NEW l \in Loop, LoopRefreshes(l) PROVE LateInv'
  BY <1>18 DEF TypeOK, LateInv, LoopRefreshes, Loads, row, thread, history
<1>19. ASSUME NEW l \in Loop, LoopPausesAtCap(l) PROVE LateInv'
  BY <1>19 DEF LateInv, LoopPausesAtCap, Ends, SetStatus
<1>20. ASSUME Restart PROVE LateInv'
  BY <1>20 DEF LateInv, Restart, Recovered
<1>21. CASE UNCHANGED vars
  BY <1>21 DEF LateInv, vars, row, thread, history
<1> QED
  BY <1>1, <1>2, <1>3, <1>4, <1>5, <1>6, <1>7, <1>8, <1>9, <1>10, <1>11, <1>12,
     <1>13, <1>14, <1>15, <1>16, <1>17, <1>18, <1>19, <1>20, <1>21 DEF Next,
     SessionStep, LoopStep

\* A thread started beside another is remembered.
LEMMA SingleStep ==
    ASSUME TypeOK, SingleInv, [Next]_vars
    PROVE  SingleInv'
<1>1. ASSUME NEW s \in Session, NEW op \in Ops, Decide(s, op) PROVE SingleInv'
  BY <1>1, FreshIsFree DEF SingleInv, Alive, Decide, thread, history
<1>2. ASSUME NEW s \in Session, Apply(s) PROVE SingleInv'
  BY <1>2, FreshIsFree DEF SingleInv, Alive, Apply, thread
<1>3. ASSUME NEW s \in Session, DryRunEnds(s) PROVE SingleInv'
  BY <1>3, FreshIsFree DEF SingleInv, Alive, DryRunEnds, thread
<1>4. ASSUME NEW s \in Session, DryRunBreaks(s) PROVE SingleInv'
  BY <1>4, FreshIsFree DEF SingleInv, Alive, DryRunBreaks, thread
<1>5. ASSUME NEW s \in Session, NEW l \in Loop, Launch(s, l) PROVE SingleInv'
  BY <1>5, FreshIsFree DEF TypeOK, SingleInv, Alive, Launch
<1>6. ASSUME NEW s \in Session, LaunchFails(s) PROVE SingleInv'
  BY <1>6, FreshIsFree DEF SingleInv, Alive, LaunchFails, thread, history
<1>7. ASSUME DeleteJob PROVE SingleInv'
  BY <1>7, FreshIsFree DEF SingleInv, Alive, DeleteJob, thread, history
<1>8. ASSUME NEW l \in Loop, LoopBoot(l) PROVE SingleInv'
  BY <1>8, FreshIsFree DEF SingleInv, Alive, LoopBoot, history
<1>9. ASSUME NEW l \in Loop, LoopBootFails(l) PROVE SingleInv'
  BY <1>9, FreshIsFree DEF SingleInv, Alive, LoopBootFails, Ends
<1>10. ASSUME NEW l \in Loop, LoopStops(l) PROVE SingleInv'
  BY <1>10, FreshIsFree DEF SingleInv, Alive, LoopStops, Ends, history
<1>11. ASSUME NEW l \in Loop, LoopPauses(l) PROVE SingleInv'
  BY <1>11, FreshIsFree DEF SingleInv, Alive, LoopPauses, Ends
<1>12. ASSUME NEW l \in Loop, LoopProceeds(l) PROVE SingleInv'
  BY <1>12, FreshIsFree DEF SingleInv, Alive, LoopProceeds, history
<1>13. ASSUME NEW l \in Loop, LoopDeletes(l) PROVE SingleInv'
  BY <1>13, FreshIsFree DEF SingleInv, Alive, LoopDeletes
<1>14. ASSUME NEW l \in Loop, LoopFails(l) PROVE SingleInv'
  BY <1>14, FreshIsFree DEF SingleInv, Alive, LoopFails, Ends
<1>15. ASSUME NEW l \in Loop, LoopDies(l) PROVE SingleInv'
  BY <1>15, FreshIsFree DEF SingleInv, Alive, LoopDies, Ends
<1>16. ASSUME NEW l \in Loop, LoopRecords(l) PROVE SingleInv'
  BY <1>16, FreshIsFree DEF SingleInv, Alive, LoopRecords, Continues, history
<1>17. ASSUME NEW l \in Loop, LoopCompletes(l) PROVE SingleInv'
  BY <1>17, FreshIsFree DEF SingleInv, Alive, LoopCompletes, Ends
<1>18. ASSUME NEW l \in Loop, LoopRefreshes(l) PROVE SingleInv'
  BY <1>18, FreshIsFree DEF SingleInv, Alive, LoopRefreshes, history
<1>19. ASSUME NEW l \in Loop, LoopPausesAtCap(l) PROVE SingleInv'
  BY <1>19, FreshIsFree DEF SingleInv, Alive, LoopPausesAtCap, Ends
<1>20. ASSUME Restart PROVE SingleInv'
  BY <1>20, FreshIsFree DEF SingleInv, Alive, Restart
<1>21. CASE UNCHANGED vars
  BY <1>21, FreshIsFree DEF SingleInv, Alive, vars, thread, history
<1> QED
  BY <1>1, <1>2, <1>3, <1>4, <1>5, <1>6, <1>7, <1>8, <1>9, <1>10, <1>11, <1>12,
     <1>13, <1>14, <1>15, <1>16, <1>17, <1>18, <1>19, <1>20, <1>21 DEF Next,
     SessionStep, LoopStep

\* A single loop counts what it deletes, unless a crash or a failing commit cuts it
\* off between the two.
LEMMA CountStep ==
    ASSUME TypeOK, SingleInv, CountInv, [Next]_vars
    PROVE  CountInv'
<1>1. ASSUME NEW s \in Session, NEW op \in Ops, Decide(s, op) PROVE CountInv'
  BY <1>1, CleanupAssumption, FreshIsFree DEF CountInv, Deletions, Decide, row,
     thread, history
<1>2. ASSUME NEW s \in Session, Apply(s) PROVE CountInv'
  BY <1>2, CleanupAssumption, FreshIsFree DEF CountInv, Deletions, Apply,
     thread
<1>3. ASSUME NEW s \in Session, DryRunEnds(s) PROVE CountInv'
  BY <1>3, CleanupAssumption, FreshIsFree DEF CountInv, Deletions, DryRunEnds,
     thread
<1>4. ASSUME NEW s \in Session, DryRunBreaks(s) PROVE CountInv'
  BY <1>4, CleanupAssumption, FreshIsFree DEF CountInv, Deletions,
     DryRunBreaks, row, thread
<1>5. ASSUME NEW s \in Session, NEW l \in Loop, Launch(s, l) PROVE CountInv'
  BY <1>5, CleanupAssumption, FreshIsFree DEF TypeOK, CountInv, Deletions,
     Launch
<1>6. ASSUME NEW s \in Session, LaunchFails(s) PROVE CountInv'
  BY <1>6, CleanupAssumption, FreshIsFree DEF CountInv, Deletions, LaunchFails,
     row, thread, history
<1>7. ASSUME DeleteJob PROVE CountInv'
  BY <1>7, CleanupAssumption, FreshIsFree DEF CountInv, Deletions, DeleteJob,
     thread, history
<1>8. ASSUME NEW l \in Loop, LoopBoot(l) PROVE CountInv'
  BY <1>8, CleanupAssumption, FreshIsFree DEF TypeOK, CountInv, Deletions,
     LoopBoot, Loads, row, history
<1>9. ASSUME NEW l \in Loop, LoopBootFails(l) PROVE CountInv'
  BY <1>9, CleanupAssumption, FreshIsFree DEF CountInv, Deletions,
     LoopBootFails, Ends, row
<1>10. ASSUME NEW l \in Loop, LoopStops(l) PROVE CountInv'
  BY <1>10, CleanupAssumption, FreshIsFree DEF TypeOK, CountInv, Deletions,
     LoopStops, Ends, row, history
<1>11. ASSUME NEW l \in Loop, LoopPauses(l) PROVE CountInv'
  BY <1>11, CleanupAssumption, FreshIsFree DEF TypeOK, CountInv, Deletions,
     LoopPauses, Ends
<1>12. ASSUME NEW l \in Loop, LoopProceeds(l) PROVE CountInv'
  BY <1>12, CleanupAssumption, FreshIsFree DEF TypeOK, CountInv, Deletions,
     LoopProceeds, RemainingCap, row, history
<1>13. ASSUME NEW l \in Loop, LoopDeletes(l) PROVE CountInv'
  <2>1. CASE overlapped \/ torn
    BY <1>13, <2>1 DEF CountInv, LoopDeletes
  <2>2. CASE ~overlapped /\ ~torn
    <3> DEFINE n == IF left < size[l] THEN left ELSE size[l]
    <3>1. /\ n \in Nat /\ n <= size[l] /\ left' = left - n
          /\ got'[l] = n /\ lpc'[l] = "deleted"
      BY <1>13, CleanupAssumption DEF TypeOK, LoopDeletes
    <3>2. \A m \in Loop : m # l => lpc[m] = "none" /\ lpc'[m] = "none"
      BY <1>13, <2>2 DEF SingleInv, Alive, LoopDeletes
    <3>3. deleted = Deletions /\ size[l] + deleted <= MaxDelete
      BY <1>13, <2>2, <3>2 DEF CountInv, LoopDeletes
    <3>4. Deletions' = deleted + n /\ Deletions' <= MaxDelete
      BY <3>1, <3>3, CleanupAssumption DEF TypeOK, Deletions
    <3>5. deleted' = deleted /\ view'[l].deleted = deleted
      BY <1>13, <2>2 DEF CountInv, LoopDeletes, row
    <3> HIDE DEF n
    <3> QED
      BY <3>1, <3>2, <3>4, <3>5 DEF CountInv
  <2> QED
    BY <2>1, <2>2
<1>14. ASSUME NEW l \in Loop, LoopFails(l) PROVE CountInv'
  <2>1. CASE overlapped' \/ torn'
    BY <2>1 DEF CountInv
  <2>2. CASE ~overlapped' /\ ~torn'
    <3>1. ~torn /\ ~overlapped /\ ~Tears(l)
      BY <1>14, <2>2 DEF LoopFails
    <3>2. \A m \in Loop : ~Tears(m)
      BY <1>14, <3>1 DEF SingleInv, Alive, Tears, LoopFails
    <3>3. deleted = Deletions /\ Deletions <= MaxDelete
      BY <3>1, <3>2, AllCounted
    <3>4. \A m \in Loop : lpc'[m] \notin {"top", "deleting", "deleted"}
      BY <1>14, <2>2 DEF TypeOK, SingleInv, Alive, LoopFails, Ends
    <3> QED
      BY <1>14, <2>2, <3>3, <3>4 DEF CountInv, Deletions, LoopFails
  <2> QED
    BY <2>1, <2>2
<1>15. ASSUME NEW l \in Loop, LoopDies(l) PROVE CountInv'
  <2>1. CASE overlapped' \/ torn'
    BY <2>1 DEF CountInv
  <2>2. CASE ~overlapped' /\ ~torn'
    <3>1. ~torn /\ ~overlapped /\ ~Tears(l)
      BY <1>15, <2>2 DEF LoopDies
    <3>2. \A m \in Loop : ~Tears(m)
      BY <1>15, <3>1 DEF SingleInv, Alive, Tears, LoopDies
    <3>3. deleted = Deletions /\ Deletions <= MaxDelete
      BY <3>1, <3>2, AllCounted
    <3>4. \A m \in Loop : lpc'[m] \notin {"top", "deleting", "deleted"}
      BY <1>15, <2>2 DEF TypeOK, SingleInv, Alive, LoopDies, Ends
    <3> QED
      BY <1>15, <2>2, <3>3, <3>4 DEF CountInv, Deletions, LoopDies, row
  <2> QED
    BY <2>1, <2>2
<1>16. ASSUME NEW l \in Loop, LoopRecords(l) PROVE CountInv'
  BY <1>16, CleanupAssumption, FreshIsFree DEF TypeOK, SingleInv, CountInv,
     Alive, Deletions, LoopRecords, NewCount, Continues, row, thread, history
<1>17. ASSUME NEW l \in Loop, LoopCompletes(l) PROVE CountInv'
  BY <1>17, CleanupAssumption, FreshIsFree DEF CountInv, Deletions,
     LoopCompletes, Ends
<1>18. ASSUME NEW l \in Loop, LoopRefreshes(l) PROVE CountInv'
  BY <1>18, CleanupAssumption, FreshIsFree DEF TypeOK, CountInv, Deletions,
     LoopRefreshes, Loads, row, history
<1>19. ASSUME NEW l \in Loop, LoopPausesAtCap(l) PROVE CountInv'
  BY <1>19, CleanupAssumption, FreshIsFree DEF CountInv, Deletions,
     LoopPausesAtCap, Ends
<1>20. ASSUME Restart PROVE CountInv'
  <2>1. CASE overlapped' \/ torn'
    BY <2>1 DEF CountInv
  <2>2. CASE ~overlapped' /\ ~torn'
    <3>1. ~torn /\ ~overlapped /\ \A m \in Loop : ~Tears(m)
      BY <1>20, <2>2 DEF Restart
    <3>2. \A m \in Loop : ~Tears(m)
      BY <1>20, <3>1
    <3>3. deleted = Deletions /\ Deletions <= MaxDelete
      BY <3>1, <3>2, AllCounted
    <3>4. \A m \in Loop : lpc'[m] \notin {"top", "deleting", "deleted"}
      BY <1>20, <2>2 DEF Restart
    <3> QED
      BY <1>20, <2>2, <3>3, <3>4 DEF CountInv, Deletions, Restart
  <2> QED
    BY <2>1, <2>2
<1>21. CASE UNCHANGED vars
  BY <1>21, CleanupAssumption, FreshIsFree DEF CountInv, Deletions, vars, row,
     thread, history
<1> QED
  BY <1>1, <1>2, <1>3, <1>4, <1>5, <1>6, <1>7, <1>8, <1>9, <1>10, <1>11, <1>12,
     <1>13, <1>14, <1>15, <1>16, <1>17, <1>18, <1>19, <1>20, <1>21 DEF Next,
     SessionStep, LoopStep

\* Who ends a loop that has not seen the job stopped writes another status.
LEMMA WorkStep ==
    ASSUME TypeOK, WorkInv, [Next]_vars
    PROVE  WorkInv'
<1>1. ASSUME NEW s \in Session, NEW op \in Ops, Decide(s, op) PROVE WorkInv'
  BY <1>1, FreshIsFree DEF WorkInv, Awake, Decide, row, thread, history
<1>2. ASSUME NEW s \in Session, Apply(s) PROVE WorkInv'
  BY <1>2, FreshIsFree DEF TypeOK, WorkInv, Apply, Ops, To, SetStatus
<1>3. ASSUME NEW s \in Session, DryRunEnds(s) PROVE WorkInv'
  BY <1>3, FreshIsFree DEF WorkInv, DryRunEnds, SetStatus
<1>4. ASSUME NEW s \in Session, DryRunBreaks(s) PROVE WorkInv'
  BY <1>4, FreshIsFree DEF WorkInv, DryRunBreaks
<1>5. ASSUME NEW s \in Session, NEW l \in Loop, Launch(s, l) PROVE WorkInv'
  BY <1>5, FreshIsFree DEF TypeOK, WorkInv, Awake, Launch, SetStatus, row,
     thread, history
<1>6. ASSUME NEW s \in Session, LaunchFails(s) PROVE WorkInv'
  BY <1>6, FreshIsFree DEF WorkInv, LaunchFails, row
<1>7. ASSUME DeleteJob PROVE WorkInv'
  BY <1>7, FreshIsFree DEF WorkInv, DeleteJob
<1>8. ASSUME NEW l \in Loop, LoopBoot(l) PROVE WorkInv'
  BY <1>8, FreshIsFree DEF TypeOK, WorkInv, Awake, LoopBoot, Loads, row,
     thread, history
<1>9. ASSUME NEW l \in Loop, LoopBootFails(l) PROVE WorkInv'
  BY <1>9, FreshIsFree DEF WorkInv, LoopBootFails, row
<1>10. ASSUME NEW l \in Loop, LoopStops(l) PROVE WorkInv'
  BY <1>10, FreshIsFree DEF WorkInv, Awake, LoopStops, Ends, row, history
<1>11. ASSUME NEW l \in Loop, LoopPauses(l) PROVE WorkInv'
  BY <1>11, FreshIsFree DEF WorkInv, LoopPauses, SetStatus
<1>12. ASSUME NEW l \in Loop, LoopProceeds(l) PROVE WorkInv'
  BY <1>12, FreshIsFree DEF WorkInv, Awake, LoopProceeds, row, history
<1>13. ASSUME NEW l \in Loop, LoopDeletes(l) PROVE WorkInv'
  BY <1>13, FreshIsFree DEF WorkInv, Awake, LoopDeletes, row
<1>14. ASSUME NEW l \in Loop, LoopFails(l) PROVE WorkInv'
  BY <1>14, FreshIsFree DEF WorkInv, LoopFails, SetStatus
<1>15. ASSUME NEW l \in Loop, LoopDies(l) PROVE WorkInv'
  BY <1>15, FreshIsFree DEF WorkInv, LoopDies, row
<1>16. ASSUME NEW l \in Loop, LoopRecords(l) PROVE WorkInv'
  BY <1>16, FreshIsFree DEF WorkInv, Awake, LoopRecords, Continues, history
<1>17. ASSUME NEW l \in Loop, LoopCompletes(l) PROVE WorkInv'
  BY <1>17, FreshIsFree DEF WorkInv, LoopCompletes, SetStatus
<1>18. ASSUME NEW l \in Loop, LoopRefreshes(l) PROVE WorkInv'
  BY <1>18, FreshIsFree DEF TypeOK, WorkInv, Awake, LoopRefreshes, Loads, row,
     thread, history
<1>19. ASSUME NEW l \in Loop, LoopPausesAtCap(l) PROVE WorkInv'
  BY <1>19, FreshIsFree DEF WorkInv, LoopPausesAtCap, SetStatus
<1>20. ASSUME Restart PROVE WorkInv'
  BY <1>20, FreshIsFree DEF TypeOK, WorkInv, Restart, Recovered
<1>21. CASE UNCHANGED vars
  BY <1>21, FreshIsFree DEF WorkInv, Awake, vars, row, thread, history
<1> QED
  BY <1>1, <1>2, <1>3, <1>4, <1>5, <1>6, <1>7, <1>8, <1>9, <1>10, <1>11, <1>12,
     <1>13, <1>14, <1>15, <1>16, <1>17, <1>18, <1>19, <1>20, <1>21 DEF Next,
     SessionStep, LoopStep

\* The conjuncts together are inductive.
LEMMA IndStep == IndInv /\ [Next]_vars => IndInv'
  BY TypeStep, LateStep, SingleStep, CountStep, WorkStep DEF IndInv

\* Whatever handlers, loops, failing commits and restarts do, the inductive
\* invariant holds.
THEOREM Invariance == Spec => []IndInv
<1>1. IndInv /\ [Next]_vars => IndInv'
  BY IndStep
<1> QED
  BY InitInv, <1>1, PTL DEF Spec

\* Type correctness of the row, the handlers and the loops.
THEOREM TypeCorrect == Spec => []TypeOK
<1>1. IndInv => TypeOK
  BY DEF IndInv
<1> QED
  BY Invariance, <1>1, PTL

\* For any batch size and number of threads: one loop at a time that is not cut off
\* between a batch and its record counts what it deletes and keeps to the cap.
THEOREM CountAndCap == Spec => []CountedAndCapped
<1>1. IndInv => CountedAndCapped
  BY CleanupAssumption DEF IndInv, CountInv, CountedAndCapped, CountIsTrue,
     CapHolds
<1> QED
  BY Invariance, <1>1, PTL

\* However many loops run, each deletes one batch at most after the job was paused,
\* canceled or deleted.
THEOREM StopsSoon == Spec => []StopsWithinABatch
<1>1. IndInv => StopsWithinABatch
  BY DEF IndInv, LateInv, StopsWithinABatch
<1> QED
  BY Invariance, <1>1, PTL

\* A job shown as running or as being assessed is worked on, unless a thread or
\* call ended on an exception it could not write, or a restart cut off a dry run.
THEOREM RunningIsWorkedOn == Spec => []SomebodyWorks
<1>1. IndInv => SomebodyWorks
  BY DEF IndInv, WorkInv, Awake, Alive, SomebodyWorks
<1> QED
  BY Invariance, <1>1, PTL

(***************************************************************************)
(* The packages of the file center: the invariant.                         *)
(***************************************************************************)

Places == {"idle", "ids", "drop", "walk", "sync", "names", "choose", "remove", "replace",
           "load", "store"}
Loaded == {<<>>} \cup Row \cup [Package -> Row]
Wanted == {<<>>} \cup Content \cup [Package -> Row]
Calls == [pc : Places, op : {"none", "cleanup", "delete", "upload"},
          p : Package \cup {None}, ids : SUBSET Slot,
          was : Loaded, want : Wanted,
          fresh : SUBSET Package, names : SUBSET (Package \cup {None}), seen : SUBSET Slot,
          todo : SUBSET Package, gone : SUBSET Package]
Releases == [state : {"none", "planned", "active", "success", "failed", "forgotten", "over"},
             p : Package \cup {None}, named : BOOLEAN, at : Time]

\* What calls have in hand, by the place where they are.
InHand ==
    \A c \in Call :
        /\ At(c, "sync") => /\ call[c].was \in [Package -> Row]
                            /\ call[c].want \in [Package -> Row]
                            /\ \A p \in Package : call[c].want[p].used = call[c].was[p].used
        /\ At(c, "store") => call[c].was \in Row
        /\ call[c].pc \in {"replace", "load", "store"} =>
               call[c].p \in Package /\ call[c].want \in Content
        /\ ~At(c, "remove") => call[c].gone = {}

PackageTypes ==
    /\ PackagesTypeOK /\ InHand
    /\ dep \in [Slot -> Releases] /\ call \in [Call -> Calls]

\* The file of p was written in this period.
New(p) == On(p) /\ mtime[p] = Now

\* What a row says of the file is so.
Right(p, r) == (r.deleted <=> ~On(p)) /\ (On(p) => r.sha = file[p])

\* A column that is not as it was loaded is right.
Tracks(p, was) ==
    /\ (meta[p].deleted <=> was.deleted) \/ (meta[p].deleted <=> ~On(p))
    /\ meta[p].sha = was.sha \/ (On(p) => meta[p].sha = file[p])
    /\ meta[p].uploaded = was.uploaded \/ (New(p) => meta[p].uploaded = Now)

\* What e, which has walked, will write is right.
Current(e, p) ==
    /\ Right(p, call[e].want[p]) /\ (New(p) => call[e].want[p].uploaded = Now)
    /\ Tracks(p, call[e].was[p])

\* e has changed p's file and will write its row.
Owes(e, p) ==
    \/ At(e, "remove") /\ p \in call[e].gone
    \/ call[e].pc \in {"load", "store"} /\ call[e].p = p

\* What calls have in hand of p, and will write to its row, is so.
Known(p) ==
    \A e \in Call :
        /\ At(e, "remove") /\ p \in call[e].gone => ~On(p)
        /\ call[e].pc \in {"load", "store"} /\ call[e].p = p => file[p] = call[e].want
        /\ At(e, "store") /\ call[e].p = p => Tracks(p, call[e].was)
        /\ At(e, "sync") => Current(e, p)

\* The row of a package that no two calls crossed is right or about to be.
Uncrossed ==
    \A p \in Package \ crossed :
        Known(p) /\ (Right(p, meta[p]) \/ \E e \in Call : Owes(e, p))

\* Nobody has changed the file of a package since c walked, if it is fresh for c.
Walked ==
    \A c \in Call : call[c].pc \in {"sync", "names", "choose"} =>
        \A p \in call[c].fresh :
            /\ \A e \in Call : ~Owes(e, p) /\ (At(e, "sync") => Current(e, p))
            /\ ~At(c, "sync") => (New(p) => meta[p].uploaded = Now)

\* A cleanup has not chosen what was uploaded before it walked.
Chosen ==
    \A c \in Call : At(c, "remove") /\ call[c].op # "delete" =>
        \A p \in call[c].todo \cap call[c].fresh : meta[p].used = None => mtime[p] # Now

\* Deployments are numbered as they start, and a call has read of those that had.
Numbered ==
    /\ \A d, e \in Slot : d < e /\ e \in Started => d \in Started
    /\ \A c \in Call :
           /\ At(c, "drop") => call[c].ids \subseteq Started
           /\ call[c].pc \in {"choose", "remove"} => call[c].seen \subseteq Started

\* d does not protect its package.
Excused(d) == dep[d].state \in {"over", "forgotten"} \/ ~dep[d].named

\* What c found needed it has the name of, and does not remove.
Protected ==
    \A c \in Call : \A d \in call[c].seen :
        /\ At(c, "choose") => Excused(d) \/ dep[d].p \in call[c].names
        /\ At(c, "remove") => Excused(d) \/ dep[d].p \notin call[c].todo

PackagesInv ==
    PackageTypes /\ Uncrossed /\ Walked /\ Chosen /\ Numbered /\ Protected

-----------------------------------------------------------------------------
(* Types. *)

\* What is written to a row.
LEMMA WrittenRow ==
    ASSUME NEW loaded \in Row, NEW wanted \in Row, NEW current \in Row,
           NEW r, r = Written(loaded, wanted, current)
    PROVE  /\ r \in Row
           /\ r.deleted = IF wanted.deleted # loaded.deleted THEN wanted.deleted
                          ELSE current.deleted
           /\ r.sha = IF wanted.sha # loaded.sha THEN wanted.sha ELSE current.sha
           /\ r.uploaded = IF wanted.uploaded # loaded.uploaded THEN wanted.uploaded
                           ELSE current.uploaded
           /\ r.used = IF wanted.used # loaded.used THEN wanted.used ELSE current.used
<1>1. DOMAIN current = {"deleted", "protected", "sha", "uploaded", "used"}
  BY DEF Row
<1>2. r \in Row
  BY <1>1 DEF Written, Row
<1> QED
  BY <1>1, <1>2 DEF Written

\* What the walk makes of a row.
LEMMA SyncedRow ==
    ASSUME PackageTypes, NEW p \in Package
    PROVE  /\ Synced(p) \in Row /\ Synced(p).used = meta[p].used
           /\ Right(p, Synced(p))
           /\ New(p) => Synced(p).uploaded = Now
<1>1. /\ meta[p] \in Row /\ file[p] \in Content \cup {None} /\ mtime[p] \in Time
      /\ meta[p].uploaded \in Time /\ Now \in Nat
  BY PackagesAssumption DEF PackageTypes, PackagesTypeOK, Row
<1>2. Synced(p) \in Row /\ Synced(p).used = meta[p].used
  BY <1>1 DEF Synced, Row, On
<1>3. Right(p, Synced(p))
  BY <1>1 DEF Synced, Row, On, Right
<1>4. New(p) => Synced(p).uploaded = Now
  BY <1>1 DEF Synced, Row, On, New, Time
<1> QED
  BY <1>2, <1>3, <1>4

\* What a call is.
LEMMA CallFields ==
    ASSUME PackageTypes, NEW c \in Call
    PROVE  /\ call[c] \in Calls /\ call[c].fresh \subseteq Package
           /\ call[c].todo \subseteq Package /\ call[c].gone \subseteq Package
           /\ call[c].seen \subseteq Slot
  BY DEF PackageTypes, Calls

\* A call leaves what the others have in hand, but for what is fresh.
LEMMA OthersStay ==
    ASSUME PackageTypes, NEW c \in Call, CallStep(c), NEW e \in Call \ {c}
    PROVE  /\ call'[e].pc = call[e].pc /\ call'[e].op = call[e].op /\ call'[e].p = call[e].p
           /\ call'[e].was = call[e].was /\ call'[e].want = call[e].want
           /\ call'[e].ids = call[e].ids /\ call'[e].names = call[e].names
           /\ call'[e].seen = call[e].seen /\ call'[e].todo = call[e].todo
           /\ call'[e].gone = call[e].gone /\ call'[e].fresh \subseteq call[e].fresh
<1>1. call[e] \in Calls /\ call[e].fresh \subseteq call[e].fresh
  BY CallFields
<1>2. CASE call'[e] = call[e]
  BY <1>1, <1>2
<1>3. ASSUME NEW p, call'[e] = [call[e] EXCEPT !.fresh = @ \ {p}]
      PROVE  /\ call'[e].pc = call[e].pc /\ call'[e].op = call[e].op /\ call'[e].p = call[e].p
             /\ call'[e].was = call[e].was /\ call'[e].want = call[e].want
             /\ call'[e].ids = call[e].ids /\ call'[e].names = call[e].names
             /\ call'[e].seen = call[e].seen /\ call'[e].todo = call[e].todo
             /\ call'[e].gone = call[e].gone /\ call'[e].fresh \subseteq call[e].fresh
  BY <1>1, <1>3 DEF Calls
<1>4. ASSUME NEW p \in Package, Remove(c, p)
      PROVE  call'[e] = [call[e] EXCEPT !.fresh = @ \ {p}]
  BY <1>4 DEF Remove, Others
<1>5. CASE Replace(c)
  <2>1. call'[e] = [call[e] EXCEPT !.fresh = @ \ {call[c].p}]
    BY <1>5 DEF Replace, Others
  <2> QED
    BY <2>1, <1>3
<1>6. CASE \/ \E place \in {"ids", "walk"} : Begin(c, place)
           \/ SelectHistory(c) \/ DropHistory(c)
           \/ Walk(c) \/ Sync(c) \/ ReadNames(c) \/ Choose(c)
  <2>1. call'[e] = call[e]
    BY <1>6 DEF Begin, SelectHistory, DropHistory, Walk, Sync, ReadNames, Choose, Done,
                PackageTypes
  <2> QED
    BY <2>1, <1>2
<1>7. CASE \/ \E p \in Package : BeginDelete(c, p) \/ Skip(c, p)
           \/ Record(c)
           \/ \E p \in Package, overwrite \in BOOLEAN : BeginUpload(c, p, overwrite)
           \/ Load(c) \/ Store(c) \/ Fail(c)
  <2>1. call'[e] = call[e]
    BY <1>7 DEF BeginDelete, Skip, Record, BeginUpload, Load, Store, Fail, Done, PackageTypes
  <2> QED
    BY <2>1, <1>2
<1> QED
  BY <1>3, <1>4, <1>5, <1>6, <1>7 DEF CallStep

\* Files are written and removed, packages crossed.
LEMMA FileTypes ==
    ASSUME PackageTypes, [PackagesNext]_packagesVars
    PROVE  /\ runs' \in 0 .. MaxCalls /\ crossed' \subseteq Package
           /\ file' \in [Package -> Content \cup {None}] /\ mtime' \in [Package -> Time]
<1> USE DEF PackageTypes, PackagesTypeOK
<1>1. CASE UNCHANGED <<file, mtime, runs, crossed>>
  BY <1>1
<1>2. ASSUME NEW c \in Call, UNCHANGED <<file, mtime, crossed>>, runs < MaxCalls, runs' = runs + 1
      PROVE  runs' \in 0 .. MaxCalls
  BY <1>2, PackagesAssumption
<1>3. ASSUME NEW c \in Call, Sync(c)
      PROVE  crossed' \subseteq Package /\ UNCHANGED <<file, mtime, runs>>
  BY <1>3 DEF Sync
<1>4. ASSUME NEW c \in Call, NEW p \in Package, Remove(c, p)
      PROVE  /\ crossed' \subseteq Package /\ UNCHANGED runs
             /\ file' \in [Package -> Content \cup {None}] /\ mtime' \in [Package -> Time]
  BY <1>4, PackagesAssumption DEF Remove, Disturb, Time
<1>5. ASSUME NEW c \in Call, Replace(c)
      PROVE  /\ crossed' \subseteq Package /\ UNCHANGED runs
             /\ file' \in [Package -> Content \cup {None}] /\ mtime' \in [Package -> Time]
  <2>1. call[c].p \in Package /\ call[c].want \in Content
    BY <1>5 DEF Replace, InHand, At
  <2> QED
    BY <1>5, <2>1, PackagesAssumption DEF Replace, Disturb, Time
<1>6. ASSUME NEW c \in Call, Fail(c)
      PROVE  crossed' \subseteq Package /\ UNCHANGED <<file, mtime, runs>>
  <2>1. call[c].gone \subseteq Package
    BY CallFields
  <2>2. call[c].pc \in {"load", "store"} => call[c].p \in Package
    BY DEF InHand
  <2> QED
    BY <1>6, <2>1, <2>2 DEF Fail
<1>7. ASSUME NEW c \in Call, CallStep(c)
      PROVE  \/ UNCHANGED <<file, mtime, runs, crossed>>
             \/ UNCHANGED <<file, mtime, crossed>> /\ runs < MaxCalls /\ runs' = runs + 1
             \/ Sync(c) \/ (\E p \in Package : Remove(c, p)) \/ Replace(c) \/ Fail(c)
  BY <1>7 DEF CallStep, Begin, SelectHistory, DropHistory, Walk, ReadNames, Choose,
              BeginDelete, Skip, Record, BeginUpload, Load, Store
<1>8. CASE \E c \in Call : CallStep(c)
  BY <1>1, <1>2, <1>3, <1>4, <1>5, <1>6, <1>7, <1>8
<1>9. CASE ~ \E c \in Call : CallStep(c)
  BY <1>1, <1>9 DEF PackagesNext, packagesVars, Start, ExecutePlan, Finish
<1> QED
  BY <1>8, <1>9

\* Rows are noted and written.
LEMMA MetaTypes ==
    ASSUME PackageTypes, [PackagesNext]_packagesVars
    PROVE  meta' \in [Package -> Row]
<1>0. meta \in [Package -> Row] /\ Now \in Time
  BY PackagesAssumption DEF PackageTypes, PackagesTypeOK, Time
<1>1. CASE UNCHANGED meta
  BY <1>0, <1>1
<1>2. ASSUME NEW p, Noted(p) PROVE meta' \in [Package -> Row]
  BY <1>0, <1>2 DEF Noted, Row
<1>3. ASSUME NEW c \in Call, Sync(c) PROVE meta' \in [Package -> Row]
  <2>1. \A p \in Package : call[c].was[p] \in Row /\ call[c].want[p] \in Row /\ meta[p] \in Row
    BY <1>3, <1>0 DEF Sync, PackageTypes, InHand
  <2>2. \A p \in Package : Written(call[c].was[p], call[c].want[p], meta[p]) \in Row
    BY <2>1, WrittenRow
  <2> QED
    BY <1>3, <2>2 DEF Sync
<1>4. ASSUME NEW c \in Call, Record(c) PROVE meta' \in [Package -> Row]
  BY <1>0, <1>4 DEF Record, Row
<1>5. ASSUME NEW c \in Call, Store(c) PROVE meta' \in [Package -> Row]
  <2>1. /\ call[c].was \in Row /\ call[c].want \in Content /\ call[c].p \in Package
        /\ meta[call[c].p] \in Row
    BY <1>5, <1>0 DEF Store, PackageTypes, InHand, At
  <2>2. Refreshed(c) \in Row
    BY <2>1 DEF Refreshed, Row
  <2>3. Written(call[c].was, Refreshed(c), meta[call[c].p]) \in Row
    BY <2>1, <2>2, WrittenRow
  <2> QED
    BY <1>0, <1>5, <2>3 DEF Store
<1>6. ASSUME NEW c \in Call, CallStep(c)
      PROVE  UNCHANGED meta \/ Sync(c) \/ Record(c) \/ Store(c)
  BY <1>6 DEF CallStep, Begin, SelectHistory, DropHistory, Walk, ReadNames, Choose,
              BeginDelete, Remove, Skip, BeginUpload, Replace, Load, Fail
<1>7. CASE \E c \in Call : CallStep(c)
  BY <1>1, <1>3, <1>4, <1>5, <1>6, <1>7
<1>8. CASE ~ \E c \in Call : CallStep(c)
  BY <1>1, <1>2, <1>8 DEF PackagesNext, packagesVars, Start, ExecutePlan, Finish
<1> QED
  BY <1>7, <1>8

\* Deployments and plans.
LEMMA DepTypes ==
    ASSUME PackageTypes, [PackagesNext]_packagesVars
    PROVE  dep' \in [Slot -> Releases]
<1>0. dep \in [Slot -> Releases] /\ Now \in Time /\ 0 \in Time /\ Over \in Releases
  <2>1. Now \in Time /\ 0 \in Time
    BY PackagesAssumption DEF Time
  <2>2. Over \in Releases
    BY <2>1 DEF Over, Unused, Releases
  <2> QED
    BY <2>1, <2>2 DEF PackageTypes
<1>1. CASE UNCHANGED dep
  BY <1>0, <1>1
<1>2. ASSUME NEW p \in Package, NEW state \in {"planned", "active"}, NEW named \in BOOLEAN,
             NEW noted \in BOOLEAN, Start(p, state, named, noted)
      PROVE  dep' \in [Slot -> Releases]
  BY <1>0, <1>2 DEF Start, Releases
<1>3. ASSUME NEW d \in Slot, NEW named \in BOOLEAN, ExecutePlan(d, named)
      PROVE  dep' \in [Slot -> Releases]
  BY <1>0, <1>3 DEF ExecutePlan, Releases
<1>4. ASSUME NEW d \in Slot, NEW state \in {"success", "failed", "canceled"}, Finish(d, state)
      PROVE  dep' \in [Slot -> Releases]
  BY <1>0, <1>4 DEF Finish, Releases
<1>5. ASSUME NEW c \in Call, DropHistory(c) PROVE dep' \in [Slot -> Releases]
  BY <1>0, <1>5 DEF DropHistory, Releases
<1>6. ASSUME NEW c \in Call, CallStep(c) PROVE UNCHANGED dep \/ DropHistory(c)
  BY <1>6 DEF CallStep, Begin, SelectHistory, Walk, Sync, ReadNames, Choose, BeginDelete,
              Remove, Skip, Record, BeginUpload, Replace, Load, Store, Fail
<1> QED
  BY <1>1, <1>2, <1>3, <1>4, <1>5, <1>6 DEF PackagesNext, packagesVars

\* A call goes from place to place.
LEMMA CallTypes ==
    ASSUME PackageTypes, [PackagesNext]_packagesVars
    PROVE  call' \in [Call -> Calls]
<1>1. call \in [Call -> Calls]
  BY DEF PackageTypes
<1>2. <<>> \in Loaded /\ <<>> \in Wanted
  BY DEF Loaded, Wanted
<1>3. Idle \in Calls
  BY <1>2 DEF Idle, Calls, Places
<1>4. ASSUME NEW c \in Call, CallStep(c) PROVE call' \in [Call -> Calls]
  <2>0. call[c] \in Calls
    BY CallFields
  <2>f. ASSUME NEW e \in Call, NEW p PROVE [call[e] EXCEPT !.fresh = @ \ {p}] \in Calls
    <3>1. call[e] \in Calls
      BY CallFields
    <3> QED
      BY <3>1 DEF Calls
  <2>1. ASSUME NEW place \in {"ids", "walk"}, Begin(c, place) PROVE call' \in [Call -> Calls]
    BY <1>1, <2>0, <2>1 DEF Begin, Calls, Places
  <2>2. CASE SelectHistory(c)
    BY <1>1, <2>0, <2>2 DEF SelectHistory, Calls, Places
  <2>d. CASE Done(c)
    BY <1>1, <1>3, <2>d DEF Done
  <2>3. CASE DropHistory(c) /\ ~Done(c)
    <3>1. call' = [call EXCEPT ![c].pc = "walk", ![c].ids = {}]
      BY <2>3 DEF DropHistory
    <3> QED
      BY <1>1, <2>0, <3>1 DEF Calls, Places
  <2>4. CASE Walk(c)
    <3>1. meta \in Loaded /\ [p \in Package |-> Synced(p)] \in Wanted
      BY SyncedRow DEF Loaded, Wanted, PackageTypes, PackagesTypeOK
    <3> QED
      BY <1>1, <2>0, <2>4, <3>1 DEF Walk, Calls, Places
  <2>5. CASE Sync(c) /\ ~Done(c)
    BY <1>1, <1>2, <2>0, <2>5 DEF Sync, Calls, Places
  <2>6. CASE ReadNames(c)
    <3>1. ProtectedNames \subseteq Package \cup {None} /\ Needing \subseteq Slot
      BY DEF ProtectedNames, Protecting, Needing, InState, Retried, Latest, PackageTypes,
             Releases
    <3> QED
      BY <1>1, <2>0, <2>6, <3>1 DEF ReadNames, Calls, Places
  <2>7. CASE Choose(c)
    BY <1>1, <2>0, <2>7 DEF Choose, Calls, Places
  <2>8. ASSUME NEW p \in Package, BeginDelete(c, p) PROVE call' \in [Call -> Calls]
    <3>1. Needing \in SUBSET Slot /\ {p} \in SUBSET Package
      BY DEF Needing, InState, Retried, Latest
    <3> QED
      BY <1>1, <2>0, <2>8, <3>1 DEF BeginDelete, Calls, Places
  <2>9. ASSUME NEW p \in Package, Remove(c, p) PROVE call' \in [Call -> Calls]
    <3>1. [call[c] EXCEPT !.todo = @ \ {p}, !.gone = @ \cup {p}] \in Calls
      BY <2>0 DEF Calls
    <3>2. \A e \in Call : [call[e] EXCEPT !.fresh = @ \ {p}] \in Calls
      BY <2>f
    <3> QED
      BY <2>9, <3>1, <3>2 DEF Remove, Others
  <2>10. ASSUME NEW p \in Package, Skip(c, p) PROVE call' \in [Call -> Calls]
    BY <1>1, <2>0, <2>10 DEF Skip, Calls
  <2>11. ASSUME NEW p \in Package, NEW overwrite, BeginUpload(c, p, overwrite)
         PROVE  call' \in [Call -> Calls]
    <3>1. runs + 1 \in Wanted
      BY <2>11, PackagesAssumption
         DEF BeginUpload, PackageTypes, PackagesTypeOK, Content, Wanted
    <3> QED
      BY <1>1, <2>0, <2>11, <3>1 DEF BeginUpload, Calls, Places
  <2>12. CASE Replace(c)
    <3>1. [call[c] EXCEPT !.pc = "load"] \in Calls
      BY <2>0 DEF Calls, Places
    <3>2. \A e \in Call : [call[e] EXCEPT !.fresh = @ \ {call[c].p}] \in Calls
      BY <2>f
    <3> QED
      BY <2>12, <3>1, <3>2 DEF Replace, Others
  <2>13. CASE Load(c)
    <3>1. meta[call[c].p] \in Loaded
      BY <2>13 DEF Load, PackageTypes, PackagesTypeOK, InHand, At, Loaded
    <3> QED
      BY <1>1, <1>3, <2>0, <2>13, <3>1 DEF Load, Done, Calls, Places
  <2>14. CASE Record(c) \/ Store(c) \/ Fail(c)
    BY <1>1, <1>3, <2>14 DEF Record, Store, Fail, Done
  <2> QED
    BY <1>4, <2>1, <2>2, <2>d, <2>3, <2>4, <2>5, <2>6, <2>7, <2>8, <2>9, <2>10, <2>11, <2>12,
       <2>13, <2>14 DEF CallStep
<1>5. CASE \E c \in Call : CallStep(c)
  BY <1>4, <1>5
<1>6. CASE ~ \E c \in Call : CallStep(c)
  BY <1>1, <1>6 DEF PackagesNext, packagesVars, Start, ExecutePlan, Finish
<1> QED
  BY <1>5, <1>6

\* What a call has in hand fits the place it goes to.
LEMMA InHandStep ==
    ASSUME PackageTypes, [PackagesNext]_packagesVars
    PROVE  InHand'
<1> DEFINE Fits(h) ==
        /\ h.pc = "sync" => /\ h.was \in [Package -> Row] /\ h.want \in [Package -> Row]
                           /\ \A p \in Package : h.want[p].used = h.was[p].used
        /\ h.pc = "store" => h.was \in Row
        /\ h.pc \in {"replace", "load", "store"} => h.p \in Package /\ h.want \in Content
        /\ h.pc # "remove" => h.gone = {}
<1>0. \A c \in Call : call[c] \in Calls /\ Fits(call[c])
  BY CallFields DEF PackageTypes, InHand, At
<1>1. CASE UNCHANGED call
  BY <1>1 DEF PackageTypes, InHand, At
<1>2. ASSUME NEW c \in Call, CallStep(c), NEW e \in Call \ {c} PROVE Fits(call'[e])
  BY <1>0, <1>2, OthersStay
<1>3. ASSUME NEW c \in Call, CallStep(c) PROVE Fits(call'[c])
  <2>0. call \in [Call -> Calls] /\ call[c] \in Calls /\ Fits(call[c]) /\ Fits(Idle)
    BY <1>0 DEF PackageTypes, Idle
  <2>1. ASSUME NEW place \in {"ids", "walk"}, Begin(c, place) PROVE Fits(call'[c])
    BY <2>0, <2>1 DEF Begin, At, Calls
  <2>2. CASE SelectHistory(c)
    BY <2>0, <2>2 DEF SelectHistory, At, Calls
  <2>3. CASE DropHistory(c)
    <3>1. CASE Done(c)
      BY <2>0, <3>1 DEF Done
    <3>2. CASE ~Done(c)
      <4>1. /\ call[c].pc = "drop" /\ call[c].gone = {}
            /\ call' = [call EXCEPT ![c].pc = "walk", ![c].ids = {}]
        BY <2>0, <2>3, <3>2 DEF DropHistory, At
      <4>2. call'[c].pc = "walk" /\ call'[c].gone = {}
        BY <2>0, <4>1 DEF Calls
      <4> QED
        BY <4>2
    <3> QED
      BY <3>1, <3>2
  <2>4. CASE Walk(c)
    <3>1. /\ meta \in [Package -> Row] /\ [p \in Package |-> Synced(p)] \in [Package -> Row]
          /\ \A p \in Package : Synced(p).used = meta[p].used
      BY SyncedRow DEF PackageTypes, PackagesTypeOK
    <3>2. /\ call'[c].pc = "sync" /\ call'[c].was = meta
          /\ call'[c].want = [p \in Package |-> Synced(p)] /\ call'[c].gone = {}
      BY <2>0, <2>4 DEF Walk, At, Calls
    <3> QED
      BY <3>1, <3>2
  <2>5. CASE Sync(c)
    BY <2>0, <2>5 DEF Sync, Done, At, Calls
  <2>6. CASE ReadNames(c) \/ Choose(c)
    BY <2>0, <2>6 DEF ReadNames, Choose, At, Calls
  <2>7. ASSUME NEW p \in Package, BeginDelete(c, p) \/ Skip(c, p) PROVE Fits(call'[c])
    BY <2>0, <2>7 DEF BeginDelete, Skip, At, Calls
  <2>8. ASSUME NEW p \in Package, Remove(c, p) PROVE Fits(call'[c])
    BY <2>0, <2>8 DEF Remove, Others, At, Calls
  <2>9. ASSUME NEW p \in Package, NEW overwrite, BeginUpload(c, p, overwrite)
        PROVE  Fits(call'[c])
    <3>1. runs + 1 \in Content
      BY <2>9, PackagesAssumption DEF BeginUpload, PackageTypes, PackagesTypeOK, Content
    <3> QED
      BY <2>0, <2>9, <3>1 DEF BeginUpload, At, Calls
  <2>10. CASE Replace(c)
    BY <2>0, <2>10 DEF Replace, Others, At, Calls
  <2>11. CASE Load(c)
    <3>1. meta[call[c].p] \in Row
      BY <2>0, <2>11 DEF Load, PackageTypes, PackagesTypeOK, At
    <3> QED
      BY <2>0, <2>11, <3>1 DEF Load, Done, At, Calls
  <2>12. CASE Record(c) \/ Store(c) \/ Fail(c)
    BY <2>0, <2>12 DEF Record, Store, Fail, Done
  <2> QED
    BY <1>3, <2>1, <2>2, <2>3, <2>4, <2>5, <2>6, <2>7, <2>8, <2>9, <2>10, <2>11, <2>12
       DEF CallStep
<1>4. CASE \E c \in Call : CallStep(c)
  BY <1>2, <1>3, <1>4 DEF InHand, At
<1>5. CASE ~ \E c \in Call : CallStep(c)
  BY <1>1, <1>5 DEF PackagesNext, packagesVars, Start, ExecutePlan, Finish
<1> QED
  BY <1>4, <1>5

\* Types are kept.
LEMMA PackageTypesStep ==
    ASSUME PackageTypes, [PackagesNext]_packagesVars
    PROVE  PackageTypes'
<1>1. dep' \in [Slot -> Releases] /\ call' \in [Call -> Calls] /\ InHand'
  BY DepTypes, CallTypes, InHandStep
<1>2. PackagesTypeOK'
  <2>1. \A d \in Slot : dep'[d] \in Releases
    BY <1>1
  <2>2. \A c \in Call : call'[c].todo \cup call'[c].gone \cup call'[c].fresh \subseteq Package
    BY <1>1 DEF Calls
  <2> QED
    BY <2>1, <2>2, FileTypes, MetaTypes DEF PackagesTypeOK, Releases
<1> QED
  BY <1>1, <1>2 DEF PackageTypes

-----------------------------------------------------------------------------
(* Rows and files. *)

\* Every column of p's row is left or is right after the step.
Lands(p) ==
    /\ (meta'[p].deleted <=> meta[p].deleted) \/ (meta'[p].deleted <=> ~On(p))
    /\ meta'[p].sha = meta[p].sha \/ (On(p) => meta'[p].sha = file[p])
    /\ meta'[p].uploaded = meta[p].uploaded \/ (New(p) => meta'[p].uploaded = Now)

\* The step is about p's file.
Moves(c, p) == Remove(c, p) \/ (Replace(c) /\ call[c].p = p)

\* No other step is.
LEMMA FileStays ==
    ASSUME PackageTypes, [PackagesNext]_packagesVars, NEW p \in Package,
           \A c \in Call : ~Moves(c, p)
    PROVE  file'[p] = file[p] /\ mtime'[p] = mtime[p]
<1>1. CASE UNCHANGED <<file, mtime>>
  BY <1>1
<1>2. ASSUME NEW c \in Call, NEW q \in Package, Remove(c, q)
      PROVE  file'[p] = file[p] /\ mtime'[p] = mtime[p]
  BY <1>2 DEF Remove, Moves, PackageTypes, PackagesTypeOK
<1>3. ASSUME NEW c \in Call, Replace(c)
      PROVE  file'[p] = file[p] /\ mtime'[p] = mtime[p]
  BY <1>3 DEF Replace, Moves, PackageTypes, PackagesTypeOK
<1>4. ASSUME NEW c \in Call, CallStep(c)
      PROVE  UNCHANGED <<file, mtime>> \/ (\E q \in Package : Remove(c, q)) \/ Replace(c)
  BY <1>4 DEF CallStep, Begin, SelectHistory, DropHistory, Walk, Sync, ReadNames, Choose,
              BeginDelete, Skip, Record, BeginUpload, Load, Store, Fail
<1> QED
  BY <1>1, <1>2, <1>3, <1>4 DEF PackagesNext, packagesVars, Start, ExecutePlan, Finish

\* What calls write is right when what they have in hand is.
LEMMA WritesLand ==
    ASSUME PackageTypes, [PackagesNext]_packagesVars, NEW p \in Package, Known(p)
    PROVE  Lands(p)
<1>0. meta \in [Package -> Row] /\ meta[p] \in Row /\ file[p] \in Content \cup {None}
  BY DEF PackageTypes, PackagesTypeOK
<1>1. CASE UNCHANGED meta
  BY <1>1 DEF Lands
<1>2. ASSUME NEW q, Noted(q) PROVE Lands(p)
  BY <1>0, <1>2 DEF Noted, Lands, Row
<1>3. ASSUME NEW c \in Call, Sync(c) PROVE Lands(p)
  <2>1. call[c].was[p] \in Row /\ call[c].want[p] \in Row /\ Current(c, p)
    BY <1>3 DEF Sync, PackageTypes, InHand, Known
  <2>2. meta'[p] = Written(call[c].was[p], call[c].want[p], meta[p])
    BY <1>3 DEF Sync
  <2>3. meta'[p].deleted = IF call[c].want[p].deleted # call[c].was[p].deleted
                           THEN call[c].want[p].deleted ELSE meta[p].deleted
    BY <1>0, <2>1, <2>2, WrittenRow
  <2>4. /\ meta'[p].sha = IF call[c].want[p].sha # call[c].was[p].sha
                          THEN call[c].want[p].sha ELSE meta[p].sha
        /\ meta'[p].uploaded = IF call[c].want[p].uploaded # call[c].was[p].uploaded
                               THEN call[c].want[p].uploaded ELSE meta[p].uploaded
    BY <1>0, <2>1, <2>2, WrittenRow
  <2>5. /\ call[c].want[p].deleted <=> ~On(p)
        /\ On(p) => call[c].want[p].sha = file[p]
        /\ New(p) => call[c].want[p].uploaded = Now
    BY <2>1 DEF Current, Right
  <2> QED
    BY <2>3, <2>4, <2>5 DEF Lands
<1>4. ASSUME NEW c \in Call, Record(c) PROVE Lands(p)
  <2>1. p \in call[c].gone => ~On(p)
    BY <1>4 DEF Record, Known
  <2> QED
    BY <1>0, <1>4, <2>1 DEF Record, Lands, Row
<1>5. ASSUME NEW c \in Call, Store(c) PROVE Lands(p)
  <2>1. CASE call[c].p # p
    BY <1>0, <1>5, <2>1 DEF Store, Lands
  <2>2. CASE call[c].p = p
    <3>1. /\ call[c].was \in Row /\ call[c].want \in Content /\ file[p] = call[c].want
          /\ Tracks(p, call[c].was)
      BY <1>5, <2>2 DEF Store, At, PackageTypes, InHand, Known
    <3>2. On(p)
      BY <3>1, PackagesAssumption DEF On, Content
    <3>3. /\ Refreshed(c) \in Row /\ Refreshed(c).deleted = FALSE
          /\ Refreshed(c).sha = call[c].want /\ Refreshed(c).uploaded = call[c].was.uploaded
      BY <3>1 DEF Refreshed, Row
    <3>4. meta'[p] = Written(call[c].was, Refreshed(c), meta[p])
      BY <1>0, <1>5, <2>2 DEF Store
    <3>5. meta'[p].deleted = IF Refreshed(c).deleted # call[c].was.deleted
                             THEN Refreshed(c).deleted ELSE meta[p].deleted
      BY <1>0, <3>1, <3>3, <3>4, WrittenRow
    <3>6. /\ meta'[p].sha = IF Refreshed(c).sha # call[c].was.sha
                            THEN Refreshed(c).sha ELSE meta[p].sha
          /\ meta'[p].uploaded = meta[p].uploaded
      BY <1>0, <3>1, <3>3, <3>4, WrittenRow
    <3> QED
      BY <3>1, <3>2, <3>3, <3>5, <3>6 DEF Lands
  <2> QED
    BY <2>1, <2>2
<1>6. ASSUME NEW c \in Call, CallStep(c)
      PROVE  UNCHANGED meta \/ Sync(c) \/ Record(c) \/ Store(c)
  BY <1>6 DEF CallStep, Begin, SelectHistory, DropHistory, Walk, ReadNames, Choose,
              BeginDelete, Remove, Skip, BeginUpload, Replace, Load, Fail
<1>7. CASE \E c \in Call : CallStep(c)
  BY <1>1, <1>3, <1>4, <1>5, <1>6, <1>7
<1>8. CASE ~ \E c \in Call : CallStep(c)
  BY <1>1, <1>2, <1>8 DEF PackagesNext, packagesVars, Start, ExecutePlan, Finish
<1> QED
  BY <1>7, <1>8

\* What somebody has loaded is still right, or as it was.
LEMMA TracksStays ==
    ASSUME NEW p \in Package, NEW was, Tracks(p, was), Lands(p),
           file'[p] = file[p], mtime'[p] = mtime[p]
    PROVE  /\ (meta'[p].deleted <=> was.deleted) \/ (meta'[p].deleted <=> ~On(p))
           /\ meta'[p].sha = was.sha \/ (On(p) => meta'[p].sha = file[p])
           /\ meta'[p].uploaded = was.uploaded \/ (New(p) => meta'[p].uploaded = Now)
  BY DEF Tracks, Lands

\* What a call has in hand is so as long as nobody changes the file.
LEMMA HoldsStay ==
    ASSUME PackageTypes, NEW p \in Package, Known(p), Lands(p),
           file'[p] = file[p], mtime'[p] = mtime[p],
           NEW e \in Call, call'[e].pc = call[e].pc, call'[e].p = call[e].p,
           call'[e].was = call[e].was, call'[e].want = call[e].want,
           p \in call'[e].gone => p \in call[e].gone
    PROVE  /\ At(e, "remove")' /\ p \in call'[e].gone => ~On(p)'
           /\ call'[e].pc \in {"load", "store"} /\ call'[e].p = p => file'[p] = call'[e].want
           /\ At(e, "store")' /\ call'[e].p = p => Tracks(p, call[e].was)'
           /\ At(e, "sync")' => Current(e, p)'
<1>1. On(p)' <=> On(p)
  BY DEF On
<1>2. New(p)' <=> New(p)
  BY <1>1 DEF New
<1>3. At(e, "store") /\ call[e].p = p => Tracks(p, call[e].was)'
  BY <1>1, <1>2, TracksStays DEF Known, Tracks
<1>4. At(e, "sync") => Current(e, p)'
  <2>1. At(e, "sync") => Tracks(p, call[e].was[p])'
    BY <1>1, <1>2, TracksStays DEF Known, Current, Tracks
  <2>2. At(e, "sync") => Right(p, call[e].want[p])' /\ (New(p)' => call'[e].want[p].uploaded = Now)
    BY <1>1, <1>2 DEF Known, Current, Right
  <2> QED
    BY <2>1, <2>2 DEF Current
<1> QED
  BY <1>1, <1>3, <1>4 DEF Known, At

\* Where the call at work goes, and with what.
LEMMA Advances ==
    ASSUME PackageTypes, NEW c \in Call, CallStep(c)
    PROVE  \/ call'[c].pc \in {"idle", "ids", "walk", "replace"}
           \/ SelectHistory(c) /\ call'[c].pc = "drop" /\ call'[c].ids = {d \in Slot : Goes(d)}
           \/ /\ Walk(c) /\ call'[c].pc = "sync" /\ call'[c].was = meta
              /\ call'[c].want = [q \in Package |-> Synced(q)]
              /\ call'[c].fresh = {q \in Package : ~Touched(q, c)}
           \/ Sync(c) /\ call'[c].pc = "names" /\ call'[c].fresh = call[c].fresh
           \/ /\ ReadNames(c) /\ call'[c].pc = "choose" /\ call'[c].fresh = call[c].fresh
              /\ call'[c].names = ProtectedNames /\ call'[c].seen = Needing
           \/ /\ Choose(c) /\ call'[c].pc = "remove" /\ call'[c].fresh = call[c].fresh
              /\ call'[c].gone = {} /\ call'[c].seen = call[c].seen
              /\ call'[c].todo = {q \in Package : IsCandidate(q, call[c].names)}
           \/ \E q \in Package :
                 /\ BeginDelete(c, q) /\ call'[c].pc = "remove" /\ call'[c].op = "delete"
                 /\ call'[c].gone = {} /\ call'[c].todo = {q} /\ call'[c].seen = Needing
           \/ /\ call[c].pc = "remove" /\ call'[c].pc = "remove" /\ call'[c].op = call[c].op
              /\ call'[c].fresh = call[c].fresh /\ call'[c].seen = call[c].seen
              /\ call'[c].todo \subseteq call[c].todo
              /\ \/ call'[c].gone = call[c].gone
                 \/ \E q \in Package : Remove(c, q) /\ call'[c].gone = call[c].gone \cup {q}
           \/ /\ Replace(c) /\ call'[c].pc = "load" /\ call'[c].p = call[c].p
           \/ /\ call[c].pc = "load" /\ call'[c].pc = "store" /\ call'[c].p = call[c].p
              /\ call'[c].want = call[c].want /\ call'[c].was = meta[call[c].p] /\ meta' = meta
<1>0. /\ call \in [Call -> Calls] /\ call[c] \in Calls
      /\ call[c].pc # "remove" => call[c].gone = {}
  BY CallFields DEF PackageTypes, InHand, At
<1>1. Done(c) => call'[c].pc = "idle"
  BY <1>0 DEF Done, Idle
<1>2. ASSUME NEW place \in {"ids", "walk"}, Begin(c, place) PROVE call'[c].pc \in {"ids", "walk"}
  BY <1>0, <1>2 DEF Begin, Calls
<1>3. SelectHistory(c) => call'[c].pc = "drop" /\ call'[c].ids = {d \in Slot : Goes(d)}
  BY <1>0 DEF SelectHistory, Calls
<1>4. DropHistory(c) => call'[c].pc \in {"idle", "walk"}
  <2>1. DropHistory(c) => Done(c) \/ call' = [call EXCEPT ![c].pc = "walk", ![c].ids = {}]
    BY DEF DropHistory
  <2> QED
    BY <1>0, <1>1, <2>1 DEF Calls
<1>5. Walk(c) => /\ call'[c].pc = "sync" /\ call'[c].was = meta
                 /\ call'[c].want = [q \in Package |-> Synced(q)]
                 /\ call'[c].fresh = {q \in Package : ~Touched(q, c)}
  <2> DEFINE want == [q \in Package |-> Synced(q)]
             fresh == {q \in Package : ~Touched(q, c)}
  <2>1. Walk(c) => call' = [call EXCEPT ![c].pc = "sync", ![c].was = meta, ![c].want = want,
                                        ![c].fresh = fresh]
    BY DEF Walk
  <2> HIDE DEF want, fresh
  <2>2. Walk(c) => /\ call'[c].pc = "sync" /\ call'[c].was = meta /\ call'[c].want = want
                   /\ call'[c].fresh = fresh
    BY <1>0, <2>1 DEF Calls
  <2> QED
    BY <2>2 DEF want, fresh
<1>6. Sync(c) => \/ call'[c].pc = "idle"
                 \/ call'[c].pc = "names" /\ call'[c].fresh = call[c].fresh
  <2>1. Sync(c) => \/ Done(c)
                   \/ call' = [call EXCEPT ![c].pc = "names", ![c].was = <<>>, ![c].want = <<>>]
    BY DEF Sync
  <2> QED
    BY <1>0, <1>1, <2>1 DEF Calls
<1>7. ReadNames(c) => /\ call'[c].pc = "choose" /\ call'[c].fresh = call[c].fresh
                      /\ call'[c].names = ProtectedNames /\ call'[c].seen = Needing
  BY <1>0 DEF ReadNames, Calls
<1>8. Choose(c) => /\ call'[c].pc = "remove" /\ call'[c].fresh = call[c].fresh
                   /\ call'[c].gone = {} /\ call'[c].seen = call[c].seen
                   /\ call'[c].todo = {q \in Package : IsCandidate(q, call[c].names)}
  BY <1>0 DEF Choose, Calls, At
<1>9. ASSUME NEW q \in Package, BeginDelete(c, q)
      PROVE  /\ call'[c].pc = "remove" /\ call'[c].op = "delete"
             /\ call'[c].gone = {} /\ call'[c].todo = {q} /\ call'[c].seen = Needing
  BY <1>0, <1>9 DEF BeginDelete, Calls, At
<1>10. ASSUME NEW q \in Package, Remove(c, q)
       PROVE  /\ call[c].pc = "remove" /\ call'[c].pc = "remove" /\ call'[c].op = call[c].op
              /\ call'[c].fresh = call[c].fresh /\ call'[c].seen = call[c].seen
              /\ call'[c].todo \subseteq call[c].todo
              /\ call'[c].gone = call[c].gone \cup {q}
  BY <1>0, <1>10 DEF Remove, Others, Calls, At
<1>11. ASSUME NEW q \in Package, Skip(c, q)
       PROVE  /\ call[c].pc = "remove" /\ call'[c].pc = "remove" /\ call'[c].op = call[c].op
              /\ call'[c].fresh = call[c].fresh /\ call'[c].seen = call[c].seen
              /\ call'[c].todo \subseteq call[c].todo
              /\ call'[c].gone = call[c].gone
  BY <1>0, <1>11 DEF Skip, Calls, At
<1>12. ASSUME NEW q \in Package, NEW overwrite, BeginUpload(c, q, overwrite)
       PROVE  call'[c].pc = "replace"
  BY <1>0, <1>12 DEF BeginUpload, Calls
<1>13. Replace(c) => call'[c].pc = "load" /\ call'[c].p = call[c].p
  BY <1>0 DEF Replace, Others, Calls
<1>14. Load(c) => \/ call'[c].pc = "idle"
                  \/ /\ call[c].pc = "load" /\ call'[c].pc = "store" /\ call'[c].p = call[c].p
                     /\ call'[c].want = call[c].want /\ call'[c].was = meta[call[c].p]
                     /\ meta' = meta
  <2>1. Load(c) => \/ Done(c)
                   \/ /\ call[c].pc = "load" /\ meta' = meta
                      /\ call' = [call EXCEPT ![c].pc = "store", ![c].was = meta[call[c].p]]
    BY DEF Load, At
  <2> QED
    BY <1>0, <1>1, <2>1 DEF Calls
<1>15. Record(c) \/ Store(c) \/ Fail(c) => call'[c].pc = "idle"
  BY <1>1 DEF Record, Store, Fail
<1> QED
  BY <1>2, <1>3, <1>4, <1>5, <1>6, <1>7, <1>8, <1>9, <1>10, <1>11, <1>12, <1>13, <1>14, <1>15,
     ZenonT(30) DEF CallStep

\* And what the call at work takes in hand is so.
LEMMA TakenIsSo ==
    ASSUME PackageTypes, NEW p \in Package, Known(p), NEW c \in Call, CallStep(c),
           ~Moves(c, p), file'[p] = file[p], mtime'[p] = mtime[p]
    PROVE  /\ At(c, "remove")' /\ p \in call'[c].gone => ~On(p)'
           /\ call'[c].pc \in {"load", "store"} /\ call'[c].p = p => file'[p] = call'[c].want
           /\ At(c, "store")' /\ call'[c].p = p => Tracks(p, call[c].was)'
           /\ At(c, "sync")' => Current(c, p)'
<1>1. (On(p)' <=> On(p)) /\ (New(p)' <=> New(p))
  BY DEF On, New
<1>2. call'[c].pc = "remove" /\ p \in call'[c].gone => ~On(p)
  <2>1. call'[c].pc = "remove" /\ p \in call'[c].gone
           => call[c].pc = "remove" /\ p \in call[c].gone
    BY Advances DEF Moves
  <2> QED
    BY <2>1 DEF Known, At
<1>3. call'[c].pc \in {"load", "store"} /\ call'[c].p = p =>
          /\ call[c].pc = "load" /\ call[c].p = p /\ call'[c].want = call[c].want
          /\ call'[c].pc = "store" /\ call'[c].was = meta[p] /\ meta' = meta
  BY Advances DEF Moves
<1>4. call'[c].pc \in {"load", "store"} /\ call'[c].p = p => file'[p] = call'[c].want
  BY <1>3 DEF Known
<1>5. At(c, "store")' /\ call'[c].p = p => Tracks(p, call[c].was)'
  BY <1>3 DEF At, Tracks
<1>6. At(c, "sync")' => Current(c, p)'
  <2>1. SUFFICES ASSUME call'[c].pc = "sync" PROVE Current(c, p)'
    BY DEF At
  <2>2. /\ call'[c].want[p] = Synced(p) /\ call'[c].was[p] = meta[p] /\ meta' = meta
    <3>1. Walk(c) /\ call'[c].was = meta /\ call'[c].want = [q \in Package |-> Synced(q)]
      BY <2>1, Advances
    <3> QED
      BY <3>1 DEF Walk
  <2>3. Right(p, Synced(p)) /\ (New(p) => Synced(p).uploaded = Now)
    BY SyncedRow
  <2>4. Tracks(p, call[c].was[p])'
    BY <2>2 DEF Tracks
  <2>5. Right(p, call[c].want[p])' /\ (New(p)' => call'[c].want[p].uploaded = Now)
    BY <1>1, <2>2, <2>3 DEF Right
  <2> QED
    BY <2>4, <2>5 DEF Current
<1> QED
  BY <1>1, <1>2, <1>4, <1>5, <1>6 DEF At

\* What is known of a package stays so in every step but one that changes its file.
LEMMA KnownStep ==
    ASSUME PackageTypes, [PackagesNext]_packagesVars, NEW p \in Package, Known(p),
           \A c \in Call : ~Moves(c, p)
    PROVE  Known(p)'
<1>1. Lands(p) /\ file'[p] = file[p] /\ mtime'[p] = mtime[p]
  BY WritesLand, FileStays
<1>2. CASE UNCHANGED call
  BY <1>1, <1>2, HoldsStay DEF Known
<1>3. ASSUME NEW c \in Call, CallStep(c) PROVE Known(p)'
  <2>1. ASSUME NEW e \in Call \ {c}
        PROVE  /\ At(e, "remove")' /\ p \in call'[e].gone => ~On(p)'
               /\ call'[e].pc \in {"load", "store"} /\ call'[e].p = p
                      => file'[p] = call'[e].want
               /\ At(e, "store")' /\ call'[e].p = p => Tracks(p, call[e].was)'
               /\ At(e, "sync")' => Current(e, p)'
    <3>1. /\ call'[e].pc = call[e].pc /\ call'[e].p = call[e].p /\ call'[e].was = call[e].was
          /\ call'[e].want = call[e].want /\ call'[e].gone = call[e].gone
      BY <1>3, OthersStay
    <3> QED
      BY <1>1, <3>1, HoldsStay
  <2>2. /\ At(c, "remove")' /\ p \in call'[c].gone => ~On(p)'
        /\ call'[c].pc \in {"load", "store"} /\ call'[c].p = p => file'[p] = call'[c].want
        /\ At(c, "store")' /\ call'[c].p = p => Tracks(p, call[c].was)'
        /\ At(c, "sync")' => Current(c, p)'
    BY <1>1, <1>3, TakenIsSo
  <2> QED
    BY <2>1, <2>2 DEF Known
<1> QED
  BY <1>2, <1>3 DEF PackagesNext, packagesVars, Start, ExecutePlan, Finish

\* And a step that changes a file nobody else is at work on is known.
LEMMA MoveIsKnown ==
    ASSUME PackageTypes, NEW p \in Package, NEW c \in Call, Moves(c, p), ~Touched(p, c)
    PROVE  Known(p)' /\ Owes(c, p)'
<1>0. call \in [Call -> Calls] /\ call[c] \in Calls
  BY CallFields DEF PackageTypes
<1>1. CASE Remove(c, p)
  <2>1. file'[p] = None
    BY <1>1 DEF Remove, PackageTypes, PackagesTypeOK
  <2>2. call'[c].pc = "remove" /\ p \in call'[c].gone
    BY <1>0, <1>1 DEF Remove, Others, Calls, At
  <2>3. CallStep(c)
    BY <1>1 DEF CallStep
  <2>4. \A e \in Call \ {c} :
            /\ call'[e].pc = call[e].pc /\ call'[e].p = call[e].p
            /\ call'[e].gone = call[e].gone
    BY <2>3, OthersStay
  <2> QED
    BY <2>1, <2>2, <2>4 DEF Known, Owes, On, At, Touched, Touches
<1>2. CASE Replace(c) /\ call[c].p = p
  <2>1. file'[p] = call[c].want
    BY <1>2 DEF Replace, PackageTypes, PackagesTypeOK
  <2>2. call'[c].pc = "load" /\ call'[c].p = p /\ call'[c].want = call[c].want
    BY <1>0, <1>2 DEF Replace, Others, Calls
  <2>3. CallStep(c)
    BY <1>2 DEF CallStep
  <2>4. \A e \in Call \ {c} :
            /\ call'[e].pc = call[e].pc /\ call'[e].p = call[e].p
            /\ call'[e].gone = call[e].gone
    BY <2>3, OthersStay
  <2> QED
    BY <2>1, <2>2, <2>4 DEF Known, Owes, On, At, Touched, Touches
<1> QED
  BY <1>1, <1>2 DEF Moves

\* A call that changes p's file takes p from what is fresh for the others.
LEMMA MoveIsNoticed ==
    ASSUME PackageTypes, NEW p \in Package, NEW b \in Call, Moves(b, p),
           NEW c \in Call, p \in call'[c].fresh
    PROVE  /\ c = b
           /\ \/ call'[c].pc = "load"
              \/ call'[c].pc = "remove" /\ p \notin call'[c].todo
<1>0. call \in [Call -> Calls] /\ call[c] \in Calls
  BY CallFields DEF PackageTypes
<1>1. CASE c # b
  <2>1. call'[c] = [call[c] EXCEPT !.fresh = @ \ {p}]
    BY <1>1 DEF Moves, Remove, Replace, Others
  <2>2. p \notin call'[c].fresh
    BY <1>0, <2>1 DEF Calls
  <2> QED
    BY <2>2
<1>2. CASE c = b /\ Remove(b, p)
  BY <1>0, <1>2 DEF Remove, Others, Calls, At
<1>3. CASE c = b /\ Replace(b)
  <2>1. call'[c] = [call[c] EXCEPT !.pc = "load"]
    BY <1>3 DEF Replace, Others
  <2>2. call'[c].pc = "load"
    BY <1>0, <2>1 DEF Calls
  <2> QED
    BY <1>3, <2>2
<1> QED
  BY <1>1, <1>2, <1>3 DEF Moves

\* Who owes a write has owed it, unless it has just changed the file.
LEMMA OwedBefore ==
    ASSUME PackageTypes, [PackagesNext]_packagesVars, NEW p \in Package,
           \A c \in Call : ~Moves(c, p), NEW e \in Call, Owes(e, p)'
    PROVE  Owes(e, p)
<1>1. CASE UNCHANGED call
  BY <1>1 DEF Owes, At
<1>2. ASSUME NEW c \in Call, CallStep(c) PROVE Owes(e, p)
  <2>1. CASE e # c
    BY <1>2, <2>1, OthersStay DEF Owes, At
  <2>2. CASE e = c
    BY <1>2, <2>2, Advances DEF Owes, At, Moves
  <2> QED
    BY <2>1, <2>2
<1> QED
  BY <1>1, <1>2 DEF PackagesNext, packagesVars, Start, ExecutePlan, Finish

\* A row that is right stays so while nobody changes the file.
LEMMA RightStays ==
    ASSUME NEW p \in Package, Lands(p), file'[p] = file[p], Right(p, meta[p])
    PROVE  Right(p, meta[p])'
  BY DEF Lands, Right, On

\* A walk makes the row of what it knows right.
LEMMA SyncRights ==
    ASSUME PackageTypes, NEW p \in Package, NEW c \in Call, Sync(c), Current(c, p)
    PROVE  Right(p, meta[p])' /\ (New(p)' => meta'[p].uploaded = Now)
<1>1. call[c].was[p] \in Row /\ call[c].want[p] \in Row /\ meta[p] \in Row
  BY DEF Sync, PackageTypes, InHand, PackagesTypeOK
<1>2. meta'[p] = Written(call[c].was[p], call[c].want[p], meta[p])
  BY DEF Sync
<1>3. meta'[p].deleted = IF call[c].want[p].deleted # call[c].was[p].deleted
                         THEN call[c].want[p].deleted ELSE meta[p].deleted
  BY <1>1, <1>2, WrittenRow
<1>4. /\ meta'[p].sha = IF call[c].want[p].sha # call[c].was[p].sha
                        THEN call[c].want[p].sha ELSE meta[p].sha
      /\ meta'[p].uploaded = IF call[c].want[p].uploaded # call[c].was[p].uploaded
                             THEN call[c].want[p].uploaded ELSE meta[p].uploaded
  BY <1>1, <1>2, WrittenRow
<1>5. (On(p)' <=> On(p)) /\ (New(p)' <=> New(p)) /\ file' = file
  BY DEF Sync, On, New
<1>6. meta'[p].deleted <=> ~On(p)
  BY <1>3 DEF Current, Right, Tracks
<1>7. On(p) => meta'[p].sha = file[p]
  BY <1>4 DEF Current, Right, Tracks
<1>8. New(p) => meta'[p].uploaded = Now
  BY <1>4 DEF Current, Tracks
<1> QED
  BY <1>5, <1>6, <1>7, <1>8 DEF Right

\* Who owes a write makes it, or fails.
LEMMA OwedIsPaid ==
    ASSUME PackageTypes, NEW p \in Package, Known(p), NEW e \in Call, Owes(e, p),
           NEW c \in Call, CallStep(c), p \notin crossed', ~Moves(c, p)
    PROVE  Owes(e, p)' \/ Right(p, meta[p])'
<1>0. /\ call \in [Call -> Calls] /\ call[e] \in Calls /\ meta \in [Package -> Row]
      /\ meta[p] \in Row
  BY CallFields DEF PackageTypes, PackagesTypeOK
<1>1. CASE e # c
  BY <1>1, OthersStay DEF Owes, At
<1>2. CASE e = c /\ Record(c)
  <2>1. p \in call[c].gone /\ ~On(p)
    BY <1>2 DEF Record, Owes, At, Known
  <2>2. meta'[p].deleted /\ ~On(p)'
    BY <1>0, <1>2, <2>1 DEF Record, Row, On
  <2> QED
    BY <2>2 DEF Right
<1>3. CASE e = c /\ Store(c)
  <2>1. /\ call[c].p = p /\ call[c].was \in Row /\ call[c].want \in Content
        /\ file[p] = call[c].want /\ Tracks(p, call[c].was)
    BY <1>3 DEF Store, At, Owes, PackageTypes, InHand, Known
  <2>2. On(p)
    BY <2>1, PackagesAssumption DEF On, Content
  <2>3. /\ Refreshed(c) \in Row /\ Refreshed(c).deleted = FALSE
        /\ Refreshed(c).sha = call[c].want
    BY <2>1 DEF Refreshed, Row
  <2>4. meta'[p] = Written(call[c].was, Refreshed(c), meta[p])
    BY <1>0, <1>3, <2>1 DEF Store
  <2>5. meta'[p].deleted = IF Refreshed(c).deleted # call[c].was.deleted
                           THEN Refreshed(c).deleted ELSE meta[p].deleted
    BY <1>0, <2>1, <2>3, <2>4, WrittenRow
  <2>6. meta'[p].sha = IF Refreshed(c).sha # call[c].was.sha
                       THEN Refreshed(c).sha ELSE meta[p].sha
    BY <1>0, <2>1, <2>3, <2>4, WrittenRow
  <2>7. ~meta'[p].deleted
    BY <2>1, <2>2, <2>3, <2>5 DEF Tracks
  <2>8. meta'[p].sha = file[p]
    BY <2>1, <2>2, <2>3, <2>6 DEF Tracks
  <2> QED
    BY <1>3, <2>2, <2>7, <2>8 DEF Right, On, Store
<1>4. CASE e = c /\ Fail(c)
  <2>1. p \in crossed'
    BY <1>4 DEF Fail, Owes, At
  <2> QED
    BY <2>1
<1>5. CASE e = c /\ Load(c)
  <2>1. call[c].pc = "load" /\ call[c].p = p /\ call[c].want \in Content
    BY <1>5 DEF Load, At, Owes, PackageTypes, InHand
  <2>2. On(p)
    BY <2>1, PackagesAssumption DEF Known, On, Content
  <2>3. call'[c].pc = "store" /\ call'[c].p = p
    BY <1>0, <1>5, <2>1, <2>2 DEF Load, Calls
  <2> QED
    BY <1>5, <2>3 DEF Owes
<1>6. ASSUME NEW q \in Package, e = c, Remove(c, q) \/ Skip(c, q) PROVE Owes(e, p)'
  <2>1. CASE Remove(c, q)
    <3>1. /\ call'[c].pc = "remove" /\ call[c].pc = "remove"
          /\ call'[c].gone = call[c].gone \cup {q}
      BY <1>0, <1>6, <2>1 DEF Remove, Others, Calls, At
    <3> QED
      BY <1>6, <3>1 DEF Owes, At
  <2>2. CASE Skip(c, q)
    <3>1. /\ call'[c].pc = "remove" /\ call[c].pc = "remove"
          /\ call'[c].gone = call[c].gone
      BY <1>0, <1>6, <2>2 DEF Skip, Calls, At
    <3> QED
      BY <1>6, <3>1 DEF Owes, At
  <2> QED
    BY <1>6, <2>1, <2>2
<1>7. CASE e = c
  <2>1. \/ Record(c) \/ Store(c) \/ Fail(c) \/ Load(c)
        \/ \E q \in Package : Remove(c, q) \/ Skip(c, q)
    BY <1>7 DEF CallStep, Owes, At, Begin, SelectHistory, DropHistory, Walk, Sync, ReadNames,
                Choose, BeginDelete, BeginUpload, Replace
  <2> QED
    BY <1>2, <1>3, <1>4, <1>5, <1>6, <1>7, <2>1
<1> QED
  BY <1>1, <1>7

\* What no two calls crossed is right or about to be.
LEMMA UncrossedStep ==
    ASSUME PackageTypes, Uncrossed, Walked, [PackagesNext]_packagesVars
    PROVE  Uncrossed'
<1> SUFFICES ASSUME NEW p \in Package, p \notin crossed'
             PROVE  Known(p)' /\ (Right(p, meta[p])' \/ \E e \in Call : Owes(e, p)')
  BY DEF Uncrossed
<1>1. ASSUME NEW c \in Call, Moves(c, p)
      PROVE  Known(p)' /\ (Right(p, meta[p])' \/ \E e \in Call : Owes(e, p)')
  <2>1. ~Touched(p, c)
    BY <1>1 DEF Moves, Remove, Replace, Disturb
  <2> QED
    BY <1>1, <2>1, MoveIsKnown
<1>2. CASE \A c \in Call : ~Moves(c, p)
  <2>1. CASE p \in crossed
    <3>1. PICK c \in Call : Sync(c) /\ p \in call[c].fresh
      <4>1. ASSUME NEW c \in Call, CallStep(c) PROVE Sync(c) /\ p \in call[c].fresh
        BY <2>1, <4>1 DEF CallStep, Begin, SelectHistory, DropHistory, Walk, Sync, ReadNames,
              Choose, BeginDelete, Remove, Skip, Record, BeginUpload, Replace, Load, Store,
              Fail, Disturb
      <4> QED
        BY <2>1, <4>1 DEF PackagesNext, packagesVars, Start, ExecutePlan, Finish
    <3>2. Known(p) /\ Current(c, p)
      <4>1. \A e \in Call : ~Owes(e, p) /\ (At(e, "sync") => Current(e, p))
        BY <3>1 DEF Sync, At, Walked
      <4> QED
        BY <3>1, <4>1 DEF Known, Owes, Sync, At
    <3> QED
      BY <1>2, <3>1, <3>2, KnownStep, SyncRights
  <2>2. CASE p \notin crossed
    <3>1. Known(p) /\ (Right(p, meta[p]) \/ \E e \in Call : Owes(e, p))
      BY <2>2 DEF Uncrossed
    <3>2. Known(p)' /\ Lands(p) /\ file'[p] = file[p]
      BY <1>2, <3>1, KnownStep, WritesLand, FileStays
    <3>3. CASE Right(p, meta[p])
      BY <3>2, <3>3, RightStays
    <3>4. ASSUME NEW e \in Call, Owes(e, p)
          PROVE  Right(p, meta[p])' \/ \E d \in Call : Owes(d, p)'
      <4>1. CASE UNCHANGED call
        BY <3>4, <4>1 DEF Owes, At
      <4>2. ASSUME NEW c \in Call, CallStep(c) PROVE Owes(e, p)' \/ Right(p, meta[p])'
        BY <1>2, <3>1, <3>4, <4>2, OwedIsPaid
      <4> QED
        BY <4>1, <4>2 DEF PackagesNext, packagesVars, Start, ExecutePlan, Finish
    <3> QED
      BY <3>1, <3>2, <3>3, <3>4
  <2> QED
    BY <2>1, <2>2
<1> QED
  BY <1>1, <1>2

\* What was fresh for a call that walked stays untouched, or is no longer fresh.
LEMMA WalkedStep ==
    ASSUME PackageTypes, Walked, [PackagesNext]_packagesVars
    PROVE  Walked'
<1> SUFFICES ASSUME NEW c \in Call, call'[c].pc \in {"sync", "names", "choose"},
                    NEW p \in Package, p \in call'[c].fresh
             PROVE  /\ \A e \in Call : ~Owes(e, p)' /\ (At(e, "sync")' => Current(e, p)')
                    /\ ~At(c, "sync")' => (New(p)' => meta'[p].uploaded = Now)
  <2>1. \A c \in Call : call'[c].fresh \subseteq Package
    BY CallTypes DEF Calls
  <2> QED
    BY <2>1 DEF Walked
<1>1. \A b \in Call : ~Moves(b, p)
  BY MoveIsNoticed
<1>2. \/ p \in call[c].fresh /\ call[c].pc \in {"sync", "names", "choose"}
      \/ \A e \in Call : ~Owes(e, p) /\ ~At(e, "sync")
  <2>1. CASE UNCHANGED call
    BY <2>1
  <2>2. ASSUME NEW a \in Call, CallStep(a), a # c
        PROVE  p \in call[c].fresh /\ call[c].pc \in {"sync", "names", "choose"}
    BY <2>2, OthersStay
  <2>3. CASE CallStep(c)
    <3>1. CASE call'[c].pc \in {"names", "choose"}
      <4>1. /\ call'[c].fresh = call[c].fresh
            /\ Sync(c) \/ ReadNames(c)
        BY <2>3, <3>1, Advances
      <4> QED
        BY <4>1 DEF Sync, ReadNames, At
    <3>2. CASE call'[c].pc = "sync"
      <4>1. Walk(c) /\ call'[c].fresh = {q \in Package : ~Touched(q, c)}
        BY <2>3, <3>2, Advances
      <4> QED
        BY <4>1 DEF Walk, Touched, Touches, Owes, At
    <3> QED
      BY <3>1, <3>2
  <2> QED
    BY <2>1, <2>2, <2>3 DEF PackagesNext, packagesVars, Start, ExecutePlan, Finish
<1>3. \A e \in Call : ~Owes(e, p) /\ (At(e, "sync") => Current(e, p))
  BY <1>2 DEF Walked
<1>4. Known(p)
  BY <1>3 DEF Known, Owes, At
<1>5. \A e \in Call : ~Owes(e, p)' /\ (At(e, "sync")' => Current(e, p)')
  BY <1>1, <1>3, <1>4, KnownStep, OwedBefore DEF Known
<1>6. ~At(c, "sync")' => (New(p)' => meta'[p].uploaded = Now)
  <2>1. CASE call[c].pc \in {"names", "choose"} /\ p \in call[c].fresh
    <3>1. New(p) => meta[p].uploaded = Now
      BY <2>1 DEF Walked, At
    <3>2. Lands(p) /\ (New(p)' <=> New(p))
      BY <1>1, <1>4, WritesLand, FileStays DEF New, On
    <3> QED
      BY <3>1, <3>2 DEF Lands
  <2>2. CASE call'[c].pc # "sync" /\ ~(call[c].pc \in {"names", "choose"} /\ p \in call[c].fresh)
    <3>1. Sync(c)
      <4>1. CASE UNCHANGED call
        BY <2>2, <4>1
      <4>2. ASSUME NEW a \in Call, CallStep(a), a # c PROVE FALSE
        BY <2>2, <4>2, OthersStay
      <4>3. CASE CallStep(c)
        <5>1. call'[c].fresh = call[c].fresh /\ (Sync(c) \/ ReadNames(c))
          BY <2>2, <4>3, Advances
        <5> QED
          BY <2>2, <5>1 DEF ReadNames, At
      <4> QED
        BY <4>1, <4>2, <4>3 DEF PackagesNext, packagesVars, Start, ExecutePlan, Finish
    <3>2. Current(c, p)
      BY <1>3, <3>1 DEF Sync
    <3> QED
      BY <3>1, <3>2, SyncRights
  <2> QED
    BY <2>1, <2>2 DEF At
<1> QED
  BY <1>5, <1>6

\* A package is noted as used, and that is never taken back.
LEMMA UsedStays ==
    ASSUME PackageTypes, [PackagesNext]_packagesVars, NEW p \in Package, meta'[p].used = None
    PROVE  meta[p].used = None
<1>0. meta \in [Package -> Row] /\ meta[p] \in Row /\ Now # None
  BY PackagesAssumption DEF PackageTypes, PackagesTypeOK
<1>1. CASE UNCHANGED meta
  BY <1>1
<1>2. ASSUME NEW q, Noted(q) PROVE meta[p].used = None
  BY <1>0, <1>2 DEF Noted, Row
<1>3. ASSUME NEW c \in Call, Sync(c) PROVE meta[p].used = None
  <2>1. /\ call[c].was[p] \in Row /\ call[c].want[p] \in Row
        /\ call[c].want[p].used = call[c].was[p].used
    BY <1>3 DEF Sync, PackageTypes, InHand
  <2>2. meta'[p] = Written(call[c].was[p], call[c].want[p], meta[p])
    BY <1>3 DEF Sync
  <2> QED
    BY <1>0, <2>1, <2>2, WrittenRow
<1>4. ASSUME NEW c \in Call, Record(c) PROVE meta[p].used = None
  BY <1>0, <1>4 DEF Record, Row
<1>5. ASSUME NEW c \in Call, Store(c) PROVE meta[p].used = None
  <2>1. CASE call[c].p # p
    BY <1>0, <1>5, <2>1 DEF Store
  <2>2. CASE call[c].p = p
    <3>1. call[c].was \in Row /\ call[c].want \in Content
      BY <1>5 DEF Store, At, PackageTypes, InHand
    <3>2. Refreshed(c) \in Row /\ Refreshed(c).used = call[c].was.used
      BY <3>1 DEF Refreshed, Row
    <3>3. meta'[p] = Written(call[c].was, Refreshed(c), meta[p])
      BY <1>0, <1>5, <2>2 DEF Store
    <3> QED
      BY <1>0, <3>1, <3>2, <3>3, WrittenRow
  <2> QED
    BY <2>1, <2>2
<1>6. ASSUME NEW c \in Call, CallStep(c)
      PROVE  UNCHANGED meta \/ Sync(c) \/ Record(c) \/ Store(c)
  BY <1>6 DEF CallStep, Begin, SelectHistory, DropHistory, Walk, ReadNames, Choose,
              BeginDelete, Remove, Skip, BeginUpload, Replace, Load, Fail
<1>7. CASE \E c \in Call : CallStep(c)
  BY <1>1, <1>3, <1>4, <1>5, <1>6, <1>7
<1>8. CASE ~ \E c \in Call : CallStep(c)
  BY <1>1, <1>2, <1>8 DEF PackagesNext, packagesVars, Start, ExecutePlan, Finish
<1> QED
  BY <1>7, <1>8

\* A cleanup does not choose what was uploaded before it walked.
LEMMA ChosenStep ==
    ASSUME PackageTypes, Walked, Chosen, [PackagesNext]_packagesVars
    PROVE  Chosen'
<1> SUFFICES ASSUME NEW c \in Call, call'[c].pc = "remove", call'[c].op # "delete",
                    NEW p \in Package, p \in call'[c].todo, p \in call'[c].fresh,
                    meta'[p].used = None
             PROVE  mtime'[p] # Now
  <2>1. \A c \in Call : call'[c].fresh \subseteq Package
    BY CallTypes DEF Calls
  <2> QED
    BY <2>1 DEF Chosen, At
<1>1. \A b \in Call : ~Moves(b, p)
  BY MoveIsNoticed
<1>2. mtime'[p] = mtime[p] /\ meta[p].used = None
  BY <1>1, FileStays, UsedStays
<1>3. CASE /\ call[c].pc = "remove" /\ call[c].op = call'[c].op
           /\ p \in call[c].todo /\ p \in call[c].fresh
  BY <1>2, <1>3 DEF Chosen, At
<1>4. CASE Choose(c) /\ p \in call[c].fresh /\ IsCandidate(p, call[c].names)
  <2>1. New(p) => meta[p].uploaded = Now
    BY <1>4 DEF Choose, Walked, At
  <2>2. On(p) /\ Now - meta[p].uploaded > KeepUnused
    BY <1>2, <1>4 DEF IsCandidate, Expired
  <2>3. meta[p].uploaded # Now
    BY <2>2, PackagesAssumption
  <2> QED
    BY <1>2, <2>1, <2>2, <2>3 DEF New
<1>5. CASE CallStep(c)
  BY <1>3, <1>4, <1>5, Advances
<1>6. ASSUME NEW a \in Call, CallStep(a), a # c PROVE mtime'[p] # Now
  <2>1. /\ call[c].pc = "remove" /\ call[c].op = call'[c].op
        /\ p \in call[c].todo /\ p \in call[c].fresh
    BY <1>6, OthersStay
  <2> QED
    BY <2>1, <1>3
<1>7. CASE UNCHANGED call
  BY <1>3, <1>7
<1> QED
  BY <1>5, <1>6, <1>7 DEF PackagesNext, packagesVars, Start, ExecutePlan, Finish

-----------------------------------------------------------------------------
(* What is needed. *)

\* The next number is free, and all below it are taken.
LEMMA NextIsNew ==
    ASSUME PackageTypes, Numbered, NextSlot \in Slot
    PROVE  NextSlot \notin Started /\ \A d \in Slot : d < NextSlot => d \in Started
<1>1. IsFiniteSet(Slot) /\ Started \subseteq Slot /\ Deployments \in Nat
  BY FS_Interval, PackagesAssumption DEF Slot, Started
<1>2. IsFiniteSet(Started) /\ Cardinality(Started) \in Nat
  BY <1>1, FS_Subset, FS_CardinalityType
<1>3. ASSUME NextSlot \in Started PROVE FALSE
  <2>1. 1 .. NextSlot \subseteq Started
    BY <1>1, <1>2, <1>3 DEF Slot, Numbered, NextSlot
  <2>2. Cardinality(1 .. NextSlot) = NextSlot
    BY <1>2, FS_Interval DEF NextSlot
  <2> QED
    BY <1>2, <2>1, <2>2, FS_Subset DEF NextSlot
<1>4. ASSUME NEW d \in Slot, d < NextSlot, d \notin Started PROVE FALSE
  <2>1. Started \subseteq 1 .. d - 1
    <3>1. ASSUME NEW e \in Started PROVE e \in 1 .. d - 1
      <4>1. e \in Slot /\ ~(d < e) /\ e # d
        BY <1>1, <1>4, <3>1 DEF Numbered
      <4> QED
        BY <1>1, <4>1 DEF Slot
    <3> QED
      BY <3>1
  <2>2. IsFiniteSet(1 .. d - 1) /\ Cardinality(1 .. d - 1) = d - 1
    BY <1>1, <1>4, FS_Interval DEF Slot
  <2>3. Cardinality(Started) <= d - 1
    BY <2>1, <2>2, FS_Subset
  <2> QED
    BY <1>1, <1>2, <1>4, <2>3 DEF NextSlot, Slot
<1> QED
  BY <1>3, <1>4

\* What has started does not become new again, keeps its package and its name, and is
\* excused for good.
LEMMA StartedStays ==
    ASSUME PackageTypes, Numbered, [PackagesNext]_packagesVars, NEW d \in Started
    PROVE  /\ d \in Started' /\ (dep'[d].p = dep[d].p \/ Excused(d)')
           /\ Excused(d) => Excused(d)'
<1>0. d \in Slot /\ dep[d].state # "none" /\ dep \in [Slot -> Releases] /\ dep[d] \in Releases
  BY DEF Started, PackageTypes
<1>1. CASE dep'[d] = dep[d]
  BY <1>0, <1>1 DEF Started, Excused
<1>2. CASE dep'[d].state = "over"
  BY <1>0, <1>2 DEF Started, Excused
<1>3. ASSUME NEW p \in Package, NEW state, NEW named, NEW noted, Start(p, state, named, noted)
      PROVE  dep'[d] = dep[d]
  <2>1. NextSlot \in Slot /\ NextSlot # d
    BY <1>3, NextIsNew DEF Start
  <2> QED
    BY <1>0, <1>3, <2>1 DEF Start
<1>4. ASSUME NEW e \in Slot, NEW named, ExecutePlan(e, named)
      PROVE  dep'[d] = dep[d] \/ dep'[d].state = "over"
  <2>1. NextSlot \in Slot /\ NextSlot # d
    BY <1>4, NextIsNew DEF ExecutePlan
  <2>2. CASE d = e
    BY <1>0, <1>4, <2>1, <2>2 DEF ExecutePlan, Over, Unused
  <2>3. CASE d # e
    BY <1>0, <1>4, <2>1, <2>3 DEF ExecutePlan
  <2> QED
    BY <2>2, <2>3
<1>5. ASSUME NEW e \in Slot, NEW state \in {"success", "failed", "canceled"}, Finish(e, state)
      PROVE  \/ dep'[d] = dep[d] \/ dep'[d].state = "over"
             \/ /\ dep[d].state = "active" /\ dep'[d].state = state
                /\ dep'[d].p = dep[d].p /\ dep'[d].named = dep[d].named
  <2>1. CASE d # e
    BY <1>0, <1>5, <2>1 DEF Finish
  <2>2. CASE d = e /\ state = "canceled"
    BY <1>0, <1>5, <2>2 DEF Finish, Over, Unused
  <2>3. CASE d = e /\ state # "canceled"
    <3>1. dep[d].state = "active" /\ dep'[d] = [dep[d] EXCEPT !.state = state]
      BY <1>0, <1>5, <2>3 DEF Finish
    <3> QED
      BY <1>0, <3>1 DEF Releases
  <2> QED
    BY <2>1, <2>2, <2>3
<1>6. ASSUME NEW c \in Call, DropHistory(c)
      PROVE  \/ dep'[d] = dep[d] \/ dep'[d].state = "over"
             \/ dep'[d].state = "forgotten" /\ dep'[d].p = dep[d].p
  BY <1>0, <1>6 DEF DropHistory, Over, Unused
<1>7. ASSUME NEW c \in Call, CallStep(c) PROVE UNCHANGED dep \/ DropHistory(c)
  BY <1>7 DEF CallStep, Begin, SelectHistory, Walk, Sync, ReadNames, Choose, BeginDelete,
              Remove, Skip, Record, BeginUpload, Replace, Load, Store, Fail
<1>8. ASSUME \/ dep'[d].state = "forgotten" /\ dep'[d].p = dep[d].p
             \/ /\ dep[d].state = "active" /\ dep'[d].state \in {"success", "failed", "canceled"}
                /\ dep'[d].p = dep[d].p /\ dep'[d].named = dep[d].named
      PROVE  /\ d \in Started' /\ (dep'[d].p = dep[d].p \/ Excused(d)')
             /\ Excused(d) => Excused(d)'
  BY <1>0, <1>8 DEF Started, Excused
<1>9. CASE \E c \in Call : CallStep(c)
  BY <1>1, <1>2, <1>6, <1>7, <1>8, <1>9
<1>10. CASE ~ \E c \in Call : CallStep(c)
  BY <1>1, <1>2, <1>3, <1>4, <1>5, <1>8, <1>10 DEF PackagesNext, packagesVars
<1> QED
  BY <1>9, <1>10

\* Numbers are given in order, and calls read those that were given.
LEMMA NumberedStep ==
    ASSUME PackageTypes, Numbered, [PackagesNext]_packagesVars
    PROVE  Numbered'
<1>0. Started \subseteq Started' /\ Started \subseteq Slot /\ dep \in [Slot -> Releases]
  <2>1. \A d \in Started : d \in Started'
    BY StartedStays
  <2> QED
    BY <2>1 DEF Started, PackageTypes
<1>1. Started' = Started \/ (NextSlot \in Slot /\ Started' \subseteq Started \cup {NextSlot})
  <2>1. ASSUME NEW p \in Package, NEW state, NEW named, NEW noted, Start(p, state, named, noted)
        PROVE  NextSlot \in Slot /\ Started' \subseteq Started \cup {NextSlot}
    <3>1. \A d \in Slot \ {NextSlot} : dep'[d] = dep[d]
      BY <1>0, <2>1 DEF Start
    <3> QED
      BY <2>1, <3>1 DEF Start, Started
  <2>2. ASSUME NEW e \in Slot, NEW named, ExecutePlan(e, named)
        PROVE  NextSlot \in Slot /\ Started' \subseteq Started \cup {NextSlot}
    <3>1. \A d \in Slot \ {NextSlot, e} : dep'[d] = dep[d]
      BY <1>0, <2>2 DEF ExecutePlan
    <3>2. e \in Started
      BY <2>2 DEF ExecutePlan, Started
    <3> QED
      BY <2>2, <3>1, <3>2 DEF ExecutePlan, Started
  <2>3. ASSUME NEW e \in Slot, NEW state, Finish(e, state) PROVE Started' = Started
    <3>1. \A d \in Slot \ {e} : dep'[d] = dep[d]
      BY <1>0, <2>3 DEF Finish
    <3>2. e \in Started
      BY <2>3 DEF Finish, Started
    <3> QED
      BY <1>0, <3>1, <3>2 DEF Started
  <2>4. ASSUME NEW c \in Call, DropHistory(c) PROVE Started' = Started
    <3>1. call[c].ids \subseteq Started
      BY <2>4 DEF DropHistory, Numbered
    <3>2. \A d \in Slot \ call[c].ids : dep'[d] = dep[d]
      BY <2>4 DEF DropHistory
    <3> QED
      BY <1>0, <3>1, <3>2 DEF Started
  <2>5. ASSUME UNCHANGED dep PROVE Started' = Started
    BY <2>5 DEF Started
  <2>6. ASSUME NEW c \in Call, CallStep(c) PROVE UNCHANGED dep \/ DropHistory(c)
    BY <2>6 DEF CallStep, Begin, SelectHistory, Walk, Sync, ReadNames, Choose, BeginDelete,
                Remove, Skip, Record, BeginUpload, Replace, Load, Store, Fail
  <2> QED
    BY <2>1, <2>2, <2>3, <2>4, <2>5, <2>6 DEF PackagesNext, packagesVars
<1>2. ASSUME NEW d \in Slot, NEW e \in Slot, d < e, e \in Started' PROVE d \in Started'
  <2>1. CASE e \in Started
    BY <1>0, <1>2, <2>1 DEF Numbered
  <2>2. CASE e \notin Started
    <3>1. e = NextSlot /\ NextSlot \in Slot
      BY <1>1, <1>2, <2>2
    <3> QED
      BY <1>0, <1>2, <3>1, NextIsNew
  <2> QED
    BY <2>1, <2>2
<1>3. ASSUME NEW c \in Call
      PROVE  /\ At(c, "drop")' => call'[c].ids \subseteq Started'
             /\ call'[c].pc \in {"choose", "remove"} => call'[c].seen \subseteq Started'
  <2>1. CASE call'[c].pc = call[c].pc /\ call'[c].ids = call[c].ids /\ call'[c].seen = call[c].seen
    BY <1>0, <2>1 DEF Numbered, At
  <2>2. CASE CallStep(c)
    <3>1. {d \in Slot : Goes(d)} \subseteq Started /\ Needing \subseteq Started
      BY DEF Goes, Started, Needing, InState, Retried, Latest
    <3>2. call'[c].pc = "drop" => call'[c].ids \subseteq Started
      BY <2>2, <3>1, Advances
    <3>3. call'[c].pc \in {"choose", "remove"} =>
              \/ call'[c].seen = Needing
              \/ call'[c].seen = call[c].seen /\ call[c].pc \in {"choose", "remove"}
      BY <2>2, Advances DEF Choose, At
    <3> QED
      BY <1>0, <3>1, <3>2, <3>3 DEF Numbered, At
  <2>3. ASSUME NEW a \in Call, CallStep(a), a # c
        PROVE  /\ call'[c].pc = call[c].pc /\ call'[c].ids = call[c].ids
               /\ call'[c].seen = call[c].seen
    BY <2>3, OthersStay
  <2> QED
    BY <2>1, <2>2, <2>3 DEF PackagesNext, packagesVars, Start, ExecutePlan, Finish
<1> QED
  BY <1>2, <1>3 DEF Numbered

\* Of what is needed a call reads the names.
LEMMA NamesAreRead ==
    ASSUME PackageTypes, NEW d \in Needing
    PROVE  Excused(d) \/ dep[d].p \in ProtectedNames
<1>1. d \in Slot /\ IsFiniteSet(Slot)
  <2>1. Deployments \in Int /\ 1 \in Int
    BY PackagesAssumption
  <2>2. IsFiniteSet(Slot)
    BY <2>1, FS_Interval DEF Slot
  <2> QED
    BY <2>2 DEF Needing, InState, Retried, Latest
<1>2. ASSUME d \in Latest({"success", "forgotten"}), dep[d].state = "success"
      PROVE  d \in Latest({"success"})
  <2>1. Later(d, {"success"}) \subseteq Later(d, {"success", "forgotten"})
    BY DEF Later, InState
  <2>2. IsFiniteSet(Later(d, {"success", "forgotten"}))
    BY <1>1, FS_Subset DEF Later, InState
  <2>3. /\ Cardinality(Later(d, {"success"})) <= Cardinality(Later(d, {"success", "forgotten"}))
        /\ Cardinality(Later(d, {"success"})) \in Nat
        /\ Cardinality(Later(d, {"success", "forgotten"})) \in Nat
    BY <2>1, <2>2, FS_Subset, FS_CardinalityType
  <2>4. KeepLatest \in Nat
    BY PackagesAssumption
  <2> QED
    BY <1>1, <1>2, <2>3, <2>4 DEF Latest, InState
<1>3. \/ dep[d].state \in {"active", "planned", "forgotten"}
      \/ d \in Retried \/ d \in Latest({"success"})
  BY <1>2 DEF Needing, InState, Latest
<1>4. Excused(d) \/ d \in Protecting
  BY <1>1, <1>3 DEF Excused, Protecting, InState, PackageTypes, Releases
<1> QED
  BY <1>4 DEF ProtectedNames

\* What c found needed it does not remove.
LEMMA ProtectedStep ==
    ASSUME PackageTypes, Numbered, Protected, [PackagesNext]_packagesVars
    PROVE  Protected'
<1> SUFFICES ASSUME NEW c \in Call, NEW d \in call'[c].seen
             PROVE  /\ At(c, "choose")' => Excused(d)' \/ dep'[d].p \in call'[c].names
                    /\ At(c, "remove")' => Excused(d)' \/ dep'[d].p \notin call'[c].todo
  BY DEF Protected
<1>1. CASE /\ call'[c].pc = call[c].pc /\ d \in call[c].seen /\ call'[c].names = call[c].names
           /\ call'[c].todo \subseteq call[c].todo
  <2>1. call[c].pc \in {"choose", "remove"} => d \in Started
    BY <1>1 DEF Numbered
  <2>2. /\ At(c, "choose") => Excused(d) \/ dep[d].p \in call[c].names
        /\ At(c, "remove") => Excused(d) \/ dep[d].p \notin call[c].todo
    BY <1>1 DEF Protected
  <2> QED
    BY <1>1, <2>1, <2>2, StartedStays DEF At
<1>2. CASE CallStep(c)
  <2>1. CASE call'[c].pc = "choose"
    <3>1. /\ call'[c].names = ProtectedNames /\ d \in Needing /\ dep' = dep
      BY <1>2, <2>1, Advances DEF ReadNames
    <3> QED
      BY <2>1, <3>1, NamesAreRead DEF At, Excused
  <2>2. CASE Choose(c) /\ call'[c].pc = "remove" /\ call'[c].seen = call[c].seen
             /\ call'[c].todo = {q \in Package : IsCandidate(q, call[c].names)}
    <3>1. Excused(d) \/ dep[d].p \in call[c].names
      BY <2>2 DEF Choose, Protected
    <3>2. dep' = dep /\ \A q \in call'[c].todo : q \notin call[c].names
      BY <2>2 DEF Choose, IsCandidate
    <3> QED
      BY <2>2, <3>1, <3>2 DEF At, Excused
  <2>3. ASSUME NEW q \in Package, BeginDelete(c, q), call'[c].pc = "remove",
               call'[c].todo = {q}, call'[c].seen = Needing
        PROVE  Excused(d)' \/ dep'[d].p \notin call'[c].todo
    <3>1. dep' = dep /\ q \notin ProtectedNames
      BY <2>3 DEF BeginDelete
    <3> QED
      BY <2>3, <3>1, NamesAreRead DEF Excused
  <2>4. CASE /\ call'[c].pc = "remove" /\ call[c].pc = "remove" /\ call'[c].seen = call[c].seen
             /\ call'[c].todo \subseteq call[c].todo
    <3>1. d \in Started /\ (Excused(d) \/ dep[d].p \notin call[c].todo)
      BY <2>4 DEF Numbered, Protected, At
    <3> QED
      BY <2>4, <3>1, StartedStays DEF At
  <2>5. call'[c].pc = "remove" =>
            \/ Choose(c) /\ call'[c].pc = "remove" /\ call'[c].seen = call[c].seen
               /\ call'[c].todo = {q \in Package : IsCandidate(q, call[c].names)}
            \/ \E q \in Package : /\ BeginDelete(c, q) /\ call'[c].pc = "remove"
                                  /\ call'[c].todo = {q} /\ call'[c].seen = Needing
            \/ /\ call'[c].pc = "remove" /\ call[c].pc = "remove"
               /\ call'[c].seen = call[c].seen /\ call'[c].todo \subseteq call[c].todo
    BY <1>2, Advances
  <2> QED
    BY <2>1, <2>2, <2>3, <2>4, <2>5 DEF At
<1>3. ASSUME NEW a \in Call, CallStep(a), a # c
      PROVE  /\ call'[c].pc = call[c].pc /\ d \in call[c].seen
             /\ call'[c].names = call[c].names /\ call'[c].todo \subseteq call[c].todo
  BY <1>3, OthersStay
<1> QED
  BY <1>1, <1>2, <1>3 DEF PackagesNext, packagesVars, Start, ExecutePlan, Finish

\* At the start nothing is in hand, and the rows were just looked at.
LEMMA PackagesStart ==
    ASSUME PackagesInit
    PROVE  PackagesInv
<1>0. PICK used \in [Package -> Past \cup {None}], hand \in SUBSET Package :
          meta = [p \in Package |->
                     [deleted |-> ~On(p), protected |-> p \in hand, sha |-> 0,
                      uploaded |-> mtime[p], used |-> used[p]]]
  BY DEF PackagesInit
<1>1. Past \subseteq Time /\ 0 \in Content /\ MaxCalls \in Nat /\ Now \in Nat
  BY PackagesAssumption DEF Past, Time, Content
<1>2. \A c \in Call : call[c] = Idle
  BY DEF PackagesInit
<1>3. file \in [Package -> Content \cup {None}] /\ mtime \in [Package -> Time]
  BY <1>1 DEF PackagesInit
<1>4. meta \in [Package -> Row]
  BY <1>0, <1>1, <1>3 DEF Row
<1>5. dep \in [Slot -> Releases]
  <2>1. {Unused} \cup Earlier \subseteq Releases
    <3>1. 0 \in Time
      BY <1>1 DEF Time
    <3>2. Unused \in Releases /\ Over \in Releases
      BY <3>1 DEF Unused, Over, Releases
    <3>3. [state : {"success", "failed"}, p : Package, named : BOOLEAN, at : Past]
              \subseteq Releases
      BY <1>1 DEF Releases
    <3>4. [state : {"planned"}, p : Package, named : {TRUE}, at : Past] \subseteq Releases
      BY <1>1 DEF Releases
    <3> QED
      BY <3>2, <3>3, <3>4 DEF Earlier
  <2> QED
    BY <2>1 DEF PackagesInit
<1>6. Idle \in Calls
  BY DEF Idle, Calls, Places, Loaded, Wanted
<1>7. call \in [Call -> Calls]
  BY <1>6 DEF PackagesInit
<1>8. PackageTypes
  <2>1. \A d \in Slot : dep[d] \in Releases
    BY <1>5
  <2>2. InHand
    BY <1>2 DEF InHand, At, Idle
  <2>3. PackagesTypeOK
    BY <1>1, <1>2, <1>3, <1>4, <2>1 DEF PackagesTypeOK, PackagesInit, Releases, Idle
  <2> QED
    BY <1>5, <1>7, <2>2, <2>3 DEF PackageTypes
<1>9. Uncrossed
  <2>1. \A p \in Package : Known(p)
    BY <1>2 DEF Known, Idle, At
  <2>2. ASSUME NEW p \in Package PROVE Right(p, meta[p])
    <3>1. meta[p].deleted = ~On(p) /\ meta[p].sha = 0
      BY <1>0
    <3>2. file[p] \in {0, None}
      BY DEF PackagesInit
    <3> QED
      BY <3>1, <3>2 DEF Right, On
  <2> QED
    BY <2>1, <2>2 DEF Uncrossed
<1>10. Walked /\ Chosen
  BY <1>2 DEF Walked, Chosen, Idle, At
<1>11. Protected
  BY <1>2 DEF Protected, Idle, At
<1>12. Numbered
  <2>1. ASSUME NEW d \in Slot, NEW e \in Slot, d < e, e \in Started PROVE d \in Started
    <3>1. dep[e] # Unused
      BY <2>1 DEF Started, Unused
    <3>2. dep[d] # Unused /\ dep[d] \in {Unused} \cup Earlier
      BY <2>1, <3>1 DEF PackagesInit
    <3> QED
      BY <3>2 DEF Started, Earlier, Over, Unused
  <2>2. \A c \in Call : ~At(c, "drop") /\ call[c].pc \notin {"choose", "remove"}
    BY <1>2 DEF Idle, At
  <2> QED
    BY <2>1, <2>2 DEF Numbered
<1> QED
  BY <1>8, <1>9, <1>10, <1>11, <1>12 DEF PackagesInv

\* No step of PackagesNext breaks the invariant.
THEOREM PackagesInductive == PackagesSpec => []PackagesInv
<1>1. PackagesInit => PackagesInv
  BY PackagesStart
<1>2. PackagesInv /\ [PackagesNext]_packagesVars => PackagesInv'
  BY PackageTypesStep, UncrossedStep, WalkedStep, ChosenStep, NumberedStep, ProtectedStep
     DEF PackagesInv
<1> QED
  BY <1>1, <1>2, PTL DEF PackagesSpec

\* Where no call is at work on a package, and none crossed another there or failed
\* since the last walk, its row says whether the file is there and what is in it
\* (sync_package_metadata, upsert_package_metadata, delete_package).
THEOREM RowsAreRight == PackagesSpec => []RowsMatchFiles
<1>1. ASSUME PackagesInv PROVE RowsMatchFiles
  <2> SUFFICES ASSUME NEW p \in Package \ crossed, \A c \in Call : ~Touches(c, p)
               PROVE  Right(p, meta[p])
    BY DEF RowsMatchFiles, Right
  <2>1. \A e \in Call : ~Owes(e, p)
    BY DEF Owes, Touches, At
  <2> QED
    BY <1>1, <2>1 DEF PackagesInv, Uncrossed
<1> QED
  BY <1>1, PackagesInductive, PTL

\* cleanup_packages and delete_package do not remove a package that was needed when
\* they read the deployments, unless the deployment goes by another version or its
\* row is gone, and no cleanup removes what was uploaded before it walked.
THEOREM RemovalsDue == PackagesSpec => RemovalsAreDue
<1>1. ASSUME PackagesInv, NEW c \in Call, NEW p \in Package, Removes(c, p)
      PROVE  NeededIsKept(c, p) /\ FreshIsKept(c, p)
  <2>1. At(c, "remove") /\ p \in call[c].todo /\ PackageTypes
    BY <1>1 DEF Removes, PackagesInv
  <2>2. ASSUME NEW d \in Needing \cap call[c].seen, dep[d].p = p
        PROVE  dep[d].state = "forgotten" \/ ~dep[d].named
    <3>1. Excused(d)
      BY <1>1, <2>1, <2>2 DEF PackagesInv, Protected
    <3>2. dep[d].state # "over"
      BY <2>2 DEF Needing, InState, Retried, Latest
    <3> QED
      BY <3>1, <3>2 DEF Excused
  <2>3. FreshIsKept(c, p)
    BY <1>1, <2>1 DEF PackagesInv, Chosen, FreshIsKept
  <2> QED
    BY <2>2, <2>3 DEF NeededIsKept
<1>2. PackagesInv /\ [PackagesNext]_packagesVars =>
          [\A c \in Call, p \in Package :
               Removes(c, p) => NeededIsKept(c, p) /\ FreshIsKept(c, p)]_packagesVars
  BY <1>1
<1> QED
  BY <1>2, PackagesInductive, PTL DEF PackagesSpec, RemovalsAreDue
=============================================================================
