----------------------------- MODULE CleanupJob -----------------------------
(***************************************************************************)
(* One SQL cleanup job: CleanupService of app/maintenance/service.py, its  *)
(* endpoints in app/api/maintenance.py, the loops it runs in threads, the  *)
(* recovery main.py calls at start-up and the deletion from the task       *)
(* centre.                                                                 *)
(*                                                                         *)
(* Handlers run in threads.  A handler decides on the row it loaded and    *)
(* writes the row by its id in a later commit.  A loop works on a view of  *)
(* the row: the session reloads the object only after a commit, at the     *)
(* first attribute that is used, so what the top of the loop tests was     *)
(* read right after the last batch, before the pause between batches.  Any *)
(* commit of a loop or of a dry run may raise.                             *)
(***************************************************************************)
EXTENDS Naturals, FiniteSets

CONSTANTS Session,      \* calls of handlers that may be in progress at a time
          Loop,         \* threads that may run the job at a time
          Matching,     \* rows of the target table older than the cutoff
          BatchSize, MaxDelete,
          MaxRestarts

ASSUME CleanupAssumption ==
    /\ Matching \in Nat /\ BatchSize \in Nat \ {0} /\ MaxDelete \in Nat \ {0}
    /\ MaxRestarts \in Nat /\ IsFiniteSet(Loop)

VARIABLES
    status, deleted,    \* columns of the CleanupJob row; "gone" when it is deleted
    assessed,           \* dry_run_result is there
    approved,           \* approved_by is there
    left,               \* rows of the target table that still match
    pc,                 \* session -> what it has decided and will write
    lpc,                \* loop -> where it stands, "none" for no thread
    view,               \* loop -> the columns it has loaded
    size, got,          \* loop -> rows it may delete, rows the batch deleted
    restarts,
    overlapped,         \* history: two loops were alive at a time
    torn,               \* history: a batch was deleted and never recorded
    broke,              \* history: a thread or a dry run ended on an exception unwritten
    late                \* history: loop -> batches since the job stopped running

row == <<status, deleted, assessed, approved>>
thread == <<lpc, view, size, got>>
history == <<overlapped, torn, broke, late>>
vars == <<row, left, pc, thread, restarts, history>>

Init ==
    /\ status = "draft" /\ deleted = 0 /\ assessed = FALSE /\ approved = FALSE
    /\ left = Matching
    /\ pc = [s \in Session |-> "idle"]
    /\ lpc = [l \in Loop |-> "none"]
    /\ view = [l \in Loop |-> [running |-> FALSE, deleted |-> 0]]
    /\ size = [l \in Loop |-> 0] /\ got = [l \in Loop |-> 0]
    /\ restarts = 0
    /\ overlapped = FALSE /\ torn = FALSE /\ broke = FALSE
    /\ late = [l \in Loop |-> 0]

Alive == {l \in Loop : lpc[l] # "none"}
Deletions == Matching - left

\* Threads have no names in the code: a new one takes the first free place.
Fresh == CHOOSE l \in Loop : lpc[l] = "none"

\* A commit that sets the status by id: no effect on a row that is gone.  A job
\* that runs again has no late batches.
SetStatus(x) ==
    /\ status' = IF status = "gone" THEN "gone" ELSE x
    /\ late' = IF x = "running" THEN [l \in Loop |-> 0] ELSE late

-----------------------------------------------------------------------------
(* The handlers.                                                           *)

Ops == {"dry_run", "submit", "approve", "reject", "start", "pause", "resume", "cancel"}

From(op) ==
    CASE op = "dry_run" -> {"draft", "ready"}
      [] op = "submit"  -> {"ready"}
      [] op = "approve" -> {"pending_approval", "ready"}
      [] op = "reject"  -> {"pending_approval"}
      [] op = "start"   -> {"approved"}
      [] op = "pause"   -> {"running"}
      [] op = "resume"  -> {"paused"}
      [] op = "cancel"  -> {"draft", "ready", "pending_approval", "approved",
                            "paused", "running"}

To == [dry_run |-> "dry_running", submit |-> "pending_approval",
       approve |-> "approved", reject |-> "draft", start |-> "running",
       pause |-> "paused", resume |-> "running", cancel |-> "cancelled"]


\* The row must have been assessed and approved to be started or resumed.  (A
\* start is refused outside the execution window; the time of day is free.)
Needs(op) == op \in {"start", "resume"} => assessed /\ approved

Decide(s, op) ==
    /\ pc[s] = "idle" /\ status \in From(op) /\ Needs(op)
    /\ pc' = [pc EXCEPT ![s] = op]
    /\ UNCHANGED <<row, left, thread, restarts, history>>

\* dry_run to approve, pause and cancel: one commit and the call is over,
\* except that a dry run now queries the target.  On a row that is gone the
\* commit raises.
Apply(s) ==
    /\ pc[s] \in Ops \ {"start", "resume"}
    /\ SetStatus(To[pc[s]])
    /\ approved' = (approved \/ pc[s] = "approve")
    /\ pc' = [pc EXCEPT ![s] = IF @ = "dry_run" /\ status # "gone"
                               THEN "querying" ELSE "idle"]
    /\ UNCHANGED <<deleted, assessed, left, thread, restarts,
                   overlapped, torn, broke>>

DryRunEnds(s) ==
    /\ pc[s] = "querying"
    /\ \E ok \in BOOLEAN : /\ SetStatus(IF ok THEN "ready" ELSE "draft")
                           /\ assessed' = (assessed \/ ok)
    /\ pc' = [pc EXCEPT ![s] = "idle"]
    /\ UNCHANGED <<deleted, approved, left, thread, restarts,
                   overlapped, torn, broke>>

\* The result cannot be written, and neither can the failure.
DryRunBreaks(s) ==
    /\ pc[s] = "querying"
    /\ pc' = [pc EXCEPT ![s] = "idle"] /\ broke' = TRUE
    /\ UNCHANGED <<row, left, thread, restarts, overlapped, torn, late>>

\* start and resume: the commit, then a thread for the loop.
Launch(s, l) ==
    /\ pc[s] \in {"start", "resume"} /\ status # "gone"
    /\ Alive # Loop /\ l = Fresh
    /\ SetStatus("running")
    /\ lpc' = [lpc EXCEPT ![l] = "boot"]
    /\ overlapped' = (overlapped \/ Alive # {})
    /\ pc' = [pc EXCEPT ![s] = "idle"]
    /\ UNCHANGED <<deleted, assessed, approved, left, view, size, got,
                   restarts, torn, broke>>

LaunchFails(s) ==
    /\ pc[s] \in {"start", "resume"} /\ status = "gone"
    /\ pc' = [pc EXCEPT ![s] = "idle"]
    /\ UNCHANGED <<row, left, thread, restarts, history>>

\* delete_runtime_tasks; an active job is deleted by force.
DeleteJob ==
    /\ status # "gone" /\ status' = "gone"
    /\ UNCHANGED <<deleted, assessed, approved, left, pc, thread, restarts, history>>

-----------------------------------------------------------------------------
(* The loop.                                                               *)

NoView == [running |-> FALSE, deleted |-> 0]

\* The thread of loop l goes on at `where', or ends.
Continues(l, where) ==
    /\ lpc' = [lpc EXCEPT ![l] = where]
    /\ UNCHANGED <<view, size, got>>

Ends(l) ==
    /\ lpc' = [lpc EXCEPT ![l] = "none"]
    /\ view' = [view EXCEPT ![l] = NoView]
    /\ size' = [size EXCEPT ![l] = 0] /\ got' = [got EXCEPT ![l] = 0]

\* Mutant: the status is not loaded again.
LoadsCount(l) ==
    view' = [view EXCEPT ![l] = [running |-> TRUE, deleted |-> deleted]]

Loads(l) ==
    view' = [view EXCEPT ![l] = [running |-> status = "running", deleted |-> deleted]]

LoopBoot(l) ==
    /\ lpc[l] = "boot" /\ status # "gone"
    /\ Loads(l) /\ lpc' = [lpc EXCEPT ![l] = "top"]
    /\ UNCHANGED <<row, left, pc, size, got, restarts, history>>

\* The row is gone, or the executor cannot be made (no such connection).
LoopBootFails(l) ==
    /\ lpc[l] = "boot" /\ Ends(l)
    /\ broke' = (broke \/ status # "gone")
    /\ UNCHANGED <<row, left, pc, restarts, overlapped, torn, late>>

LoopStops(l) ==
    /\ lpc[l] = "top" /\ ~view[l].running
    /\ Ends(l)
    /\ UNCHANGED <<row, left, pc, restarts, history>>

\* How much of the cap is left, by what the loop has loaded.
RemainingCap(l) ==
    IF view[l].deleted >= MaxDelete THEN 0 ELSE MaxDelete - view[l].deleted

\* Outside the window (at any time), or the cap used up: the job is paused,
\* whatever it is now.
LoopPauses(l) ==
    /\ lpc[l] = "top" /\ view[l].running
    /\ SetStatus("paused") /\ Ends(l)
    /\ UNCHANGED <<deleted, assessed, approved, left, pc, restarts,
                   overlapped, torn, broke>>

LoopProceeds(l) ==
    /\ lpc[l] = "top" /\ view[l].running
    /\ RemainingCap(l) > 0
    /\ size' = [size EXCEPT ![l] = IF RemainingCap(l) < BatchSize
                                   THEN RemainingCap(l) ELSE BatchSize]
    /\ lpc' = [lpc EXCEPT ![l] = "deleting"]
    /\ UNCHANGED <<row, left, pc, view, got, restarts, history>>

\* delete_batch: the target database commits on its own.
LoopDeletes(l) ==
    /\ lpc[l] = "deleting"
    /\ LET n == IF left < size[l] THEN left ELSE size[l] IN
          /\ left' = left - n
          /\ got' = [got EXCEPT ![l] = n]
          /\ late' = [late EXCEPT ![l] = IF status = "running" \/ n = 0 THEN @ ELSE @ + 1]
    /\ lpc' = [lpc EXCEPT ![l] = "deleted"]
    /\ UNCHANGED <<row, pc, view, size, restarts, overlapped, torn, broke>>

\* A batch deleted and not recorded.
Tears(l) == lpc[l] = "deleted" /\ got[l] > 0

\* The batch raises, or a commit after it: the row says failed, and what the
\* batch deleted is not counted.
LoopFails(l) ==
    /\ lpc[l] \in {"deleting", "deleted", "recorded", "capped"}
    /\ SetStatus("failed") /\ Ends(l)
    /\ torn' = (torn \/ Tears(l))
    /\ UNCHANGED <<deleted, assessed, approved, left, pc, restarts, overlapped, broke>>

\* Nor can that be written (the row is gone, or the database refuses), or the
\* commit of a pause at the top raises: the thread ends and the row stays.
LoopDies(l) ==
    /\ lpc[l] \in {"top", "deleting", "deleted", "recorded", "capped"}
    /\ Ends(l)
    /\ broke' = (broke \/ status # "gone") /\ torn' = (torn \/ Tears(l))
    /\ UNCHANGED <<row, left, pc, restarts, overlapped, late>>

\* Mutant: the count of the last batch replaces the count of the job.
CountsTheBatch(l) == got[l]

NewCount(l) == view[l].deleted + got[l]

\* The batch row and the new count, computed from the count that was loaded; a
\* count that does not change is not written.
LoopRecords(l) ==
    /\ lpc[l] = "deleted" /\ status # "gone"
    /\ deleted' = IF got[l] = 0 THEN deleted ELSE NewCount(l)
    /\ Continues(l, "recorded")
    /\ UNCHANGED <<status, assessed, approved, left, pc, restarts, history>>

LoopCompletes(l) ==
    /\ lpc[l] = "recorded" /\ status # "gone" /\ got[l] = 0
    /\ SetStatus("completed") /\ Ends(l)
    /\ UNCHANGED <<deleted, assessed, approved, left, pc, restarts,
                   overlapped, torn, broke>>

\* The row is loaded again for the test of the cap; then the loop sleeps and
\* tests, at the top, what it has loaded here.
LoopRefreshes(l) ==
    /\ lpc[l] = "recorded" /\ status # "gone" /\ got[l] > 0
    /\ Loads(l)
    /\ lpc' = [lpc EXCEPT ![l] = IF deleted >= MaxDelete THEN "capped" ELSE "top"]
    /\ size' = [size EXCEPT ![l] = 0] /\ got' = [got EXCEPT ![l] = 0]
    /\ UNCHANGED <<row, left, pc, restarts, history>>

LoopPausesAtCap(l) ==
    /\ lpc[l] = "capped"
    /\ SetStatus("paused") /\ Ends(l)
    /\ UNCHANGED <<deleted, assessed, approved, left, pc, restarts,
                   overlapped, torn, broke>>

LoopStep(l) ==
    \/ LoopBoot(l) \/ LoopBootFails(l) \/ LoopStops(l) \/ LoopPauses(l)
    \/ LoopProceeds(l) \/ LoopDeletes(l) \/ LoopFails(l) \/ LoopRecords(l)
    \/ LoopDies(l) \/ LoopCompletes(l) \/ LoopRefreshes(l) \/ LoopPausesAtCap(l)

-----------------------------------------------------------------------------
\* Mutant: nobody looks after the jobs that were running.
RecoversNothing == status

\* recover_interrupted_jobs.
Recovered == IF status = "running" THEN "paused" ELSE status

\* The process dies and comes up again: no handler and no thread is left.
Restart ==
    /\ restarts < MaxRestarts
    /\ restarts' = restarts + 1
    /\ status' = Recovered
    /\ torn' = (torn \/ \E l \in Loop : Tears(l))
    /\ pc' = [s \in Session |-> "idle"]
    /\ lpc' = [l \in Loop |-> "none"]
    /\ view' = [l \in Loop |-> NoView]
    /\ size' = [l \in Loop |-> 0] /\ got' = [l \in Loop |-> 0]
    /\ UNCHANGED <<deleted, assessed, approved, left, overlapped,
                   broke, late>>

SessionStep(s) ==
    \/ \E op \in Ops : Decide(s, op)
    \/ Apply(s) \/ DryRunEnds(s) \/ DryRunBreaks(s) \/ LaunchFails(s)
    \/ \E l \in Loop : Launch(s, l)

Next ==
    \/ \E s \in Session : SessionStep(s)
    \/ \E l \in Loop : LoopStep(l)
    \/ DeleteJob \/ Restart

Spec == Init /\ [][Next]_vars

-----------------------------------------------------------------------------
Statuses == {"draft", "dry_running", "ready", "pending_approval", "approved",
             "running", "paused", "completed", "failed", "cancelled", "gone"}

TypeOK ==
    /\ status \in Statuses /\ deleted \in Nat /\ left \in 0..Matching
    /\ assessed \in BOOLEAN /\ approved \in BOOLEAN
    /\ pc \in [Session -> Ops \cup {"idle", "querying"}]
    /\ lpc \in [Loop -> {"none", "boot", "top", "deleting", "deleted",
                         "recorded", "capped"}]
    /\ view \in [Loop -> [running : BOOLEAN, deleted : Nat]]
    /\ size \in [Loop -> 0..BatchSize] /\ got \in [Loop -> 0..BatchSize]
    /\ restarts \in 0..MaxRestarts /\ late \in [Loop -> Nat]
    /\ overlapped \in BOOLEAN /\ torn \in BOOLEAN /\ broke \in BOOLEAN

CountIsTrue ==
    overlapped \/ torn \/ status = "gone" \/
    LET inFlight == {l \in Loop : lpc[l] = "deleted"} IN
        /\ \A l \in inFlight : deleted + got[l] = Deletions
        /\ inFlight = {} => deleted = Deletions

CapHolds == overlapped \/ torn \/ Deletions <= MaxDelete

\* deleted_rows is what was deleted, but for the batch in flight, and no more than
\* max_delete_rows are deleted over all runs of the job, its pauses and
\* resumptions: as long as no two loops ran at a time and no crash or failing
\* commit fell between a batch and its record.
CountedAndCapped == CountIsTrue /\ CapHolds

\* Once the job stops running (paused, cancelled, failed, deleted), no loop
\* deletes more than the one batch it is about to delete.
StopsWithinABatch == \A l \in Loop : late[l] <= 1

\* A job shown as running has a thread, and one shown as being assessed has a
\* call that queries, unless one of them ended on an exception it could not write
\* or, for the assessment, the process died (recovery looks at running jobs only).
SomebodyWorks ==
    /\ status = "running" => broke \/ Alive # {}
    /\ status = "dry_running" =>
          broke \/ restarts > 0 \/ \E s \in Session : pc[s] = "querying"
=============================================================================
