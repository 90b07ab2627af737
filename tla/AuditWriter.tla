---------------------------- MODULE AuditWriter ----------------------------
(***************************************************************************)
(* The audit writer of app/services/audit_writer.py: a bounded queue of    *)
(* closures, one daemon thread that runs them, and the shutdown that       *)
(* main.py calls on its way out.  A record here is the closure that        *)
(* inserts it; a closure that raises has lost its record (it is logged).   *)
(***************************************************************************)
EXTENDS Naturals, Sequences

CONSTANTS Record, QueueSize, NoRecord

ASSUME AuditAssumption == QueueSize \in Nat \ {0} /\ NoRecord \notin Record

VARIABLES
    queue,      \* _audit_queue
    alive,      \* the writer thread lives
    busy,       \* the record it is writing
    closing,    \* where shutdown_audit_writer stands; the event is set unless "no"
    fate,       \* record -> what became of it
    lateComers  \* history: records submitted once the event was set

auditVars == <<queue, alive, busy, closing, fate, lateComers>>

AuditInit ==
    /\ queue = <<>> /\ alive = TRUE /\ busy = NoRecord /\ closing = "no"
    /\ fate = [r \in Record |-> "none"] /\ lateComers = {}

\* Runs the closure of r.
Runs(r) == \E x \in {"written", "failed"} : fate' = [fate EXCEPT ![r] = x]

\* submit_audit_write: a full queue makes the caller write, ahead of the queue.
Submit(r) ==
    /\ IF Len(queue) < QueueSize
       THEN queue' = Append(queue, r) /\ fate' = [fate EXCEPT ![r] = "queued"]
       ELSE UNCHANGED queue /\ Runs(r)
    /\ lateComers' = IF closing = "no" THEN lateComers ELSE lateComers \cup {r}
    /\ UNCHANGED <<alive, busy, closing>>

-----------------------------------------------------------------------------
(* The writer thread.                                                      *)

WriterTakes ==
    /\ alive /\ busy = NoRecord /\ queue # <<>>
    /\ busy' = Head(queue) /\ queue' = Tail(queue)
    /\ UNCHANGED <<alive, closing, fate, lateComers>>

WriterWrites ==
    /\ alive /\ busy # NoRecord
    /\ Runs(busy) /\ busy' = NoRecord
    /\ UNCHANGED <<queue, alive, closing, lateComers>>

\* Mutant: the thread leaves as soon as the event is set.
MayLeaveAtOnce == closing # "no"

\* After an empty look at the queue: the event is set and the queue is empty.
MayLeave == closing # "no" /\ queue = <<>>

WriterLeaves ==
    /\ alive /\ busy = NoRecord /\ MayLeave
    /\ alive' = FALSE
    /\ UNCHANGED <<queue, busy, closing, fate, lateComers>>

WriterStep == WriterTakes \/ WriterWrites \/ WriterLeaves

-----------------------------------------------------------------------------
(* shutdown_audit_writer, in the main thread.                              *)

SetsEvent ==
    /\ closing = "no" /\ closing' = "looks"
    /\ UNCHANGED <<queue, alive, busy, fate, lateComers>>

Looks ==
    /\ closing = "looks"
    /\ closing' = IF alive THEN "joins" ELSE "drains"
    /\ UNCHANGED <<queue, alive, busy, fate, lateComers>>

\* Mutant: the main thread waits until the queue is empty.
JoinsEmptyQueue ==
    /\ closing = "joins" /\ queue = <<>>
    /\ closing' = "drains"
    /\ UNCHANGED <<queue, alive, busy, fate, lateComers>>

\* queue.join returns when every task is done and has no timeout; the join of
\* the thread has one, so the main thread goes on whether the writer left.
Joins ==
    /\ closing = "joins" /\ queue = <<>> /\ busy = NoRecord
    /\ closing' = "drains"
    /\ UNCHANGED <<queue, alive, busy, fate, lateComers>>

\* What is left is written here, in competition with a writer that still lives.
DrainsOne ==
    /\ closing = "drains" /\ queue # <<>>
    /\ Runs(Head(queue)) /\ queue' = Tail(queue)
    /\ UNCHANGED <<alive, busy, closing, lateComers>>

Drained ==
    /\ closing = "drains" /\ queue = <<>> /\ closing' = "over"
    /\ UNCHANGED <<queue, alive, busy, fate, lateComers>>

ShutdownStep == Looks \/ Joins \/ DrainsOne \/ Drained

\* The process ends, and the queue with it (the record being written may have
\* been committed); start_audit_writer in the next one.
AuditRestart ==
    /\ \E x \in {"written", "lost"} :
          fate' = [r \in Record |-> IF fate[r] # "queued" THEN fate[r]
                                    ELSE IF r = busy THEN x ELSE "lost"]
    /\ queue' = <<>> /\ alive' = TRUE /\ busy' = NoRecord /\ closing' = "no"
    /\ UNCHANGED lateComers

AuditTypeOK ==
    /\ queue \in Seq(Record) /\ Len(queue) <= QueueSize
    /\ alive \in BOOLEAN /\ busy \in Record \cup {NoRecord}
    /\ closing \in {"no", "looks", "joins", "drains", "over"}
    /\ fate \in [Record -> {"none", "queued", "written", "failed", "lost"}]
    /\ lateComers \subseteq Record
=============================================================================
