----------------------------- MODULE LogStream ------------------------------
(***************************************************************************)
(* The log of a deployment on its way to the database and to the pages     *)
(* that show it: the batch writer (_DeployLogBuffer, _log_to_db in         *)
(* app/api/deploy/_shared.py), the subscribers (app/deploy/stream.py) and  *)
(* the page (frontend/src/pages/deploy/useDeploymentStream.ts).            *)
(*                                                                         *)
(* A line is its number.  Lines are logged by the coroutine of the run and *)
(* by threads of its pool; the logs endpoint flushes the same buffer.      *)
(***************************************************************************)
EXTENDS Naturals, FiniteSets, Sequences, SequencesExt

CONSTANTS
    Thread, Page,
    Lines,      \* bound: lines the run logs
    Batch,      \* DEPLOY_LOG_BATCH_SIZE
    Room,       \* maxsize of a subscriber's queue
    Limit,      \* MAX_SUBSCRIBERS_PER_DEPLOYMENT
    MaxFaults   \* bound: writes that raise, connections that break, expiries

ASSUME StreamAssumption ==
    /\ Thread \cap Page = {} /\ Lines \in Nat /\ Batch \in Nat \ {0}
    /\ Room \in Nat \ {0} /\ Limit \in Nat \ {0} /\ MaxFaults \in Nat

Writer == Thread \cup Page
Done == 0

VARIABLES
    logged,     \* lines logged so far
    buffer, held, db,   \* sequences: the buffer, a batch taken by a writer, the table
    line, dead, \* of a thread: the line it hands on, the subscribers to remove
    tpc,
    status,        \* running, ended (status written), published (done), silent (failed by the
                \* worker, which publishes nothing)
    subs, expired, queue,
    page,         \* of a page
    stale,      \* the page showed the final status of another run when this one began
    shown,      \* lines on the page
    faults,
    lost,       \* history: lines of a batch whose write raised
    raced,      \* history: two batches were out at once
    sent,       \* history: lines in the order they were published
    from,       \* history: how many of them were when the page subscribed
    full,       \* history: pages a message could not be put for
    late        \* history: pages that subscribed after the end was published, or not

log == <<logged, buffer, held, db, lost, raced>>
stream == <<subs, expired, queue, full>>
pageVars == <<page, stale, shown, from, late>>
streamVars == <<log, line, dead, tpc, status, stream, pageVars, faults, sent>>

StreamInit ==
    /\ logged = 0 /\ buffer = <<>> /\ held = [w \in Writer |-> <<>>] /\ db = <<>>
    /\ line = [t \in Thread |-> Done] /\ dead = [t \in Thread |-> {}]
    /\ tpc = [t \in Thread |-> "idle"] /\ status = "running"
    /\ subs = {} /\ expired = {} /\ queue = [p \in Page |-> <<>>]
    /\ page = [p \in Page |-> "off"] /\ stale = [p \in Page |-> FALSE]
    /\ shown = [p \in Page |-> {}] /\ faults = 0
    /\ lost = {} /\ raced = FALSE /\ sent = <<>> /\ from = [p \in Page |-> 0] /\ full = {}
    /\ late = {}

Fault == faults < MaxFaults /\ faults' = faults + 1

-----------------------------------------------------------------------------
(* The buffer *)

\* The batch is taken under the lock and written after it.
Takes(w, rows) ==
    /\ held' = [held EXCEPT ![w] = rows] /\ buffer' = <<>>
    /\ raced' = (raced \/ \E v \in Writer \ {w} : held[v] # <<>>)

\* append: a full batch is taken, and any batch once the interval has passed.
Logs(t) ==
    /\ tpc[t] = "idle" /\ status = "running" /\ logged < Lines
    /\ logged' = logged + 1 /\ line' = [line EXCEPT ![t] = logged']
    /\ LET rows == Append(buffer, logged')
       IN  \/ Takes(t, rows) /\ tpc' = [tpc EXCEPT ![t] = "write"]
           \/ /\ Len(rows) < Batch /\ buffer' = rows
              /\ tpc' = [tpc EXCEPT ![t] = "publish"] /\ UNCHANGED <<held, raced>>
    /\ UNCHANGED <<db, lost, dead, status, stream, pageVars, faults, sent>>

\* _write.  An exception is logged and the batch is gone.
Writes(w) ==
    /\ held[w] # <<>> /\ held' = [held EXCEPT ![w] = <<>>]
    /\ \/ db' = db \o held[w] /\ UNCHANGED <<lost, faults>>
       \/ Fault /\ lost' = lost \cup Range(held[w]) /\ UNCHANGED db
    /\ UNCHANGED <<logged, buffer, raced>>

\* The exception passes over the publication of the thread's line.
ThreadWrites(t) ==
    /\ tpc[t] = "write" /\ Writes(t)
    /\ tpc' = [tpc EXCEPT ![t] = IF db' = db THEN "idle" ELSE "publish"]
    /\ UNCHANGED <<line, dead, status, stream, pageVars, sent>>

-----------------------------------------------------------------------------
(* The subscribers *)

Live == subs \ expired

Fits(p) == Len(queue[p]) < Room

\* publish: a snapshot of the subscribers, put_nowait for each.
Publishes(m) ==
    /\ queue' = [p \in Page |->
          IF p \in Live /\ Fits(p) THEN Append(queue[p], m) ELSE queue[p]]
    /\ full' = full \cup {p \in Live : ~Fits(p)}

\* Those that are expired or full are removed afterwards.
Unreached == {p \in subs : p \in expired \/ ~Fits(p)}

ThreadPublishes(t) ==
    /\ tpc[t] = "publish" /\ Publishes(line[t]) /\ sent' = Append(sent, line[t])
    /\ dead' = [dead EXCEPT ![t] = Unreached]
    /\ tpc' = [tpc EXCEPT ![t] = IF Unreached = {} THEN "idle" ELSE "drop"]
    /\ UNCHANGED <<log, line, status, subs, expired, pageVars, faults>>

ThreadDrops(t) ==
    /\ tpc[t] = "drop" /\ subs' = subs \ dead[t]
    /\ tpc' = [tpc EXCEPT ![t] = "idle"] /\ dead' = [dead EXCEPT ![t] = {}]
    /\ UNCHANGED <<log, line, status, expired, queue, full, pageVars, faults, sent>>

\* _finalize_deployment_status: the status, a notification, then done.
EndsRun ==
    /\ status = "running" /\ status' = "ended" /\ \A t \in Thread : tpc[t] = "idle"
    /\ UNCHANGED <<log, line, dead, tpc, stream, pageVars, faults, sent>>

PublishesDone ==
    /\ status = "ended" /\ status' = "published" /\ Publishes(Done) /\ subs' = subs \ Unreached
    /\ UNCHANGED <<log, line, dead, tpc, expired, pageVars, faults, sent>>

\* The worker fails a run that raised: the status is all it writes.
EndsSilently ==
    /\ status = "running" /\ Fault /\ status' = "silent" /\ \A t \in Thread : tpc[t] = "idle"
    /\ UNCHANGED <<log, line, dead, tpc, stream, pageVars, sent>>

\* SUBSCRIBER_TTL_SECONDS have passed.
Expires(p) ==
    /\ p \in Live /\ Fault /\ expired' = expired \cup {p}
    /\ UNCHANGED <<log, line, dead, tpc, status, subs, queue, full, pageVars, sent>>

-----------------------------------------------------------------------------
(* The page *)

Final == status # "running"
Turns(p, stage) == page' = [page EXCEPT ![p] = stage]

\* startRun: the status is read; a final one is followed by the lines.
Opens(p) ==
    /\ page[p] = "off" /\ Turns(p, IF Final THEN "load" ELSE "asked")
    /\ \E b \in BOOLEAN : stale' = [stale EXCEPT ![p] = b]
    /\ UNCHANGED <<log, line, dead, tpc, status, stream, shown, from, late, faults, sent>>

\* Mutant: the stream is given up without anything in its place.
GivesUpStream(p) == "dead"

\* onerror polls, unless the status this handler was made with is final.
AfterError(p) == IF stale[p] THEN "dead" ELSE "poll"

\* Mutant: the list is made anew.
JoinedAlone(p) == {p}

Joined(p) == Live \cup {p}

\* connectSSE and subscribe.
Connects(p) ==
    /\ page[p] = "asked"
    /\ IF Cardinality(Live) < Limit
       THEN /\ Turns(p, "open") /\ subs' = Joined(p)
            /\ from' = [from EXCEPT ![p] = Len(sent)]
            /\ late' = IF status \in {"published", "silent"} THEN late \cup {p} ELSE late
       ELSE Turns(p, AfterError(p)) /\ UNCHANGED <<subs, from, late>>
    /\ UNCHANGED <<log, line, dead, tpc, status, expired, queue, full, stale, shown, faults,
                   sent>>

\* The connection is not open within five seconds.
TooSlow(p) ==
    /\ page[p] = "asked" /\ Fault /\ Turns(p, "poll")
    /\ UNCHANGED <<log, line, dead, tpc, status, stream, stale, shown, from, late, sent>>

\* The generator yields the next message; after done the page closes the stream.
Gets(p) ==
    /\ page[p] = "open" /\ queue[p] # <<>>
    /\ queue' = [queue EXCEPT ![p] = Tail(@)]
    /\ IF Head(queue[p]) = Done
       THEN Turns(p, "over") /\ subs' = subs \ {p} /\ UNCHANGED shown
       ELSE /\ shown' = [shown EXCEPT ![p] = @ \cup {Head(queue[p])}]
            /\ UNCHANGED <<page, subs>>
    /\ UNCHANGED <<log, line, dead, tpc, status, expired, full, stale, from, late, faults, sent>>

\* The connection breaks: onerror, and unsubscribe in the generator's finally.
Breaks(p) ==
    /\ page[p] = "open" /\ Fault /\ Turns(p, AfterError(p)) /\ subs' = subs \ {p}
    /\ queue' = [queue EXCEPT ![p] = <<>>]
    /\ UNCHANGED <<log, line, dead, tpc, status, expired, full, stale, shown, from, late, sent>>

\* The logs endpoint flushes the buffer ...
Flushes(p) ==
    /\ page[p] \in {"poll", "load"} /\ Turns(p, IF page[p] = "load" THEN "loading" ELSE "polling")
    /\ IF buffer = <<>> THEN UNCHANGED <<held, buffer, raced>> ELSE Takes(p, buffer)
    /\ UNCHANGED <<logged, db, lost, line, dead, tpc, status, stream, stale, shown, from, late,
                   faults, sent>>

PageWrites(p) ==
    /\ Writes(p)
    /\ UNCHANGED <<line, dead, tpc, status, stream, pageVars, sent>>

\* ... and reads the table.  A poll reads the status after the lines.
Reads(p) ==
    /\ page[p] \in {"polling", "loading"} /\ held[p] = <<>>
    /\ shown' = [shown EXCEPT ![p] = @ \cup Range(db)]
    /\ Turns(p, IF page[p] = "loading" THEN "over" ELSE "status")
    /\ UNCHANGED <<log, line, dead, tpc, status, stream, stale, from, late, faults, sent>>

ReadsStatus(p) ==
    /\ page[p] = "status" /\ Turns(p, IF Final THEN "over" ELSE "poll")
    /\ UNCHANGED <<log, line, dead, tpc, status, stream, stale, shown, from, late, faults, sent>>

-----------------------------------------------------------------------------
ThreadGoesOn(t) == ThreadWrites(t) \/ ThreadPublishes(t) \/ ThreadDrops(t)
ThreadStep(t) == Logs(t) \/ ThreadGoesOn(t)
PageStep(p) ==
    Connects(p) \/ Gets(p) \/ Flushes(p) \/ PageWrites(p) \/ Reads(p) \/ ReadsStatus(p)
RunStep == EndsRun \/ PublishesDone

StreamNext ==
    \/ \E t \in Thread : ThreadStep(t)
    \/ RunStep \/ EndsSilently
    \/ \E p \in Page : Opens(p) \/ PageStep(p) \/ TooSlow(p) \/ Breaks(p) \/ Expires(p)

\* The run works on and ends; the server and the browser get on with what they began.
StreamSpec ==
    /\ StreamInit /\ [][StreamNext]_streamVars /\ WF_streamVars(RunStep)
    /\ \A t \in Thread : WF_streamVars(ThreadGoesOn(t))
    /\ \A p \in Page : WF_streamVars(PageStep(p))

-----------------------------------------------------------------------------
Line == 1..Lines
Message == 0..Lines

BufferTypes ==
    /\ logged \in 0..Lines /\ buffer \in Seq(Line) /\ db \in Seq(Line)
    /\ held \in [Writer -> Seq(Line)] /\ Len(buffer) < Batch
    /\ lost \subseteq Line /\ raced \in BOOLEAN
ThreadTypes ==
    /\ line \in [Thread -> Message] /\ dead \in [Thread -> SUBSET Page]
    /\ tpc \in [Thread -> {"idle", "write", "publish", "drop"}] /\ sent \in Seq(Line)
    /\ status \in {"running", "ended", "published", "silent"} /\ faults \in 0..MaxFaults
QueueTypes ==
    /\ subs \subseteq Page /\ expired \subseteq Page /\ full \subseteq Page
    /\ queue \in [Page -> Seq(Message)]
    /\ Cardinality(Live) <= Limit /\ \A p \in Page : Len(queue[p]) <= Room
PageTypes ==
    /\ page \in [Page -> {"off", "load", "loading", "asked", "open", "poll", "polling",
                       "status", "over", "dead"}]
    /\ shown \in [Page -> SUBSET Line] /\ stale \in [Page -> BOOLEAN]
    /\ from \in [Page -> 0..Lines] /\ late \subseteq Page
StreamTypeOK == BufferTypes /\ ThreadTypes /\ QueueTypes /\ PageTypes

\* Every line is in one place: waiting, in one writer's batch, in the table, or lost with
\* a batch whose write raised; and the table is in the order of the log, whoever
\* flushes, unless two batches were out at once.
KeptInOrder ==
    LET places == <<Range(buffer), Range(db), lost>>
        inHand == UNION {Range(held[w]) : w \in Writer}
    IN  /\ Range(buffer) \cup Range(db) \cup lost \cup inHand = 1..logged
        /\ Len(buffer) + Len(db) + Cardinality(lost) + Cardinality(inHand) = logged
        /\ ~raced => \A i \in 2..Len(db) : db[i - 1] < db[i]

\* A subscriber misses nothing that was published since it subscribed, while others come,
\* go and are dropped; until one message finds its queue full or it is half an hour old.
NoGap ==
    \A p \in Page \ (full \cup expired) : page[p] = "open" =>
        {sent[i] : i \in (from[p] + 1)..Len(sent)} \subseteq shown[p] \cup Range(queue[p])

\* Nothing that was logged is lost silently, in the table or on an open stream.
LinesAreKept == StreamTypeOK /\ KeptInOrder /\ NoGap

\* What keeps a page from the end: its stream was dropped, it subscribed after the end was
\* published, nothing was published, or the stream broke and the page had shown the end of
\* another run.
NeverTold(p) ==
    \/ page[p] = "open" /\ (p \in full \cup expired \cup late \/ status = "silent")
    \/ page[p] = "dead" /\ stale[p]

\* A page that began to watch a run shows its end, over the stream or by polling.
LearnsTheEnd == \A p \in Page : page[p] = "asked" ~> page[p] = "over" \/ NeverTold(p)
=============================================================================
