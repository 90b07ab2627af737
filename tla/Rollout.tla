------------------------------- MODULE Rollout -------------------------------
(***************************************************************************)
(* One run of _run_pipeline_task (app/api/deploy/_shared.py): the servers  *)
(* of a deployment one by one, or in waves of coroutines under a           *)
(* semaphore, and the status _finalize_deployment_status derives from the  *)
(* results.  The steps of the pipeline on one server are the time between  *)
(* BeginServer and EndServer, in which the coroutine awaits; a command or  *)
(* an upload that hangs keeps it there, for neither wait has a timeout.    *)
(*                                                                         *)
(* A read of the cancel flag answers FALSE when the read itself fails;     *)
(* `misread' remembers that a raised flag was missed in that way.          *)
(***************************************************************************)
EXTENDS Integers, Sequences, FiniteSets

CONSTANTS
    Servers,       \* req.servers, in order, without repetition
    MaxParallel    \* the cap of 16 on the number of concurrent servers

ASSUME RolloutAssumption ==
    /\ Servers \in Seq({Servers[i] : i \in DOMAIN Servers})
    /\ Servers # <<>> /\ \A i, j \in DOMAIN Servers : Servers[i] = Servers[j] => i = j
    /\ MaxParallel \in Nat \ {0}

Index == DOMAIN Servers

VARIABLES
    req,       \* parallelism, wave_size (0: none) and fail_fast of the request
    flag,      \* cancel_requested of the task
    misread,   \* history: a raised flag was read as FALSE
    aborted,   \* wave_aborted, which covers cancel_event
    wave,      \* the wave being run; in the serial path, the server
    begun,     \* indexes whose coroutine has passed the semaphore
    row,       \* index -> status of the server task row
    result,    \* index -> the outcome of _run_pipeline_task_one_server
    hung,      \* indexes whose coroutine waits for a command that hangs
    final      \* the status reported for task and deployment, "none" before

rolloutVars == <<req, flag, misread, aborted, wave, begun, row, result, hung, final>>

Parallelism ==
    LET least(a, b) == IF a < b THEN a ELSE b
    IN least(least(req.parallelism, Len(Servers)), MaxParallel)
Serial == Parallelism <= 1

\* The serial path is a wave per server.
WaveSize == IF Serial THEN 1
            ELSE IF req.waveSize # 0 /\ req.waveSize < Len(Servers) THEN req.waveSize
            ELSE Len(Servers)
WaveOf(i) == ((i - 1) \div WaveSize) + 1
Waves == WaveOf(Len(Servers))
Members == {i \in Index : WaveOf(i) = wave}

Requests ==
    [parallelism : 1..(Len(Servers) + 1), waveSize : 0..Len(Servers), failFast : BOOLEAN]

RolloutInit ==
    /\ req \in Requests
    /\ flag = FALSE /\ misread = FALSE /\ aborted = FALSE
    /\ wave = 1 /\ begun = {}
    /\ row = [i \in Index |-> "none"]
    /\ result = [i \in Index |-> "none"]
    /\ hung = {}
    /\ final = "none"

\* _task_cancel_requested answers `seen'.
ReadFlag(seen) ==
    /\ seen => flag
    /\ misread' = (misread \/ (flag /\ ~seen))

Ended(i) == result[i] # "none"
WaveOpen == final = "none" /\ wave <= Waves /\ ~aborted
WaveIdle == WaveOpen /\ begun \cap Members = {}

\* Before a wave: a cancellation ends the serial path at once, and makes the
\* wave path skip what is left.
StopBeforeWave ==
    /\ WaveIdle
    /\ ReadFlag(TRUE)
    /\ IF Serial THEN final' = "canceled" /\ UNCHANGED aborted
                 ELSE aborted' = TRUE /\ UNCHANGED final
    /\ UNCHANGED <<req, flag, wave, begun, row, result, hung>>

\* Mutant: one coroutine too many.
FreeOneMore == Cardinality({i \in begun : ~Ended(i)}) <= Parallelism

Free == Cardinality({i \in begun : ~Ended(i)}) < Parallelism
IsNext(i) == i \in Members \ begun /\ \A h \in Members : h < i => h \in begun

\* The semaphore admits the coroutines of a wave in their order; each looks at
\* the flag and creates its row.
BeginServer(i) ==
    /\ WaveOpen /\ IsNext(i) /\ (Serial \/ Free)
    /\ ReadFlag(FALSE)
    /\ begun' = begun \cup {i}
    /\ row' = [row EXCEPT ![i] = "running"]
    /\ UNCHANGED <<req, flag, aborted, wave, result, final, hung>>

RefuseServer(i) ==
    /\ WaveOpen /\ IsNext(i) /\ ~Serial /\ Free
    /\ ReadFlag(TRUE)
    /\ begun' = begun \cup {i}
    /\ result' = [result EXCEPT ![i] = "canceled"]
    /\ UNCHANGED <<req, flag, aborted, wave, row, final, hung>>

\* The row cannot be inserted: the server counts as failed and has no row.
RowFails(i) ==
    /\ WaveOpen /\ IsNext(i) /\ (Serial \/ Free)
    /\ ReadFlag(FALSE)
    /\ begun' = begun \cup {i}
    /\ result' = [result EXCEPT ![i] = "failed"]
    /\ UNCHANGED <<req, flag, aborted, wave, row, final, hung>>

\* A connection or a package that fails returns before the flag is read again.
EndServer(i) ==
    /\ i \in begun /\ ~Ended(i)
    /\ \E r \in {"ok", "failed", "canceled"} :
         /\ \/ r = "ok" /\ ReadFlag(FALSE)
            \/ r = "canceled" /\ ReadFlag(TRUE)
            \/ r = "failed" /\ UNCHANGED misread
         /\ result' = [result EXCEPT ![i] = r]
         /\ row' = [row EXCEPT ![i] = IF r = "ok" THEN "success" ELSE r]
    /\ hung' = hung \ {i}
    /\ UNCHANGED <<req, flag, aborted, wave, begun, final>>

\* A command on the server does not come back, perhaps never.
Hangs(i) ==
    /\ i \in begun \ hung /\ ~Ended(i)
    /\ hung' = hung \cup {i}
    /\ UNCHANGED <<req, flag, misread, aborted, wave, begun, row, result, final>>

WaveEnded == WaveOpen /\ \A i \in Members : Ended(i)
WaveFailed == \E i \in Members : result[i] \notin {"ok", "skipped"}

\* In the serial path a canceled server ends the run and a failed one ends the
\* loop under fail_fast.
NextServer ==
    /\ Serial /\ WaveEnded
    /\ IF result[wave] = "canceled"
       THEN final' = "canceled" /\ UNCHANGED <<aborted, wave>>
       ELSE /\ wave' = wave + 1
            /\ aborted' = (req.failFast /\ WaveFailed)
            /\ UNCHANGED final
    /\ UNCHANGED <<req, flag, misread, begun, row, result, hung>>

\* After a wave: fail_fast and cancellation abort the waves to come.
NextWave ==
    /\ ~Serial /\ WaveEnded
    /\ \E seen \in BOOLEAN :
         /\ ReadFlag(seen)
         /\ aborted' = (seen \/ (req.failFast /\ WaveFailed))
    /\ wave' = wave + 1
    /\ UNCHANGED <<req, flag, begun, row, result, final, hung>>

Unfinished == {i \in Index : ~Ended(i)}

\* An aborted wave path records every server it did not reach as skipped.
SkipRest ==
    /\ ~Serial /\ aborted /\ final = "none" /\ Unfinished # {}
    /\ result' = [i \in Index |-> IF Ended(i) THEN result[i] ELSE "skipped"]
    /\ row' = [i \in Index |-> IF Ended(i) THEN row[i] ELSE "skipped"]
    /\ UNCHANGED <<req, flag, misread, aborted, wave, begun, final, hung>>

Count(r) == Cardinality({i \in Index : result[i] = r})
\* Mutant: canceled servers are not counted as failures.
FailCountWithoutCanceled == Count("failed")

FailCount == Count("failed") + Count("canceled")

\* The status _finalize_deployment_status derives from the results; the wave
\* path passes all_success=False whatever they are.
DeploymentStatus(canceled) ==
    LET all_success == Serial /\ \A i \in Index : Ended(i) => result[i] = "ok"
        failedFast == req.failFast /\ FailCount > 0
    IN  IF canceled THEN "canceled"
        ELSE IF all_success \/ (Count("ok") > 0 /\ FailCount = 0) THEN "success"
        ELSE IF ~failedFast /\ Count("ok") > 0 THEN "partial_failed"
        ELSE "failed"

Finalize ==
    /\ final = "none"
    /\ wave > Waves \/ aborted
    /\ Serial \/ Unfinished = {}
    /\ \E seen \in BOOLEAN : ReadFlag(seen) /\ final' = DeploymentStatus(seen)
    /\ UNCHANGED <<req, flag, aborted, wave, begun, row, result, hung>>

RequestCancel ==
    /\ ~flag
    /\ flag' = TRUE
    /\ UNCHANGED <<req, misread, aborted, wave, begun, row, result, final, hung>>

RolloutStep ==
    \/ StopBeforeWave \/ NextServer \/ NextWave \/ SkipRest \/ Finalize
    \/ \E i \in Index : BeginServer(i) \/ RowFails(i) \/ RefuseServer(i)
    \/ \E i \in Index \ hung : EndServer(i)

RolloutNext == RolloutStep \/ RequestCancel \/ \E i \in Index : Hangs(i) \/ EndServer(i)

\* A coroutine that awaits is resumed when its command ends; one whose command
\* hangs is promised nothing, and neither is a cancellation.
RolloutSpec == RolloutInit /\ [][RolloutNext]_rolloutVars /\ WF_rolloutVars(RolloutStep)

-----------------------------------------------------------------------------
RolloutTypeOK ==
    /\ flag \in BOOLEAN /\ misread \in BOOLEAN /\ aborted \in BOOLEAN
    /\ wave \in 1..(Waves + 1)
    /\ begun \subseteq Index
    /\ row \in [Index -> {"none", "running", "success", "failed", "canceled", "skipped"}]
    /\ result \in [Index -> {"none", "ok", "failed", "canceled", "skipped"}]
    /\ hung \subseteq begun
    /\ final \in {"none", "success", "failed", "partial_failed", "canceled"}

\* A deployment reported as a success was rolled out on every server: the
\* arithmetic of the counters, in which a skipped server is no failure, lets
\* no skipped server through unless the flag was misread, and no failed or
\* canceled one in any case.
SuccessMeansEveryServer ==
    final = "success" =>
        \A i \in Index : \/ result[i] = "ok"
                         \/ misread /\ result[i] \notin {"failed", "canceled"}

\* A deployment reported as failed although some server succeeded was stopped
\* by fail_fast, and one reported as canceled was canceled.
FailureIsHonest ==
    /\ final = "failed" /\ ~req.failFast => \A i \in Index : result[i] # "ok"
    /\ final = "failed" => \E i \in Index : result[i] # "ok"
    /\ final = "partial_failed" => \E i, j \in Index : result[i] = "ok" /\ result[j] # "ok"
    /\ final = "canceled" => flag

\* With fail_fast no server is touched once one of an earlier wave has failed.
FailFastStops ==
    req.failFast =>
        \A i, j \in Index : WaveOf(i) < WaveOf(j) /\ row[j] \notin {"none", "skipped"}
                                => result[i] = "ok"

\* The semaphore and the waves bound how many servers are out of service at a
\* time: never more than the parallelism, and all in one wave.
BoundedOutage ==
    LET out == {i \in Index : row[i] = "running"} IN
        /\ Cardinality(out) <= Parallelism
        /\ \A i, j \in out : WaveOf(i) = WaveOf(j)

\* When the run has reported, no row is left running and every row agrees with
\* its result; a server that succeeded or was skipped always has a row.
RowsAgree ==
    final # "none" =>
        \A i \in Index :
            \/ row[i] = IF result[i] = "ok" THEN "success" ELSE result[i]
            \/ row[i] = "none" /\ result[i] \in {"failed", "canceled"}

\* What the run reports of the deployment is what it did on the servers, in the
\* status as well as in the rows.
ReportIsHonest == RolloutTypeOK /\ SuccessMeansEveryServer /\ FailureIsHonest /\ RowsAgree

\* However the request combines them, waves, parallelism and fail_fast keep the
\* servers that are out of service or newly broken few.
OutageIsBounded == BoundedOutage /\ FailFastStops

\* Every run on whose servers no command hangs for ever reports a status, and one
\* whose flag is raised in time, and is never misread, reports canceled: the flag is
\* looked at between the last server and the report.
RunEnds ==
    /\ <>(final # "none" \/ hung # {})
    /\ flag /\ final = "none" ~> final = "canceled" \/ misread \/ hung # {}
=============================================================================
