----------------------------- MODULE Inspection -----------------------------
(***************************************************************************)
(* Inspection runs: a batch of server runs that was created beforehand and *)
(* is worked off in chunks by a thread pool, and project runs, each in a   *)
(* background task of its own (services/inspection_center.py and           *)
(* api/inspection.py).  Around them: the reaper that a look at the         *)
(* overview starts, the deletion of runs, and the reports.                 *)
(*                                                                         *)
(* The rows are read and written in separate steps, and a commit writes    *)
(* the columns whose value differs from the one loaded.  A commit raises   *)
(* when the row is gone, and may raise when the database is locked.        *)
(***************************************************************************)
EXTENDS InspectionScore, Integers

CONSTANTS
    Batch,          \* runs 1..Batch are the batch, in its order
    Projects,       \* the number of project runs, which come after them
    BatchSize, Concurrency,
    Items,          \* items of a run
    Category(_),    \* item number -> category
    Found,          \* what a check may find
    Heartbeat,      \* INSPECTION_ACTIVE_HEARTBEAT_SECONDS, in ticks
    Stale,          \* INSPECTION_STALE_RUN_SECONDS, in ticks
    MaxRestarts, MaxRaises

ASSUME InspectionAssumption ==
    /\ {Batch, Projects, BatchSize, Concurrency, Items, Heartbeat, Stale} \subseteq Nat
    /\ BatchSize > 0 /\ Concurrency > 0 /\ Items > 0
    /\ Heartbeat < Stale
    /\ Found \subseteq {"PASS", "LOW", "HIGH", "ERROR"}
    /\ MaxRestarts \in Nat /\ MaxRaises \in Nat

Run == 1..(Batch + Projects)
Project == (Batch + 1)..(Batch + Projects)

\* A report is named after its run; one of them is for many runs.
NoReport == 0
Merged == Batch + Projects + 1

VARIABLES
    status,     \* run -> status column; "gone" once deleted
    rows,       \* run -> its item results
    score,      \* run -> score column
    age,        \* run -> ticks since updated_at
    reportId,   \* run -> report_id column
    reports,    \* the report artifacts
    at,         \* run -> where its executor stands
    loaded,     \* run -> the status its executor has loaded
    slow,       \* the runs whose check at hand hangs on its server
    reaping,    \* the runs the reaper has loaded
    merging,    \* the runs whose common report is made and not yet linked
    deleting,   \* the run and the report a deletion has loaded
    reaped,     \* history: runs the reaper has written
    unmarked,   \* history: runs mark_run_failed could not write
    stranded,   \* history: runs a restart cut off
    orphans,    \* history: reports whose run was deleted before it was linked,
                \*          or got a later report
    discarded,  \* history: reports the report centre deleted
    restarts, raises

rowVars == <<status, rows, score, age>>
reportVars == <<reportId, reports, merging, orphans, discarded>>
history == <<reaped, unmarked, stranded>>
bounds == <<restarts, raises>>
vars == <<rowVars, reportVars, at, loaded, slow, reaping, deleting, history, bounds>>

Terminal == {"SUCCESS", "PARTIAL_SUCCESS", "FAILED"}
Exists(r) == status[r] # "gone"
\* A deletion holds one run, or none.
NoRun == <<>>

\* The runs that are there, and their background tasks, were just created; the other
\* runs are deleted already.
Init ==
    /\ \E there \in SUBSET Run :
          /\ status = [r \in Run |-> IF r \in there THEN "RUNNING" ELSE "gone"]
          /\ at = [r \in Run |-> IF r \in there THEN "queued" ELSE "done"]
    /\ rows = [r \in Run |-> <<>>]
    /\ score = [r \in Run |-> 100] /\ age = [r \in Run |-> 0]
    /\ reportId = [r \in Run |-> NoReport] /\ reports = {}
    /\ merging = {} /\ orphans = {} /\ discarded = {}
    /\ loaded = [r \in Run |-> "none"] /\ slow = {}
    /\ reaping = {} /\ deleting = NoRun
    /\ reaped = {} /\ unmarked = {} /\ stranded = {}
    /\ restarts = 0 /\ raises = 0

Go(r, where) == at' = [at EXCEPT ![r] = where]
Elsewhere == UNCHANGED <<reportVars, reaping, deleting, history, bounds>>
Keep == UNCHANGED slow /\ Elsewhere
\* A commit of the executor: updated_at is now.
Touch(r) == age' = [age EXCEPT ![r] = 0]

-----------------------------------------------------------------------------
(* The pool: chunks one after the other, runs of a chunk in order.         *)

Chunk(n) == (n - 1) \div BatchSize
Idle == {"queued", "done", "dead"}

MayStart(r) ==
    /\ at[r] = "queued"
    /\ r \in Project
       \/ /\ \A n \in 1..(r - 1) : at[n] # "queued"
          /\ \A n \in 1..(r - 1) : Chunk(n) < Chunk(r) => at[n] = "done"
          /\ Cardinality({n \in 1..Batch : at[n] \notin Idle}) < Concurrency

\* The task's first look at its row; no row, an exception that the caller marks.
Reads(r) ==
    /\ MayStart(r)
    /\ Go(r, IF Exists(r) THEN "begin" ELSE "mark")
    /\ loaded' = [loaded EXCEPT ![r] = status[r]]
    /\ UNCHANGED rowVars /\ Keep

-----------------------------------------------------------------------------
(* execute_server_inspection_run, execute_project_inspection_run.          *)

\* status = RUNNING is written if it was something else when it was loaded.
Begins(r) ==
    /\ at[r] = "begin" /\ Exists(r)
    /\ status' = [status EXCEPT ![r] = IF loaded[r] = "RUNNING" THEN @ ELSE "RUNNING"]
    /\ Touch(r) /\ Go(r, "items") /\ loaded' = [loaded EXCEPT ![r] = "none"]
    /\ UNCHANGED <<rows, score>> /\ Keep

Finished(r) == Len(rows[r]) >= Items

StartItem(r) ==
    /\ at[r] = "items" /\ Exists(r) /\ ~Finished(r)
    /\ rows' = [rows EXCEPT ![r] =
                  Append(@, [cat |-> Category(Len(@) + 1), found |-> "RUNNING"])]
    /\ Touch(r) /\ Go(r, "command")
    /\ UNCHANGED <<status, score, loaded>> /\ Keep

\* The rows of a run with one more, or with its last one finished.
Counted(r, new) == rows' = [rows EXCEPT ![r] = new] /\ score' = [score EXCEPT ![r] = ScoreOf(new)]

FinishItem(r) ==
    /\ at[r] = "command" /\ Exists(r)
    /\ \E x \in Found : Counted(r, [rows[r] EXCEPT ![Len(rows[r])].found = x])
    /\ Touch(r) /\ Go(r, "items") /\ slow' = slow \ {r}
    /\ UNCHANGED <<status, loaded>> /\ Elsewhere

\* The command hangs on its server: recv_exit_status has no timeout.  It may
\* answer late, or never.
Hangs(r) ==
    /\ at[r] = "command" /\ r \notin slow /\ slow' = slow \cup {r}
    /\ UNCHANGED <<rowVars, at, loaded>> /\ Elsewhere

\* A check of a project's configuration is a row at once.
AppendsItem(r) ==
    /\ at[r] = "items" /\ Exists(r) /\ ~Finished(r) /\ r \in Project
    /\ \E x \in Found :
          Counted(r, Append(rows[r], [cat |-> Category(Len(rows[r]) + 1), found |-> x]))
    /\ Touch(r)
    /\ UNCHANGED <<status, at, loaded>> /\ Keep

\* _append_server_summary commits a row, and the counts follow in a second commit.
Summarises(r) ==
    /\ at[r] = "items" /\ Exists(r) /\ Finished(r) /\ r \in Project
    /\ \E x \in {"PASS", "LOW"} :
          rows' = [rows EXCEPT ![r] = Append(@, [cat |-> "RUNTIME", found |-> x])]
    /\ Go(r, "counts")
    /\ UNCHANGED <<status, score, age, loaded>> /\ Keep

Counts(r) ==
    /\ at[r] = "counts" /\ Exists(r) /\ Counted(r, rows[r]) /\ Touch(r) /\ Go(r, "close")
    /\ UNCHANGED <<status, loaded>> /\ Keep

SystemError == [cat |-> "SYSTEM", found |-> "ERROR"]

\* run_timeout is over before an item (server runs): two commits.
TimesOut(r) ==
    /\ at[r] = "items" /\ Exists(r) /\ ~Finished(r) /\ r \notin Project
    /\ Counted(r, Append(rows[r], SystemError)) /\ Touch(r) /\ Go(r, "late")
    /\ UNCHANGED <<status, loaded>> /\ Keep

EndsLate(r) ==
    /\ at[r] = "late" /\ Exists(r)
    /\ status' = [status EXCEPT ![r] = "PARTIAL_SUCCESS"] /\ Touch(r) /\ Go(r, "done")
    /\ UNCHANGED <<rows, score, loaded>> /\ Keep

\* _finalize_run; the refresh that follows its commit may raise.
Finalizes(r) ==
    /\ at[r] = IF r \in Project THEN "close" ELSE "items"
    /\ Exists(r) /\ Finished(r)
    /\ status' = [status EXCEPT ![r] = Verdict(rows[r])]
    /\ score' = [score EXCEPT ![r] = ScoreOf(rows[r])] /\ Touch(r)
    /\ \/ Go(r, "report") /\ UNCHANGED raises
       \/ Go(r, "error") /\ raises < MaxRaises /\ raises' = raises + 1
    /\ UNCHANGED <<rows, loaded, slow, reportVars, reaping, deleting, history, restarts>>

Commits == {"begin", "items", "command", "counts", "close", "late"}

Raises(r) ==
    /\ at[r] \in Commits
    /\ Exists(r) => raises < MaxRaises
    /\ raises' = IF Exists(r) THEN raises + 1 ELSE raises
    /\ Go(r, "error") /\ loaded' = [loaded EXCEPT ![r] = "none"] /\ slow' = slow \ {r}
    /\ UNCHANGED <<rowVars, reportVars, reaping, deleting, history, restarts>>

\* The except clause appends a row if it can.
AppendsError(r) ==
    /\ at[r] = "error" /\ Go(r, "mark")
    /\ \/ /\ Exists(r) /\ Counted(r, Append(rows[r], SystemError)) /\ Touch(r)
          /\ UNCHANGED status
       \/ UNCHANGED rowVars
    /\ UNCHANGED loaded /\ Keep

\* Mutant: an exception of a worker is only reported to the caller.
MayMarkNever(r) == FALSE

MayMark(r) == status[r] = "RUNNING"

\* mark_run_failed: this session, then one of its own; both may be refused.
Marks(r) ==
    /\ at[r] = "mark" /\ Go(r, "done")
    /\ \/ /\ MayMark(r) /\ status' = [status EXCEPT ![r] = "FAILED"] /\ Touch(r)
          /\ UNCHANGED <<unmarked, raises>>
       \/ /\ MayMark(r) /\ raises < MaxRaises /\ raises' = raises + 1
          /\ unmarked' = unmarked \cup {r} /\ UNCHANGED <<status, age>>
       \/ ~MayMark(r) /\ UNCHANGED <<status, age, unmarked, raises>>
    /\ UNCHANGED <<rows, score, loaded, slow, reportVars, reaping, deleting, reaped,
                   stranded, restarts>>

-----------------------------------------------------------------------------
(* Reports.                                                                *)

\* _auto_generate_report: the artifact, then the row; neither may fail the run.
MakesReport(r) ==
    /\ at[r] = "report"
    /\ IF Exists(r) THEN reports' = reports \cup {r} /\ Go(r, "link")
       ELSE UNCHANGED reports /\ Go(r, "done")
    /\ UNCHANGED <<rowVars, loaded, slow, reportId, merging, orphans, discarded, reaping,
                   deleting, history, bounds>>

LinksReport(r) ==
    /\ at[r] = "link" /\ Go(r, "done")
    /\ IF Exists(r)
       THEN /\ reportId' = [reportId EXCEPT ![r] = r] /\ Touch(r)
            /\ orphans' = orphans \cup ({reportId[r]} \ {NoReport})
       ELSE /\ orphans' = orphans \cup {r} /\ UNCHANGED <<reportId, age>>
    /\ UNCHANGED <<status, rows, score, loaded, slow, reports, merging, discarded, reaping,
                   deleting, history, bounds>>

\* generate_report_for_runs: one report for every run there is; it raises while
\* one of them is executed.  Then the rows that are still there refer to it.
MergesReports ==
    /\ merging = {} /\ Merged \notin reports \cup discarded
    /\ merging' = {r \in Run : Exists(r)} /\ merging' # {}
    /\ \A r \in merging' : status[r] \in Terminal /\ rows[r] # <<>>
    /\ reports' = reports \cup {Merged}
    /\ UNCHANGED <<rowVars, at, loaded, slow, reportId, discarded, orphans, reaping,
                   deleting, history, bounds>>

LinksMerged ==
    /\ merging # {} /\ merging' = {}
    /\ reportId' = [r \in Run |-> IF r \in merging /\ Exists(r) THEN Merged ELSE reportId[r]]
    /\ orphans' = orphans \cup ({reportId[r] : r \in merging} \ {NoReport}) \cup
                     (IF \E r \in merging : Exists(r) THEN {} ELSE {Merged})
    /\ UNCHANGED <<rowVars, at, loaded, slow, reports, discarded, reaping, deleting, history,
                   bounds>>

\* delete_reports of the report centre asks nobody.
Discards(x) ==
    /\ x \in reports /\ reports' = reports \ {x} /\ discarded' = discarded \cup {x}
    /\ UNCHANGED <<rowVars, at, loaded, slow, reportId, merging, orphans, reaping, deleting,
                   history, bounds>>

-----------------------------------------------------------------------------
(* The reaper and the deletion.                                            *)

\* Mutant: only the run's own age counts.
NobodyCounts == TRUE

\* No unfinished run was updated within the heartbeat.
NobodyAdvances == \A r \in Run : status[r] = "RUNNING" => age[r] > Heartbeat

ReaperLooks ==
    /\ reaping = {} /\ NobodyAdvances
    /\ reaping' = {r \in Run : status[r] = "RUNNING" /\ age[r] > Stale}
    /\ reaping' # {}
    /\ UNCHANGED <<rowVars, at, loaded, slow, reportVars, deleting, history, bounds>>

\* By id, in one commit; it raises if one is gone.
ReaperWrites ==
    /\ reaping # {} /\ reaping' = {}
    /\ IF \A r \in reaping : Exists(r)
       THEN /\ status' = [r \in Run |-> IF r \in reaping THEN "FAILED" ELSE status[r]]
            /\ age' = [r \in Run |-> IF r \in reaping THEN 0 ELSE age[r]]
            /\ reaped' = reaped \cup reaping
       ELSE UNCHANGED <<status, age, reaped>>
    /\ UNCHANGED <<rows, score, at, loaded, slow, reportVars, deleting, unmarked, stranded,
                   bounds>>

\* An unfinished run goes by force only.
DeletionLooks(r) ==
    /\ deleting = NoRun /\ Exists(r) /\ deleting' = <<r, reportId[r]>>
    /\ UNCHANGED <<rowVars, at, loaded, slow, reportVars, reaping, history, bounds>>

\* Mutant: the report goes with the run, whoever else refers to it.
DropsReportBlind(r, x) == x # NoReport

\* _delete_report_artifact_if_orphan.
DropsReport(r, x) == x # NoReport /\ \A o \in Run \ {r} : Exists(o) => reportId[o] # x

DeletionWrites ==
    /\ deleting # NoRun /\ deleting' = NoRun
    /\ LET r == deleting[1]
           x == deleting[2]
       IN  /\ status' = [status EXCEPT ![r] = "gone"]
           /\ rows' = [rows EXCEPT ![r] = <<>>]
           /\ reports' = IF DropsReport(r, x) THEN reports \ {x} ELSE reports
           /\ orphans' = orphans \cup ({reportId[r]} \ {x, NoReport})
    /\ UNCHANGED <<score, age, at, loaded, slow, reportId, merging, discarded, reaping,
                   history, bounds>>

-----------------------------------------------------------------------------
(* Time, and the end of the process.                                       *)

\* While its check does not hang an executor commits within the heartbeat, and a
\* free worker takes the next run at once.
Unhurried(r) ==
    /\ ~MayStart(r) /\ at[r] \notin {"begin", "counts", "close", "late", "error", "mark"}
    /\ at[r] \in {"items", "command", "report", "link"} /\ Exists(r) =>
          age[r] < Heartbeat \/ r \in slow

Tick ==
    /\ \A r \in Run : Unhurried(r)
    /\ \E r \in Run : Exists(r) /\ age[r] <= Stale
    /\ age' = [r \in Run |-> IF age[r] <= Stale THEN age[r] + 1 ELSE age[r]]
    /\ UNCHANGED <<status, rows, score, at, loaded, slow, reportVars, reaping, deleting,
                   history, bounds>>

\* The tasks are threads of the process; nobody resumes them.
Restart ==
    /\ restarts < MaxRestarts /\ restarts' = restarts + 1
    /\ stranded' = stranded \cup {r \in Run : status[r] = "RUNNING"}
    /\ at' = [r \in Run |-> IF at[r] = "done" THEN "done" ELSE "dead"]
    /\ orphans' = orphans \cup {r \in Run : at[r] = "link"}
                     \cup (IF merging # {} THEN {Merged} ELSE {})
    /\ loaded' = [r \in Run |-> "none"] /\ slow' = {}
    /\ reaping' = {} /\ merging' = {} /\ deleting' = NoRun
    /\ UNCHANGED <<rowVars, reportId, reports, discarded, reaped, unmarked, raises>>

Executes(r) ==
    \/ Reads(r) \/ Begins(r) \/ StartItem(r) \/ FinishItem(r) \/ AppendsItem(r) \/ Summarises(r)
    \/ Counts(r) \/ TimesOut(r) \/ EndsLate(r)
    \/ Finalizes(r) \/ Raises(r) \/ AppendsError(r) \/ Marks(r)
    \/ MakesReport(r) \/ LinksReport(r)

Next ==
    \/ \E r \in Run : Executes(r) \/ Hangs(r) \/ DeletionLooks(r)
    \/ MergesReports \/ LinksMerged \/ \E x \in reports : Discards(x)
    \/ ReaperLooks \/ ReaperWrites \/ DeletionWrites \/ Tick \/ Restart

\* The tasks are threads that run, but nothing bounds a check that hangs.  Nobody
\* has to look, delete or merge, and no commit has to raise.
Spec == Init /\ [][Next]_vars /\ \A r \in Run : WF_vars(r \notin slow /\ Executes(r))

-----------------------------------------------------------------------------
Places == {"queued", "begin", "items", "command", "counts", "close", "late", "error", "mark",
           "report", "link", "done", "dead"}

Row == [cat : {Category(i) : i \in 1..Items} \cup {"RUNTIME", "SYSTEM"},
        found : Found \cup {"RUNNING", "ERROR", "PASS", "LOW"}]

TypeOK ==
    /\ status \in [Run -> Terminal \cup {"RUNNING", "gone"}]
    /\ rows \in [Run -> Seq(Row)]
    /\ score \in [Run -> 40..100] /\ age \in [Run -> 0..(Stale + 1)]
    /\ reportId \in [Run -> {NoReport, Merged} \cup Run]
    /\ \A r \in Run : reportId[r] \in {NoReport, Merged, r}
    /\ \A x \in {reports, orphans, discarded} : x \subseteq Run \cup {Merged}
    /\ at \in [Run -> Places] /\ loaded \in [Run -> {"none", "gone", "RUNNING", "FAILED"}]
    /\ \A x \in {slow, reaping, merging, reaped, unmarked, stranded} : x \subseteq Run
    /\ restarts \in 0..MaxRestarts /\ raises \in 0..MaxRaises

\* What the history shows of a run is what happened: a SUCCESS ran every check
\* and none failed to run, a PARTIAL_SUCCESS missed one, an unfinished run has a
\* place in the queue or a thread, unless a restart cut it off or no session
\* could write its end, and a run whose thread is at work is only FAILED by the
\* reaper.
RunTellsTheTruth ==
    \A r \in Run :
      /\ status[r] = "SUCCESS" =>
            /\ Finished(r)
            /\ \A i \in 1..Items : rows[r][i].found \notin {"RUNNING", "ERROR"}
      /\ status[r] = "PARTIAL_SUCCESS" => \E x \in RowsOf(rows[r]) : x.found = "ERROR"
      /\ status[r] = "RUNNING" /\ at[r] \in {"done", "dead"} => r \in unmarked \cup stranded
      /\ status[r] = "FAILED" /\ at[r] \in {"queued"} \cup Commits => r \in reaped

\* A finished run keeps its status until it is deleted, unless the reaper had
\* loaded it as a silent one.
KeepsVerdict ==
    \A r \in Run : status[r] \in Terminal /\ status'[r] \notin {status[r], "gone"} => r \in reaped'

\* The reaper loads runs only while no thread is between the first and the last
\* commit of an unfinished run, unless the thread hangs on a server.
ReapsTheSilent ==
    reaping = {} /\ reaping' # {} =>
          \A r \in Run \ slow : at[r] \in Commits \ {"begin"} => status[r] # "RUNNING"

\* Polling users never see the score of a run rise.
LowersScore == \A r \in Run : score'[r] <= score[r]

\* No step takes back what the history has shown, or gives up a run that is at work and
\* does not hang.
VerdictIsFinal == [][KeepsVerdict /\ ReapsTheSilent /\ LowersScore]_vars

\* The report a run refers to is there unless the report centre deleted it, and a
\* report that no run refers to is being linked or lost its run meanwhile.
ReportsAreAccountedFor ==
    /\ \A r \in Run : Exists(r) /\ reportId[r] # NoReport => reportId[r] \in reports \cup discarded
    /\ \A x \in reports :
          \/ \E r \in Run : Exists(r) /\ reportId[r] = x
          \/ x \in Run /\ at[x] = "link"
          \/ x = Merged /\ merging # {}
          \/ x \in orphans

\* Every run's row is well formed and true.
RunIsSound == TypeOK /\ RunTellsTheTruth

\* A check hangs that the run is at, or that a worker of the run's pool is at.
Hindered(r) == \E b \in slow : b = r \/ {b, r} \subseteq 1..Batch

\* While the process lives and no check hangs every run ends: nothing stays at
\* RUNNING but what no session could write.
RunEnds ==
    \A r \in Run :
        (status[r] = "RUNNING") ~>
            (status[r] # "RUNNING" \/ r \in stranded \cup unmarked \/ Hindered(r))
=============================================================================
