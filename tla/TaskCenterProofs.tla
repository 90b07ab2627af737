-------------------------- MODULE TaskCenterProofs --------------------------
(***************************************************************************)
(* Proofs about the two parts the checks of MCTaskCenter compose: about    *)
(* TaskCenter for any number of jobs, executions, records and restarts and *)
(* any size of the queue, and about SchemaMigrations, the start on the     *)
(* database of an older release, for any model, list of migrations and     *)
(* databases that its assumptions allow.                                   *)
(***************************************************************************)
EXTENDS TaskCenter, SchemaMigrations, FiniteSetTheorems, TLAPS

\* A record that waits is in the queue or in the hands of the writer; once the
\* writer has left, or the shutdown got past its join, those that wait came late.
AuditInv ==
    /\ \A r \in Record : fate[r] = "queued" =>
          r = busy \/ \E i \in 1..Len(queue) : queue[i] = r
    /\ ~alive \/ closing \in {"drains", "over"} =>
          closing # "no" /\ \A r \in Record \ lateComers : fate[r] # "queued"

\* The place of a tool job's thread, what it has done and what the row may be.
ToolInv(j) ==
    /\ caller[j] = "idle" <=> row[j] = "none"
    /\ at[j] # "none" => caller[j] \in {"started", "over"}
    /\ caller[j] = "created" \/ at[j] = "boot" => row[j] \in {"queued", "failed", "gone"}
    /\ caller[j] \in {"idle", "created"}
       \/ at[j] \in {"boot", "p10", "request", "policy", "p35", "handler"} => j \notin returned
    /\ at[j] \in {"p90", "audit", "p100"} => j \in returned
    /\ at[j] = "p100" => fate[Outcome(j, "success")] # "none"
    /\ at[j] # "none" => row[j] # "success"
    /\ loaded[j] # "success" /\ (loaded[j] = "failed" => row[j] \in {"failed", "gone"})
    /\ at[j] = "fail" /\ j \in returned => j \in raised
    /\ at[j] = "failaudit" => row[j] \in {"failed", "gone"} \/ j \in raised
    /\ row[j] = "failed" /\ j \notin swept =>
          at[j] \in {"failaudit", "none"} /\ caller[j] \in {"started", "over"}

\* The same of an execution.
ExecInv(e) ==
    /\ session[e] \in {"idle", "consume", "claimed", "expire", "reject", "execute"} =>
          row[e] = "none"
    /\ session[e] \in {"refresh", "dispatch", "finish"} =>
          row[e] \in {"running", "failed", "gone"} /\ (row[e] = "failed" => e \in swept)
    /\ session[e] \notin {"finish", "over"} => e \notin returned /\ result[e] = "none"
    /\ session[e] = "finish" => result[e] # "none"
    /\ result[e] = "SUCCEEDED" => e \in returned
    /\ result[e] = "FAILED" => e \notin returned

JobInv ==
    /\ \A j \in Tool : ToolInv(j)
    /\ \A e \in Exec : ExecInv(e)
    /\ \A j \in Job : JobTellsTheTruth(j)

\* The calls that have written RUNNING.
Started == {e \in Exec : session[e] \in {"refresh", "dispatch", "finish", "over"}}

\* EXECUTING is written once, from PENDING_APPROVAL, and left for good when a call
\* starts: who reads it has no call before it.
DispatchInv ==
    /\ approval \in {"PENDING_APPROVAL", "EXECUTING"} => Started = {}
    /\ dispatched \subseteq Started
    /\ ~together =>
          \A e, f \in Exec :
             (session[e] = "execute" \/ e \in Started)
             /\ (session[f] = "execute" \/ f \in Started) => e = f

IndInv == TypeOK /\ AuditInv /\ JobInv /\ DispatchInv /\ ApprovalTellsTheTruth

-----------------------------------------------------------------------------
LEMMA WrittenWords == DOMAIN Written = {"p10", "p35", "p90", "p100", "fail"}
  BY DEF Written

\* Nothing has been called yet.
LEMMA InitInv == Init => IndInv
<1> SUFFICES ASSUME Init PROVE IndInv
  OBVIOUS
<1>1. TypeOK
  <2>1. AuditTypeOK
    BY AuditAssumption DEF Init, AuditInit, AuditTypeOK
  <2>2. JobTypeOK
    <3>1. /\ row \in [Job -> {"none", "queued", "running", "success", "failed", "gone"}]
          /\ caller \in [Tool -> {"idle", "created", "started", "over"}]
          /\ at \in [Tool -> DOMAIN Written \cup {"none", "boot", "request", "policy",
                                                  "handler", "audit", "failaudit"}]
      BY DEF Init, JobInit
    <3>2. /\ loaded \in [Tool -> {"nothing", "queued", "running", "success", "failed"}]
          /\ \A x \in {sweeping, returned, swept, raised, stranded} : x \subseteq Job
      BY DEF Init, JobInit
    <3> QED
      BY <3>1, <3>2 DEF JobTypeOK
  <2>3. ApprovalTypeOK
    BY DEF Init, ApprovalInit, ApprovalTypeOK
  <2>4. restarts \in 0..MaxRestarts
    BY TaskAssumption DEF Init
  <2> QED
    BY <2>1, <2>2, <2>3, <2>4 DEF Init, TypeOK
<1>2. AuditInv
  BY DEF Init, AuditInit, AuditInv
<1>3. JobInv
  BY DEF Init, JobInit, ApprovalInit, JobInv, ToolInv, ExecInv,
     JobTellsTheTruth, Job, ActiveJob
<1>4. DispatchInv /\ ApprovalTellsTheTruth
  BY DEF Init, ApprovalInit, DispatchInv, Started, ApprovalTellsTheTruth
<1> QED
  BY <1>1, <1>2, <1>3, <1>4 DEF IndInv

\* The first record of the queue, and the others behind it.
LEMMA TakeHead ==
    ASSUME AuditTypeOK, queue # <<>>
    PROVE  /\ Head(queue) \in Record /\ Head(queue) = queue[1]
           /\ Tail(queue) \in Seq(Record) /\ Len(Tail(queue)) = Len(queue) - 1
           /\ Len(queue) \in Nat \ {0}
           /\ \A i \in 1..Len(Tail(queue)) : Tail(queue)[i] = queue[i + 1]
  BY DEF AuditTypeOK

\* Whatever waits behind the first record is in the rest.
LEMMA InTail ==
    ASSUME AuditTypeOK, NEW x, NEW i \in 1..Len(queue), queue[i] = x, x # Head(queue)
    PROVE  \E k \in 1..Len(Tail(queue)) : Tail(queue)[k] = x
<1>1. queue # <<>>
  OBVIOUS
<1>2. i # 1 /\ i - 1 \in 1..Len(Tail(queue)) /\ Tail(queue)[i - 1] = x
  BY <1>1, TakeHead
<1> QED
  BY <1>2

\* A record that is submitted goes to the end of the queue, or is written.
LEMMA SubmitTypes ==
    ASSUME AuditTypeOK, NEW r \in Record, Submit(r)
    PROVE  AuditTypeOK'
<1>1. CASE Len(queue) < QueueSize
  <2>1. queue' \in Seq(Record) /\ Len(queue') = Len(queue) + 1 /\ Len(queue) \in Nat
    BY <1>1 DEF AuditTypeOK, Submit
  <2>2. fate' \in [Record -> {"none", "queued", "written", "failed", "lost"}]
    BY <1>1 DEF AuditTypeOK, Submit
  <2> QED
    BY <1>1, <2>1, <2>2, AuditAssumption DEF AuditTypeOK, Submit
<1>2. CASE ~(Len(queue) < QueueSize)
  BY <1>2 DEF AuditTypeOK, Submit, Runs
<1> QED
  BY <1>1, <1>2

LEMMA SubmitAudit ==
    ASSUME AuditTypeOK, AuditInv, NEW r \in Record, Submit(r)
    PROVE  AuditInv'
<1>1. CASE Len(queue) < QueueSize
  <2>1. /\ Len(queue') = Len(queue) + 1 /\ Len(queue) \in Nat /\ queue'[Len(queue) + 1] = r
        /\ \A i \in 1..Len(queue) : queue'[i] = queue[i]
    BY <1>1 DEF Submit
  <2>2. fate' = [fate EXCEPT ![r] = "queued"] /\ UNCHANGED <<alive, busy, closing>>
    BY <1>1 DEF Submit
  <2>3. lateComers' = IF closing = "no" THEN lateComers ELSE lateComers \cup {r}
    BY DEF Submit
  <2>4. \A x \in Record : fate'[x] = "queued" =>
            x = busy' \/ \E i \in 1..Len(queue') : queue'[i] = x
    <3> SUFFICES ASSUME NEW x \in Record, fate'[x] = "queued", x # busy
                 PROVE  \E i \in 1..Len(queue') : queue'[i] = x
      BY <2>2
    <3>1. CASE x = r
      BY <3>1, <2>1
    <3>2. CASE x # r
      <4>1. \E i \in 1..Len(queue) : queue[i] = x
        BY <3>2, <2>2 DEF AuditInv
      <4> QED
        BY <4>1, <2>1
    <3> QED
      BY <3>1, <3>2
  <2>5. ASSUME ~alive' \/ closing' \in {"drains", "over"}
        PROVE  closing' # "no" /\ \A x \in Record \ lateComers' : fate'[x] # "queued"
    BY <2>5, <2>2, <2>3 DEF AuditInv
  <2> QED
    BY <2>4, <2>5 DEF AuditInv
<1>2. CASE ~(Len(queue) < QueueSize)
  BY <1>2 DEF AuditTypeOK, AuditInv, Submit, Runs
<1> QED
  BY <1>1, <1>2

\* The writer and the shutdown take records from the front.
LEMMA WriterTypes ==
    ASSUME AuditTypeOK, WriterStep \/ SetsEvent \/ ShutdownStep
    PROVE  AuditTypeOK'
<1>1. ASSUME WriterTakes PROVE AuditTypeOK'
  BY <1>1, TakeHead, AuditAssumption DEF AuditTypeOK, WriterTakes
<1>2. ASSUME WriterWrites PROVE AuditTypeOK'
  BY <1>2, AuditAssumption DEF AuditTypeOK, WriterWrites, Runs
<1>3. ASSUME WriterLeaves PROVE AuditTypeOK'
  BY <1>3, AuditAssumption DEF AuditTypeOK, WriterLeaves
<1>4. ASSUME SetsEvent PROVE AuditTypeOK'
  BY <1>4, AuditAssumption DEF AuditTypeOK, SetsEvent
<1>5. ASSUME Looks PROVE AuditTypeOK'
  BY <1>5, AuditAssumption DEF AuditTypeOK, Looks
<1>6. ASSUME Joins PROVE AuditTypeOK'
  BY <1>6, AuditAssumption DEF AuditTypeOK, Joins
<1>7. ASSUME DrainsOne PROVE AuditTypeOK'
  BY <1>7, TakeHead, AuditAssumption DEF AuditTypeOK, DrainsOne, Runs
<1>8. ASSUME Drained PROVE AuditTypeOK'
  BY <1>8, AuditAssumption DEF AuditTypeOK, Drained
<1> QED
  BY <1>1, <1>2, <1>3, <1>4, <1>5, <1>6, <1>7, <1>8 DEF WriterStep,
     ShutdownStep

\* The writer leaves, and the join ends, only when nothing waits.
LEMMA WriterAudit ==
    ASSUME AuditTypeOK, AuditInv, WriterStep \/ SetsEvent \/ ShutdownStep
    PROVE  AuditInv'
<1>1. ASSUME WriterTakes PROVE AuditInv'
  <2>1. \A x \in Record : fate'[x] = "queued" =>
            x = busy' \/ \E i \in 1..Len(queue') : queue'[i] = x
    <3> SUFFICES ASSUME NEW x \in Record, fate'[x] = "queued", x # busy'
                 PROVE  \E i \in 1..Len(queue') : queue'[i] = x
      OBVIOUS
    <3>1. fate[x] = "queued" /\ x # Head(queue) /\ x # busy
      BY <1>1, TakeHead, AuditAssumption DEF WriterTakes
    <3>2. \E i \in 1..Len(queue) : queue[i] = x
      BY <3>1 DEF AuditInv
    <3> QED
      BY <1>1, <3>1, <3>2, InTail DEF WriterTakes
  <2>2. ASSUME ~alive' \/ closing' \in {"drains", "over"}
        PROVE  closing' # "no" /\ \A x \in Record \ lateComers' : fate'[x] # "queued"
    BY <1>1, <2>2, TakeHead DEF AuditInv, WriterTakes
  <2> QED
    BY <2>1, <2>2 DEF AuditInv
<1>2. ASSUME WriterWrites PROVE AuditInv'
  BY <1>2, AuditAssumption DEF AuditTypeOK, AuditInv, WriterWrites, Runs
<1>3. ASSUME WriterLeaves PROVE AuditInv'
  BY <1>3, AuditAssumption DEF AuditInv, WriterLeaves, MayLeave
<1>4. ASSUME SetsEvent PROVE AuditInv'
  BY <1>4, AuditAssumption DEF AuditInv, SetsEvent
<1>5. ASSUME Looks PROVE AuditInv'
  BY <1>5, AuditAssumption DEF AuditInv, Looks
<1>6. ASSUME Joins PROVE AuditInv'
  BY <1>6, AuditAssumption DEF AuditInv, Joins
<1>7. ASSUME DrainsOne PROVE AuditInv'
  <2>1. \A x \in Record : fate'[x] = "queued" =>
            x = busy' \/ \E i \in 1..Len(queue') : queue'[i] = x
    <3> SUFFICES ASSUME NEW x \in Record, fate'[x] = "queued", x # busy'
                 PROVE  \E i \in 1..Len(queue') : queue'[i] = x
      OBVIOUS
    <3>1. fate[x] = "queued" /\ x # Head(queue) /\ x # busy
      BY <1>7, TakeHead, AuditAssumption DEF AuditTypeOK, DrainsOne, Runs
    <3>2. \E i \in 1..Len(queue) : queue[i] = x
      BY <3>1 DEF AuditInv
    <3> QED
      BY <1>7, <3>1, <3>2, InTail DEF DrainsOne
  <2>2. ASSUME ~alive' \/ closing' \in {"drains", "over"}
        PROVE  closing' # "no" /\ \A x \in Record \ lateComers' : fate'[x] # "queued"
    BY <1>7, <2>2, TakeHead DEF AuditInv, DrainsOne, Runs
  <2> QED
    BY <2>1, <2>2 DEF AuditInv
<1>8. ASSUME Drained PROVE AuditInv'
  BY <1>8, AuditAssumption DEF AuditInv, Drained
<1> QED
  BY <1>1, <1>2, <1>3, <1>4, <1>5, <1>6, <1>7, <1>8 DEF WriterStep,
     ShutdownStep

\* Every step of a thread, a call or the process keeps the types.
LEMMA TypeStep ==
    ASSUME TypeOK, JobInv, [Next]_vars
    PROVE  TypeOK'
<1>1. ASSUME NEW j \in Tool, CreateJob(j), UNCHANGED <<approvalVars, processVars>>
      PROVE  TypeOK'
  BY <1>1, WrittenWords, AuditAssumption, TaskAssumption DEF TypeOK,
     AuditTypeOK, JobTypeOK, ApprovalTypeOK, CreateJob, jobHistory, auditVars,
     approvalVars, processVars
<1>2. ASSUME NEW j \in Tool, StartWorker(j), UNCHANGED <<approvalVars, processVars>>
      PROVE  TypeOK'
  BY <1>2, WrittenWords, AuditAssumption, TaskAssumption DEF TypeOK,
     AuditTypeOK, JobTypeOK, ApprovalTypeOK, StartWorker, jobHistory,
     auditVars, approvalVars, processVars
<1>3. ASSUME NEW j \in Tool, RecordCall(j), UNCHANGED <<approvalVars, processVars>>
      PROVE  TypeOK'
  <2>1. AuditTypeOK'
    BY <1>3, SubmitTypes, TaskAssumption DEF TypeOK, auditVars, RecordCall
  <2> QED
    BY <1>3, <2>1, WrittenWords DEF TypeOK, JobTypeOK, ApprovalTypeOK,
       RecordCall, jobHistory, approvalVars, processVars
<1>4. ASSUME NEW j \in Tool, Boots(j), UNCHANGED <<approvalVars, processVars>>
      PROVE  TypeOK'
  BY <1>4, WrittenWords, AuditAssumption, TaskAssumption DEF TypeOK,
     AuditTypeOK, JobTypeOK, ApprovalTypeOK, Boots, Go, jobHistory, auditVars,
     approvalVars, processVars
<1>5. ASSUME NEW j \in Tool, LoadsJob(j), UNCHANGED <<approvalVars, processVars>>
      PROVE  TypeOK'
  <2>1. AuditTypeOK' /\ ApprovalTypeOK'
    BY <1>5 DEF TypeOK, AuditTypeOK, ApprovalTypeOK, LoadsJob, auditVars,
       approvalVars
  <2>2. at' \in [Tool -> DOMAIN Written \cup {"none", "boot", "request", "policy",
                                             "handler", "audit", "failaudit"}]
    <3>1. at[j] \in {"p10", "p35", "p90", "p100", "fail"}
      BY <1>5, WrittenWords DEF LoadsJob
    <3>2. CASE Exists(j)
      BY <1>5, <3>2 DEF TypeOK, JobTypeOK, LoadsJob
    <3>3. CASE ~Exists(j) /\ at[j] = "p10"
      BY <1>5, <3>3 DEF TypeOK, JobTypeOK, LoadsJob, Go
    <3>4. CASE ~Exists(j) /\ at[j] # "p10"
      <4>1. After[at[j]] \in DOMAIN Written \cup {"none", "request", "handler", "audit",
                                                 "failaudit"}
        BY <3>1, WrittenWords DEF After
      <4> QED
        BY <1>5, <3>4, <4>1 DEF TypeOK, JobTypeOK, LoadsJob, Go
    <3> QED
      BY <3>2, <3>3, <3>4
  <2>3. loaded' \in [Tool -> {"nothing", "queued", "running", "success", "failed"}]
    <3>1. Exists(j) => row[j] \in {"queued", "running", "success", "failed"}
      BY DEF TypeOK, JobTypeOK, Exists, Job
    <3> QED
      BY <1>5, <3>1 DEF TypeOK, JobTypeOK, LoadsJob
  <2> QED
    BY <1>5, <2>1, <2>2, <2>3 DEF TypeOK, JobTypeOK, LoadsJob, jobHistory,
       processVars
<1>6. ASSUME NEW j \in Tool, WritesJob(j), UNCHANGED <<approvalVars, processVars>>
      PROVE  TypeOK'
  BY <1>6, WrittenWords, AuditAssumption, TaskAssumption DEF TypeOK,
     AuditTypeOK, JobTypeOK, ApprovalTypeOK, Job, Written, After, WritesJob,
     Saves, Go, jobHistory, auditVars, approvalVars, processVars
<1>7. ASSUME NEW j \in Tool, WriteRaises(j), UNCHANGED <<approvalVars, processVars>>
      PROVE  TypeOK'
  BY <1>7, WrittenWords, AuditAssumption, TaskAssumption DEF TypeOK,
     AuditTypeOK, JobTypeOK, ApprovalTypeOK, Job, WriteRaises, Go, auditVars,
     approvalVars, processVars
<1>8. ASSUME NEW j \in Tool, ReadsRequest(j), UNCHANGED <<approvalVars, processVars>>
      PROVE  TypeOK'
  BY <1>8, WrittenWords, AuditAssumption, TaskAssumption DEF TypeOK,
     AuditTypeOK, JobTypeOK, ApprovalTypeOK, ReadsRequest, Go, jobHistory,
     auditVars, approvalVars, processVars
<1>9. ASSUME NEW j \in Tool, PassesPolicy(j), UNCHANGED <<approvalVars, processVars>>
      PROVE  TypeOK'
  BY <1>9, WrittenWords, AuditAssumption, TaskAssumption DEF TypeOK,
     AuditTypeOK, JobTypeOK, ApprovalTypeOK, PassesPolicy, Go, jobHistory,
     auditVars, approvalVars, processVars
<1>10. ASSUME NEW j \in Tool, Handles(j), UNCHANGED <<approvalVars, processVars>>
      PROVE  TypeOK'
  BY <1>10, WrittenWords, AuditAssumption, TaskAssumption DEF TypeOK,
     AuditTypeOK, JobTypeOK, ApprovalTypeOK, Job, Handles, Go, auditVars,
     approvalVars, processVars
<1>11. ASSUME NEW j \in Tool, RecordOutcome(j), UNCHANGED <<approvalVars, processVars>>
      PROVE  TypeOK'
  <2>1. AuditTypeOK'
    BY <1>11, SubmitTypes, TaskAssumption DEF TypeOK, AuditTypeOK, auditVars,
       RecordOutcome
  <2> QED
    BY <1>11, <2>1, WrittenWords DEF TypeOK, JobTypeOK, ApprovalTypeOK,
       RecordOutcome, Go, jobHistory, approvalVars, processVars
<1>12. ASSUME WriterStep \/ SetsEvent \/ ShutdownStep,
             UNCHANGED <<jobVars, approvalVars, processVars>>
      PROVE  TypeOK'
  BY <1>12, WriterTypes DEF TypeOK, JobTypeOK, ApprovalTypeOK, jobVars,
     approvalVars, processVars
<1>13. ASSUME NEW e \in Exec, ReadsPending(e), UNCHANGED <<auditVars, processVars>>
      PROVE  TypeOK'
  BY <1>13, WrittenWords, AuditAssumption, TaskAssumption DEF TypeOK,
     AuditTypeOK, JobTypeOK, ApprovalTypeOK, ReadsPending, Enter, jobVars,
     auditVars, processVars
<1>14. ASSUME NEW e \in Exec, Consumes(e), UNCHANGED <<auditVars, processVars>>
      PROVE  TypeOK'
  BY <1>14, WrittenWords, AuditAssumption, TaskAssumption DEF TypeOK,
     AuditTypeOK, JobTypeOK, ApprovalTypeOK, Consumes, Enter, jobVars,
     auditVars, processVars
<1>15. ASSUME NEW e \in Exec, ExpiresOrRejects(e), UNCHANGED <<auditVars, processVars>>
      PROVE  TypeOK'
  BY <1>15, WrittenWords, AuditAssumption, TaskAssumption DEF TypeOK,
     AuditTypeOK, JobTypeOK, ApprovalTypeOK, ExpiresOrRejects, Enter, jobVars,
     auditVars, processVars
<1>16. ASSUME NEW e \in Exec, ReadsApproval(e), UNCHANGED <<auditVars, processVars>>
      PROVE  TypeOK'
  <2>1. AuditTypeOK' /\ JobTypeOK'
    BY <1>16 DEF TypeOK, AuditTypeOK, JobTypeOK, ReadsApproval, auditVars,
       jobVars
  <2>2. session' \in [Exec -> {"idle", "consume", "claimed", "expire", "reject",
                              "execute", "refresh", "dispatch", "finish", "over"}]
    BY <1>16 DEF TypeOK, ApprovalTypeOK, ReadsApproval, Enter
  <2>3. together' \in BOOLEAN
    BY <1>16 DEF TypeOK, ApprovalTypeOK, ReadsApproval
  <2> QED
    BY <1>16, <2>1, <2>2, <2>3 DEF TypeOK, ApprovalTypeOK, ReadsApproval,
       processVars
<1>17. ASSUME NEW e \in Exec, Starts(e), UNCHANGED <<auditVars, processVars>>
      PROVE  TypeOK'
  BY <1>17, WrittenWords, AuditAssumption, TaskAssumption DEF TypeOK,
     AuditTypeOK, JobTypeOK, ApprovalTypeOK, Starts, Enter, jobHistory,
     auditVars, processVars
<1>18. ASSUME NEW e \in Exec, Refreshes(e), UNCHANGED <<auditVars, processVars>>
      PROVE  TypeOK'
  BY <1>18, WrittenWords, AuditAssumption, TaskAssumption DEF TypeOK,
     AuditTypeOK, JobTypeOK, ApprovalTypeOK, Refreshes, Enter, jobVars,
     auditVars, processVars
<1>19. ASSUME NEW e \in Exec, Dispatches(e), UNCHANGED <<auditVars, processVars>>
      PROVE  TypeOK'
  <2>1. AuditTypeOK'
    BY <1>19 DEF TypeOK, AuditTypeOK, auditVars
  <2>2. JobTypeOK'
    <3>1. returned' \subseteq Job
      BY <1>19 DEF TypeOK, JobTypeOK, Job, Dispatches
    <3> QED
      BY <1>19, <3>1 DEF TypeOK, JobTypeOK, Dispatches
  <2>3. session' \in [Exec -> {"idle", "consume", "claimed", "expire", "reject",
                              "execute", "refresh", "dispatch", "finish", "over"}]
    BY <1>19 DEF TypeOK, ApprovalTypeOK, Dispatches, Enter
  <2>4. result' \in [Exec -> {"none", "SUCCEEDED", "FAILED"}]
    BY <1>19 DEF TypeOK, ApprovalTypeOK, Dispatches
  <2> QED
    BY <1>19, <2>1, <2>2, <2>3, <2>4 DEF TypeOK, ApprovalTypeOK, Dispatches,
       processVars
<1>20. ASSUME NEW e \in Exec, Finishes(e), UNCHANGED <<auditVars, processVars>>
      PROVE  TypeOK'
  BY <1>20, WrittenWords, AuditAssumption, TaskAssumption DEF TypeOK,
     AuditTypeOK, JobTypeOK, ApprovalTypeOK, JobInv, ExecInv, Finishes,
     JobResult, Enter, jobHistory, auditVars, processVars
<1>21. ASSUME NEW e \in Exec, FinishRaises(e), UNCHANGED <<auditVars, processVars>>
      PROVE  TypeOK'
  BY <1>21, WrittenWords, AuditAssumption, TaskAssumption DEF TypeOK,
     AuditTypeOK, JobTypeOK, ApprovalTypeOK, Job, FinishRaises, Enter,
     auditVars, processVars
<1>22. ASSUME ExpireStale, UNCHANGED <<auditVars, processVars>>
      PROVE  TypeOK'
  BY <1>22, WrittenWords, AuditAssumption, TaskAssumption DEF TypeOK,
     AuditTypeOK, JobTypeOK, ApprovalTypeOK, ExpireStale, jobVars, auditVars,
     processVars
<1>23. ASSUME SweepLoads, UNCHANGED <<approvalVars, processVars>>
      PROVE  TypeOK'
  BY <1>23, WrittenWords, AuditAssumption, TaskAssumption DEF TypeOK,
     AuditTypeOK, JobTypeOK, ApprovalTypeOK, SweepLoads, jobHistory, auditVars,
     approvalVars, processVars
<1>24. ASSUME SweepWrites, UNCHANGED <<approvalVars, processVars>>
      PROVE  TypeOK'
  BY <1>24, WrittenWords, AuditAssumption, TaskAssumption DEF TypeOK,
     AuditTypeOK, JobTypeOK, ApprovalTypeOK, SweepWrites, auditVars,
     approvalVars, processVars
<1>25. ASSUME NEW j \in Job, DeleteRow(j), UNCHANGED <<approvalVars, processVars>>
      PROVE  TypeOK'
  BY <1>25, WrittenWords, AuditAssumption, TaskAssumption DEF TypeOK,
     AuditTypeOK, JobTypeOK, ApprovalTypeOK, DeleteRow, jobHistory, auditVars,
     approvalVars, processVars
<1>26. ASSUME Restart
      PROVE  TypeOK'
  BY <1>26, WrittenWords, AuditAssumption, TaskAssumption DEF TypeOK,
     AuditTypeOK, JobTypeOK, ApprovalTypeOK, Restart, AuditRestart, JobRestart,
     ApprovalRestart
<1>27. CASE UNCHANGED vars
  BY <1>27, WrittenWords, AuditAssumption, TaskAssumption DEF TypeOK,
     AuditTypeOK, JobTypeOK, ApprovalTypeOK, vars, jobVars, auditVars,
     approvalVars, processVars
<1> QED
  BY <1>1, <1>2, <1>3, <1>4, <1>5, <1>6, <1>7, <1>8, <1>9, <1>10, <1>11, <1>12,
     <1>13, <1>14, <1>15, <1>16, <1>17, <1>18, <1>19, <1>20, <1>21, <1>22,
     <1>23, <1>24, <1>25, <1>26, <1>27 DEF Next, ToolNext, ToolStep,
     ApprovalNext, ApprovalStep, CenterNext

\* Only the submissions, the writer, the shutdown and a restart touch the queue.
LEMMA AuditStep ==
    ASSUME TypeOK, AuditInv, [Next]_vars
    PROVE  AuditInv'
<1>1. ASSUME NEW j \in Tool, CreateJob(j), UNCHANGED <<approvalVars, processVars>>
      PROVE  AuditInv'
  BY <1>1, AuditAssumption, TaskAssumption DEF AuditInv, CreateJob, auditVars
<1>2. ASSUME NEW j \in Tool, StartWorker(j), UNCHANGED <<approvalVars, processVars>>
      PROVE  AuditInv'
  BY <1>2, AuditAssumption, TaskAssumption DEF AuditInv, StartWorker, auditVars
<1>3. ASSUME NEW j \in Tool, RecordCall(j), UNCHANGED <<approvalVars, processVars>>
      PROVE  AuditInv'
  <2>1. CASE UNCHANGED auditVars
    BY <2>1 DEF AuditInv, auditVars
  <2>2. CASE \E r \in Record : Submit(r)
    BY <2>2, SubmitAudit DEF TypeOK
  <2> QED
    BY <1>3, <2>1, <2>2, TaskAssumption DEF RecordCall
<1>4. ASSUME NEW j \in Tool, Boots(j), UNCHANGED <<approvalVars, processVars>>
      PROVE  AuditInv'
  BY <1>4, AuditAssumption, TaskAssumption DEF AuditInv, Boots, auditVars
<1>5. ASSUME NEW j \in Tool, LoadsJob(j), UNCHANGED <<approvalVars, processVars>>
      PROVE  AuditInv'
  BY <1>5, AuditAssumption, TaskAssumption DEF AuditInv, LoadsJob, auditVars
<1>6. ASSUME NEW j \in Tool, WritesJob(j), UNCHANGED <<approvalVars, processVars>>
      PROVE  AuditInv'
  BY <1>6, AuditAssumption, TaskAssumption DEF AuditInv, WritesJob, auditVars
<1>7. ASSUME NEW j \in Tool, WriteRaises(j), UNCHANGED <<approvalVars, processVars>>
      PROVE  AuditInv'
  BY <1>7, AuditAssumption, TaskAssumption DEF AuditInv, WriteRaises, auditVars
<1>8. ASSUME NEW j \in Tool, ReadsRequest(j), UNCHANGED <<approvalVars, processVars>>
      PROVE  AuditInv'
  BY <1>8, AuditAssumption, TaskAssumption DEF AuditInv, ReadsRequest,
     auditVars
<1>9. ASSUME NEW j \in Tool, PassesPolicy(j), UNCHANGED <<approvalVars, processVars>>
      PROVE  AuditInv'
  BY <1>9, AuditAssumption, TaskAssumption DEF AuditInv, PassesPolicy,
     auditVars
<1>10. ASSUME NEW j \in Tool, Handles(j), UNCHANGED <<approvalVars, processVars>>
      PROVE  AuditInv'
  BY <1>10, AuditAssumption, TaskAssumption DEF AuditInv, Handles, auditVars
<1>11. ASSUME NEW j \in Tool, RecordOutcome(j), UNCHANGED <<approvalVars, processVars>>
      PROVE  AuditInv'
  <2>1. CASE UNCHANGED auditVars
    BY <2>1 DEF AuditInv, auditVars
  <2>2. CASE \E r \in Record : Submit(r)
    BY <2>2, SubmitAudit DEF TypeOK
  <2> QED
    BY <1>11, <2>1, <2>2, TaskAssumption DEF RecordOutcome
<1>12. ASSUME WriterStep \/ SetsEvent \/ ShutdownStep,
             UNCHANGED <<jobVars, approvalVars, processVars>>
      PROVE  AuditInv'
  BY <1>12, WriterAudit DEF TypeOK
<1>13. ASSUME NEW e \in Exec, ReadsPending(e), UNCHANGED <<auditVars, processVars>>
      PROVE  AuditInv'
  BY <1>13, AuditAssumption, TaskAssumption DEF AuditInv, auditVars
<1>14. ASSUME NEW e \in Exec, Consumes(e), UNCHANGED <<auditVars, processVars>>
      PROVE  AuditInv'
  BY <1>14, AuditAssumption, TaskAssumption DEF AuditInv, auditVars
<1>15. ASSUME NEW e \in Exec, ExpiresOrRejects(e), UNCHANGED <<auditVars, processVars>>
      PROVE  AuditInv'
  BY <1>15, AuditAssumption, TaskAssumption DEF AuditInv, auditVars
<1>16. ASSUME NEW e \in Exec, ReadsApproval(e), UNCHANGED <<auditVars, processVars>>
      PROVE  AuditInv'
  BY <1>16, AuditAssumption, TaskAssumption DEF AuditInv, auditVars
<1>17. ASSUME NEW e \in Exec, Starts(e), UNCHANGED <<auditVars, processVars>>
      PROVE  AuditInv'
  BY <1>17, AuditAssumption, TaskAssumption DEF AuditInv, auditVars
<1>18. ASSUME NEW e \in Exec, Refreshes(e), UNCHANGED <<auditVars, processVars>>
      PROVE  AuditInv'
  BY <1>18, AuditAssumption, TaskAssumption DEF AuditInv, auditVars
<1>19. ASSUME NEW e \in Exec, Dispatches(e), UNCHANGED <<auditVars, processVars>>
      PROVE  AuditInv'
  BY <1>19, AuditAssumption, TaskAssumption DEF AuditInv, auditVars
<1>20. ASSUME NEW e \in Exec, Finishes(e), UNCHANGED <<auditVars, processVars>>
      PROVE  AuditInv'
  BY <1>20, AuditAssumption, TaskAssumption DEF AuditInv, auditVars
<1>21. ASSUME NEW e \in Exec, FinishRaises(e), UNCHANGED <<auditVars, processVars>>
      PROVE  AuditInv'
  BY <1>21, AuditAssumption, TaskAssumption DEF AuditInv, auditVars
<1>22. ASSUME ExpireStale, UNCHANGED <<auditVars, processVars>>
      PROVE  AuditInv'
  BY <1>22, AuditAssumption, TaskAssumption DEF AuditInv, auditVars
<1>23. ASSUME SweepLoads, UNCHANGED <<approvalVars, processVars>>
      PROVE  AuditInv'
  BY <1>23, AuditAssumption, TaskAssumption DEF AuditInv, SweepLoads, auditVars
<1>24. ASSUME SweepWrites, UNCHANGED <<approvalVars, processVars>>
      PROVE  AuditInv'
  BY <1>24, AuditAssumption, TaskAssumption DEF AuditInv, SweepWrites,
     auditVars
<1>25. ASSUME NEW j \in Job, DeleteRow(j), UNCHANGED <<approvalVars, processVars>>
      PROVE  AuditInv'
  BY <1>25, AuditAssumption, TaskAssumption DEF AuditInv, DeleteRow, auditVars
<1>26. ASSUME Restart
      PROVE  AuditInv'
  BY <1>26, AuditAssumption, TaskAssumption DEF AuditInv, Restart, AuditRestart
<1>27. CASE UNCHANGED vars
  BY <1>27, AuditAssumption, TaskAssumption DEF AuditInv, vars, auditVars
<1> QED
  BY <1>1, <1>2, <1>3, <1>4, <1>5, <1>6, <1>7, <1>8, <1>9, <1>10, <1>11, <1>12,
     <1>13, <1>14, <1>15, <1>16, <1>17, <1>18, <1>19, <1>20, <1>21, <1>22,
     <1>23, <1>24, <1>25, <1>26, <1>27 DEF Next, ToolNext, ToolStep,
     ApprovalNext, ApprovalStep, CenterNext

\* A record that has a fate keeps one.
LEMMA FateStays ==
    ASSUME TypeOK, [Next]_vars
    PROVE  \A r \in Record : fate[r] # "none" => fate'[r] # "none"
<1>1. ASSUME NEW j \in Tool, RecordCall(j), UNCHANGED <<approvalVars, processVars>>
      PROVE  \A r \in Record : fate[r] # "none" => fate'[r] # "none"
  BY <1>1, TaskAssumption DEF TypeOK, AuditTypeOK, RecordCall, Submit, Runs,
     auditVars
<1>2. ASSUME NEW j \in Tool, RecordOutcome(j), UNCHANGED <<approvalVars, processVars>>
      PROVE  \A r \in Record : fate[r] # "none" => fate'[r] # "none"
  BY <1>2, TaskAssumption DEF TypeOK, AuditTypeOK, RecordOutcome, Submit, Runs,
     auditVars
<1>3. ASSUME WriterStep \/ SetsEvent \/ ShutdownStep,
             UNCHANGED <<jobVars, approvalVars, processVars>>
      PROVE  \A r \in Record : fate[r] # "none" => fate'[r] # "none"
  BY <1>3, TaskAssumption DEF TypeOK, AuditTypeOK, WriterStep, WriterTakes,
     WriterWrites, WriterLeaves, SetsEvent, ShutdownStep, Looks, Joins,
     DrainsOne, Drained, Runs
<1>4. ASSUME Restart
      PROVE  \A r \in Record : fate[r] # "none" => fate'[r] # "none"
  BY <1>4, TaskAssumption DEF Restart, AuditRestart
<1>5. CASE UNCHANGED auditVars
  BY <1>5, TaskAssumption DEF auditVars
<1> QED
  BY <1>1, <1>2, <1>3, <1>4, <1>5 DEF Next, ToolNext, ToolStep, ApprovalNext,
     CenterNext, CreateJob, StartWorker, Boots, LoadsJob, WritesJob,
     WriteRaises, ReadsRequest, PassesPolicy, Handles, SweepLoads, SweepWrites,
     DeleteRow, vars

\* The thread of a tool job, and what its row says, under every step.
LEMMA ToolStays ==
    ASSUME TypeOK, JobInv, [Next]_vars
    PROVE  \A k \in Tool : ToolInv(k)' /\ JobTellsTheTruth(k)'
<1>1. ASSUME NEW j \in Tool, CreateJob(j), UNCHANGED <<approvalVars, processVars>>
      PROVE  \A k \in Tool : ToolInv(k)' /\ JobTellsTheTruth(k)'
  BY <1>1, FateStays, WrittenWords, TaskAssumption DEF TypeOK, JobTypeOK,
     JobInv, ToolInv, JobTellsTheTruth, Working, ActiveJob, Job, CreateJob,
     jobHistory
<1>2. ASSUME NEW j \in Tool, StartWorker(j), UNCHANGED <<approvalVars, processVars>>
      PROVE  \A k \in Tool : ToolInv(k)' /\ JobTellsTheTruth(k)'
  BY <1>2, FateStays, WrittenWords, TaskAssumption DEF TypeOK, JobTypeOK,
     JobInv, ToolInv, JobTellsTheTruth, Working, ActiveJob, Job, StartWorker,
     jobHistory
<1>3. ASSUME NEW j \in Tool, RecordCall(j), UNCHANGED <<approvalVars, processVars>>
      PROVE  \A k \in Tool : ToolInv(k)' /\ JobTellsTheTruth(k)'
  BY <1>3, FateStays, WrittenWords, TaskAssumption DEF JobInv, ToolInv,
     JobTellsTheTruth, Working, ActiveJob, Job, RecordCall, jobHistory
<1>4. ASSUME NEW j \in Tool, Boots(j), UNCHANGED <<approvalVars, processVars>>
      PROVE  \A k \in Tool : ToolInv(k)' /\ JobTellsTheTruth(k)'
  BY <1>4, FateStays, WrittenWords, TaskAssumption DEF JobInv, ToolInv,
     JobTellsTheTruth, Working, ActiveJob, Job, Boots, Go, jobHistory
<1>5. ASSUME NEW j \in Tool, LoadsJob(j), UNCHANGED <<approvalVars, processVars>>
      PROVE  \A k \in Tool : ToolInv(k)' /\ JobTellsTheTruth(k)'
  BY <1>5, FateStays, WrittenWords, TaskAssumption DEF TypeOK, JobTypeOK,
     JobInv, ToolInv, JobTellsTheTruth, Working, ActiveJob, Job, After,
     LoadsJob, Go, Exists, jobHistory
<1>6. ASSUME NEW j \in Tool, WritesJob(j), UNCHANGED <<approvalVars, processVars>>
      PROVE  \A k \in Tool : ToolInv(k)' /\ JobTellsTheTruth(k)'
  BY <1>6, FateStays, WrittenWords, TaskAssumption DEF TypeOK, JobTypeOK,
     JobInv, ToolInv, JobTellsTheTruth, Working, ActiveJob, Job, Written,
     After, WritesJob, Saves, Go, jobHistory
<1>7. ASSUME NEW j \in Tool, WriteRaises(j), UNCHANGED <<approvalVars, processVars>>
      PROVE  \A k \in Tool : ToolInv(k)' /\ JobTellsTheTruth(k)'
  BY <1>7, FateStays, WrittenWords, TaskAssumption DEF JobInv, ToolInv,
     JobTellsTheTruth, Working, ActiveJob, Job, WriteRaises, Go
<1>8. ASSUME NEW j \in Tool, ReadsRequest(j), UNCHANGED <<approvalVars, processVars>>
      PROVE  \A k \in Tool : ToolInv(k)' /\ JobTellsTheTruth(k)'
  BY <1>8, FateStays, WrittenWords, TaskAssumption DEF JobInv, ToolInv,
     JobTellsTheTruth, Working, ActiveJob, Job, ReadsRequest, Go, jobHistory
<1>9. ASSUME NEW j \in Tool, PassesPolicy(j), UNCHANGED <<approvalVars, processVars>>
      PROVE  \A k \in Tool : ToolInv(k)' /\ JobTellsTheTruth(k)'
  BY <1>9, FateStays, WrittenWords, TaskAssumption DEF JobInv, ToolInv,
     JobTellsTheTruth, Working, ActiveJob, Job, PassesPolicy, Go, jobHistory
<1>10. ASSUME NEW j \in Tool, Handles(j), UNCHANGED <<approvalVars, processVars>>
      PROVE  \A k \in Tool : ToolInv(k)' /\ JobTellsTheTruth(k)'
  BY <1>10, FateStays, WrittenWords, TaskAssumption DEF TypeOK, JobTypeOK,
     JobInv, ToolInv, JobTellsTheTruth, Working, ActiveJob, Job, Handles, Go
<1>11. ASSUME NEW j \in Tool, RecordOutcome(j), UNCHANGED <<approvalVars, processVars>>
      PROVE  \A k \in Tool : ToolInv(k)' /\ JobTellsTheTruth(k)'
  <2>1. at[j] = "audit" => fate'[Outcome(j, "success")] # "none"
    BY <1>11, TaskAssumption DEF TypeOK, AuditTypeOK, RecordOutcome, Submit,
       Runs
  <2>2. /\ UNCHANGED <<row, caller, loaded, sweeping, jobHistory>>
        /\ \/ at[j] = "audit" /\ at' = [at EXCEPT ![j] = "p100"]
           \/ at[j] = "failaudit" /\ at' = [at EXCEPT ![j] = "none"]
    BY <1>11 DEF RecordOutcome, Go
  <2> QED
    BY <2>1, <2>2, FateStays, WrittenWords, TaskAssumption DEF TypeOK,
       JobTypeOK, JobInv, ToolInv, JobTellsTheTruth, Working, ActiveJob, Job,
       jobHistory
<1>12. ASSUME SweepLoads, UNCHANGED <<approvalVars, processVars>>
      PROVE  \A k \in Tool : ToolInv(k)' /\ JobTellsTheTruth(k)'
  BY <1>12, FateStays, WrittenWords, TaskAssumption DEF JobInv, ToolInv,
     JobTellsTheTruth, Working, ActiveJob, Job, SweepLoads, jobHistory
<1>13. ASSUME SweepWrites, UNCHANGED <<approvalVars, processVars>>
      PROVE  \A k \in Tool : ToolInv(k)' /\ JobTellsTheTruth(k)'
  BY <1>13, FateStays, WrittenWords, TaskAssumption DEF JobInv, ToolInv,
     JobTellsTheTruth, Working, ActiveJob, Job, SweepWrites, Exists
<1>14. ASSUME NEW j \in Job, DeleteRow(j), UNCHANGED <<approvalVars, processVars>>
      PROVE  \A k \in Tool : ToolInv(k)' /\ JobTellsTheTruth(k)'
  BY <1>14, FateStays, WrittenWords, TaskAssumption DEF JobInv, ToolInv,
     JobTellsTheTruth, Working, ActiveJob, Job, DeleteRow, Exists, jobHistory
<1>15. ASSUME Restart
      PROVE  \A k \in Tool : ToolInv(k)' /\ JobTellsTheTruth(k)'
  BY <1>15, FateStays, WrittenWords, TaskAssumption DEF JobInv, ToolInv,
     JobTellsTheTruth, ActiveJob, Job, Restart, JobRestart
<1>16. CASE UNCHANGED jobVars
  BY <1>16, FateStays, WrittenWords, TaskAssumption DEF JobInv, ToolInv,
     JobTellsTheTruth, Working, ActiveJob, Job, jobVars
<1>17. CASE ApprovalNext
  <2>1. /\ UNCHANGED <<caller, at, loaded, fate>>
        /\ \A k \in Tool : /\ row'[k] = row[k]
                           /\ k \in returned' <=> k \in returned
                           /\ k \in swept' <=> k \in swept
                           /\ k \in raised' <=> k \in raised
                           /\ k \in stranded' <=> k \in stranded
    BY <1>17, TaskAssumption DEF TypeOK, JobTypeOK, Job, ApprovalNext,
       ApprovalStep, ReadsPending, Consumes, ExpiresOrRejects, ReadsApproval,
       Starts, Refreshes, Dispatches, Finishes, FinishRaises, ExpireStale,
       jobVars, jobHistory, auditVars
  <2> QED
    BY <2>1 DEF JobInv, ToolInv, JobTellsTheTruth, Working, ActiveJob, Job
<1> QED
  BY <1>1, <1>2, <1>3, <1>4, <1>5, <1>6, <1>7, <1>8, <1>9, <1>10, <1>11, <1>12,
     <1>13, <1>14, <1>15, <1>16, <1>17 DEF Next, ToolNext, ToolStep, CenterNext, vars

\* An execution, and what its row says, under every step.
LEMMA ExecStays ==
    ASSUME TypeOK, JobInv, [Next]_vars
    PROVE  \A k \in Exec : ExecInv(k)' /\ JobTellsTheTruth(k)'
<1>1. ASSUME NEW e \in Exec, ReadsPending(e), UNCHANGED <<auditVars, processVars>>
      PROVE  \A k \in Exec : ExecInv(k)' /\ JobTellsTheTruth(k)'
  BY <1>1, TaskAssumption DEF JobInv, ExecInv, JobTellsTheTruth, Working,
     ActiveJob, Job, ReadsPending, Enter, jobVars
<1>2. ASSUME NEW e \in Exec, Consumes(e), UNCHANGED <<auditVars, processVars>>
      PROVE  \A k \in Exec : ExecInv(k)' /\ JobTellsTheTruth(k)'
  BY <1>2, TaskAssumption DEF TypeOK, ApprovalTypeOK, JobInv, ExecInv,
     JobTellsTheTruth, Working, ActiveJob, Job, Consumes, Enter, jobVars
<1>3. ASSUME NEW e \in Exec, ExpiresOrRejects(e), UNCHANGED <<auditVars, processVars>>
      PROVE  \A k \in Exec : ExecInv(k)' /\ JobTellsTheTruth(k)'
  BY <1>3, TaskAssumption DEF JobInv, ExecInv, JobTellsTheTruth, Working,
     ActiveJob, Job, ExpiresOrRejects, Enter, jobVars
<1>4. ASSUME NEW e \in Exec, ReadsApproval(e), UNCHANGED <<auditVars, processVars>>
      PROVE  \A k \in Exec : ExecInv(k)' /\ JobTellsTheTruth(k)'
  BY <1>4, TaskAssumption DEF TypeOK, ApprovalTypeOK, JobInv, ExecInv,
     JobTellsTheTruth, Working, ActiveJob, Job, ReadsApproval, Enter, jobVars
<1>5. ASSUME NEW e \in Exec, Starts(e), UNCHANGED <<auditVars, processVars>>
      PROVE  \A k \in Exec : ExecInv(k)' /\ JobTellsTheTruth(k)'
  BY <1>5, TaskAssumption DEF TypeOK, JobTypeOK, ApprovalTypeOK, JobInv,
     ExecInv, JobTellsTheTruth, Working, ActiveJob, Job, Starts, Enter,
     jobVars, jobHistory, approvalVars
<1>6. ASSUME NEW e \in Exec, Refreshes(e), UNCHANGED <<auditVars, processVars>>
      PROVE  \A k \in Exec : ExecInv(k)' /\ JobTellsTheTruth(k)'
  BY <1>6, TaskAssumption DEF JobInv, ExecInv, JobTellsTheTruth, Working,
     ActiveJob, Job, Refreshes, Enter, jobVars
<1>7. ASSUME NEW e \in Exec, Dispatches(e), UNCHANGED <<auditVars, processVars>>
      PROVE  \A k \in Exec : ExecInv(k)' /\ JobTellsTheTruth(k)'
  BY <1>7, TaskAssumption DEF TypeOK, ApprovalTypeOK, JobInv, ExecInv,
     JobTellsTheTruth, Working, ActiveJob, Job, Dispatches, Enter
<1>8. ASSUME NEW e \in Exec, Finishes(e), UNCHANGED <<auditVars, processVars>>
      PROVE  \A k \in Exec : ExecInv(k)' /\ JobTellsTheTruth(k)'
  BY <1>8, TaskAssumption DEF TypeOK, JobTypeOK, ApprovalTypeOK, JobInv,
     ExecInv, JobTellsTheTruth, Working, ActiveJob, Job, Finishes, JobResult,
     Enter, jobVars, jobHistory, approvalVars
<1>9. ASSUME NEW e \in Exec, FinishRaises(e), UNCHANGED <<auditVars, processVars>>
      PROVE  \A k \in Exec : ExecInv(k)' /\ JobTellsTheTruth(k)'
  BY <1>9, TaskAssumption DEF JobInv, ExecInv, JobTellsTheTruth, Working,
     ActiveJob, Job, FinishRaises, Enter
<1>10. ASSUME SweepLoads, UNCHANGED <<approvalVars, processVars>>
      PROVE  \A k \in Exec : ExecInv(k)' /\ JobTellsTheTruth(k)'
  BY <1>10, TaskAssumption DEF JobInv, ExecInv, JobTellsTheTruth, Working,
     ActiveJob, Job, SweepLoads, jobHistory, approvalVars
<1>11. ASSUME SweepWrites, UNCHANGED <<approvalVars, processVars>>
      PROVE  \A k \in Exec : ExecInv(k)' /\ JobTellsTheTruth(k)'
  BY <1>11, TaskAssumption DEF JobInv, ExecInv, JobTellsTheTruth, Working,
     ActiveJob, Job, SweepWrites, Exists, approvalVars
<1>12. ASSUME NEW j \in Job, DeleteRow(j), UNCHANGED <<approvalVars, processVars>>
      PROVE  \A k \in Exec : ExecInv(k)' /\ JobTellsTheTruth(k)'
  BY <1>12, TaskAssumption DEF JobInv, ExecInv, JobTellsTheTruth, Working,
     ActiveJob, Job, DeleteRow, Exists, jobHistory, approvalVars
<1>13. ASSUME Restart
      PROVE  \A k \in Exec : ExecInv(k)' /\ JobTellsTheTruth(k)'
  BY <1>13, TaskAssumption DEF TypeOK, ApprovalTypeOK, JobInv, ExecInv,
     JobTellsTheTruth, ActiveJob, Job, Restart, JobRestart, ApprovalRestart
<1>14. CASE ExpireStale \/ UNCHANGED <<jobVars, approvalVars>>
  BY <1>14, TaskAssumption DEF JobInv, ExecInv, JobTellsTheTruth, Working,
     ActiveJob, Job, ExpireStale, jobVars, approvalVars
<1>15. CASE ToolNext
  <2>1. /\ UNCHANGED <<session, result>>
        /\ \A k \in Exec : /\ row'[k] = row[k]
                           /\ k \in returned' <=> k \in returned
                           /\ k \in swept' <=> k \in swept
                           /\ k \in raised' <=> k \in raised
                           /\ k \in stranded' <=> k \in stranded
    BY <1>15, TaskAssumption DEF TypeOK, JobTypeOK, Job, ToolNext, ToolStep,
       CreateJob, StartWorker, RecordCall, Boots, LoadsJob, WritesJob, Saves,
       WriteRaises, ReadsRequest, PassesPolicy, Handles, RecordOutcome,
       jobVars, jobHistory, approvalVars
  <2> QED
    BY <2>1, TaskAssumption DEF JobInv, ExecInv, JobTellsTheTruth, Working,
       ActiveJob, Job
<1> QED
  BY <1>1, <1>2, <1>3, <1>4, <1>5, <1>6, <1>7, <1>8, <1>9, <1>10, <1>11, <1>12,
     <1>13, <1>14, <1>15 DEF Next, ApprovalNext, ApprovalStep, CenterNext, vars

\* Who reads EXECUTING is alone, unless two have read it before either wrote.
LEMMA DispatchStays ==
    ASSUME TypeOK, DispatchInv, [Next]_vars
    PROVE  DispatchInv'
<1>1. ASSUME NEW e \in Exec, ReadsPending(e), UNCHANGED <<auditVars, processVars>>
      PROVE  DispatchInv'
  BY <1>1 DEF DispatchInv, Started, ReadsPending, Enter
<1>2. ASSUME NEW e \in Exec, Consumes(e), UNCHANGED <<auditVars, processVars>>
      PROVE  DispatchInv'
  BY <1>2 DEF TypeOK, ApprovalTypeOK, DispatchInv, Started, Consumes, Enter,
     approvalVars
<1>3. ASSUME NEW e \in Exec, ExpiresOrRejects(e), UNCHANGED <<auditVars, processVars>>
      PROVE  DispatchInv'
  BY <1>3 DEF DispatchInv, Started, ExpiresOrRejects, Enter
<1>4. ASSUME NEW e \in Exec, ReadsApproval(e), UNCHANGED <<auditVars, processVars>>
      PROVE  DispatchInv'
  <2>1. CASE /\ session' = [session EXCEPT ![e] = "idle"] /\ session[e] = "claimed"
             /\ UNCHANGED <<approval, dispatched, together>>
    BY <2>1 DEF DispatchInv, Started
  <2>2. CASE Executable /\ session' = [session EXCEPT ![e] = "execute"]
                /\ UNCHANGED <<approval, dispatched>>
                /\ together' = (together \/ \E f \in Exec \ {e} : session[f] = "execute")
    <3>1. Started = {} /\ Started' = {} /\ dispatched' = {}
      BY <2>2, <1>4 DEF DispatchInv, Started, Executable
    <3>2. ASSUME ~together', NEW a \in Exec, session'[a] = "execute" PROVE a = e
      BY <2>2, <3>2 DEF TypeOK, ApprovalTypeOK
    <3> QED
      BY <3>1, <3>2 DEF DispatchInv
  <2> QED
    BY <1>4, <2>1, <2>2 DEF ReadsApproval, Enter
<1>5. ASSUME NEW e \in Exec, Starts(e), UNCHANGED <<auditVars, processVars>>
      PROVE  DispatchInv'
  BY <1>5 DEF DispatchInv, Started, Starts, Enter
<1>6. ASSUME NEW e \in Exec, Refreshes(e), UNCHANGED <<auditVars, processVars>>
      PROVE  DispatchInv'
  BY <1>6 DEF DispatchInv, Started, Refreshes, Enter
<1>7. ASSUME NEW e \in Exec, Dispatches(e), UNCHANGED <<auditVars, processVars>>
      PROVE  DispatchInv'
  BY <1>7 DEF DispatchInv, Started, Dispatches, Enter
<1>8. ASSUME NEW e \in Exec, Finishes(e), UNCHANGED <<auditVars, processVars>>
      PROVE  DispatchInv'
  BY <1>8 DEF TypeOK, ApprovalTypeOK, DispatchInv, Started, Finishes, Enter
<1>9. ASSUME NEW e \in Exec, FinishRaises(e), UNCHANGED <<auditVars, processVars>>
      PROVE  DispatchInv'
  BY <1>9 DEF DispatchInv, Started, FinishRaises, Enter
<1>10. ASSUME ExpireStale, UNCHANGED <<auditVars, processVars>>
      PROVE  DispatchInv'
  BY <1>10 DEF DispatchInv, Started, ExpireStale
<1>11. ASSUME Restart
      PROVE  DispatchInv'
  BY <1>11 DEF DispatchInv, Started, Restart, ApprovalRestart
<1>12. CASE UNCHANGED approvalVars
  BY <1>12 DEF DispatchInv, Started, approvalVars
<1> QED
  BY <1>1, <1>2, <1>3, <1>4, <1>5, <1>6, <1>7, <1>8, <1>9, <1>10, <1>11, <1>12
     DEF Next, ToolNext, ApprovalNext, ApprovalStep, CenterNext, vars

\* The outcome of an approval is a dispatch's, and a claimed one has somebody at work.
LEMMA ApprovalStays ==
    ASSUME TypeOK, JobInv, ApprovalTellsTheTruth, [Next]_vars
    PROVE  ApprovalTellsTheTruth'
<1>1. ASSUME NEW e \in Exec, ReadsPending(e), UNCHANGED <<auditVars, processVars>>
      PROVE  ApprovalTellsTheTruth'
  BY <1>1, TaskAssumption DEF ApprovalTellsTheTruth, ReadsPending
<1>2. ASSUME NEW e \in Exec, Consumes(e), UNCHANGED <<auditVars, processVars>>
      PROVE  ApprovalTellsTheTruth'
  BY <1>2, TaskAssumption DEF TypeOK, ApprovalTypeOK, ApprovalTellsTheTruth,
     Working, Consumes, Enter, jobVars, processVars
<1>3. ASSUME NEW e \in Exec, ExpiresOrRejects(e), UNCHANGED <<auditVars, processVars>>
      PROVE  ApprovalTellsTheTruth'
  BY <1>3, TaskAssumption DEF ApprovalTellsTheTruth, ExpiresOrRejects
<1>4. ASSUME NEW e \in Exec, ReadsApproval(e), UNCHANGED <<auditVars, processVars>>
      PROVE  ApprovalTellsTheTruth'
  BY <1>4, TaskAssumption DEF TypeOK, ApprovalTypeOK, ApprovalTellsTheTruth,
     Working, ReadsApproval, Executable, Enter, jobVars, processVars
<1>5. ASSUME NEW e \in Exec, Starts(e), UNCHANGED <<auditVars, processVars>>
      PROVE  ApprovalTellsTheTruth'
  BY <1>5, TaskAssumption DEF TypeOK, ApprovalTypeOK, ApprovalTellsTheTruth,
     Working, Starts, Enter
<1>6. ASSUME NEW e \in Exec, Refreshes(e), UNCHANGED <<auditVars, processVars>>
      PROVE  ApprovalTellsTheTruth'
  BY <1>6, TaskAssumption DEF ApprovalTellsTheTruth, Working, Refreshes, Enter,
     jobVars, processVars
<1>7. ASSUME NEW e \in Exec, Dispatches(e), UNCHANGED <<auditVars, processVars>>
      PROVE  ApprovalTellsTheTruth'
  BY <1>7, TaskAssumption DEF TypeOK, ApprovalTypeOK, JobInv, ExecInv,
     ApprovalTellsTheTruth, Working, Dispatches, Enter, processVars
<1>8. ASSUME NEW e \in Exec, Finishes(e), UNCHANGED <<auditVars, processVars>>
      PROVE  ApprovalTellsTheTruth'
  BY <1>8, TaskAssumption DEF TypeOK, ApprovalTypeOK, ApprovalTellsTheTruth,
     Finishes
<1>9. ASSUME NEW e \in Exec, FinishRaises(e), UNCHANGED <<auditVars, processVars>>
      PROVE  ApprovalTellsTheTruth'
  BY <1>9, TaskAssumption DEF ApprovalTellsTheTruth, FinishRaises, Enter,
     processVars
<1>10. ASSUME ExpireStale, UNCHANGED <<auditVars, processVars>>
      PROVE  ApprovalTellsTheTruth'
  BY <1>10, TaskAssumption DEF ApprovalTellsTheTruth, ExpireStale
<1>11. ASSUME SweepLoads, UNCHANGED <<approvalVars, processVars>>
      PROVE  ApprovalTellsTheTruth'
  BY <1>11, TaskAssumption DEF ApprovalTellsTheTruth, Working, SweepLoads,
     jobHistory, approvalVars, processVars
<1>12. ASSUME SweepWrites, UNCHANGED <<approvalVars, processVars>>
      PROVE  ApprovalTellsTheTruth'
  BY <1>12, TaskAssumption DEF ApprovalTellsTheTruth, Working, Job,
     SweepWrites, Exists, approvalVars, processVars
<1>13. ASSUME NEW j \in Job, DeleteRow(j), UNCHANGED <<approvalVars, processVars>>
      PROVE  ApprovalTellsTheTruth'
  BY <1>13, TaskAssumption DEF ApprovalTellsTheTruth, Working, DeleteRow,
     jobHistory, approvalVars, processVars
<1>14. ASSUME Restart
      PROVE  ApprovalTellsTheTruth'
  BY <1>14, TaskAssumption DEF TypeOK, ApprovalTellsTheTruth, Restart,
     ApprovalRestart
<1>15. CASE UNCHANGED <<jobVars, approvalVars, restarts>>
  BY <1>15, TaskAssumption DEF ApprovalTellsTheTruth, Working, jobVars,
     approvalVars
<1>16. CASE ToolNext
  <2>1. /\ UNCHANGED <<session, result, approval, restarts>>
        /\ \A k \in Exec : row'[k] = row[k] /\ (k \in raised => k \in raised')
    BY <1>16, TaskAssumption DEF TypeOK, JobTypeOK, Job, ToolNext, ToolStep,
       CreateJob, StartWorker, RecordCall, Boots, LoadsJob, WritesJob, Saves,
       WriteRaises, ReadsRequest, PassesPolicy, Handles, RecordOutcome,
       jobVars, jobHistory, approvalVars, processVars
  <2> QED
    BY <2>1, TaskAssumption DEF ApprovalTellsTheTruth, Working
<1> QED
  BY <1>1, <1>2, <1>3, <1>4, <1>5, <1>6, <1>7, <1>8, <1>9, <1>10, <1>11, <1>12,
     <1>13, <1>14, <1>15, <1>16 DEF Next, ApprovalNext, ApprovalStep,
     CenterNext, vars, processVars

-----------------------------------------------------------------------------
\* IndInv is an inductive invariant.
LEMMA Invariance == Spec => []IndInv
<1>1. IndInv /\ [Next]_vars => IndInv'
  <2> SUFFICES ASSUME IndInv, [Next]_vars PROVE IndInv'
    OBVIOUS
  <2>1. TypeOK'
    BY TypeStep DEF IndInv
  <2>2. AuditInv'
    BY AuditStep DEF IndInv
  <2>3. JobInv'
    BY ToolStays, ExecStays DEF IndInv, JobInv, Job
  <2>4. DispatchInv' /\ ApprovalTellsTheTruth'
    BY DispatchStays, ApprovalStays DEF IndInv
  <2> QED
    BY <2>1, <2>2, <2>3, <2>4 DEF IndInv
<1> QED
  BY <1>1, InitInv, PTL DEF Spec

\* Every variable keeps its type: the status of a row, the place of a thread.
THEOREM TypeCorrect == Spec => []TypeOK
<1>1. IndInv => TypeOK
  BY DEF IndInv
<1> QED
  BY <1>1, Invariance, PTL

\* What the task centre shows of a job (operation_jobs) and of an approval is
\* what happened, whatever the sweep, the deletions and a restart did to the rows.
THEOREM RowsAreTrue == Spec => []RowTellsTheTruth
<1>1. IndInv => RowTellsTheTruth
  BY DEF IndInv, JobInv, RowTellsTheTruth
<1> QED
  BY <1>1, Invariance, PTL

\* ApprovalExecutor.execute dispatches the action of an approval once, unless two
\* calls had both read EXECUTING before either wrote RUNNING.
THEOREM Dispatched == Spec => []DispatchedOnce
<1>1. IndInv => DispatchedOnce
  <2> SUFFICES ASSUME IndInv, ~together PROVE Cardinality(dispatched) <= 1
    BY DEF DispatchedOnce
  <2>1. \A e, f \in dispatched : e = f
    BY DEF IndInv, TypeOK, ApprovalTypeOK, DispatchInv
  <2>2. CASE dispatched = {}
    BY <2>2, FS_EmptySet
  <2>3. CASE dispatched # {}
    <3>1. PICK e \in dispatched : TRUE
      BY <2>3
    <3>2. dispatched = {e}
      BY <2>1, <3>1
    <3>3. Cardinality({e}) = 1
      BY FS_Singleton
    <3> QED
      BY <3>2, <3>3
  <2> QED
    BY <2>2, <2>3
<1> QED
  BY <1>1, Invariance, PTL

\* shutdown_audit_writer leaves no record behind that was submitted before it,
\* whoever of the writer and the main thread drains the queue.
THEOREM NothingLost == Spec => []NothingLostInOrder
<1>1. IndInv => NothingLostInOrder
  BY DEF IndInv, AuditInv, NothingLostInOrder
<1> QED
  BY <1>1, Invariance, PTL

-----------------------------------------------------------------------------
(* The start on the database of an older release.                          *)

\* What the file and the connection's view of it keep whatever runs: marks that tell
\* the truth, and once an operator has edited something nothing is left to convert.
Kept(d, changed) ==
    /\ Coherent(d)
    /\ changed # {} => d.kv = {} /\ Conversion.tokens \in d.marks
    /\ \A b \in Bucket \cap changed : d.row[b] = "edited"
    /\ "binding" \in changed => d.binding = "cleared"

\* What has been reached once n entries of a list are behind.
HasBase(d, n) == \A i \in 1..n : BaseColumns[i] \in d.cols
Entered(d, m) ==
    /\ m.does = "alter" => <<m.table, m.column>> \in d.cols
    /\ m.does = "drop" => m.column \notin d.tables
    /\ m.does = "create" => m.version \in d.marks
    /\ m.does = "copy" => d.new = d.audits
Listed(d, n) == \A i \in 1..n : Entered(d, MIGRATIONS[i])
CopyBehind(n) == \E i \in 1..n : MIGRATIONS[i].does = "copy"
NoAnalysis(d, n) == \A i \in 1..n : AI_ANALYSIS_TABLE_DROPS[i] \notin d.tables
HasContext(d, n) ==
    \A i \in 1..n : IF FillsRows(ContextSteps[i]) THEN d.context ELSE ContextSteps[i] \in d.cols
\* Between the copies of retire_config_kv and the drop of its table.
BucketsCopied(d) ==
    \A b \in Bucket : d.audits = 1 /\ d.row[b] # "stored" => d.row[b] \in {"legacy", "edited"}

Last == {"secrets", "serving"}
Ends == Last \cup {"defaults"}
Fills == Ends \cup {"context"}
Retires == Fills \cup {"tokens"}
Checks == Retires \cup {"identity", "analysis"}
Converts == Checks \cup {"config", "drop", "retired"}
Changes == Converts \cup {"list"}
Phases == Changes \cup {"off", "create", "base"}

\* Where a transaction may be open; in the backfill none is unless it is to be done.
MayBegin(d, w) ==
    \/ w \in {"list", "drop", "retired"}
    \/ w = "context" /\ Conversion.context \notin d.marks

\* What the connection sees when the start stands at n in phase w.
Reached(d, w, n) ==
    /\ w \in Changes \cup {"base"} => DOMAIN Model \subseteq d.tables
    /\ w = "base" => HasBase(d, n - 1)
    /\ w \in Changes => HasBase(d, Len(BaseColumns))
    /\ w = "list" => Listed(d, n - 1) /\ (CopyBehind(n - 1) \/ RowsInOnePlace(d))
    /\ w # "list" => RowsInOnePlace(d)
    /\ w = "drop" => BucketsCopied(d)
    /\ w # "drop" => BucketsInOnePlace(d)
    /\ w \in Converts => Listed(d, Len(MIGRATIONS))
    /\ w \in Checks \cup {"retired"} => "config_kv" \notin d.tables
    /\ w = "analysis" => NoAnalysis(d, n - 1)
    /\ w \in Retires => NoAnalysis(d, Len(AI_ANALYSIS_TABLE_DROPS))
    /\ w \in Fills => Conversion.tokens \in d.marks
    /\ w = "context" => HasContext(d, n - 1)
    /\ w \in Ends => HasContext(d, Len(ContextSteps))
    /\ w \in Last => d.row["settings"] # "none"
    /\ w = "serving" => d.sealed

SchemaInv ==
    /\ SchemaTypeOK /\ phase \in Phases
    /\ begun => MayBegin(view, phase)
    /\ Kept(disk, edited) /\ Kept(view, edited)
    /\ DataInOnePlace /\ Reached(view, phase, pos)
    /\ OnlyDefectsStop
LEMMA Entries ==
    /\ DOMAIN MIGRATIONS = 1..Len(MIGRATIONS) /\ Len(MIGRATIONS) \in Nat
    /\ \A n \in 1..Len(MIGRATIONS) :
          MIGRATIONS[n] \in Migrations /\ MIGRATIONS[n] \in Range(MIGRATIONS) /\ EntryOK(n)
    /\ \A m \in Range(MIGRATIONS) : \E n \in 1..Len(MIGRATIONS) : m = MIGRATIONS[n]
    /\ \A m, l \in Range(MIGRATIONS) : m.version = l.version => m = l
<1>1. DOMAIN MIGRATIONS = 1..Len(MIGRATIONS) /\ Len(MIGRATIONS) \in Nat
  BY MigrationsAssumption
<1>2. \A m \in Range(MIGRATIONS) : \E n \in 1..Len(MIGRATIONS) : m = MIGRATIONS[n]
  BY <1>1 DEF Range
<1>3. \A n \in 1..Len(MIGRATIONS) :
         MIGRATIONS[n] \in Migrations /\ MIGRATIONS[n] \in Range(MIGRATIONS) /\ EntryOK(n)
  BY <1>1, MigrationsAssumption DEF Range
<1>4. \A m, l \in Range(MIGRATIONS) : m.version = l.version => m = l
  BY <1>1, <1>2, MigrationsAssumption
<1> QED BY <1>1, <1>2, <1>3, <1>4

LEMMA Marks ==
    /\ \A x \in DOMAIN Conversion : Conversion[x] \in Nat
    /\ Conversion.config \in Range(Conversion) /\ Conversion.identity \in Range(Conversion)
    /\ Conversion.analysis \in Range(Conversion) /\ Conversion.tokens \in Range(Conversion)
    /\ Conversion.context \in Range(Conversion)
    /\ Range(Conversion) \subseteq Nat
    /\ Conversion.config \notin {Conversion.identity, Conversion.analysis,
                                 Conversion.tokens, Conversion.context}
    /\ Conversion.identity \notin {Conversion.analysis, Conversion.tokens, Conversion.context}
    /\ Conversion.analysis \notin {Conversion.tokens, Conversion.context}
    /\ Conversion.tokens # Conversion.context
    /\ \A m \in Range(MIGRATIONS) : m.version \notin Range(Conversion)
<1>1. DOMAIN Conversion = {"config", "identity", "analysis", "tokens", "context"}
  BY MigrationsAssumption
<1>2. \A m \in Range(MIGRATIONS) : m.version \notin Range(Conversion)
  BY Entries DEF EntryOK
<1> QED BY <1>1, <1>2, MigrationsAssumption DEF Range

\* The tables of the model, of the list's drops and of the analysis are apart.
LEMMA TablesApart ==
    /\ AnalysisTables = {"ai_analysis_findings", "ai_analysis_runs"}
    /\ DOMAIN Model \cap LegacyTables = {}
    /\ "audit_logs" \in DroppedTables
    /\ DroppedTables \cap (AnalysisTables \cup {"config_kv"}) = {}
    /\ \A m \in Range(MIGRATIONS) : m.does = "drop" => m.column \in DroppedTables
<1>1. AnalysisTables = {"ai_analysis_findings", "ai_analysis_runs"}
  BY DEF AnalysisTables, AI_ANALYSIS_TABLE_DROPS, Range
<1>2. DOMAIN Model \cap LegacyTables = {}
  BY ModelAssumption
<1>3. DroppedTables \cap (AnalysisTables \cup {"config_kv"}) = {}
  <2>1. ASSUME NEW t \in DroppedTables PROVE t \notin AnalysisTables \cup {"config_kv"}
    <3>1. PICK m \in Range(MIGRATIONS) : m.does = "drop" /\ t = m.column
      BY <2>1 DEF DroppedTables
    <3>2. PICK n \in 1..Len(MIGRATIONS) : m = MIGRATIONS[n]
      BY Entries
    <3> QED BY <3>1, <3>2, Entries DEF EntryOK
  <2> QED BY <2>1
<1> QED BY <1>1, <1>2, <1>3, MigrationsAssumption DEF DroppedTables

\* What no CREATE, ALTER, DROP or mark changes.
SameData(d, e) ==
    /\ e.row = d.row /\ e.new = d.new /\ e.audits = d.audits
    /\ e.binding = d.binding /\ e.context = d.context /\ e.sealed = d.sealed

\* What the statements do to a database, field by field.
LEMMA WithTablesIs ==
    ASSUME NEW d \in Database, NEW ts \in SUBSET (DOMAIN Model \cup AnalysisTables)
    PROVE  LET e == WithTables(d, ts) IN
           /\ e \in Database /\ SameData(d, e) /\ e.marks = d.marks
           /\ e.kv = d.kv /\ e.old = d.old
           /\ e.tables = d.tables \cup ts /\ d.cols \subseteq e.cols
           /\ \A x \in e.cols : x \in d.cols \/ IsColumn(x)
           /\ \A t \in DOMAIN Model : t \in ts /\ t \notin d.tables =>
                 \A c \in Model[t] : <<t, c>> \in e.cols
<1> DEFINE new == UNION {{t} \X Model[t] : t \in (ts \ d.tables) \cap DOMAIN Model}
<1>1. new \subseteq Name /\ \A x \in new : IsColumn(x)
  BY ModelAssumption DEF IsColumn, Name
<1>2. \A t \in DOMAIN Model : t \in ts /\ t \notin d.tables => \A c \in Model[t] : <<t, c>> \in new
  OBVIOUS
<1>3. WithTables(d, ts) = [d EXCEPT !.tables = d.tables \cup ts, !.cols = d.cols \cup new]
  BY DEF WithTables
<1>4. d.tables \cup ts \subseteq DOMAIN Model \cup LegacyTables
  BY DEF Database, LegacyTables
<1> HIDE DEF new
<1>5. WithTables(d, ts) \in Database
  BY <1>1, <1>3, <1>4 DEF Database
<1>6. /\ SameData(d, WithTables(d, ts)) /\ WithTables(d, ts).marks = d.marks
      /\ WithTables(d, ts).kv = d.kv /\ WithTables(d, ts).old = d.old
      /\ WithTables(d, ts).tables = d.tables \cup ts
      /\ WithTables(d, ts).cols = d.cols \cup new
  BY <1>3 DEF Database, SameData
<1> QED BY <1>1, <1>2, <1>5, <1>6

LEMMA WithColumnIs ==
    ASSUME NEW d \in Database, NEW x \in Name
    PROVE  LET e == WithColumn(d, x[1], x[2]) IN
           /\ e \in Database /\ SameData(d, e) /\ e.marks = d.marks
           /\ e.kv = d.kv /\ e.old = d.old /\ e.tables = d.tables
           /\ e.cols = d.cols \cup {x}
<1>1. x[1] \in STRING /\ x[2] \in STRING /\ x = <<x[1], x[2]>>
  BY DEF Name
<1>2. WithColumn(d, x[1], x[2]) = [d EXCEPT !.cols = d.cols \cup {x}]
  BY <1>1 DEF WithColumn
<1> QED BY <1>2 DEF SameData, Database

LEMMA WithoutIs ==
    ASSUME NEW d \in Database, NEW t
    PROVE  LET e == Without(d, t) IN
           /\ e \in Database /\ SameData(d, e) /\ e.marks = d.marks /\ e.cols = d.cols
           /\ e.tables = d.tables \ {t}
           /\ e.kv = (IF t = "config_kv" THEN {} ELSE d.kv)
           /\ e.old = (IF t = "audit_logs" THEN 0 ELSE d.old)
<1> DEFINE kv == IF t = "config_kv" THEN {} ELSE d.kv
           old == IF t = "audit_logs" THEN 0 ELSE d.old
<1>1. kv \in SUBSET Bucket /\ old \in 0..1
  BY DEF Database
<1>2. Without(d, t) = [d EXCEPT !.tables = d.tables \ {t}, !.kv = kv, !.old = old]
  BY DEF Without
<1> HIDE DEF kv, old
<1>3. Without(d, t) \in Database
  BY <1>1, <1>2 DEF Database
<1>4. /\ SameData(d, Without(d, t)) /\ Without(d, t).marks = d.marks
      /\ Without(d, t).cols = d.cols /\ Without(d, t).tables = d.tables \ {t}
      /\ Without(d, t).kv = kv /\ Without(d, t).old = old
  BY <1>2 DEF Database, SameData
<1> QED BY <1>3, <1>4 DEF kv, old

LEMMA MarkedIs ==
    ASSUME NEW d \in Database, NEW v \in Nat
    PROVE  LET e == Marked(d, v) IN
           /\ e \in Database /\ SameData(d, e) /\ e.marks = d.marks \cup {v}
           /\ e.kv = d.kv /\ e.old = d.old /\ e.tables = d.tables /\ e.cols = d.cols
  BY DEF SameData, Marked, Database

\* Each statement leaves the database coherent.
LEMMA TablesCoherent ==
    ASSUME NEW d \in Database, Coherent(d), NEW ts \in SUBSET (DOMAIN Model \cup AnalysisTables),
           ts \cap AnalysisTables # {} => Conversion.analysis \notin d.marks
    PROVE  Coherent(WithTables(d, ts))
<1> DEFINE e == WithTables(d, ts)
<1>1. /\ e \in Database /\ SameData(d, e) /\ e.marks = d.marks
      /\ e.kv = d.kv /\ e.old = d.old
      /\ e.tables = d.tables \cup ts /\ d.cols \subseteq e.cols
      /\ \A x \in e.cols : x \in d.cols \/ IsColumn(x)
      /\ \A t \in DOMAIN Model : t \in ts /\ t \notin d.tables =>
            \A c \in Model[t] : <<t, c>> \in e.cols
  BY WithTablesIs
<1>2. ts \cap (DroppedTables \cup {"config_kv"}) = {} /\ "audit_logs" \notin ts
  BY TablesApart DEF LegacyTables
<1> HIDE DEF e
<1>3. ASSUME NEW m \in Range(MIGRATIONS), m.version \in e.marks
      PROVE  /\ m.does = "alter" /\ m.table \in e.tables => <<m.table, m.column>> \in e.cols
             /\ m.does = "drop" => m.column \notin e.tables
             /\ m.does = "copy" => e.new = e.audits
  <2>1. PICK n \in 1..Len(MIGRATIONS) : m = MIGRATIONS[n]
    BY Entries
  <2>2. m.does = "alter" => m.table \in DOMAIN Model /\ m.column \in Model[m.table]
    BY <2>1, Entries DEF EntryOK, IsColumn
  <2>3. m.does = "drop" => m.column \in DroppedTables
    BY TablesApart
  <2>4. /\ m.does = "alter" /\ m.table \in d.tables => <<m.table, m.column>> \in d.cols
        /\ m.does = "drop" => m.column \notin d.tables
        /\ m.does = "copy" => d.new = d.audits
    BY <1>1, <1>3 DEF Coherent
  <2> QED BY <1>1, <1>2, <2>2, <2>3, <2>4 DEF SameData
<1>4. /\ \A x \in e.cols : IsColumn(x)
      /\ Conversion.config \in e.marks => "config_kv" \notin e.tables
      /\ Conversion.tokens \in e.marks => e.binding # "none"
      /\ "config_kv" \notin e.tables => e.kv = {}
      /\ "audit_logs" \notin e.tables => e.old = 0
      /\ e.row["assets"] # "default"
  BY <1>1, <1>2 DEF Coherent, SameData
<1>5. Conversion.analysis \in e.marks =>
          /\ AnalysisTables \cap e.tables = {}
          /\ \A m \in Range(MIGRATIONS) : m.does = "create" => m.version \in e.marks
  BY <1>1 DEF Coherent
<1>6. ASSUME Conversion.context \in e.marks
      PROVE  /\ e.context
             /\ \A x \in Range(ContextSteps) :
                   ~FillsRows(x) /\ x[1] \in e.tables => x \in e.cols
  <2>1. d.context /\ \A x \in Range(ContextSteps) :
                        ~FillsRows(x) /\ x[1] \in d.tables => x \in d.cols
    BY <1>1, <1>6 DEF Coherent
  <2>2. ASSUME NEW x \in Range(ContextSteps), ~FillsRows(x), x[1] \in e.tables, x[1] \notin d.tables
        PROVE  x \in e.cols
    <3>1. IsColumn(x) /\ x \in Name
      BY <2>2, ModelAssumption DEF Range
    <3>2. x = <<x[1], x[2]>> /\ x[1] \in DOMAIN Model /\ x[2] \in Model[x[1]]
      BY <3>1 DEF IsColumn, Name
    <3> QED BY <1>1, <2>2, <3>2
  <2> QED BY <1>1, <2>1, <2>2 DEF SameData
<1>7. ASSUME NEW t \in e.tables \cap DOMAIN Model, NEW c \in Model[t], <<t, c>> \notin e.cols
      PROVE  \/ <<t, c>> \in Unmigrated \cup Range(BaseColumns) \cup Range(ContextSteps)
             \/ \E m \in Range(MIGRATIONS) : m.does = "alter" /\ <<m.table, m.column>> = <<t, c>>
  <2>1. t \in d.tables /\ <<t, c>> \notin d.cols
    BY <1>1, <1>7
  <2> QED BY <2>1 DEF Coherent
<1> QED BY <1>3, <1>4, <1>5, <1>6, <1>7 DEF Coherent, e

LEMMA ColumnCoherent ==
    ASSUME NEW d \in Database, Coherent(d), NEW x \in Name, IsColumn(x)
    PROVE  Coherent(WithColumn(d, x[1], x[2]))
<1> DEFINE e == WithColumn(d, x[1], x[2])
<1>1. /\ e \in Database /\ SameData(d, e) /\ e.marks = d.marks
      /\ e.kv = d.kv /\ e.old = d.old /\ e.tables = d.tables
      /\ e.cols = d.cols \cup {x}
  BY WithColumnIs
<1> HIDE DEF e
<1> QED BY <1>1 DEF Coherent, SameData, e

LEMMA DropCoherent ==
    ASSUME NEW d \in Database, Coherent(d), NEW t \in LegacyTables
    PROVE  Coherent(Without(d, t))
<1> DEFINE e == Without(d, t)
<1>1. /\ e \in Database /\ SameData(d, e) /\ e.marks = d.marks /\ e.cols = d.cols
      /\ e.tables = d.tables \ {t}
      /\ e.kv = (IF t = "config_kv" THEN {} ELSE d.kv)
      /\ e.old = (IF t = "audit_logs" THEN 0 ELSE d.old)
  BY WithoutIs
<1>2. e.tables \subseteq d.tables
  BY <1>1
<1>3. /\ "config_kv" \notin e.tables => e.kv = {}
      /\ "audit_logs" \notin e.tables => e.old = 0
  BY <1>1 DEF Coherent
<1> HIDE DEF e
<1> QED BY <1>1, <1>2, <1>3 DEF Coherent, SameData, e

\* A mark of an entry whose statement has been made, or of a conversion that has.
LEMMA MarkCoherent ==
    ASSUME NEW d \in Database, Coherent(d), NEW v \in Nat,
           \A m \in Range(MIGRATIONS) : m.version = v => Entered(Marked(d, v), m),
           v = Conversion.config => "config_kv" \notin d.tables,
           v = Conversion.analysis =>
              /\ AnalysisTables \cap d.tables = {}
              /\ \A m \in Range(MIGRATIONS) : m.does = "create" => m.version \in d.marks,
           v = Conversion.tokens => d.binding # "none",
           v = Conversion.context =>
              /\ d.context
              /\ \A x \in Range(ContextSteps) : ~FillsRows(x) => x \in d.cols
    PROVE  Coherent(Marked(d, v))
<1> DEFINE e == Marked(d, v)
<1>1. /\ e \in Database /\ SameData(d, e) /\ e.marks = d.marks \cup {v}
      /\ e.kv = d.kv /\ e.old = d.old /\ e.tables = d.tables /\ e.cols = d.cols
  BY MarkedIs
<1> HIDE DEF e
<1>3. ASSUME NEW m \in Range(MIGRATIONS), m.version \in e.marks
      PROVE  /\ m.does = "alter" /\ m.table \in e.tables => <<m.table, m.column>> \in e.cols
             /\ m.does = "drop" => m.column \notin e.tables
             /\ m.does = "copy" => e.new = e.audits
  <2>1. CASE m.version = v
    BY <2>1, <1>1 DEF Entered, SameData, e
  <2>2. CASE m.version # v
    BY <1>1, <1>3, <2>2 DEF Coherent, SameData
  <2> QED BY <2>1, <2>2
<1>4. /\ \A x \in e.cols : IsColumn(x)
      /\ Conversion.config \in e.marks => "config_kv" \notin e.tables
      /\ Conversion.tokens \in e.marks => e.binding # "none"
      /\ "config_kv" \notin e.tables => e.kv = {}
      /\ "audit_logs" \notin e.tables => e.old = 0
      /\ e.row["assets"] # "default"
  BY <1>1 DEF Coherent, SameData
<1>5. Conversion.analysis \in e.marks =>
          /\ AnalysisTables \cap e.tables = {}
          /\ \A m \in Range(MIGRATIONS) : m.does = "create" => m.version \in e.marks
  BY <1>1 DEF Coherent
<1>6. Conversion.context \in e.marks =>
          /\ e.context
          /\ \A x \in Range(ContextSteps) : ~FillsRows(x) /\ x[1] \in e.tables => x \in e.cols
  BY <1>1 DEF Coherent, SameData
<1>7. ASSUME NEW t \in e.tables \cap DOMAIN Model, NEW c \in Model[t], <<t, c>> \notin e.cols
      PROVE  \/ <<t, c>> \in Unmigrated \cup Range(BaseColumns) \cup Range(ContextSteps)
             \/ \E m \in Range(MIGRATIONS) : m.does = "alter" /\ <<m.table, m.column>> = <<t, c>>
  BY <1>1, <1>7 DEF Coherent
<1> QED BY <1>3, <1>4, <1>5, <1>6, <1>7 DEF Coherent, e

\* Rows change, and what the marks tell stays true of them.
LEMMA RowsCoherent ==
    ASSUME NEW d \in Database, Coherent(d), NEW e \in Database,
           e.tables = d.tables, e.cols = d.cols, e.marks = d.marks, e.kv = d.kv, e.old = d.old,
           \/ e.new = d.new /\ e.audits = d.audits
           \/ \A m \in Range(MIGRATIONS) : m.does = "copy" => m.version \notin d.marks,
           d.binding # "none" => e.binding # "none", d.context => e.context,
           e.row["assets"] # "default"
    PROVE  Coherent(e)
  BY DEF Coherent

\* What the statement of the next entry does to the database in view.
LEMMA DoesIs ==
    ASSUME view \in Database, Coherent(view), DOMAIN Model \subseteq view.tables,
           NEW n \in 1..Len(MIGRATIONS), MIGRATIONS[n].version \notin view.marks,
           Listed(view, n - 1), CopyBehind(n - 1) \/ RowsInOnePlace(view)
    PROVE  LET m == MIGRATIONS[n]
               e == Does(m)
           IN  /\ e \in Database /\ Coherent(e)
               /\ m.does # "create" => Entered(e, m)
               /\ e.marks = view.marks /\ e.kv = view.kv /\ e.row = view.row
               /\ e.binding = view.binding /\ e.audits = view.audits
               /\ view.cols \subseteq e.cols /\ DOMAIN Model \subseteq e.tables
               /\ e.tables \cap DroppedTables \subseteq view.tables
               /\ m.does # "copy" => e.new = view.new
               /\ m.does # "copy" /\ RowsInOnePlace(view) => RowsInOnePlace(e)
<1> DEFINE m == MIGRATIONS[n]
           e == Does(m)
<1>1. m \in Migrations /\ m \in Range(MIGRATIONS) /\ EntryOK(n)
  BY Entries
<1>2. n - 1 \in Nat /\ Len(MIGRATIONS) \in Nat
  BY Entries
<1>3. CASE m.does = "create"
  <2> DEFINE ts == {m.table, m.column} \ {""}
  <2>1. ts \subseteq DOMAIN Model \cup AnalysisTables
    BY <1>1, <1>3 DEF EntryOK
  <2>2. e = WithTables(view, ts)
    BY <1>3 DEF Does
  <2>3. Conversion.analysis \notin view.marks
    BY <1>1, <1>3 DEF Coherent
  <2> HIDE DEF ts, m, e
  <2>4. Coherent(e)
    BY <2>1, <2>2, <2>3, TablesCoherent
  <2>5. /\ e \in Database /\ SameData(view, e) /\ e.marks = view.marks
        /\ e.kv = view.kv /\ e.old = view.old
        /\ e.tables = view.tables \cup ts /\ view.cols \subseteq e.cols
    BY <2>1, <2>2, WithTablesIs
  <2>6. ts \cap DroppedTables = {}
    BY <2>1, TablesApart DEF LegacyTables
  <2> QED BY <1>3, <2>4, <2>5, <2>6 DEF SameData, RowsInOnePlace, m, e
<1>4. CASE m.does = "alter"
  <2> DEFINE x == <<m.table, m.column>>
  <2>1. x \in Name /\ IsColumn(x)
    BY <1>1, <1>4 DEF EntryOK, Migrations, Name
  <2>2. e = WithColumn(view, x[1], x[2])
    BY <1>4 DEF Does
  <2> HIDE DEF x, m, e
  <2>3. Coherent(e)
    BY <2>1, <2>2, ColumnCoherent
  <2>4. /\ e \in Database /\ SameData(view, e) /\ e.marks = view.marks
        /\ e.kv = view.kv /\ e.old = view.old /\ e.tables = view.tables
        /\ e.cols = view.cols \cup {x}
    BY <2>1, <2>2, WithColumnIs
  <2> QED BY <1>4, <2>3, <2>4 DEF Entered, SameData, RowsInOnePlace, x, m, e
<1>5. CASE m.does = "drop"
  <2>1. /\ m.column \in DroppedTables /\ m.column \in LegacyTables
        /\ m.column \notin DOMAIN Model /\ m.column # "config_kv"
    BY <1>1, <1>5, TablesApart DEF EntryOK, LegacyTables
  <2>2. e = Without(view, m.column)
    BY <1>5 DEF Does
  <2>3. m.column = "audit_logs" => view.new = view.audits
    <3>1. SUFFICES ASSUME m.column = "audit_logs" PROVE view.new = view.audits
      OBVIOUS
    <3>2. PICK i \in 1..n - 1 : MIGRATIONS[i].does = "copy"
      BY <1>1, <1>5, <3>1 DEF EntryOK
    <3> QED BY <3>2 DEF Listed, Entered
  <2> HIDE DEF m, e
  <2>4. Coherent(e)
    BY <2>1, <2>2, DropCoherent
  <2>5. /\ e \in Database /\ SameData(view, e) /\ e.marks = view.marks /\ e.cols = view.cols
        /\ e.tables = view.tables \ {m.column} /\ e.kv = view.kv
        /\ e.old = (IF m.column = "audit_logs" THEN 0 ELSE view.old)
    BY <2>1, <2>2, WithoutIs
  <2>6. RowsInOnePlace(view) => RowsInOnePlace(e)
    BY <2>3, <2>5 DEF RowsInOnePlace, SameData, Database
  <2> QED BY <1>5, <2>1, <2>4, <2>5, <2>6 DEF Entered, SameData, m, e
<1>6. CASE m.does = "copy"
  <2>1. RowsInOnePlace(view)
    BY <1>1, <1>6 DEF EntryOK, CopyBehind
  <2>2. view.new + view.old = view.audits /\ view.audits \in 0..1
    BY <2>1 DEF RowsInOnePlace, Database
  <2>3. e = [view EXCEPT !.new = view.audits]
    BY <1>6, <2>2 DEF Does
  <2>4. /\ e \in Database /\ e.tables = view.tables /\ e.cols = view.cols
        /\ e.marks = view.marks /\ e.kv = view.kv /\ e.old = view.old /\ e.row = view.row
        /\ e.binding = view.binding /\ e.context = view.context
        /\ e.audits = view.audits /\ e.new = view.audits
    BY <2>2, <2>3 DEF Database
  <2>5. \A l \in Range(MIGRATIONS) : l.does = "copy" => l.version \notin view.marks
    <3>1. ASSUME NEW l \in Range(MIGRATIONS), l.does = "copy" PROVE l = m
      <4>1. PICK i \in 1..Len(MIGRATIONS) : l = MIGRATIONS[i]
        BY Entries
      <4>2. EntryOK(i)
        BY Entries
      <4>3. ~(i \in 1..n - 1)
        BY <1>1, <1>6, <3>1, <4>1 DEF EntryOK
      <4>4. ~(n \in 1..i - 1)
        BY <4>2, <1>6, <3>1, <4>1 DEF EntryOK
      <4> QED BY <1>2, <4>1, <4>3, <4>4
    <3> QED BY <3>1
  <2> HIDE DEF m, e
  <2>6. Coherent(e)
    BY <2>4, <2>5, RowsCoherent DEF Coherent
  <2> QED BY <1>6, <2>4, <2>6 DEF Entered, m, e
<1>7. CASE m.does \notin {"create", "alter", "drop", "copy"}
  <2>1. e = view
    BY <1>7 DEF Does
  <2> QED BY <1>7, <2>1 DEF Entered
<1> QED BY <1>3, <1>4, <1>5, <1>6, <1>7

\* What is behind stays so.
LEMMA ListedStays ==
    ASSUME NEW d, NEW e, NEW n \in 0..Len(MIGRATIONS), Listed(d, n),
           d.cols \subseteq e.cols, d.marks \subseteq e.marks,
           e.tables \cap DroppedTables \subseteq d.tables,
           e.audits = d.audits,
           e.new = d.new \/ ~CopyBehind(n) \/ e.new = e.audits
    PROVE  Listed(e, n)
<1>1. ASSUME NEW i \in 1..n PROVE Entered(e, MIGRATIONS[i])
  <2>1. Entered(d, MIGRATIONS[i]) /\ MIGRATIONS[i] \in Range(MIGRATIONS)
    BY Entries DEF Listed
  <2>2. MIGRATIONS[i].does = "copy" => e.new = e.audits
    BY <2>1 DEF Entered, CopyBehind
  <2> QED BY <2>1, <2>2, TablesApart DEF Entered
<1> QED BY <1>1 DEF Listed

LEMMA StartsSound == SchemaInit => SchemaInv
<1> SUFFICES ASSUME SchemaInit PROVE SchemaInv
  OBVIOUS
<1>1. disk \in Database /\ Coherent(disk) /\ RowsInOnePlace(disk) /\ BucketsInOnePlace(disk)
  BY DatabasesAssumption DEF SchemaInit
<1>2. SchemaTypeOK /\ phase \in Phases /\ ~begun
  <2>1. phase = "off" /\ begun = FALSE /\ pos = 1
    BY DEF SchemaInit
  <2>2. view = disk /\ defect \in Defects /\ refused = {} /\ edited = {}
    BY DEF SchemaInit
  <2>3. phase \in Phases /\ pos \in Nat \ {0}
    BY <2>1 DEF Phases
  <2> QED BY <1>1, <2>1, <2>2, <2>3 DEF SchemaTypeOK
<1>3. Kept(disk, edited) /\ Kept(view, edited) /\ OnlyDefectsStop
  BY <1>1 DEF SchemaInit, Kept, OnlyDefectsStop
<1>4. Reached(view, phase, pos)
  BY <1>1 DEF SchemaInit, Reached, Changes, Converts, Checks, Retires, Fills, Ends, Last
<1> QED BY <1>1, <1>2, <1>3, <1>4 DEF SchemaInv, DataInOnePlace

LEMMA KeptBy ==
    ASSUME NEW d, NEW e, NEW changed, Kept(d, changed), Coherent(e),
           d.kv = {} => e.kv = {}, d.marks \subseteq e.marks,
           e.row = d.row, e.binding = d.binding
    PROVE  Kept(e, changed)
  BY DEF Kept

\* A step that changes nothing but where the start stands and what it has written.
LEMMA NewState ==
    ASSUME SchemaInv, disk' \in Database, view' \in Database, begun' \in BOOLEAN,
           phase' \in Phases, pos' \in Nat \ {0}, UNCHANGED history,
           ~begun' => view' = disk', begun' => MayBegin(view', phase'),
           Kept(disk', edited), Kept(view', edited),
           RowsInOnePlace(disk'), BucketsInOnePlace(disk'), Reached(view', phase', pos')
    PROVE  SchemaInv'
<1>1. SchemaTypeOK' /\ OnlyDefectsStop'
  BY DEF SchemaInv, SchemaTypeOK, OnlyDefectsStop, history
<1>2. Kept(disk, edited)' /\ Kept(view, edited)'
  BY DEF history
<1> QED BY <1>1, <1>2 DEF SchemaInv, DataInOnePlace

LEMMA ReadStep ==
    ASSUME SchemaInv, Reads, NEW w \in Phases, NEW n \in Nat \ {0}, Goto(w, n),
           UNCHANGED history, begun => MayBegin(view, w), Reached(view, w, n)
    PROVE  SchemaInv'
<1>1. UNCHANGED <<disk, view, begun>> /\ phase' = w /\ pos' = n
  BY DEF Reads, Goto
<1>2. disk' \in Database /\ view' \in Database /\ begun' \in BOOLEAN /\ (~begun' => view' = disk')
  BY <1>1 DEF SchemaInv, SchemaTypeOK
<1>3. /\ Kept(disk', edited) /\ Kept(view', edited)
      /\ RowsInOnePlace(disk') /\ BucketsInOnePlace(disk')
  BY <1>1 DEF SchemaInv, DataInOnePlace
<1> QED BY <1>1, <1>2, <1>3, NewState

LEMMA CommitStep ==
    ASSUME SchemaInv, NEW e \in Database, Commit(e),
           NEW w \in Phases \ {"list", "drop"}, NEW n \in Nat \ {0}, Goto(w, n),
           UNCHANGED history, Kept(e, edited), Reached(e, w, n)
    PROVE  SchemaInv'
<1>1. disk' = e /\ view' = e /\ begun' = FALSE /\ phase' = w /\ pos' = n
  BY DEF Commit, Goto
<1>2. RowsInOnePlace(e) /\ BucketsInOnePlace(e)
  BY DEF Reached
<1> QED BY <1>1, <1>2, NewState

LEMMA DmlStep ==
    ASSUME SchemaInv, NEW e \in Database, Dml(e),
           NEW w \in Phases, MayBegin(e, w), NEW n \in Nat \ {0}, Goto(w, n),
           UNCHANGED history, Kept(e, edited), Reached(e, w, n)
    PROVE  SchemaInv'
<1>1. disk' = disk /\ view' = e /\ begun' = TRUE /\ phase' = w /\ pos' = n
  BY DEF Dml, Goto
<1>2. disk' \in Database
  BY <1>1 DEF SchemaInv, SchemaTypeOK
<1>3. Kept(disk', edited) /\ RowsInOnePlace(disk') /\ BucketsInOnePlace(disk')
  BY <1>1 DEF SchemaInv, DataInOnePlace
<1> QED BY <1>1, <1>2, <1>3, NewState

LEMMA DdlStep ==
    ASSUME SchemaInv, NEW e \in Database, Ddl(e),
           NEW w \in Phases, NEW n \in Nat \ {0}, Goto(w, n),
           UNCHANGED history, begun => MayBegin(e, w), Kept(e, edited), Reached(e, w, n),
           ~begun => RowsInOnePlace(e) /\ BucketsInOnePlace(e)
    PROVE  SchemaInv'
<1>1. disk' = Committed(e) /\ view' = e /\ begun' = begun /\ phase' = w /\ pos' = n
  BY DEF Ddl, Goto
<1>2. Committed(e) \in Database /\ (~begun => Committed(e) = e)
  BY DEF Committed, SchemaInv, SchemaTypeOK
<1>3. /\ Kept(Committed(e), edited)
      /\ RowsInOnePlace(Committed(e)) /\ BucketsInOnePlace(Committed(e))
  BY DEF Committed, SchemaInv, DataInOnePlace
<1>4. begun \in BOOLEAN
  BY DEF SchemaInv, SchemaTypeOK
<1> QED BY <1>1, <1>2, <1>3, <1>4, NewState

\* A start that fails, or ends where it is, leaves what is in the file.
LEMMA StopStep ==
    ASSUME SchemaInv, view' = disk, disk' = disk, begun' = FALSE, Goto("off", 1),
           UNCHANGED <<defect, edited>>, refused' \subseteq Defects
    PROVE  SchemaInv'
<1>1. SchemaTypeOK' /\ OnlyDefectsStop' /\ phase' \in Phases
  <2>1. phase' \in Phases /\ pos' \in Nat \ {0}
    BY DEF Goto, Phases
  <2>2. disk' \in Database /\ view' \in Database /\ defect' \in Defects
        /\ edited' \subseteq Bucket \cup {"binding"}
    BY DEF SchemaInv, SchemaTypeOK
  <2> QED BY <2>1, <2>2 DEF SchemaTypeOK, OnlyDefectsStop
<1>2. Kept(disk, edited)' /\ Kept(view, edited)'
  BY DEF SchemaInv
<1>3. RowsInOnePlace(disk') /\ BucketsInOnePlace(disk')
  BY DEF SchemaInv, DataInOnePlace
<1>4. Reached(view', "off", 1)
  BY <1>3 DEF Reached, Changes, Converts, Checks, Retires, Fills, Ends, Last
<1> QED BY <1>1, <1>2, <1>3, <1>4 DEF SchemaInv, DataInOnePlace, Goto

LEMMA RaisesStep ==
    ASSUME SchemaInv, NEW cause \in Defects, Raises(cause)
    PROVE  SchemaInv'
<1>1. refused' \subseteq Defects
  BY DEF SchemaInv, OnlyDefectsStop, Raises
<1> QED BY <1>1, StopStep DEF Raises

USE DEF Last, Ends, Fills, Retires, Checks, Converts, Changes, Phases

LEMMA StartStays == ASSUME SchemaInv, Start PROVE SchemaInv'
<1>1. phase = "off" /\ Goto("create", 1) /\ Reads /\ UNCHANGED history /\ ~begun
  BY DEF Start, Reads, SchemaInv, MayBegin
<1>2. Reached(view, "create", 1)
  BY <1>1 DEF SchemaInv, Reached
<1> QED BY <1>1, <1>2, ReadStep

LEMMA CreateStays == ASSUME SchemaInv, CreateAll PROVE SchemaInv'
<1> DEFINE missing == DOMAIN Model \ view.tables
<1>1. /\ phase = "create" /\ ~begun /\ view = disk /\ UNCHANGED history
      /\ view \in Database /\ Kept(view, edited)
      /\ RowsInOnePlace(view) /\ BucketsInOnePlace(view)
  BY DEF CreateAll, SchemaInv, SchemaTypeOK, DataInOnePlace, MayBegin
<1>2. ASSUME NEW ts \in SUBSET missing
      PROVE  LET e == WithTables(view, ts) IN
             /\ e \in Database /\ Kept(e, edited)
             /\ RowsInOnePlace(e) /\ BucketsInOnePlace(e)
             /\ e.tables = view.tables \cup ts
  <2> DEFINE e == WithTables(view, ts)
  <2>1. ts \cap AnalysisTables = {}
    BY TablesApart DEF LegacyTables
  <2>2. /\ e \in Database /\ SameData(view, e) /\ e.marks = view.marks
        /\ e.kv = view.kv /\ e.old = view.old /\ e.tables = view.tables \cup ts
    BY <1>1, WithTablesIs
  <2>3. Coherent(e)
    BY <1>1, <2>1, TablesCoherent DEF Kept
  <2> HIDE DEF e
  <2>4. Kept(e, edited)
    BY <1>1, <2>2, <2>3, KeptBy DEF SameData
  <2>5. RowsInOnePlace(e) /\ BucketsInOnePlace(e)
    BY <1>1, <2>2 DEF RowsInOnePlace, BucketsInOnePlace, SameData
  <2> QED BY <2>2, <2>4, <2>5 DEF e
<1>3. CASE Ddl(WithTables(view, missing)) /\ Goto("base", 1)
  <2> DEFINE e == WithTables(view, missing)
  <2>1. /\ e \in Database /\ Kept(e, edited) /\ RowsInOnePlace(e) /\ BucketsInOnePlace(e)
        /\ DOMAIN Model \subseteq e.tables
    BY <1>2
  <2> HIDE DEF e
  <2>2. Reached(e, "base", 1)
    BY <2>1 DEF Reached, HasBase
  <2>3. Ddl(e)
    BY <1>3 DEF e
  <2> QED BY <1>1, <1>3, <2>1, <2>2, <2>3, DdlStep
<1>4. ASSUME NEW t \in missing, disk' = WithTables(view, missing \ {t}), view' = disk',
             Goto("off", 1), UNCHANGED begun
      PROVE  SchemaInv'
  <2>1. /\ disk' \in Database /\ Kept(disk', edited)
        /\ RowsInOnePlace(disk') /\ BucketsInOnePlace(disk')
    BY <1>2, <1>4
  <2>2. Reached(view', "off", 1)
    BY <1>4, <2>1 DEF Reached
  <2>3. begun' = FALSE /\ phase' = "off" /\ pos' = 1
    BY <1>1, <1>4 DEF Goto, SchemaInv, SchemaTypeOK
  <2>4. Reached(view', phase', pos') /\ phase' \in Phases /\ pos' \in Nat \ {0}
    BY <2>2, <2>3
  <2>5. view' \in Database /\ Kept(view', edited) /\ view' = disk'
    BY <1>4, <2>1
  <2> QED BY <1>1, <2>1, <2>3, <2>4, <2>5, NewState
<1> QED BY <1>3, <1>4 DEF CreateAll

LEMMA BaseStays == ASSUME SchemaInv, AddBaseColumn PROVE SchemaInv'
<1>1. /\ phase = "base" /\ ~begun /\ UNCHANGED history /\ pos \in Nat \ {0}
      /\ view \in Database /\ Kept(view, edited) /\ Reached(view, "base", pos)
  BY DEF AddBaseColumn, SchemaInv, SchemaTypeOK, MayBegin
<1>2. /\ RowsInOnePlace(view) /\ BucketsInOnePlace(view)
      /\ DOMAIN Model \subseteq view.tables /\ HasBase(view, pos - 1)
  BY <1>1 DEF Reached
<1>3. Len(BaseColumns) \in Nat /\ DOMAIN BaseColumns = 1..Len(BaseColumns)
  BY ModelAssumption
<1>4. CASE pos > Len(BaseColumns)
  <2>1. Goto("list", 1) /\ Reads
    BY <1>4 DEF AddBaseColumn
  <2>2. HasBase(view, Len(BaseColumns))
    BY <1>1, <1>2, <1>3, <1>4 DEF HasBase
  <2>3. Listed(view, 0)
    BY DEF Listed
  <2>4. Reached(view, "list", 1)
    BY <1>2, <2>2, <2>3 DEF Reached
  <2> QED BY <1>1, <2>1, <2>4, ReadStep
<1>5. CASE ~(pos > Len(BaseColumns))
  <2> DEFINE x == BaseColumns[pos]
             e == WithColumn(view, x[1], x[2])
  <2>1. Goto("base", pos + 1) /\ Commit(e)
    BY <1>5 DEF AddBaseColumn
  <2>2. x \in Name /\ IsColumn(x)
    BY <1>1, <1>3, <1>5, ModelAssumption DEF Range
  <2> HIDE DEF x
  <2>4. /\ e \in Database /\ SameData(view, e) /\ e.marks = view.marks
        /\ e.kv = view.kv /\ e.old = view.old /\ e.tables = view.tables
        /\ e.cols = view.cols \cup {x}
    BY <1>1, <2>2, WithColumnIs
  <2>5. Coherent(e)
    BY <1>1, <2>2, ColumnCoherent DEF Kept
  <2> HIDE DEF e
  <2>6. HasBase(e, pos)
    <3>1. ASSUME NEW i \in 1..pos PROVE BaseColumns[i] \in e.cols
      BY <1>1, <1>2, <2>4 DEF HasBase, x
    <3> QED BY <3>1 DEF HasBase
  <2>7. Kept(e, edited)
    BY <1>1, <2>4, <2>5, KeptBy DEF SameData
  <2>8. Reached(e, "base", pos + 1)
    BY <1>1, <1>2, <2>4, <2>6
       DEF Reached, RowsInOnePlace, BucketsInOnePlace, SameData
  <2> QED BY <1>1, <2>1, <2>4, <2>7, <2>8, CommitStep DEF e
<1> QED BY <1>4, <1>5

\* The list: an entry that is behind, whether skipped, found done or made, holds.
LEMMA AtEntry ==
    ASSUME SchemaInv, phase = "list", pos \in 1..Len(MIGRATIONS)
    PROVE  /\ view \in Database /\ Kept(view, edited) /\ Coherent(view)
           /\ DOMAIN Model \subseteq view.tables /\ HasBase(view, Len(BaseColumns))
           /\ Listed(view, pos - 1) /\ (CopyBehind(pos - 1) \/ RowsInOnePlace(view))
           /\ BucketsInOnePlace(view)
           /\ MIGRATIONS[pos] \in Migrations /\ MIGRATIONS[pos] \in Range(MIGRATIONS)
           /\ EntryOK(pos) /\ pos \in Nat /\ pos - 1 \in 0..Len(MIGRATIONS)
<1>1. Reached(view, "list", pos) /\ view \in Database /\ Kept(view, edited)
  BY DEF SchemaInv, SchemaTypeOK
<1> QED BY <1>1, Entries DEF Reached, Kept

LEMMA ListedNext ==
    ASSUME NEW d, NEW n \in 1..Len(MIGRATIONS), Listed(d, n - 1), Entered(d, MIGRATIONS[n])
    PROVE  Listed(d, n)
<1>1. ASSUME NEW i \in 1..n PROVE Entered(d, MIGRATIONS[i])
  BY Entries DEF Listed
<1> QED BY <1>1 DEF Listed

LEMMA SkippedIsEntered ==
    ASSUME SchemaInv, phase = "list", pos \in 1..Len(MIGRATIONS), Skips(MIGRATIONS[pos])
    PROVE  /\ Entered(view, MIGRATIONS[pos])
           /\ CopyBehind(pos) \/ RowsInOnePlace(view)
<1> DEFINE m == MIGRATIONS[pos]
<1>1. /\ view \in Database /\ Coherent(view) /\ DOMAIN Model \subseteq view.tables
      /\ CopyBehind(pos - 1) \/ RowsInOnePlace(view)
      /\ m \in Migrations /\ m \in Range(MIGRATIONS) /\ EntryOK(pos) /\ pos \in Nat
  BY AtEntry
<1>2. m.does = "alter" => m.table \in view.tables
  BY <1>1 DEF EntryOK, IsColumn
<1>3. ASSUME m.version \in view.marks PROVE Entered(view, m)
  <2>1. /\ m.does = "alter" /\ m.table \in view.tables => <<m.table, m.column>> \in view.cols
        /\ m.does = "drop" => m.column \notin view.tables
        /\ m.does = "copy" => view.new = view.audits
    BY <1>1, <1>3 DEF Coherent
  <2> QED BY <1>2, <1>3, <2>1 DEF Entered
<1>4. ASSUME m.version \notin view.marks PROVE Entered(view, m)
  <2>1. m.table # "" /\ m.table \notin view.tables /\ m.does # "create"
    BY <1>4 DEF Skips
  <2>2. m.does # "alter" /\ m.does # "drop"
    BY <1>1, <1>2, <2>1 DEF EntryOK
  <2>3. m.does = "copy" => view.new = view.audits
    <3>1. SUFFICES ASSUME m.does = "copy" PROVE view.new = view.audits
      OBVIOUS
    <3>2. view.old = 0
      BY <1>1, <2>1, <3>1 DEF EntryOK, Coherent
    <3>3. RowsInOnePlace(view)
      BY <1>1, <3>1 DEF EntryOK, CopyBehind
    <3>4. view.new \in 0..1
      BY <1>1 DEF Database
    <3> QED BY <3>2, <3>3, <3>4 DEF RowsInOnePlace
  <2> QED BY <2>1, <2>2, <2>3 DEF Entered
<1>5. Entered(view, m)
  BY <1>3, <1>4
<1>6. CopyBehind(pos - 1) => CopyBehind(pos)
  BY <1>1 DEF CopyBehind
<1> QED BY <1>1, <1>5, <1>6

\* The mark of an entry that holds.
LEMMA EntryMarked ==
    ASSUME NEW d \in Database, Coherent(d), NEW m \in Range(MIGRATIONS),
           m.does # "create" => Entered(d, m)
    PROVE  Coherent(Marked(d, m.version)) /\ Entered(Marked(d, m.version), m)
<1> DEFINE e == Marked(d, m.version)
<1>1. m.version \in Nat /\ m.version \notin Range(Conversion)
  BY Entries, Marks DEF Migrations
<1>2. /\ SameData(d, e) /\ e.marks = d.marks \cup {m.version}
      /\ e.tables = d.tables /\ e.cols = d.cols
  BY <1>1, MarkedIs
<1>3. Entered(e, m)
  BY <1>2 DEF Entered, SameData
<1>4. \A l \in Range(MIGRATIONS) : l.version = m.version => Entered(e, l)
  BY <1>3, Entries
<1> HIDE DEF e
<1>5. Coherent(Marked(d, m.version))
  BY <1>1, <1>4, Marks, MarkCoherent DEF e
<1> QED BY <1>3, <1>5 DEF e

LEMMA DoneStays ==
    ASSUME SchemaInv, phase = "list", pos \in 1..Len(MIGRATIONS), IsDone(MIGRATIONS[pos]),
           Dml(Marked(view, MIGRATIONS[pos].version)), Goto("list", pos + 1), UNCHANGED history
    PROVE  SchemaInv'
<1> DEFINE m == MIGRATIONS[pos]
           e == Marked(view, m.version)
<1>1. /\ view \in Database /\ Kept(view, edited) /\ Coherent(view)
      /\ DOMAIN Model \subseteq view.tables /\ HasBase(view, Len(BaseColumns))
      /\ Listed(view, pos - 1) /\ (CopyBehind(pos - 1) \/ RowsInOnePlace(view))
      /\ BucketsInOnePlace(view)
      /\ m \in Migrations /\ m \in Range(MIGRATIONS)
      /\ EntryOK(pos) /\ pos \in Nat /\ pos - 1 \in 0..Len(MIGRATIONS)
  BY AtEntry
<1>2. Entered(view, m) /\ m.does # "copy" /\ m.version \in Nat
  BY <1>1 DEF IsDone, HasColumn, EntryOK, Entered, Migrations
<1>3. /\ e \in Database /\ SameData(view, e) /\ e.marks = view.marks \cup {m.version}
      /\ e.kv = view.kv /\ e.old = view.old /\ e.tables = view.tables /\ e.cols = view.cols
  BY <1>1, <1>2, MarkedIs
<1>4. Coherent(e) /\ Entered(e, m)
  BY <1>1, <1>2, EntryMarked
<1>5. Dml(e)
  OBVIOUS
<1> HIDE DEF e
<1>6. Kept(e, edited)
  BY <1>1, <1>3, <1>4, KeptBy DEF SameData
<1>7. Listed(e, pos - 1)
  BY <1>1, <1>3, ListedStays DEF SameData
<1>8. Listed(e, pos)
  BY <1>4, <1>7, ListedNext
<1>9. CopyBehind(pos) \/ RowsInOnePlace(e)
  BY <1>1, <1>3 DEF CopyBehind, RowsInOnePlace, SameData
<1>10. Reached(e, "list", pos + 1)
  <2>1. HasBase(e, Len(BaseColumns)) /\ DOMAIN Model \subseteq e.tables /\ (pos + 1) - 1 = pos
    BY <1>1, <1>3 DEF HasBase
  <2>2. BucketsInOnePlace(e)
    BY <1>1, <1>3 DEF BucketsInOnePlace, SameData
  <2> QED BY <1>8, <1>9, <2>1, <2>2 DEF Reached
<1>11. MayBegin(e, "list") /\ pos + 1 \in Nat \ {0}
  BY <1>1 DEF MayBegin
<1> QED BY <1>3, <1>5, <1>6, <1>10, <1>11, DmlStep

\* What an index or an update needs is there, and an ALTER is of what is not there.
LEMMA NoneFails ==
    ASSUME SchemaInv, phase = "list", pos \in 1..Len(MIGRATIONS),
           ~IsDone(MIGRATIONS[pos]), Fails(MIGRATIONS[pos])
    PROVE  FALSE
<1> DEFINE m == MIGRATIONS[pos]
<1>1. /\ Listed(view, pos - 1) /\ EntryOK(pos) /\ pos \in Nat
  BY AtEntry
<1>2. ~(m.does = "alter" /\ HasColumn(view, m.table, m.column))
  BY <1>1 DEF IsDone, EntryOK
<1>3. ASSUME NEW x \in m.needs PROVE x \in view.cols
  <2>1. PICK i \in 1..pos - 1 : /\ MIGRATIONS[i].does = "alter"
                              /\ x = <<MIGRATIONS[i].table, MIGRATIONS[i].column>>
    BY <1>1, <1>3 DEF EntryOK
  <2> QED BY <1>1, <2>1 DEF Listed, Entered
<1> QED BY <1>2, <1>3 DEF Fails

LEMMA DoesStays ==
    ASSUME SchemaInv, phase = "list", pos \in 1..Len(MIGRATIONS),
           ~Skips(MIGRATIONS[pos]), Goto("list", pos + 1), UNCHANGED history,
           view' = Marked(Does(MIGRATIONS[pos]), MIGRATIONS[pos].version), begun' = TRUE,
           disk' = IF MIGRATIONS[pos].does \in {"create", "alter", "drop"}
                   THEN Committed(Does(MIGRATIONS[pos])) ELSE disk
    PROVE  SchemaInv'
<1> DEFINE m == MIGRATIONS[pos]
           e == Does(m)
           f == Marked(e, m.version)
<1>1. /\ view \in Database /\ Kept(view, edited) /\ Coherent(view)
      /\ DOMAIN Model \subseteq view.tables /\ HasBase(view, Len(BaseColumns))
      /\ Listed(view, pos - 1) /\ (CopyBehind(pos - 1) \/ RowsInOnePlace(view))
      /\ BucketsInOnePlace(view)
      /\ m \in Migrations /\ m \in Range(MIGRATIONS)
      /\ EntryOK(pos) /\ pos \in Nat /\ pos - 1 \in 0..Len(MIGRATIONS)
  BY AtEntry
<1>2. m.version \notin view.marks /\ m.version \in Nat
  BY <1>1 DEF Skips, Migrations
<1>3. /\ e \in Database /\ Coherent(e)
      /\ m.does # "create" => Entered(e, m)
      /\ e.marks = view.marks /\ e.kv = view.kv /\ e.row = view.row
      /\ e.binding = view.binding /\ e.audits = view.audits
      /\ view.cols \subseteq e.cols /\ DOMAIN Model \subseteq e.tables
      /\ e.tables \cap DroppedTables \subseteq view.tables
      /\ m.does # "copy" => e.new = view.new
      /\ m.does # "copy" /\ RowsInOnePlace(view) => RowsInOnePlace(e)
  BY <1>1, <1>2, DoesIs
<1> HIDE DEF e
<1>4. /\ f \in Database /\ SameData(e, f) /\ f.marks = e.marks \cup {m.version}
      /\ f.kv = e.kv /\ f.old = e.old /\ f.tables = e.tables /\ f.cols = e.cols
  BY <1>2, <1>3, MarkedIs
<1>5. Coherent(f) /\ Entered(f, m)
  BY <1>1, <1>3, EntryMarked
<1>6. view' = f /\ disk' = IF m.does \in {"create", "alter", "drop"} THEN Committed(e) ELSE disk
  BY DEF e
<1> HIDE DEF f
<1>7. Kept(e, edited)
  BY <1>1, <1>3, KeptBy
<1>8. Kept(f, edited)
  BY <1>4, <1>5, <1>7, KeptBy DEF SameData
<1>9. Listed(f, pos - 1)
  <2>1. f.new = view.new \/ ~CopyBehind(pos - 1) \/ f.new = f.audits
    BY <1>1, <1>3, <1>4, <1>5 DEF SameData, Entered
  <2> QED BY <1>1, <1>3, <1>4, <2>1, ListedStays DEF SameData
<1>10. Listed(f, pos)
  BY <1>5, <1>9, ListedNext
<1>11. CopyBehind(pos) \/ RowsInOnePlace(f)
  <2>1. CopyBehind(pos - 1) \/ m.does = "copy" => CopyBehind(pos)
    BY <1>1 DEF CopyBehind
  <2> QED BY <1>1, <1>3, <1>4, <2>1 DEF RowsInOnePlace, SameData
<1>12. BucketsInOnePlace(e) /\ BucketsInOnePlace(f)
  BY <1>1, <1>3, <1>4 DEF BucketsInOnePlace, SameData
<1>13. Reached(f, "list", pos + 1)
  <2>1. HasBase(f, Len(BaseColumns)) /\ DOMAIN Model \subseteq f.tables /\ (pos + 1) - 1 = pos
    BY <1>1, <1>3, <1>4 DEF HasBase
  <2> QED BY <2>1, <1>10, <1>11, <1>12 DEF Reached
<1>14. /\ disk' \in Database /\ Kept(disk', edited)
       /\ RowsInOnePlace(disk') /\ BucketsInOnePlace(disk')
  <2>1. CASE disk' = disk
    BY <2>1 DEF SchemaInv, SchemaTypeOK, DataInOnePlace
  <2>2. CASE disk' # disk
    <3>1. disk' = e /\ view = disk /\ m.does # "copy"
      BY <1>6, <2>2 DEF Committed, SchemaInv, SchemaTypeOK
    <3>2. RowsInOnePlace(view)
      BY <3>1 DEF SchemaInv, DataInOnePlace
    <3> QED BY <1>3, <1>7, <1>12, <3>1, <3>2
  <2> QED BY <2>1, <2>2
<1>15. phase' = "list" /\ pos' = pos + 1 /\ pos' \in Nat \ {0}
  BY <1>1 DEF Goto
<1>16. view' \in Database /\ Kept(view', edited) /\ Reached(view', phase', pos')
  BY <1>4, <1>6, <1>8, <1>13, <1>15
<1>17. phase' \in Phases /\ MayBegin(view', phase')
  BY <1>15 DEF MayBegin
<1> QED BY <1>14, <1>15, <1>16, <1>17, NewState

LEMMA MigrateStays == ASSUME SchemaInv, Migrate PROVE SchemaInv'
<1> DEFINE m == MIGRATIONS[pos]
<1>1. phase = "list" /\ pos \in 1..Len(MIGRATIONS)
  BY Entries DEF Migrate, SchemaInv, SchemaTypeOK
<1>2. CASE Skips(m) /\ Reads /\ Goto("list", pos + 1) /\ UNCHANGED history
  <2>1. /\ Kept(view, edited) /\ BucketsInOnePlace(view)
        /\ DOMAIN Model \subseteq view.tables /\ HasBase(view, Len(BaseColumns))
        /\ Listed(view, pos - 1) /\ pos \in Nat
    BY <1>1, AtEntry
  <2>2. Entered(view, m) /\ (CopyBehind(pos) \/ RowsInOnePlace(view))
    BY <1>1, <1>2, SkippedIsEntered
  <2>3. Listed(view, pos)
    BY <1>1, <2>1, <2>2, ListedNext
  <2>4. Reached(view, "list", pos + 1)
    BY <2>1, <2>2, <2>3 DEF Reached
  <2>5. MayBegin(view, "list") /\ pos + 1 \in Nat \ {0}
    BY <2>1 DEF MayBegin
  <2> QED BY <1>2, <2>4, <2>5, ReadStep
<1>3. CASE /\ ~Skips(m) /\ IsDone(m) /\ Dml(Marked(view, m.version))
           /\ Goto("list", pos + 1) /\ UNCHANGED history
  BY <1>1, <1>3, DoneStays
<1>4. CASE ~Skips(m) /\ ~IsDone(m) /\ Fails(m) /\ Raises("statement")
  BY <1>1, <1>4, NoneFails
<1>5. CASE /\ ~Skips(m) /\ ~IsDone(m) /\ ~Fails(m)
           /\ view' = Marked(Does(m), m.version) /\ begun' = TRUE
           /\ disk' = IF m.does \in {"create", "alter", "drop"}
                      THEN Committed(Does(m)) ELSE disk
           /\ Goto("list", pos + 1) /\ UNCHANGED history
  BY <1>1, <1>5, DoesStays
<1> QED BY <1>2, <1>3, <1>4, <1>5 DEF Migrate

\* At the end the old rows have been copied and their table is gone.
LEMMA ListEnds ==
    ASSUME NEW d \in Database, Coherent(d), Listed(d, Len(MIGRATIONS))
    PROVE  RowsInOnePlace(d)
<1>1. PICK l \in Range(MIGRATIONS) : l.does = "drop" /\ l.column = "audit_logs"
  BY TablesApart DEF DroppedTables
<1>2. PICK n \in 1..Len(MIGRATIONS) : l = MIGRATIONS[n]
  BY Entries
<1>3. PICK i \in 1..n - 1 : MIGRATIONS[i].does = "copy"
  BY <1>1, <1>2, Entries DEF EntryOK
<1>4. i \in 1..Len(MIGRATIONS)
  BY <1>2, <1>3, Entries
<1>5. d.new = d.audits
  BY <1>3, <1>4 DEF Listed, Entered
<1>6. d.old = 0
  BY <1>1, <1>2 DEF Listed, Entered, Coherent
<1> QED BY <1>5, <1>6 DEF RowsInOnePlace, Database

LEMMA EndListStays == ASSUME SchemaInv, EndList PROVE SchemaInv'
<1>1. /\ phase = "list" /\ pos > Len(MIGRATIONS) /\ pos \in Nat \ {0}
      /\ Commit(view) /\ Goto("config", 1) /\ UNCHANGED history
      /\ view \in Database /\ Kept(view, edited) /\ Reached(view, "list", pos)
  BY DEF EndList, SchemaInv, SchemaTypeOK
<1>2. Listed(view, Len(MIGRATIONS))
  BY <1>1, Entries DEF Reached, Listed
<1>3. RowsInOnePlace(view)
  BY <1>1, <1>2, ListEnds DEF Kept
<1>4. Reached(view, "config", 1)
  BY <1>1, <1>2, <1>3 DEF Reached
<1> QED BY <1>1, <1>4, CommitStep

\* After the list.
ListDone(d) ==
    /\ DOMAIN Model \subseteq d.tables /\ HasBase(d, Len(BaseColumns))
    /\ Listed(d, Len(MIGRATIONS)) /\ RowsInOnePlace(d)

LEMMA AfterList ==
    ASSUME SchemaInv, phase \in Converts
    PROVE  /\ view \in Database /\ Kept(view, edited) /\ Coherent(view)
           /\ Reached(view, phase, pos) /\ ListDone(view) /\ pos \in Nat \ {0}
           /\ (phase \notin {"drop", "retired", "context"} => ~begun)
           /\ (phase = "context" /\ begun => Conversion.context \notin view.marks)
  BY DEF SchemaInv, SchemaTypeOK, Reached, ListDone, Kept, MayBegin

LEMMA ListDoneStays ==
    ASSUME NEW d, NEW e, ListDone(d), d.cols \subseteq e.cols, d.marks \subseteq e.marks,
           DOMAIN Model \subseteq e.tables, e.tables \cap DroppedTables \subseteq d.tables,
           e.old = d.old, e.new = d.new, e.audits = d.audits
    PROVE  ListDone(e)
<1>1. Listed(e, Len(MIGRATIONS))
  BY Entries, ListedStays DEF ListDone
<1> QED BY <1>1 DEF ListDone, HasBase, RowsInOnePlace

\* The mark of a conversion that has been made.
LEMMA ConversionMarked ==
    ASSUME NEW d \in Database, Kept(d, edited), NEW v \in Range(Conversion),
           v = Conversion.config => "config_kv" \notin d.tables,
           v = Conversion.analysis =>
              /\ AnalysisTables \cap d.tables = {}
              /\ \A m \in Range(MIGRATIONS) : m.does = "create" => m.version \in d.marks,
           v = Conversion.tokens => d.binding # "none",
           v = Conversion.context =>
              /\ d.context
              /\ \A x \in Range(ContextSteps) : ~FillsRows(x) => x \in d.cols
    PROVE  LET e == Marked(d, v) IN
           /\ e \in Database /\ Kept(e, edited) /\ SameData(d, e)
           /\ e.marks = d.marks \cup {v} /\ e.kv = d.kv /\ e.old = d.old
           /\ e.tables = d.tables /\ e.cols = d.cols
           /\ ListDone(d) => ListDone(e)
           /\ BucketsInOnePlace(d) => BucketsInOnePlace(e)
<1> DEFINE e == Marked(d, v)
<1>1. v \in Nat /\ \A m \in Range(MIGRATIONS) : m.version # v
  BY Marks
<1>2. /\ e \in Database /\ SameData(d, e) /\ e.marks = d.marks \cup {v}
      /\ e.kv = d.kv /\ e.old = d.old /\ e.tables = d.tables /\ e.cols = d.cols
  BY <1>1, MarkedIs
<1>3. Coherent(e)
  BY <1>1, MarkCoherent DEF Kept
<1> HIDE DEF e
<1>4. Kept(e, edited)
  BY <1>2, <1>3, KeptBy DEF SameData
<1>5. ListDone(d) => ListDone(e)
  <2>1. SUFFICES ASSUME ListDone(d) PROVE ListDone(e)
    OBVIOUS
  <2>2. DOMAIN Model \subseteq e.tables
    BY <1>2, <2>1 DEF ListDone
  <2> QED BY <1>2, <2>1, <2>2, ListDoneStays DEF SameData
<1>6. BucketsInOnePlace(d) => BucketsInOnePlace(e)
  BY <1>2 DEF BucketsInOnePlace, SameData
<1> QED BY <1>2, <1>4, <1>5, <1>6 DEF e

LEMMA SkipConfigStays == ASSUME SchemaInv, SkipConfig PROVE SchemaInv'
<1>1. phase = "config" /\ Goto("identity", 1) /\ UNCHANGED history
  BY DEF SkipConfig
<1>2. /\ view \in Database /\ Kept(view, edited) /\ Coherent(view)
      /\ ListDone(view) /\ BucketsInOnePlace(view) /\ ~begun
  BY <1>1, AfterList DEF Reached
<1>3. CASE Conversion.config \in view.marks /\ Reads
  <2>1. Reached(view, "identity", 1)
    BY <1>2, <1>3 DEF Coherent, Reached, ListDone
  <2> QED BY <1>1, <1>2, <1>3, <2>1, ReadStep
<1>4. CASE /\ Conversion.config \notin view.marks /\ "config_kv" \notin view.tables
           /\ Commit(Marked(view, Conversion.config))
  <2> DEFINE e == Marked(view, Conversion.config)
  <2>1. /\ e \in Database /\ Kept(e, edited) /\ ListDone(e) /\ BucketsInOnePlace(e)
        /\ e.tables = view.tables
    BY <1>2, <1>4, Marks, ConversionMarked
  <2>2. Commit(e)
    BY <1>4
  <2> HIDE DEF e
  <2>3. Reached(e, "identity", 1)
    BY <1>4, <2>1 DEF Reached, ListDone
  <2> QED BY <1>1, <2>1, <2>2, <2>3, CommitStep
<1> QED BY <1>3, <1>4 DEF SkipConfig

LEMMA RefuseConfigStays == ASSUME SchemaInv, RefuseConfig PROVE SchemaInv'
<1>1. defect \in Defects
  BY DEF SchemaInv, SchemaTypeOK
<1> QED BY <1>1, RaisesStep DEF RefuseConfig, UnknownConfig, BadAssets

LEMMA CopyConfigStays == ASSUME SchemaInv, CopyConfig PROVE SchemaInv'
<1> DEFINE assets == CopiedAssets(view)
           settings == CopiedSettings(view)
           e == [view EXCEPT !.row["assets"] = assets, !.row["settings"] = settings]
           rows == [b \in Bucket |-> IF b = "assets" THEN assets ELSE settings]
<1>1. phase = "config" /\ Goto("drop", 1) /\ UNCHANGED history /\ Dml(e)
  BY DEF CopyConfig, ToRetire
<1>2. /\ view \in Database /\ Kept(view, edited) /\ Coherent(view)
      /\ ListDone(view) /\ BucketsInOnePlace(view)
  BY <1>1, AfterList DEF Reached
<1>3. view.row \in [Bucket -> {"none", "stored", "legacy", "default", "edited"}]
      /\ Bucket = {"assets", "settings"} /\ view.row["assets"] # "default"
  BY <1>2, DatabasesAssumption DEF Database, Coherent
<1>4. /\ assets \in {"none", "stored", "legacy", "edited"}
      /\ settings \in {"none", "stored", "legacy", "default", "edited"}
  BY <1>3 DEF CopiedAssets, CopiedSettings
<1>5. view.kv = {} => assets = view.row["assets"] /\ settings = view.row["settings"]
  BY DEF CopiedAssets, CopiedSettings
<1>6. view.audits = 1 =>
         /\ assets # "stored" => assets \in {"legacy", "edited"}
         /\ settings # "stored" => settings \in {"legacy", "edited"}
  BY <1>2, <1>3 DEF BucketsInOnePlace, CopiedAssets, CopiedSettings
<1> HIDE DEF assets, settings
<1>7. [[view.row EXCEPT !["assets"] = assets] EXCEPT !["settings"] = settings] = rows
  BY <1>3
<1>8. e = [view EXCEPT !.row = rows]
  BY <1>2, <1>3, <1>7 DEF Database
<1>9. rows \in [Bucket -> {"none", "stored", "legacy", "default", "edited"}]
  BY <1>4
<1>10. rows["assets"] = assets /\ rows["settings"] = settings
  BY <1>3
<1> HIDE DEF rows, e
<1>11. /\ e \in Database /\ e.tables = view.tables /\ e.cols = view.cols
       /\ e.marks = view.marks /\ e.kv = view.kv /\ e.old = view.old /\ e.new = view.new
       /\ e.audits = view.audits /\ e.binding = view.binding /\ e.context = view.context
       /\ e.row = rows
  BY <1>2, <1>8, <1>9 DEF Database
<1>12. Coherent(e)
  BY <1>2, <1>4, <1>10, <1>11, RowsCoherent
<1>13. Kept(e, edited)
  BY <1>2, <1>3, <1>5, <1>10, <1>11, <1>12 DEF Kept
<1>14. ListDone(e)
  BY <1>2, <1>11 DEF ListDone, HasBase, Listed, Entered, RowsInOnePlace
<1>15. BucketsCopied(e)
  BY <1>3, <1>6, <1>10, <1>11 DEF BucketsCopied
<1>16. Reached(e, "drop", 1)
  BY <1>14, <1>15 DEF Reached, ListDone
<1>17. MayBegin(e, "drop")
  BY DEF MayBegin
<1> QED BY <1>1, <1>11, <1>13, <1>16, <1>17, DmlStep

\* A table that is dropped after the list.
LEMMA AfterDrop ==
    ASSUME view \in Database, Kept(view, edited), ListDone(view),
           NEW t \in AnalysisTables \cup {"config_kv"}
    PROVE  LET e == Without(view, t) IN
           /\ e \in Database /\ Kept(e, edited) /\ ListDone(e)
           /\ e.tables = view.tables \ {t} /\ e.row = view.row /\ e.audits = view.audits
           /\ e.kv = (IF t = "config_kv" THEN {} ELSE view.kv)
<1> DEFINE e == Without(view, t)
<1>1. t \in LegacyTables /\ t \notin DOMAIN Model /\ t # "audit_logs"
  BY TablesApart DEF LegacyTables
<1>2. /\ e \in Database /\ SameData(view, e) /\ e.marks = view.marks /\ e.cols = view.cols
      /\ e.tables = view.tables \ {t}
      /\ e.kv = (IF t = "config_kv" THEN {} ELSE view.kv)
      /\ e.old = (IF t = "audit_logs" THEN 0 ELSE view.old)
  BY WithoutIs
<1>3. Coherent(e)
  BY <1>1, DropCoherent DEF Kept
<1> HIDE DEF e
<1>4. Kept(e, edited)
  BY <1>2, <1>3, KeptBy DEF SameData
<1>5. DOMAIN Model \subseteq e.tables /\ e.old = view.old
  BY <1>1, <1>2 DEF ListDone
<1>6. ListDone(e)
  BY <1>2, <1>5, ListDoneStays DEF SameData
<1> QED BY <1>2, <1>4, <1>6 DEF SameData, e

LEMMA DropConfigStays == ASSUME SchemaInv, DropConfig PROVE SchemaInv'
<1> DEFINE e == Without(view, "config_kv")
<1>1. phase = "drop" /\ Ddl(e) /\ Goto("retired", 1) /\ UNCHANGED history
  BY DEF DropConfig
<1>2. /\ view \in Database /\ Kept(view, edited) /\ ListDone(view) /\ BucketsCopied(view)
  BY <1>1, AfterList DEF Reached
<1>3. /\ e \in Database /\ Kept(e, edited) /\ ListDone(e)
      /\ e.tables = view.tables \ {"config_kv"}
      /\ e.row = view.row /\ e.audits = view.audits /\ e.kv = {}
  BY <1>2, AfterDrop
<1> HIDE DEF e
<1>4. BucketsInOnePlace(e)
  BY <1>2, <1>3 DEF BucketsInOnePlace, BucketsCopied
<1>5. Reached(e, "retired", 1) /\ RowsInOnePlace(e) /\ MayBegin(e, "retired")
  BY <1>3, <1>4 DEF Reached, ListDone, MayBegin
<1> QED BY <1>1, <1>3, <1>4, <1>5, DdlStep

LEMMA RetireConfigStays == ASSUME SchemaInv, RetireConfig PROVE SchemaInv'
<1>1. phase = "retired" /\ defect \in Defects
  BY DEF RetireConfig, SchemaInv, SchemaTypeOK
<1>2. CASE HasDuplicates /\ Raises("duplicate")
  BY <1>1, <1>2, RaisesStep DEF HasDuplicates
<1>3. CASE /\ Commit(Marked(Marked(view, Conversion.config), Conversion.identity))
           /\ Goto("identity", 1) /\ UNCHANGED history
  <2> DEFINE d == Marked(view, Conversion.config)
             e == Marked(d, Conversion.identity)
  <2>1. /\ view \in Database /\ Kept(view, edited) /\ ListDone(view)
        /\ BucketsInOnePlace(view) /\ "config_kv" \notin view.tables
    BY <1>1, AfterList DEF Reached
  <2>2. /\ d \in Database /\ Kept(d, edited) /\ ListDone(d) /\ BucketsInOnePlace(d)
        /\ d.tables = view.tables
    BY <2>1, Marks, ConversionMarked
  <2> HIDE DEF d
  <2>3. /\ e \in Database /\ Kept(e, edited) /\ ListDone(e) /\ BucketsInOnePlace(e)
        /\ e.tables = d.tables
    BY <2>2, Marks, ConversionMarked
  <2>4. Commit(e)
    BY <1>3 DEF d
  <2> HIDE DEF e
  <2>5. Reached(e, "identity", 1)
    BY <2>1, <2>2, <2>3 DEF Reached, ListDone
  <2> QED BY <1>3, <2>3, <2>4, <2>5, CommitStep
<1> QED BY <1>2, <1>3 DEF RetireConfig

LEMMA IndexStays == ASSUME SchemaInv, IndexIdentity PROVE SchemaInv'
<1>1. phase = "identity" /\ defect \in Defects
  BY DEF IndexIdentity, SchemaInv, SchemaTypeOK
<1>2. /\ view \in Database /\ Kept(view, edited) /\ ListDone(view)
      /\ BucketsInOnePlace(view) /\ "config_kv" \notin view.tables /\ ~begun
  BY <1>1, AfterList DEF Reached
<1>3. ASSUME NEW d, ListDone(d), BucketsInOnePlace(d), d.tables = view.tables
      PROVE  Reached(d, "analysis", 1)
  BY <1>2, <1>3 DEF Reached, ListDone, NoAnalysis
<1>4. CASE Reads /\ Goto("analysis", 1) /\ UNCHANGED history
  BY <1>2, <1>3, <1>4, ReadStep
<1>5. CASE HasDuplicates /\ Raises("duplicate")
  BY <1>1, <1>5, RaisesStep DEF HasDuplicates
<1>6. CASE /\ Commit(Marked(view, Conversion.identity))
           /\ Goto("analysis", 1) /\ UNCHANGED history
  <2> DEFINE e == Marked(view, Conversion.identity)
  <2>1. /\ e \in Database /\ Kept(e, edited) /\ ListDone(e) /\ BucketsInOnePlace(e)
        /\ e.tables = view.tables
    BY <1>2, Marks, ConversionMarked
  <2>2. Commit(e)
    BY <1>6
  <2> HIDE DEF e
  <2> QED BY <1>3, <1>6, <2>1, <2>2, CommitStep
<1> QED BY <1>4, <1>5, <1>6 DEF IndexIdentity

LEMMA AnalysisGone ==
    ASSUME NEW d
    PROVE  NoAnalysis(d, Len(AI_ANALYSIS_TABLE_DROPS)) <=> AnalysisTables \cap d.tables = {}
<1>1. Len(AI_ANALYSIS_TABLE_DROPS) = 2
  BY DEF AI_ANALYSIS_TABLE_DROPS
<1>2. NoAnalysis(d, 2) <=>
         "ai_analysis_findings" \notin d.tables /\ "ai_analysis_runs" \notin d.tables
  BY DEF NoAnalysis, AI_ANALYSIS_TABLE_DROPS
<1> QED BY <1>1, <1>2, TablesApart

LEMMA AnalysisStays == ASSUME SchemaInv, RetireAnalysis PROVE SchemaInv'
<1>1. phase = "analysis" /\ UNCHANGED history
  BY DEF RetireAnalysis
<1>2. /\ view \in Database /\ Kept(view, edited) /\ ListDone(view) /\ Coherent(view)
      /\ BucketsInOnePlace(view) /\ "config_kv" \notin view.tables /\ ~begun
      /\ NoAnalysis(view, pos - 1) /\ pos \in Nat \ {0}
  BY <1>1, AfterList DEF Reached
<1>3. ASSUME NEW d, ListDone(d), BucketsInOnePlace(d), d.tables = view.tables,
             AnalysisTables \cap d.tables = {}
      PROVE  Reached(d, "tokens", 1)
  BY <1>2, <1>3, AnalysisGone DEF Reached, ListDone
<1>4. CASE Conversion.analysis \in view.marks
  <2>1. Reads /\ Goto("tokens", 1)
    BY <1>4 DEF RetireAnalysis
  <2>2. Reached(view, "tokens", 1)
    BY <1>2, <1>3, <1>4 DEF Coherent
  <2> QED BY <1>1, <1>2, <2>1, <2>2, ReadStep
<1>5. CASE Conversion.analysis \notin view.marks /\ pos > Len(AI_ANALYSIS_TABLE_DROPS)
  <2> DEFINE e == Marked(view, Conversion.analysis)
  <2>1. Commit(e) /\ Goto("tokens", 1)
    BY <1>5 DEF RetireAnalysis
  <2>2. NoAnalysis(view, Len(AI_ANALYSIS_TABLE_DROPS))
    BY <1>2, <1>5 DEF NoAnalysis, AI_ANALYSIS_TABLE_DROPS
  <2>3. AnalysisTables \cap view.tables = {}
    BY <2>2, AnalysisGone
  <2>4. \A m \in Range(MIGRATIONS) : m.does = "create" => m.version \in view.marks
    <3>1. ASSUME NEW n \in 1..Len(MIGRATIONS), MIGRATIONS[n].does = "create"
          PROVE  MIGRATIONS[n].version \in view.marks
      BY <1>2, <3>1 DEF ListDone, Listed, Entered
    <3> QED BY <3>1, Entries
  <2>5. /\ e \in Database /\ Kept(e, edited) /\ ListDone(e) /\ BucketsInOnePlace(e)
        /\ e.tables = view.tables
    BY <1>2, <2>3, <2>4, Marks, ConversionMarked
  <2> HIDE DEF e
  <2>6. Reached(e, "tokens", 1)
    BY <1>3, <2>3, <2>5
  <2> QED BY <1>1, <2>1, <2>5, <2>6, CommitStep
<1>6. CASE Conversion.analysis \notin view.marks /\ ~(pos > Len(AI_ANALYSIS_TABLE_DROPS))
  <2> DEFINE t == AI_ANALYSIS_TABLE_DROPS[pos]
             e == Without(view, t)
  <2>1. Ddl(e) /\ Goto("analysis", pos + 1)
    BY <1>6 DEF RetireAnalysis
  <2>2. t \in AnalysisTables /\ t # "config_kv"
    BY <1>2, <1>6, TablesApart DEF AI_ANALYSIS_TABLE_DROPS
  <2>3. /\ e \in Database /\ Kept(e, edited) /\ ListDone(e)
        /\ e.tables = view.tables \ {t} /\ e.row = view.row /\ e.audits = view.audits
        /\ e.kv = view.kv
    BY <1>2, <2>2, AfterDrop
  <2>4. NoAnalysis(e, pos)
    <3>1. ASSUME NEW i \in 1..pos PROVE AI_ANALYSIS_TABLE_DROPS[i] \notin e.tables
      BY <1>2, <2>3 DEF NoAnalysis
    <3> QED BY <3>1 DEF NoAnalysis
  <2> HIDE DEF t, e
  <2>5. BucketsInOnePlace(e)
    BY <1>2, <2>3 DEF BucketsInOnePlace
  <2>6. Reached(e, "analysis", pos + 1) /\ RowsInOnePlace(e)
    <3>1. (pos + 1) - 1 = pos
      BY <1>2
    <3> QED BY <1>2, <2>3, <2>4, <2>5, <3>1 DEF Reached, ListDone
  <2>7. pos + 1 \in Nat \ {0}
    BY <1>2
  <2> QED BY <1>1, <1>2, <2>1, <2>3, <2>5, <2>6, <2>7, DdlStep
<1> QED BY <1>4, <1>5, <1>6

LEMMA TokensStay == ASSUME SchemaInv, BackfillTokens PROVE SchemaInv'
<1>1. phase = "tokens" /\ defect \in Defects
  BY DEF BackfillTokens, SchemaInv, SchemaTypeOK
<1>2. /\ view \in Database /\ Kept(view, edited) /\ ListDone(view) /\ Coherent(view)
      /\ BucketsInOnePlace(view) /\ "config_kv" \notin view.tables /\ ~begun
      /\ NoAnalysis(view, Len(AI_ANALYSIS_TABLE_DROPS))
  BY <1>1, AfterList DEF Reached
<1>3. ASSUME NEW d, ListDone(d), BucketsInOnePlace(d), d.tables = view.tables,
             Conversion.tokens \in d.marks
      PROVE  Reached(d, "context", 1)
  <2>1. HasContext(d, 1 - 1)
    BY DEF HasContext
  <2>2. NoAnalysis(d, Len(AI_ANALYSIS_TABLE_DROPS))
    BY <1>2, <1>3 DEF NoAnalysis
  <2> QED BY <1>2, <1>3, <2>1, <2>2 DEF Reached, ListDone
<1>4. CASE ~FillsTokens /\ Reads /\ Goto("context", 1) /\ UNCHANGED history
  BY <1>2, <1>3, <1>4, ReadStep DEF FillsTokens
<1>5. CASE FillsTokens /\ defect = "token" /\ Raises("token")
  BY <1>1, <1>5, RaisesStep
<1>6. CASE /\ FillsTokens /\ defect # "token"
           /\ Commit(Marked([view EXCEPT !.binding = "alias"], Conversion.tokens))
           /\ Goto("context", 1) /\ UNCHANGED history
  <2> DEFINE d == [view EXCEPT !.binding = "alias"]
             e == Marked(d, Conversion.tokens)
  <2>1. /\ d \in Database /\ d.tables = view.tables /\ d.cols = view.cols
        /\ d.marks = view.marks /\ d.kv = view.kv /\ d.old = view.old /\ d.new = view.new
        /\ d.audits = view.audits /\ d.context = view.context /\ d.row = view.row
        /\ d.binding = "alias"
    BY <1>2 DEF Database
  <2>2. Commit(e)
    BY <1>6
  <2> HIDE DEF d
  <2>3. Coherent(d)
    BY <1>2, <2>1, RowsCoherent DEF Coherent
  <2>4. edited = {}
    BY <1>2, <1>6 DEF Kept, FillsTokens
  <2>5. Kept(d, edited)
    BY <2>3, <2>4 DEF Kept
  <2>6. ListDone(d) /\ BucketsInOnePlace(d)
    BY <1>2, <2>1
       DEF ListDone, HasBase, Listed, Entered, RowsInOnePlace, BucketsInOnePlace
  <2>7. /\ e \in Database /\ Kept(e, edited) /\ ListDone(e) /\ BucketsInOnePlace(e)
        /\ e.tables = d.tables /\ e.marks = d.marks \cup {Conversion.tokens}
    BY <2>1, <2>5, <2>6, Marks, ConversionMarked
  <2> HIDE DEF e
  <2>8. Reached(e, "context", 1)
    BY <1>3, <2>1, <2>7
  <2> QED BY <1>6, <2>2, <2>7, <2>8, CommitStep
<1> QED BY <1>4, <1>5, <1>6 DEF BackfillTokens

LEMMA ContextStays == ASSUME SchemaInv, BackfillContext PROVE SchemaInv'
<1>1. phase = "context" /\ UNCHANGED history
  BY DEF BackfillContext
<1>2. /\ view \in Database /\ Kept(view, edited) /\ ListDone(view) /\ Coherent(view)
      /\ BucketsInOnePlace(view) /\ "config_kv" \notin view.tables
      /\ (begun => Conversion.context \notin view.marks)
      /\ NoAnalysis(view, Len(AI_ANALYSIS_TABLE_DROPS)) /\ Conversion.tokens \in view.marks
      /\ HasContext(view, pos - 1) /\ pos \in Nat \ {0}
  BY <1>1, AfterList DEF Reached
<1>3. /\ Len(ContextSteps) \in Nat /\ DOMAIN ContextSteps = 1..Len(ContextSteps)
      /\ \A x \in Range(ContextSteps) : \E i \in 1..Len(ContextSteps) : x = ContextSteps[i]
      /\ \A i \in 1..Len(ContextSteps) :
            ContextSteps[i] \in Range(ContextSteps) /\ ContextSteps[i] \in Name
  BY ModelAssumption DEF Range
<1>4. ASSUME NEW d, ListDone(d), BucketsInOnePlace(d), d.tables = view.tables,
             view.marks \subseteq d.marks
      PROVE  /\ HasContext(d, Len(ContextSteps)) => Reached(d, "defaults", 1)
             /\ HasContext(d, pos) => Reached(d, "context", pos + 1)
  <2>1. NoAnalysis(d, Len(AI_ANALYSIS_TABLE_DROPS)) /\ Conversion.tokens \in d.marks
    BY <1>2, <1>4 DEF NoAnalysis
  <2>2. (pos + 1) - 1 = pos
    BY <1>2
  <2> QED BY <1>2, <1>4, <2>1, <2>2 DEF Reached, ListDone
<1>5. CASE Conversion.context \in view.marks
  <2>1. Reads /\ Goto("defaults", 1) /\ ~begun
    BY <1>2, <1>5 DEF BackfillContext
  <2>2. ASSUME NEW i \in 1..Len(ContextSteps)
        PROVE  IF FillsRows(ContextSteps[i]) THEN view.context ELSE ContextSteps[i] \in view.cols
    <3> DEFINE x == ContextSteps[i]
    <3>1. x \in Range(ContextSteps)
      BY <1>3
    <3>2. ~FillsRows(x) => x[1] \in view.tables
      BY <1>2, <3>1, ModelAssumption DEF IsColumn, ListDone
    <3> HIDE DEF x
    <3>3. view.context /\ (~FillsRows(x) => x \in view.cols)
      BY <1>2, <1>5, <3>1, <3>2 DEF Coherent
    <3> QED BY <3>3 DEF x
  <2>3. HasContext(view, Len(ContextSteps))
    BY <2>2 DEF HasContext
  <2>4. Reached(view, "defaults", 1)
    BY <1>2, <1>4, <2>3
  <2> QED BY <1>1, <2>1, <2>4, ReadStep
<1>6. CASE Conversion.context \notin view.marks /\ pos > Len(ContextSteps)
  <2> DEFINE e == Marked(view, Conversion.context)
  <2>1. Commit(e) /\ Goto("defaults", 1)
    BY <1>6 DEF BackfillContext
  <2>2. HasContext(view, Len(ContextSteps))
    BY <1>2, <1>3, <1>6 DEF HasContext
  <2>3. view.context /\ \A x \in Range(ContextSteps) : ~FillsRows(x) => x \in view.cols
    <3>1. ASSUME NEW x \in Range(ContextSteps)
          PROVE  IF FillsRows(x) THEN view.context ELSE x \in view.cols
      BY <1>3, <2>2 DEF HasContext
    <3> QED BY <3>1, ModelAssumption
  <2>4. /\ e \in Database /\ Kept(e, edited) /\ ListDone(e) /\ BucketsInOnePlace(e)
        /\ e.tables = view.tables /\ e.marks = view.marks \cup {Conversion.context}
        /\ SameData(view, e) /\ e.cols = view.cols
    BY <1>2, <2>3, Marks, ConversionMarked
  <2> HIDE DEF e
  <2>5. HasContext(e, Len(ContextSteps))
    BY <2>2, <2>4 DEF HasContext, SameData
  <2>6. Reached(e, "defaults", 1)
    BY <1>4, <2>4, <2>5
  <2> QED BY <1>1, <2>1, <2>4, <2>6, CommitStep
<1>7. CASE Conversion.context \notin view.marks /\ ~(pos > Len(ContextSteps))
  <2> DEFINE x == ContextSteps[pos]
  <2>1. Goto("context", pos + 1) /\ pos + 1 \in Nat \ {0}
    BY <1>2, <1>7 DEF BackfillContext
  <2>2. x \in Name /\ (FillsRows(x) \/ IsColumn(x))
    BY <1>2, <1>3, <1>7, ModelAssumption
  <2>3. ASSUME NEW e, view.cols \subseteq e.cols, view.context => e.context,
               IF FillsRows(x) THEN e.context ELSE x \in e.cols
        PROVE  HasContext(e, pos)
    <3>1. ASSUME NEW i \in 1..pos
          PROVE  IF FillsRows(ContextSteps[i]) THEN e.context ELSE ContextSteps[i] \in e.cols
      BY <1>2, <2>3 DEF HasContext
    <3> QED BY <3>1 DEF HasContext
  <2>4. CASE FillsRows(x)
    <3> DEFINE e == [view EXCEPT !.context = TRUE]
    <3>1. Dml(e)
      BY <1>7, <2>4 DEF BackfillContext
    <3>2. /\ e \in Database /\ e.tables = view.tables /\ e.cols = view.cols
          /\ e.marks = view.marks /\ e.kv = view.kv /\ e.old = view.old /\ e.new = view.new
          /\ e.audits = view.audits /\ e.row = view.row /\ e.binding = view.binding
      BY <1>2 DEF Database
    <3>3. e.context
      BY <1>2 DEF Database
    <3> HIDE DEF e
    <3>4. Coherent(e)
      BY <1>2, <3>2, <3>3, RowsCoherent DEF Coherent
    <3>5. Kept(e, edited)
      BY <1>2, <3>2, <3>4, KeptBy
    <3>6. ListDone(e) /\ BucketsInOnePlace(e)
      BY <1>2, <3>2
         DEF ListDone, HasBase, Listed, Entered, RowsInOnePlace, BucketsInOnePlace
    <3>7. HasContext(e, pos)
      BY <2>3, <2>4, <3>2, <3>3
    <3>8. Reached(e, "context", pos + 1) /\ MayBegin(e, "context")
      BY <1>4, <1>7, <3>2, <3>6, <3>7 DEF MayBegin
    <3> QED BY <1>1, <2>1, <3>1, <3>2, <3>5, <3>8, DmlStep
  <2>5. CASE ~FillsRows(x)
    <3> DEFINE e == WithColumn(view, x[1], x[2])
    <3>1. Ddl(e)
      BY <1>7, <2>5 DEF BackfillContext
    <3> HIDE DEF x
    <3>2. /\ e \in Database /\ SameData(view, e) /\ e.marks = view.marks
          /\ e.kv = view.kv /\ e.old = view.old /\ e.tables = view.tables
          /\ e.cols = view.cols \cup {x}
      BY <1>2, <2>2, WithColumnIs
    <3>3. Coherent(e)
      BY <1>2, <2>2, <2>5, ColumnCoherent
    <3> HIDE DEF e
    <3>4. Kept(e, edited)
      BY <1>2, <3>2, <3>3, KeptBy DEF SameData
    <3>5. DOMAIN Model \subseteq e.tables
      BY <1>2, <3>2 DEF ListDone
    <3>6. ListDone(e) /\ BucketsInOnePlace(e) /\ RowsInOnePlace(e)
      <4>1. ListDone(e)
        BY <1>2, <3>2, <3>5, ListDoneStays DEF SameData
      <4> QED BY <1>2, <3>2, <4>1 DEF BucketsInOnePlace, ListDone, SameData
    <3>7. HasContext(e, pos)
      BY <2>3, <2>5, <3>2 DEF SameData
    <3>8. Reached(e, "context", pos + 1) /\ MayBegin(e, "context")
      BY <1>4, <1>7, <3>2, <3>6, <3>7 DEF MayBegin
    <3> QED BY <1>1, <2>1, <3>1, <3>2, <3>4, <3>6, <3>8, DdlStep
  <2> QED BY <2>4, <2>5
<1> QED BY <1>5, <1>6, <1>7

\* The last phases, with nothing left to convert.
LEMMA AllConverted ==
    ASSUME SchemaInv, phase \in Ends
    PROVE  /\ view \in Database /\ Kept(view, edited) /\ Coherent(view) /\ view.kv = {}
           /\ ListDone(view) /\ BucketsInOnePlace(view) /\ "config_kv" \notin view.tables
           /\ ~begun /\ NoAnalysis(view, Len(AI_ANALYSIS_TABLE_DROPS))
           /\ Conversion.tokens \in view.marks /\ HasContext(view, Len(ContextSteps))
<1>1. /\ view \in Database /\ Kept(view, edited) /\ Coherent(view)
      /\ ListDone(view) /\ ~begun /\ Reached(view, phase, pos)
  BY AfterList
<1>2. /\ BucketsInOnePlace(view) /\ "config_kv" \notin view.tables
      /\ NoAnalysis(view, Len(AI_ANALYSIS_TABLE_DROPS))
      /\ Conversion.tokens \in view.marks /\ HasContext(view, Len(ContextSteps))
  BY <1>1 DEF Reached
<1> QED BY <1>1, <1>2 DEF Coherent

\* Rows of the domain tables change and nothing else.
LEMMA RowsChange ==
    ASSUME SchemaInv, phase \in Ends, NEW e \in Database,
           e.tables = view.tables, e.cols = view.cols, e.marks = view.marks, e.kv = view.kv,
           e.old = view.old, e.new = view.new, e.audits = view.audits,
           e.context = view.context, e.binding # "none", e.row["assets"] # "default",
           \A b \in Bucket : view.row[b] # "none" => e.row[b] \in {view.row[b], "edited"}
    PROVE  /\ Coherent(e) /\ ListDone(e) /\ BucketsInOnePlace(e)
           /\ e.kv = {} /\ Conversion.tokens \in e.marks /\ "config_kv" \notin e.tables
           /\ NoAnalysis(e, Len(AI_ANALYSIS_TABLE_DROPS)) /\ HasContext(e, Len(ContextSteps))
<1>1. /\ Coherent(view) /\ view.kv = {} /\ "config_kv" \notin view.tables
      /\ ListDone(view) /\ BucketsInOnePlace(view)
      /\ NoAnalysis(view, Len(AI_ANALYSIS_TABLE_DROPS))
      /\ Conversion.tokens \in view.marks /\ HasContext(view, Len(ContextSteps))
  BY AllConverted
<1>2. Coherent(e)
  BY <1>1, RowsCoherent DEF SchemaInv, SchemaTypeOK
<1>3. ListDone(e)
  BY <1>1 DEF ListDone, HasBase, Listed, Entered, RowsInOnePlace
<1>4. NoAnalysis(e, Len(AI_ANALYSIS_TABLE_DROPS)) /\ HasContext(e, Len(ContextSteps))
  BY <1>1 DEF NoAnalysis, HasContext
<1>5. BucketsInOnePlace(e)
  BY <1>1 DEF BucketsInOnePlace
<1> QED BY <1>1, <1>2, <1>3, <1>4, <1>5

LEMMA DefaultsStay == ASSUME SchemaInv, SeedDefaults PROVE SchemaInv'
<1> DEFINE value == IF view.row["settings"] = "none" THEN "default" ELSE view.row["settings"]
           values == [view.row EXCEPT !["settings"] = value]
           e == [view EXCEPT !.row["settings"] = value]
<1>1. phase = "defaults" /\ Goto("secrets", 1) /\ UNCHANGED history /\ Commit(e)
  BY DEF SeedDefaults
<1>2. view \in Database /\ Kept(view, edited) /\ Coherent(view) /\ Conversion.tokens \in view.marks
  BY <1>1, AllConverted
<1>3. /\ view.row \in [Bucket -> {"none", "stored", "legacy", "default", "edited"}]
      /\ Bucket = {"assets", "settings"} /\ view.row["assets"] # "default"
      /\ view.binding # "none"
  BY <1>2, DatabasesAssumption DEF Database, Coherent
<1>4. /\ values \in [Bucket -> {"none", "stored", "legacy", "default", "edited"}]
      /\ values["assets"] = view.row["assets"] /\ values["settings"] = value /\ value # "none"
      /\ view.row["settings"] # "none" => value = view.row["settings"]
  BY <1>3
<1>5. e = [view EXCEPT !.row = values]
  BY <1>2 DEF Database
<1> HIDE DEF value, values, e
<1>6. /\ e \in Database /\ e.tables = view.tables /\ e.cols = view.cols
      /\ e.marks = view.marks /\ e.kv = view.kv /\ e.old = view.old /\ e.new = view.new
      /\ e.audits = view.audits /\ e.binding = view.binding /\ e.context = view.context
      /\ e.row = values
  BY <1>2, <1>4, <1>5 DEF Database
<1>7. \A b \in Bucket : view.row[b] # "none" => e.row[b] = view.row[b]
  BY <1>3, <1>4, <1>6
<1>8. /\ Coherent(e) /\ ListDone(e) /\ BucketsInOnePlace(e)
      /\ e.kv = {} /\ Conversion.tokens \in e.marks /\ "config_kv" \notin e.tables
      /\ NoAnalysis(e, Len(AI_ANALYSIS_TABLE_DROPS)) /\ HasContext(e, Len(ContextSteps))
  BY <1>1, <1>3, <1>4, <1>6, <1>7, RowsChange
<1>9. Kept(e, edited)
  BY <1>2, <1>6, <1>7, <1>8 DEF Kept
<1>10. Reached(e, "secrets", 1)
  BY <1>4, <1>6, <1>8 DEF Reached, ListDone
<1> QED BY <1>1, <1>6, <1>9, <1>10, CommitStep

LEMMA SecretsStay == ASSUME SchemaInv, SealSecrets PROVE SchemaInv'
<1> DEFINE e == [view EXCEPT !.sealed = TRUE]
<1>1. phase = "secrets" /\ Goto("serving", 1) /\ UNCHANGED history /\ Commit(e)
  BY DEF SealSecrets
<1>2. /\ view \in Database /\ Kept(view, edited) /\ Coherent(view)
      /\ Conversion.tokens \in view.marks /\ view.row["settings"] # "none"
  BY <1>1, AllConverted DEF SchemaInv, Reached
<1>3. view.binding # "none" /\ view.row["assets"] # "default"
  BY <1>2 DEF Coherent
<1>4. /\ e \in Database /\ e.tables = view.tables /\ e.cols = view.cols
      /\ e.marks = view.marks /\ e.kv = view.kv /\ e.old = view.old /\ e.new = view.new
      /\ e.audits = view.audits /\ e.binding = view.binding /\ e.context = view.context
      /\ e.row = view.row
  BY <1>2 DEF Database
<1>5. e.sealed
  BY <1>2 DEF Database
<1> HIDE DEF e
<1>6. /\ Coherent(e) /\ ListDone(e) /\ BucketsInOnePlace(e)
      /\ e.kv = {} /\ Conversion.tokens \in e.marks /\ "config_kv" \notin e.tables
      /\ NoAnalysis(e, Len(AI_ANALYSIS_TABLE_DROPS)) /\ HasContext(e, Len(ContextSteps))
  BY <1>1, <1>3, <1>4, RowsChange
<1>7. Kept(e, edited)
  BY <1>2, <1>4, <1>6, KeptBy
<1>8. Reached(e, "serving", 1)
  BY <1>2, <1>4, <1>5, <1>6 DEF Reached, ListDone
<1> QED BY <1>1, <1>4, <1>7, <1>8, CommitStep

\* What an operator changes is noted, and nothing is left that could undo it.
LEMMA EditStays == ASSUME SchemaInv, Edit PROVE SchemaInv'
<1>1. /\ phase = "serving" /\ UNCHANGED <<phase, pos, defect, refused>>
      /\ pos \in Nat \ {0} /\ edited \subseteq Bucket \cup {"binding"}
  BY DEF Edit, SchemaInv, SchemaTypeOK
<1>2. /\ view \in Database /\ Kept(view, edited) /\ Coherent(view)
      /\ Conversion.tokens \in view.marks /\ view.row["settings"] # "none" /\ view.sealed
  BY <1>1, AllConverted DEF SchemaInv, Reached
<1>3. /\ view.row \in [Bucket -> {"none", "stored", "legacy", "default", "edited"}]
      /\ Bucket = {"assets", "settings"} /\ view.row["assets"] # "default"
      /\ view.binding # "none"
  BY <1>2, DatabasesAssumption DEF Database, Coherent
<1>4. ASSUME NEW e \in Database, Commit(e), Coherent(e) /\ ListDone(e) /\ BucketsInOnePlace(e),
             e.kv = {} /\ Conversion.tokens \in e.marks /\ "config_kv" \notin e.tables,
             NoAnalysis(e, Len(AI_ANALYSIS_TABLE_DROPS)), HasContext(e, Len(ContextSteps)),
             edited' \subseteq Bucket \cup {"binding"}, e.sealed, e.row["settings"] # "none",
             \A b \in Bucket \cap edited' : e.row[b] = "edited",
             "binding" \in edited' => e.binding = "cleared"
      PROVE  SchemaInv'
  <2>1. disk' = e /\ view' = e /\ begun' = FALSE
    BY <1>4 DEF Commit
  <2>2. Kept(e, edited')
    BY <1>4 DEF Kept
  <2>3. Kept(disk, edited)' /\ Kept(view, edited)'
    BY <2>1, <2>2
  <2>4. Reached(e, "serving", pos)
    BY <1>4 DEF Reached, ListDone
  <2>5. SchemaTypeOK' /\ OnlyDefectsStop'
    BY <1>1, <1>4, <2>1 DEF SchemaInv, SchemaTypeOK, OnlyDefectsStop
  <2>6. DataInOnePlace'
    BY <1>4, <2>1 DEF DataInOnePlace, ListDone
  <2> QED BY <1>1, <2>1, <2>3, <2>4, <2>5, <2>6 DEF SchemaInv
<1>5. ASSUME NEW b \in Bucket, Commit([view EXCEPT !.row[b] = "edited"]),
             edited' = edited \cup {b}
      PROVE  SchemaInv'
  <2> DEFINE values == [view.row EXCEPT ![b] = "edited"]
             e == [view EXCEPT !.row[b] = "edited"]
  <2>1. /\ values \in [Bucket -> {"none", "stored", "legacy", "default", "edited"}]
        /\ \A a \in Bucket : values[a] = IF a = b THEN "edited" ELSE view.row[a]
    BY <1>3
  <2>2. e = [view EXCEPT !.row = values] /\ Commit(e)
    BY <1>2, <1>5 DEF Database
  <2> HIDE DEF values, e
  <2>3. /\ e \in Database /\ e.tables = view.tables /\ e.cols = view.cols
        /\ e.marks = view.marks /\ e.kv = view.kv /\ e.old = view.old /\ e.new = view.new
        /\ e.audits = view.audits /\ e.binding = view.binding /\ e.context = view.context
        /\ e.row = values /\ e.sealed = view.sealed
    BY <1>2, <2>1, <2>2 DEF Database
  <2>4. /\ \A a \in Bucket : e.row[a] \in {view.row[a], "edited"}
        /\ e.row["assets"] # "default" /\ e.row["settings"] # "none"
        /\ \A a \in Bucket \cap edited' : e.row[a] = "edited"
    BY <1>2, <1>3, <1>5, <2>1, <2>3 DEF Kept
  <2>5. /\ Coherent(e) /\ ListDone(e) /\ BucketsInOnePlace(e)
        /\ e.kv = {} /\ Conversion.tokens \in e.marks /\ "config_kv" \notin e.tables
        /\ NoAnalysis(e, Len(AI_ANALYSIS_TABLE_DROPS)) /\ HasContext(e, Len(ContextSteps))
    BY <1>1, <1>3, <2>3, <2>4, RowsChange
  <2>6. "binding" \in edited' => e.binding = "cleared"
    BY <1>2, <1>3, <1>5, <2>3 DEF Kept
  <2>7. edited' \subseteq Bucket \cup {"binding"} /\ e.sealed
    BY <1>1, <1>2, <1>5, <2>3
  <2> QED BY <1>4, <2>2, <2>3, <2>4, <2>5, <2>6, <2>7
<1>6. ASSUME Commit([view EXCEPT !.binding = "cleared"]), edited' = edited \cup {"binding"}
      PROVE  SchemaInv'
  <2> DEFINE e == [view EXCEPT !.binding = "cleared"]
  <2>1. /\ e \in Database /\ e.tables = view.tables /\ e.cols = view.cols
        /\ e.marks = view.marks /\ e.kv = view.kv /\ e.old = view.old /\ e.new = view.new
        /\ e.audits = view.audits /\ e.binding = "cleared" /\ e.context = view.context
        /\ e.row = view.row /\ e.sealed = view.sealed
    BY <1>2 DEF Database
  <2>2. Commit(e)
    BY <1>6
  <2> HIDE DEF e
  <2>3. /\ Coherent(e) /\ ListDone(e) /\ BucketsInOnePlace(e)
        /\ e.kv = {} /\ Conversion.tokens \in e.marks /\ "config_kv" \notin e.tables
        /\ NoAnalysis(e, Len(AI_ANALYSIS_TABLE_DROPS)) /\ HasContext(e, Len(ContextSteps))
    BY <1>1, <1>3, <2>1, RowsChange
  <2>4. /\ edited' \subseteq Bucket \cup {"binding"} /\ e.sealed
        /\ e.row["settings"] # "none"
    BY <1>1, <1>2, <1>6, <2>1
  <2>5. \A b \in Bucket \cap edited' : e.row[b] = "edited"
    BY <1>2, <1>3, <1>6, <2>1 DEF Kept
  <2> QED BY <1>4, <2>1, <2>2, <2>3, <2>4, <2>5
<1> QED BY <1>5, <1>6 DEF Edit

LEMMA RepairStays == ASSUME SchemaInv, Repair PROVE SchemaInv'
<1>1. UNCHANGED <<disk, view, begun, phase, pos, refused, edited>> /\ defect' \in Defects
  BY DatabasesAssumption DEF Repair
<1> QED BY <1>1 DEF SchemaInv, SchemaTypeOK, DataInOnePlace, OnlyDefectsStop

LEMMA DieStays == ASSUME SchemaInv, Die PROVE SchemaInv'
<1>1. UNCHANGED <<disk, defect, edited>> /\ refused' \subseteq Defects
  BY DEF Die, history, SchemaInv, OnlyDefectsStop
<1> QED BY <1>1, StopStep DEF Die

LEMMA SchemaInvariance == SchemaSpec => []SchemaInv
<1>1. ASSUME SchemaInv, [SchemaNext]_schemaVars PROVE SchemaInv'
  <2>1. CASE SchemaNext
    BY <1>1, <2>1, StartStays, CreateStays, BaseStays, MigrateStays, EndListStays,
       SkipConfigStays, RefuseConfigStays, CopyConfigStays, DropConfigStays,
       RetireConfigStays, IndexStays, AnalysisStays, TokensStay, ContextStays,
       DefaultsStay, SecretsStay, EditStays, RepairStays, DieStays DEF SchemaNext
  <2>2. CASE UNCHANGED schemaVars
    BY <1>1, <2>2
       DEF schemaVars, SchemaInv, SchemaTypeOK, DataInOnePlace, OnlyDefectsStop
  <2> QED BY <1>1, <2>1, <2>2
<1> QED BY <1>1, StartsSound, PTL DEF SchemaSpec

\* Whatever statement a start dies at, an old audit row and a legacy setting or asset is
\* in exactly one place in the file, and what an operator has changed is not converted
\* again: for every schema, list and database that the assumptions allow.
THEOREM StartsLoseNothing == SchemaSpec => []StartKeepsData
<1>1. SchemaInv => StartKeepsData
  BY DEF SchemaInv, StartKeepsData, Kept, EditsStay
<1> QED BY <1>1, SchemaInvariance, PTL

\* Only bad data stops a start, and what serves has every table and column of the model
\* but the unmigrated ones, and nothing left to convert.
THEOREM StartsEndUpToDate == SchemaSpec => []StartBringsUpToDate
<1>1. ASSUME SchemaInv, phase = "serving" PROVE SchemaIsCurrent
  <2>1. /\ view \in Database /\ Coherent(view) /\ view.kv = {}
        /\ ListDone(view) /\ "config_kv" \notin view.tables
        /\ ~begun /\ NoAnalysis(view, Len(AI_ANALYSIS_TABLE_DROPS))
        /\ Conversion.tokens \in view.marks /\ HasContext(view, Len(ContextSteps))
    BY <1>1, AllConverted
  <2>2. disk = view /\ view.row["settings"] # "none" /\ view.sealed
    BY <1>1, <2>1 DEF SchemaInv, SchemaTypeOK, Reached
  <2>3. DroppedTables \cap view.tables = {}
    <3>1. ASSUME NEW t \in DroppedTables PROVE t \notin view.tables
      <4>1. PICK m \in Range(MIGRATIONS) : m.does = "drop" /\ t = m.column
        BY DEF DroppedTables
      <4>2. PICK n \in 1..Len(MIGRATIONS) : m = MIGRATIONS[n]
        BY Entries
      <4> QED BY <2>1, <4>1, <4>2 DEF ListDone, Listed, Entered
    <3> QED BY <3>1
  <2>4. disk.tables = DOMAIN Model
    BY <2>1, <2>2, <2>3, AnalysisGone DEF Database, LegacyTables, ListDone
  <2>5. \A x \in Range(BaseColumns) : x \in view.cols
    BY <2>1, ModelAssumption DEF ListDone, HasBase, Range
  <2>6. \A m \in Range(MIGRATIONS) : m.does = "alter" => <<m.table, m.column>> \in view.cols
    BY <2>1, Entries DEF ListDone, Listed, Entered
  <2>7. ASSUME NEW x \in Range(ContextSteps)
        PROVE  IF FillsRows(x) THEN view.context ELSE x \in view.cols
    <3>1. PICK i \in 1..Len(ContextSteps) : x = ContextSteps[i]
      BY ModelAssumption DEF Range
    <3> QED BY <2>1, <3>1 DEF HasContext
  <2>8. view.context
    BY <2>7, ModelAssumption
  <2>9. ASSUME NEW t \in DOMAIN Model, NEW c \in Model[t], <<t, c>> \notin view.cols
        PROVE  <<t, c>> \in Unmigrated
    <3>1. \/ <<t, c>> \in Unmigrated \cup Range(BaseColumns) \cup Range(ContextSteps)
          \/ \E m \in Range(MIGRATIONS) : m.does = "alter" /\ <<m.table, m.column>> = <<t, c>>
      BY <2>1, <2>2, <2>4, <2>9 DEF Coherent
    <3>2. <<t, c>> \notin Range(ContextSteps)
      <4>1. ASSUME <<t, c>> \in Range(ContextSteps) PROVE FALSE
        <5>1. FillsRows(<<t, c>>)
          BY <2>7, <2>9, <4>1
        <5>2. c # ""
          BY <2>9, ColumnsAssumption
        <5> QED BY <5>1, <5>2 DEF FillsRows
      <4> QED BY <4>1
    <3> QED BY <2>5, <2>6, <2>9, <3>1, <3>2
  <2>10. \A t \in DOMAIN Model : ({t} \X Model[t]) \ disk.cols \subseteq Unmigrated
    BY <2>2, <2>9
  <2>11. disk.old = 0 /\ disk.binding # "none"
    BY <2>1, <2>2, <2>3, TablesApart DEF Coherent
  <2> QED BY <2>1, <2>2, <2>4, <2>8, <2>10, <2>11 DEF SchemaIsCurrent
<1>2. SchemaInv => StartBringsUpToDate
  BY <1>1 DEF StartBringsUpToDate, SchemaInv, SchemaIsCurrent
<1> QED BY <1>2, SchemaInvariance, PTL
=============================================================================
