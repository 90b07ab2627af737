--------------------------- MODULE ApprovalProofs ----------------------------
(***************************************************************************)
(* Proofs about the two ways to approve: PlanApproval, for every set of    *)
(* plans and every number of racing sessions, and SelfApproval, for any    *)
(* number of grants of a scope and of calls in progress.                   *)
(***************************************************************************)
EXTENDS PlanApproval, SelfApproval, FiniteSetTheorems, TLAPS

-----------------------------------------------------------------------------
(* The approval of a plan.                                                 *)

\* A session that is past its first read works on a row that exists.
AtRow ==
    \A s \in Session : pc[s] \notin {"idle", "inserting", "done"} =>
        at[s] \in Plan /\ status[at[s]] # "absent"

\* consumed_at is set for good by the one update that claims a plan; the
\* session that made it is the only one that runs the plan, and has not run it
\* before.
Claim ==
    /\ \A p \in consumed : status[p] # "absent"
    /\ \A s \in Session : Claimed(s) => at[s] \in consumed
    /\ \A s \in Session : pc[s] \in {"won", "starting"} => runs[at[s]] = 0
    /\ \A s \in Session : pc[s] = "running" => runs[at[s]] = 1
    /\ \A p \in Plan \ consumed : runs[p] = 0

\* The status of a plan that no write has clobbered.
Truth ==
    \A p \in Plan \ clobbered :
        /\ p \in consumed => status[p] \notin {"PENDING_APPROVAL", "REJECTED", "EXPIRED"}
        /\ p \notin consumed => status[p] \in {"absent", "PENDING_APPROVAL",
                                              "REJECTED", "EXPIRED"}
        /\ \A s \in Session : at[s] = p =>
             /\ pc[s] \in {"won", "starting"} => status[p] = "APPROVED"
             /\ pc[s] = "running" => status[p] = "RUNNING"

IndInv == TypeOK /\ AtRow /\ Claim /\ OneExecution /\ Truth

-----------------------------------------------------------------------------
\* Nothing exists at the start, and nobody has claimed anything.
LEMMA InitInv == Init => IndInv
  BY NoPlanAssumption DEF Init, IndInv, TypeOK, AtRow, Claim, Claimed,
     OneExecution, Truth, Places, Status

\* Every step of a session, a sweep or the environment keeps the types.
LEMMA TypeStep ==
    ASSUME TypeOK, AtRow, [Next]_vars
    PROVE  TypeOK'
<1>1. ASSUME NEW s \in Session, PrepareRead(s) PROVE TypeOK'
  BY <1>1 DEF TypeOK, Places, Goto, PrepareRead
<1>2. ASSUME NEW s \in Session, NEW p \in Plan, PrepareInsert(s, p) PROVE TypeOK'
  BY <1>2 DEF TypeOK, Status, Places, Goto, PrepareInsert
<1>3. ASSUME NEW s \in Session, NEW p \in Plan, ConsumeRead(s, p) PROVE TypeOK'
  BY <1>3 DEF TypeOK, Places, Goto, Loads, ConsumeRead
<1>4. ASSUME NEW s \in Session, ConsumeExpires(s) PROVE TypeOK'
  BY <1>4 DEF TypeOK, Status, Places, Goto, Writes, ConsumeExpires
<1>5. ASSUME NEW s \in Session, ConsumeInTime(s) PROVE TypeOK'
  BY <1>5 DEF TypeOK, Places, Goto, ConsumeInTime
<1>6. ASSUME NEW s \in Session, ConsumeRefuses(s) PROVE TypeOK'
  BY <1>6 DEF TypeOK, Places, Goto, ConsumeRefuses
<1>7. ASSUME NEW s \in Session, ConsumeIsolates(s) PROVE TypeOK'
  BY <1>7 DEF TypeOK, Status, Places, Goto, Writes, ConsumeIsolates
<1>8. ASSUME NEW s \in Session, ConsumeChecked(s) PROVE TypeOK'
  BY <1>8 DEF TypeOK, Places, Goto, ConsumeChecked
<1>9. ASSUME NEW s \in Session, Consume(s) PROVE TypeOK'
  BY <1>9 DEF TypeOK, AtRow, Status, Places, Goto, Consume
<1>10. ASSUME NEW s \in Session, ConsumeLoses(s) PROVE TypeOK'
  BY <1>10 DEF TypeOK, Places, Goto, ConsumeLoses
<1>11. ASSUME NEW s \in Session, ExecuteRead(s) PROVE TypeOK'
  BY <1>11 DEF TypeOK, Places, Goto, ExecuteRead
<1>12. ASSUME NEW s \in Session, ExecuteStart(s) PROVE TypeOK'
  BY <1>12 DEF TypeOK, AtRow, Status, Places, Goto, Writes, ExecuteStart
<1>13. ASSUME NEW s \in Session, ExecuteFinish(s) PROVE TypeOK'
  BY <1>13 DEF TypeOK, AtRow, Status, Places, Goto, Writes, ExecuteFinish
<1>14. ASSUME NEW s \in Session, NEW p \in Plan, RejectRead(s, p) PROVE TypeOK'
  BY <1>14 DEF TypeOK, Places, Goto, Loads, RejectRead
<1>15. ASSUME NEW s \in Session, RejectWrite(s) PROVE TypeOK'
  BY <1>15 DEF TypeOK, AtRow, Status, Places, Goto, Writes, RejectWrite
<1>16. ASSUME ExpireStale PROVE TypeOK'
  BY <1>16 DEF TypeOK, Status, ExpireStale
<1>17. ASSUME NEW p \in Plan, Lapse(p) PROVE TypeOK'
  BY <1>17 DEF TypeOK, Lapse
<1>18. ASSUME NEW p \in Plan, Drift(p) PROVE TypeOK'
  BY <1>18 DEF TypeOK, Drift
<1>19. ASSUME Restart PROVE TypeOK'
  BY <1>19 DEF TypeOK, Places, Restart
<1>20. CASE UNCHANGED vars
  BY <1>20 DEF TypeOK, vars
<1> QED
  BY <1>1, <1>2, <1>3, <1>4, <1>5, <1>6, <1>7, <1>8, <1>9, <1>10, <1>11, <1>12,
     <1>13, <1>14, <1>15, <1>16, <1>17, <1>18, <1>19, <1>20 DEF Next,
     SessionStep

\* A session goes on working on a row that exists: no row is ever deleted.
LEMMA RowStep ==
    ASSUME TypeOK, AtRow, [Next]_vars
    PROVE  AtRow'
<1>1. ASSUME NEW s \in Session, PrepareRead(s) PROVE AtRow'
  BY <1>1 DEF AtRow, Goto, PrepareRead
<1>2. ASSUME NEW s \in Session, NEW p \in Plan, PrepareInsert(s, p) PROVE AtRow'
  BY <1>2 DEF AtRow, Goto, PrepareInsert
<1>3. ASSUME NEW s \in Session, NEW p \in Plan, ConsumeRead(s, p) PROVE AtRow'
  BY <1>3 DEF TypeOK, AtRow, Goto, Loads, ConsumeRead
<1>4. ASSUME NEW s \in Session, ConsumeExpires(s) PROVE AtRow'
  BY <1>4 DEF AtRow, Goto, Writes, ConsumeExpires
<1>5. ASSUME NEW s \in Session, ConsumeInTime(s) PROVE AtRow'
  BY <1>5 DEF AtRow, Goto, ConsumeInTime
<1>6. ASSUME NEW s \in Session, ConsumeRefuses(s) PROVE AtRow'
  BY <1>6 DEF AtRow, Goto, ConsumeRefuses
<1>7. ASSUME NEW s \in Session, ConsumeIsolates(s) PROVE AtRow'
  BY <1>7 DEF AtRow, Goto, Writes, ConsumeIsolates
<1>8. ASSUME NEW s \in Session, ConsumeChecked(s) PROVE AtRow'
  BY <1>8 DEF AtRow, Goto, ConsumeChecked
<1>9. ASSUME NEW s \in Session, Consume(s) PROVE AtRow'
  BY <1>9 DEF AtRow, Goto, Consume
<1>10. ASSUME NEW s \in Session, ConsumeLoses(s) PROVE AtRow'
  BY <1>10 DEF AtRow, Goto, ConsumeLoses
<1>11. ASSUME NEW s \in Session, ExecuteRead(s) PROVE AtRow'
  BY <1>11 DEF AtRow, Goto, ExecuteRead
<1>12. ASSUME NEW s \in Session, ExecuteStart(s) PROVE AtRow'
  BY <1>12 DEF AtRow, Goto, Writes, ExecuteStart
<1>13. ASSUME NEW s \in Session, ExecuteFinish(s) PROVE AtRow'
  BY <1>13 DEF AtRow, Finals, Goto, Writes, ExecuteFinish
<1>14. ASSUME NEW s \in Session, NEW p \in Plan, RejectRead(s, p) PROVE AtRow'
  BY <1>14 DEF TypeOK, AtRow, Goto, Loads, RejectRead
<1>15. ASSUME NEW s \in Session, RejectWrite(s) PROVE AtRow'
  BY <1>15 DEF AtRow, Goto, Writes, RejectWrite
<1>16. ASSUME ExpireStale PROVE AtRow'
  BY <1>16 DEF AtRow, ExpireStale
<1>17. ASSUME NEW p \in Plan, Lapse(p) PROVE AtRow'
  BY <1>17 DEF AtRow, Lapse
<1>18. ASSUME NEW p \in Plan, Drift(p) PROVE AtRow'
  BY <1>18 DEF AtRow, Drift
<1>19. ASSUME Restart PROVE AtRow'
  BY <1>19 DEF AtRow, Restart
<1>20. CASE UNCHANGED vars
  BY <1>20 DEF AtRow, vars
<1> QED
  BY <1>1, <1>2, <1>3, <1>4, <1>5, <1>6, <1>7, <1>8, <1>9, <1>10, <1>11, <1>12,
     <1>13, <1>14, <1>15, <1>16, <1>17, <1>18, <1>19, <1>20 DEF Next,
     SessionStep

\* The guarded update gives a plan to one session, and nobody runs it again.
LEMMA ClaimStep ==
    ASSUME TypeOK, AtRow, Claim, OneExecution, [Next]_vars
    PROVE  (Claim /\ OneExecution)'
<1>1. ASSUME NEW s \in Session, PrepareRead(s) PROVE (Claim /\ OneExecution)'
  BY <1>1 DEF Claim, Claimed, OneExecution, Goto, PrepareRead
<1>2. ASSUME NEW s \in Session, NEW p \in Plan, PrepareInsert(s, p)
       PROVE  (Claim /\ OneExecution)'
  BY <1>2 DEF Claim, Claimed, OneExecution, Goto, PrepareInsert
<1>3. ASSUME NEW s \in Session, NEW p \in Plan, ConsumeRead(s, p)
       PROVE  (Claim /\ OneExecution)'
  BY <1>3 DEF Claim, Claimed, OneExecution, Goto, Loads, ConsumeRead
<1>4. ASSUME NEW s \in Session, ConsumeExpires(s) PROVE (Claim /\ OneExecution)'
  BY <1>4 DEF Claim, Claimed, OneExecution, Goto, Writes, ConsumeExpires
<1>5. ASSUME NEW s \in Session, ConsumeInTime(s) PROVE (Claim /\ OneExecution)'
  BY <1>5 DEF Claim, Claimed, OneExecution, Goto, ConsumeInTime
<1>6. ASSUME NEW s \in Session, ConsumeRefuses(s) PROVE (Claim /\ OneExecution)'
  BY <1>6 DEF Claim, Claimed, OneExecution, Goto, ConsumeRefuses
<1>7. ASSUME NEW s \in Session, ConsumeIsolates(s) PROVE (Claim /\ OneExecution)'
  BY <1>7 DEF Claim, Claimed, OneExecution, Goto, Writes, ConsumeIsolates
<1>8. ASSUME NEW s \in Session, ConsumeChecked(s) PROVE (Claim /\ OneExecution)'
  BY <1>8 DEF Claim, Claimed, OneExecution, Goto, ConsumeChecked
<1>9. ASSUME NEW s \in Session, Consume(s) PROVE (Claim /\ OneExecution)'
  BY <1>9 DEF AtRow, Claim, Claimed, OneExecution, Claimable, Goto, Consume
<1>10. ASSUME NEW s \in Session, ConsumeLoses(s) PROVE (Claim /\ OneExecution)'
  BY <1>10 DEF Claim, Claimed, OneExecution, Goto, ConsumeLoses
<1>11. ASSUME NEW s \in Session, ExecuteRead(s) PROVE (Claim /\ OneExecution)'
  BY <1>11 DEF Claim, Claimed, OneExecution, Goto, ExecuteRead
<1>12. ASSUME NEW s \in Session, ExecuteStart(s) PROVE (Claim /\ OneExecution)'
  BY <1>12 DEF TypeOK, Claim, Claimed, OneExecution, Goto, Writes, ExecuteStart
<1>13. ASSUME NEW s \in Session, ExecuteFinish(s) PROVE (Claim /\ OneExecution)'
  BY <1>13 DEF Claim, Claimed, OneExecution, Finals, Goto, Writes,
     ExecuteFinish
<1>14. ASSUME NEW s \in Session, NEW p \in Plan, RejectRead(s, p)
       PROVE  (Claim /\ OneExecution)'
  BY <1>14 DEF Claim, Claimed, OneExecution, Goto, Loads, RejectRead
<1>15. ASSUME NEW s \in Session, RejectWrite(s) PROVE (Claim /\ OneExecution)'
  BY <1>15 DEF Claim, Claimed, OneExecution, Goto, Writes, RejectWrite
<1>16. ASSUME ExpireStale PROVE (Claim /\ OneExecution)'
  BY <1>16 DEF TypeOK, Claim, Claimed, OneExecution, ExpireStale
<1>17. ASSUME NEW p \in Plan, Lapse(p) PROVE (Claim /\ OneExecution)'
  BY <1>17 DEF Claim, Claimed, OneExecution, Lapse
<1>18. ASSUME NEW p \in Plan, Drift(p) PROVE (Claim /\ OneExecution)'
  BY <1>18 DEF Claim, Claimed, OneExecution, Drift
<1>19. ASSUME Restart PROVE (Claim /\ OneExecution)'
  BY <1>19 DEF Claim, Claimed, OneExecution, Restart
<1>20. CASE UNCHANGED vars
  BY <1>20 DEF Claim, Claimed, OneExecution, vars
<1> QED
  BY <1>1, <1>2, <1>3, <1>4, <1>5, <1>6, <1>7, <1>8, <1>9, <1>10, <1>11, <1>12,
     <1>13, <1>14, <1>15, <1>16, <1>17, <1>18, <1>19, <1>20 DEF Next,
     SessionStep

\* Only writes that land on the status they expect touch an unclobbered plan.
LEMMA TruthStep ==
    ASSUME TypeOK, AtRow, Claim, OneExecution, Truth, [Next]_vars
    PROVE  Truth'
<1>1. ASSUME NEW s \in Session, PrepareRead(s) PROVE Truth'
  BY <1>1 DEF Truth, Goto, PrepareRead
<1>2. ASSUME NEW s \in Session, NEW p \in Plan, PrepareInsert(s, p) PROVE Truth'
  BY <1>2 DEF Claim, Truth, Goto, PrepareInsert
<1>3. ASSUME NEW s \in Session, NEW p \in Plan, ConsumeRead(s, p) PROVE Truth'
  BY <1>3 DEF Truth, Goto, Loads, ConsumeRead
<1>4. ASSUME NEW s \in Session, ConsumeExpires(s) PROVE Truth'
  BY <1>4 DEF Truth, Goto, Writes, ConsumeExpires
<1>5. ASSUME NEW s \in Session, ConsumeInTime(s) PROVE Truth'
  BY <1>5 DEF Truth, Goto, ConsumeInTime
<1>6. ASSUME NEW s \in Session, ConsumeRefuses(s) PROVE Truth'
  BY <1>6 DEF Truth, Goto, ConsumeRefuses
<1>7. ASSUME NEW s \in Session, ConsumeIsolates(s) PROVE Truth'
  BY <1>7 DEF Truth, Goto, Writes, ConsumeIsolates
<1>8. ASSUME NEW s \in Session, ConsumeChecked(s) PROVE Truth'
  BY <1>8 DEF Truth, Goto, ConsumeChecked
<1>9. ASSUME NEW s \in Session, Consume(s) PROVE Truth'
  BY <1>9 DEF TypeOK, Claimable, Truth, Goto, Consume
<1>10. ASSUME NEW s \in Session, ConsumeLoses(s) PROVE Truth'
  BY <1>10 DEF Truth, Goto, ConsumeLoses
<1>11. ASSUME NEW s \in Session, ExecuteRead(s) PROVE Truth'
  BY <1>11 DEF Truth, Goto, ExecuteRead
<1>12. ASSUME NEW s \in Session, ExecuteStart(s) PROVE Truth'
  BY <1>12 DEF TypeOK, Claimed, OneExecution, Truth, Goto, Writes, ExecuteStart
<1>13. ASSUME NEW s \in Session, ExecuteFinish(s) PROVE Truth'
  BY <1>13 DEF TypeOK, Claimed, OneExecution, Truth, Finals, Goto, Writes,
     ExecuteFinish
<1>14. ASSUME NEW s \in Session, NEW p \in Plan, RejectRead(s, p) PROVE Truth'
  BY <1>14 DEF Truth, Goto, Loads, RejectRead
<1>15. ASSUME NEW s \in Session, RejectWrite(s) PROVE Truth'
  BY <1>15 DEF Truth, Goto, Writes, RejectWrite
<1>16. ASSUME ExpireStale PROVE Truth'
  BY <1>16 DEF Truth, Swept, ExpireStale
<1>17. ASSUME NEW p \in Plan, Lapse(p) PROVE Truth'
  BY <1>17 DEF Truth, Lapse
<1>18. ASSUME NEW p \in Plan, Drift(p) PROVE Truth'
  BY <1>18 DEF Truth, Drift
<1>19. ASSUME Restart PROVE Truth'
  BY <1>19 DEF Truth, Restart
<1>20. CASE UNCHANGED vars
  BY <1>20 DEF Truth, vars
<1> QED
  BY <1>1, <1>2, <1>3, <1>4, <1>5, <1>6, <1>7, <1>8, <1>9, <1>10, <1>11, <1>12,
     <1>13, <1>14, <1>15, <1>16, <1>17, <1>18, <1>19, <1>20 DEF Next,
     SessionStep

\* Every step moves the phase of a plan along the abstract life cycle, or not at
\* all.
LEMMA PhaseStep ==
    ASSUME IndInv, [Next]_vars, NEW p \in Plan
    PROVE  Phase(p)' = Phase(p) \/ <<Phase(p), Phase(p)'>> \in Lifecycle!Move
<1> DEFINE Goal == Phase(p)' = Phase(p) \/ <<Phase(p), Phase(p)'>> \in Lifecycle!Move
<1>1. ASSUME NEW s \in Session, PrepareRead(s) PROVE Goal
  BY <1>1 DEF Phase, Goto, PrepareRead
<1>2. ASSUME NEW s \in Session, NEW q \in Plan, PrepareInsert(s, q) PROVE Goal
  BY <1>2 DEF IndInv, Claim, Claimed, Phase, Lifecycle!Move, Goto,
     PrepareInsert
<1>3. ASSUME NEW s \in Session, NEW q \in Plan, ConsumeRead(s, q) PROVE Goal
  BY <1>3 DEF Phase, Goto, Loads, ConsumeRead
<1>4. ASSUME NEW s \in Session, ConsumeExpires(s) PROVE Goal
  BY <1>4 DEF IndInv, AtRow, Phase, Lifecycle!Move, Goto, Writes,
     ConsumeExpires
<1>5. ASSUME NEW s \in Session, ConsumeInTime(s) PROVE Goal
  BY <1>5 DEF Phase, Goto, ConsumeInTime
<1>6. ASSUME NEW s \in Session, ConsumeRefuses(s) PROVE Goal
  BY <1>6 DEF Phase, Goto, ConsumeRefuses
<1>7. ASSUME NEW s \in Session, ConsumeIsolates(s) PROVE Goal
  BY <1>7 DEF IndInv, AtRow, Phase, Lifecycle!Move, Goto, Writes,
     ConsumeIsolates
<1>8. ASSUME NEW s \in Session, ConsumeChecked(s) PROVE Goal
  BY <1>8 DEF Phase, Goto, ConsumeChecked
<1>9. ASSUME NEW s \in Session, Consume(s) PROVE Goal
  BY <1>9 DEF Claimable, Phase, Lifecycle!Move, Goto, Consume
<1>10. ASSUME NEW s \in Session, ConsumeLoses(s) PROVE Goal
  BY <1>10 DEF Phase, Goto, ConsumeLoses
<1>11. ASSUME NEW s \in Session, ExecuteRead(s) PROVE Goal
  BY <1>11 DEF IndInv, Claim, Claimed, Phase, Lifecycle!Move, Goto, ExecuteRead
<1>12. ASSUME NEW s \in Session, ExecuteStart(s) PROVE Goal
  BY <1>12 DEF IndInv, TypeOK, Claim, Claimed, Phase, Lifecycle!Move, Goto,
     Writes, ExecuteStart
<1>13. ASSUME NEW s \in Session, ExecuteFinish(s) PROVE Goal
  BY <1>13 DEF IndInv, Claim, Phase, Lifecycle!Move, Finals, Goto, Writes,
     ExecuteFinish
<1>14. ASSUME NEW s \in Session, NEW q \in Plan, RejectRead(s, q) PROVE Goal
  BY <1>14 DEF Phase, Goto, Loads, RejectRead
<1>15. ASSUME NEW s \in Session, RejectWrite(s) PROVE Goal
  BY <1>15 DEF IndInv, AtRow, Phase, Lifecycle!Move, Goto, Writes, RejectWrite
<1>16. ASSUME ExpireStale PROVE Goal
  BY <1>16 DEF Phase, Lifecycle!Move, Swept, ExpireStale
<1>17. ASSUME NEW q \in Plan, Lapse(q) PROVE Goal
  BY <1>17 DEF Phase, Lapse
<1>18. ASSUME NEW q \in Plan, Drift(q) PROVE Goal
  BY <1>18 DEF Phase, Drift
<1>19. ASSUME Restart PROVE Goal
  BY <1>19 DEF IndInv, Claim, Claimed, Phase, Lifecycle!Move, Restart
<1>20. CASE UNCHANGED vars
  BY <1>20 DEF Phase, vars
<1> QED
  BY <1>1, <1>2, <1>3, <1>4, <1>5, <1>6, <1>7, <1>8, <1>9, <1>10, <1>11, <1>12,
     <1>13, <1>14, <1>15, <1>16, <1>17, <1>18, <1>19, <1>20 DEF Next,
     SessionStep

\* The four conjuncts together are inductive.
LEMMA IndStep == IndInv /\ [Next]_vars => IndInv'
  BY TypeStep, RowStep, ClaimStep, TruthStep DEF IndInv

\* Whatever the racing calls of consume, execute, reject and expire_stale do, the
\* inductive invariant holds.
THEOREM Invariance == Spec => []IndInv
<1>1. IndInv /\ [Next]_vars => IndInv'
  BY IndStep
<1> QED
  BY InitInv, <1>1, PTL DEF Spec

\* Type correctness of the rows and the sessions.
THEOREM TypeCorrect == Spec => []TypeOK
<1>1. IndInv => TypeOK
  BY DEF IndInv
<1> QED
  BY Invariance, <1>1, PTL

\* The phrase of a plan is good for one execution, whoever races for it.
THEOREM ExecutedAtMostOnce == Spec => []OneExecution
<1>1. IndInv => OneExecution
  BY DEF IndInv
<1> QED
  BY Invariance, <1>1, PTL

\* A status that no stale write has overwritten can be relied on.
THEOREM StatusIsTrue == Spec => []StatusTellsTheTruth
<1>1. IndInv => StatusTellsTheTruth
  BY DEF IndInv, Truth, StatusTellsTheTruth
<1> QED
  BY Invariance, <1>1, PTL

\* The racing sessions implement the abstract life cycle of a plan.
THEOREM Refinement == Spec => ImplementsLifecycle
<1> DEFINE phases == [p \in Plan |-> Phase(p)]
<1>1. Init => Lifecycle!Init
  BY DEF Init, Lifecycle!Init, Phase
<1>2. IndInv /\ [Next]_vars => [Lifecycle!Next]_phases
  <2> SUFFICES ASSUME IndInv, [Next]_vars PROVE Lifecycle!Next
    OBVIOUS
  <2>1. phases' \in [Plan -> {"absent", "pending", "approved", "executing", "over", "closed"}]
    BY DEF Phase
  <2>2. ASSUME NEW p \in Plan, phases'[p] # phases[p]
        PROVE  <<phases[p], phases'[p]>> \in Lifecycle!Move
    BY <2>2, PhaseStep
  <2> QED
    BY <2>1, <2>2 DEF Lifecycle!Next
<1> QED
  BY Invariance, <1>1, <1>2, PTL DEF Spec, ImplementsLifecycle, Lifecycle!Spec

-----------------------------------------------------------------------------
(* The grants of a scope, and a plan that is approved with one.            *)

\* A call past its first read has a grant in hand.
OnGrant ==
    \A s \in Call :
        doing[s] \in {"expire_pending", "expire_active", "confirm", "web", "write",
                      "web_write", "revoke"} => on[s] \in Grant

\* The unique index: the scope key is in one row at most.  A grant is active only
\* with the key, and keeps it longer only if a late expiry overwrote it.
KeyInv ==
    /\ \A g, h \in Grant : key[g] /\ key[h] => g = h
    /\ \A g \in Grant : /\ grantStatus[g] = "ACTIVE" => key[g]
                        /\ key[g] => grantStatus[g] = "ACTIVE" \/ g \in overruled

\* While no covering grant has been active since a call began, none is; so the call
\* does not get past the first of its two questions.
QuietInv ==
    \A s \in Call :
        /\ quiet[s] => \A g \in Covering : grantStatus[g] # "ACTIVE" \/ over[g]
        /\ doing[s] \in {"self_which", "self_claim"} => ~quiet[s]

GrantIndInv == GrantTypeOK /\ OnGrant /\ KeyInv /\ QuietInv

-----------------------------------------------------------------------------
\* No grant has been asked for.
LEMMA GrantInitInv == GrantInit => GrantIndInv
  BY GrantAssumption DEF GrantInit, GrantIndInv, GrantTypeOK, OnGrant, KeyInv, QuietInv

\* Every write of a grant, a plan or a call keeps the types.
LEMMA GrantTypeStep ==
    ASSUME GrantTypeOK, OnGrant, [GrantNext]_grantVars
    PROVE  GrantTypeOK'
<1>1. ASSUME NEW g \in Grant, ConfirmationRunsOut(g) PROVE GrantTypeOK'
  BY <1>1, GrantAssumption DEF GrantTypeOK, ConfirmationRunsOut, plans, history
<1>2. ASSUME NEW g \in Grant, GrantRunsOut(g) PROVE GrantTypeOK'
  BY <1>2, GrantAssumption DEF GrantTypeOK, GrantRunsOut, plans, history
<1>3. ASSUME NEW s \in Call, DecideRequest(s) PROVE GrantTypeOK'
  BY <1>3, GrantAssumption DEF GrantTypeOK, DecideRequest, Proceed, grants, plans,
     history
<1>4. ASSUME NEW s \in Call, NEW g \in Grant, Request(s, g) PROVE GrantTypeOK'
  BY <1>4, GrantAssumption DEF GrantTypeOK, Request, Proceed, Done, plans, history
<1>5. ASSUME NEW s \in Call, NEW g \in Grant, ReadOverdue(s, g) PROVE GrantTypeOK'
  BY <1>5, GrantAssumption DEF GrantTypeOK, ReadOverdue, Proceed, grants, plans,
     history
<1>6. ASSUME NEW s \in Call, Expire(s) PROVE GrantTypeOK'
  <2>1. on[s] \in Grant
    BY <1>6 DEF OnGrant, Expire
  <2>2. overruled' \subseteq Grant
    BY <1>6, <2>1 DEF GrantTypeOK, Expire
  <2>3. key' \in [Grant -> BOOLEAN]
    BY <1>6 DEF GrantTypeOK, Expire, ExpiredKey
  <2>4. grantStatus' \in [Grant -> {"none", "PENDING", "ACTIVE", "EXPIRED", "REVOKED", "gone"}]
    BY <1>6 DEF GrantTypeOK, Expire
  <2> QED
    BY <1>6, <2>2, <2>3, <2>4 DEF GrantTypeOK, Expire, Proceed, Done, plans
<1>7. ASSUME NEW s \in Call, NEW g \in Grant, ReadPending(s, g) PROVE GrantTypeOK'
  BY <1>7, GrantAssumption DEF GrantTypeOK, ReadPending, Proceed, grants, plans,
     history
<1>8. ASSUME NEW g \in Grant, WrongCode(g) PROVE GrantTypeOK'
  BY <1>8, GrantAssumption DEF GrantTypeOK, WrongCode, plans, history
<1>9. ASSUME NEW s \in Call, CheckOthers(s) PROVE GrantTypeOK'
  BY <1>9, GrantAssumption DEF GrantTypeOK, CheckOthers, Proceed, Done, grants, plans,
     history
<1>10. ASSUME NEW s \in Call, Confirm(s) PROVE GrantTypeOK'
  BY <1>10, GrantAssumption DEF GrantTypeOK, Confirm, Activate, Proceed, Done, plans
<1>11. ASSUME NEW s \in Call, ConfirmFails(s) PROVE GrantTypeOK'
  BY <1>11, GrantAssumption DEF GrantTypeOK, ConfirmFails, Proceed, Done, grants,
     plans, history
<1>12. ASSUME NEW s \in Call, NEW g \in Grant, DecideRevoke(s, g) PROVE GrantTypeOK'
  BY <1>12, GrantAssumption DEF GrantTypeOK, DecideRevoke, Proceed, grants, plans,
     history
<1>13. ASSUME NEW s \in Call, Revoke(s) PROVE GrantTypeOK'
  BY <1>13, GrantAssumption DEF GrantTypeOK, Revoke, Proceed, Done, plans, history
<1>14. ASSUME NEW g \in Grant, Delete(g) PROVE GrantTypeOK'
  BY <1>14, GrantAssumption DEF GrantTypeOK, Delete, plans, history
<1>15. ASSUME NEW s \in Call, BeginPrepare(s) PROVE GrantTypeOK'
  BY <1>15, GrantAssumption DEF GrantTypeOK, BeginPrepare, Proceed, grants, plans,
     history
<1>16. ASSUME NEW s \in Call, PrepareWhich(s) PROVE GrantTypeOK'
  BY <1>16, GrantAssumption DEF GrantTypeOK, Found, Active, PrepareWhich, Proceed,
     grants, plans, history
<1>17. ASSUME NEW s \in Call, Prepare(s) PROVE GrantTypeOK'
  BY <1>17, GrantAssumption DEF GrantTypeOK, Prepare, Proceed, Done, grants, history
<1>18. ASSUME NEW s \in Call, BeginSelf(s) PROVE GrantTypeOK'
  BY <1>18, GrantAssumption DEF GrantTypeOK, BeginSelf, Proceed, grants, plans
<1>19. ASSUME NEW s \in Call, SelfAllowed(s) PROVE GrantTypeOK'
  BY <1>19, GrantAssumption DEF GrantTypeOK, SelfAllowed, Proceed, Done, grants, plans,
     history
<1>20. ASSUME NEW s \in Call, SelfWhich(s) PROVE GrantTypeOK'
  BY <1>20, GrantAssumption DEF GrantTypeOK, SelfWhich, Proceed, Done, grants, plans,
     history
<1>21. ASSUME NEW s \in Call, SelfClaim(s) PROVE GrantTypeOK'
  BY <1>21, GrantAssumption DEF GrantTypeOK, SelfClaim, Proceed, Done, grants, history
<1>22. ASSUME ApproverClaims PROVE GrantTypeOK'
  BY <1>22, GrantAssumption DEF GrantTypeOK, ApproverClaims, grants, history
<1>23. CASE UNCHANGED grantVars
  BY <1>23, GrantAssumption DEF GrantTypeOK, grantVars, grants, plans, history
<1> QED
  BY <1>1, <1>2, <1>3, <1>4, <1>5, <1>6, <1>7, <1>8, <1>9, <1>10, <1>11, <1>12,
     <1>13, <1>14, <1>15, <1>16, <1>17, <1>18, <1>19, <1>20, <1>21, <1>22,
     <1>23 DEF GrantNext, CallStep

\* A call keeps the grant it read until it is over.
LEMMA OnGrantStep ==
    ASSUME GrantTypeOK, OnGrant, [GrantNext]_grantVars
    PROVE  OnGrant'
<1>1. ASSUME NEW g \in Grant, ConfirmationRunsOut(g) PROVE OnGrant'
  BY <1>1 DEF OnGrant, ConfirmationRunsOut
<1>2. ASSUME NEW g \in Grant, GrantRunsOut(g) PROVE OnGrant'
  BY <1>2 DEF OnGrant, GrantRunsOut
<1>3. ASSUME NEW s \in Call, DecideRequest(s) PROVE OnGrant'
  BY <1>3 DEF OnGrant, DecideRequest, Proceed
<1>4. ASSUME NEW s \in Call, NEW g \in Grant, Request(s, g) PROVE OnGrant'
  BY <1>4 DEF OnGrant, Request, Proceed, Done
<1>5. ASSUME NEW s \in Call, NEW g \in Grant, ReadOverdue(s, g) PROVE OnGrant'
  BY <1>5 DEF GrantTypeOK, OnGrant, ReadOverdue, Proceed
<1>6. ASSUME NEW s \in Call, Expire(s) PROVE OnGrant'
  BY <1>6 DEF GrantTypeOK, OnGrant, Expire, Proceed, Done
<1>7. ASSUME NEW s \in Call, NEW g \in Grant, ReadPending(s, g) PROVE OnGrant'
  BY <1>7 DEF GrantTypeOK, OnGrant, ReadPending, Proceed
<1>8. ASSUME NEW g \in Grant, WrongCode(g) PROVE OnGrant'
  BY <1>8 DEF OnGrant, WrongCode
<1>9. ASSUME NEW s \in Call, CheckOthers(s) PROVE OnGrant'
  BY <1>9 DEF GrantTypeOK, OnGrant, CheckOthers, Proceed, Done
<1>10. ASSUME NEW s \in Call, Confirm(s) PROVE OnGrant'
  BY <1>10 DEF GrantTypeOK, OnGrant, Confirm, Proceed, Done
<1>11. ASSUME NEW s \in Call, ConfirmFails(s) PROVE OnGrant'
  BY <1>11 DEF GrantTypeOK, OnGrant, ConfirmFails, Proceed, Done
<1>12. ASSUME NEW s \in Call, NEW g \in Grant, DecideRevoke(s, g) PROVE OnGrant'
  BY <1>12 DEF GrantTypeOK, OnGrant, DecideRevoke, Proceed
<1>13. ASSUME NEW s \in Call, Revoke(s) PROVE OnGrant'
  BY <1>13 DEF GrantTypeOK, OnGrant, Revoke, Proceed, Done
<1>14. ASSUME NEW g \in Grant, Delete(g) PROVE OnGrant'
  BY <1>14 DEF OnGrant, Delete
<1>15. ASSUME NEW s \in Call, BeginPrepare(s) PROVE OnGrant'
  BY <1>15 DEF OnGrant, BeginPrepare, Proceed
<1>16. ASSUME NEW s \in Call, PrepareWhich(s) PROVE OnGrant'
  BY <1>16 DEF GrantTypeOK, OnGrant, PrepareWhich, Proceed
<1>17. ASSUME NEW s \in Call, Prepare(s) PROVE OnGrant'
  BY <1>17 DEF OnGrant, Prepare, Proceed, Done
<1>18. ASSUME NEW s \in Call, BeginSelf(s) PROVE OnGrant'
  BY <1>18 DEF OnGrant, BeginSelf, Proceed
<1>19. ASSUME NEW s \in Call, SelfAllowed(s) PROVE OnGrant'
  BY <1>19 DEF GrantTypeOK, OnGrant, SelfAllowed, Proceed, Done
<1>20. ASSUME NEW s \in Call, SelfWhich(s) PROVE OnGrant'
  BY <1>20 DEF GrantTypeOK, OnGrant, SelfWhich, Proceed, Done
<1>21. ASSUME NEW s \in Call, SelfClaim(s) PROVE OnGrant'
  BY <1>21 DEF OnGrant, SelfClaim, Proceed, Done
<1>22. ASSUME ApproverClaims PROVE OnGrant'
  BY <1>22 DEF OnGrant, ApproverClaims
<1>23. CASE UNCHANGED grantVars
  BY <1>23 DEF OnGrant, grantVars
<1> QED
  BY <1>1, <1>2, <1>3, <1>4, <1>5, <1>6, <1>7, <1>8, <1>9, <1>10, <1>11, <1>12,
     <1>13, <1>14, <1>15, <1>16, <1>17, <1>18, <1>19, <1>20, <1>21, <1>22,
     <1>23 DEF GrantNext, CallStep

\* A confirmation writes the key only into a scope where no row has it; a row that
\* stops being active gives it up, except under a late expiry.
LEMMA KeyStep ==
    ASSUME GrantTypeOK, OnGrant, KeyInv, [GrantNext]_grantVars
    PROVE  KeyInv'
<1>1. ASSUME NEW g \in Grant, ConfirmationRunsOut(g) PROVE KeyInv'
  BY <1>1 DEF KeyInv, ConfirmationRunsOut, history
<1>2. ASSUME NEW g \in Grant, GrantRunsOut(g) PROVE KeyInv'
  BY <1>2 DEF KeyInv, GrantRunsOut
<1>3. ASSUME NEW s \in Call, DecideRequest(s) PROVE KeyInv'
  BY <1>3 DEF KeyInv, DecideRequest, grants, history
<1>4. ASSUME NEW s \in Call, NEW g \in Grant, Request(s, g) PROVE KeyInv'
  BY <1>4 DEF KeyInv, Request, history
<1>5. ASSUME NEW s \in Call, NEW g \in Grant, ReadOverdue(s, g) PROVE KeyInv'
  BY <1>5 DEF KeyInv, ReadOverdue, grants, history
<1>6. ASSUME NEW s \in Call, Expire(s) PROVE KeyInv'
  BY <1>6 DEF GrantTypeOK, KeyInv, Expire, ExpiredKey
<1>7. ASSUME NEW s \in Call, NEW g \in Grant, ReadPending(s, g) PROVE KeyInv'
  BY <1>7 DEF KeyInv, ReadPending, grants, history
<1>8. ASSUME NEW g \in Grant, WrongCode(g) PROVE KeyInv'
  BY <1>8 DEF KeyInv, WrongCode, history
<1>9. ASSUME NEW s \in Call, CheckOthers(s) PROVE KeyInv'
  BY <1>9 DEF KeyInv, CheckOthers, grants, history
<1>10. ASSUME NEW s \in Call, Confirm(s) PROVE KeyInv'
  BY <1>10 DEF GrantTypeOK, KeyInv, Confirm, KeyIsFree, Activate
<1>11. ASSUME NEW s \in Call, ConfirmFails(s) PROVE KeyInv'
  BY <1>11 DEF KeyInv, ConfirmFails, grants, history
<1>12. ASSUME NEW s \in Call, NEW g \in Grant, DecideRevoke(s, g) PROVE KeyInv'
  BY <1>12 DEF KeyInv, DecideRevoke, grants
<1>13. ASSUME NEW s \in Call, Revoke(s) PROVE KeyInv'
  BY <1>13 DEF GrantTypeOK, KeyInv, Revoke, history
<1>14. ASSUME NEW g \in Grant, Delete(g) PROVE KeyInv'
  BY <1>14 DEF GrantTypeOK, KeyInv, Delete, history
<1>15. ASSUME NEW s \in Call, BeginPrepare(s) PROVE KeyInv'
  BY <1>15 DEF KeyInv, BeginPrepare, grants, history
<1>16. ASSUME NEW s \in Call, PrepareWhich(s) PROVE KeyInv'
  BY <1>16 DEF KeyInv, PrepareWhich, grants, history
<1>17. ASSUME NEW s \in Call, Prepare(s) PROVE KeyInv'
  BY <1>17 DEF KeyInv, Prepare, grants, history
<1>18. ASSUME NEW s \in Call, BeginSelf(s) PROVE KeyInv'
  BY <1>18 DEF KeyInv, BeginSelf, grants
<1>19. ASSUME NEW s \in Call, SelfAllowed(s) PROVE KeyInv'
  BY <1>19 DEF KeyInv, SelfAllowed, grants, history
<1>20. ASSUME NEW s \in Call, SelfWhich(s) PROVE KeyInv'
  BY <1>20 DEF KeyInv, SelfWhich, grants, history
<1>21. ASSUME NEW s \in Call, SelfClaim(s) PROVE KeyInv'
  BY <1>21 DEF KeyInv, SelfClaim, grants, history
<1>22. ASSUME ApproverClaims PROVE KeyInv'
  BY <1>22 DEF KeyInv, ApproverClaims, grants, history
<1>23. CASE UNCHANGED grantVars
  BY <1>23 DEF KeyInv, grantVars, grants, history
<1> QED
  BY <1>1, <1>2, <1>3, <1>4, <1>5, <1>6, <1>7, <1>8, <1>9, <1>10, <1>11, <1>12,
     <1>13, <1>14, <1>15, <1>16, <1>17, <1>18, <1>19, <1>20, <1>21, <1>22,
     <1>23 DEF GrantNext, CallStep

\* Only a confirmation makes a grant active, and one of a covering grant is seen by
\* every call in progress.
LEMMA QuietStep ==
    ASSUME GrantTypeOK, OnGrant, QuietInv, [GrantNext]_grantVars
    PROVE  QuietInv'
<1>1. ASSUME NEW g \in Grant, ConfirmationRunsOut(g) PROVE QuietInv'
  BY <1>1, GrantAssumption DEF QuietInv, ConfirmationRunsOut, history
<1>2. ASSUME NEW g \in Grant, GrantRunsOut(g) PROVE QuietInv'
  BY <1>2, GrantAssumption DEF QuietInv, GrantRunsOut, history
<1>3. ASSUME NEW s \in Call, DecideRequest(s) PROVE QuietInv'
  BY <1>3, GrantAssumption DEF QuietInv, DecideRequest, Proceed, grants, history
<1>4. ASSUME NEW s \in Call, NEW g \in Grant, Request(s, g) PROVE QuietInv'
  BY <1>4, GrantAssumption DEF QuietInv, Request, Proceed, Done, history
<1>5. ASSUME NEW s \in Call, NEW g \in Grant, ReadOverdue(s, g) PROVE QuietInv'
  BY <1>5, GrantAssumption DEF GrantTypeOK, QuietInv, ReadOverdue, Proceed, grants,
     history
<1>6. ASSUME NEW s \in Call, Expire(s) PROVE QuietInv'
  BY <1>6, GrantAssumption DEF GrantTypeOK, QuietInv, Expire, Proceed, Done
<1>7. ASSUME NEW s \in Call, NEW g \in Grant, ReadPending(s, g) PROVE QuietInv'
  BY <1>7, GrantAssumption DEF GrantTypeOK, QuietInv, ReadPending, Proceed, grants,
     history
<1>8. ASSUME NEW g \in Grant, WrongCode(g) PROVE QuietInv'
  BY <1>8, GrantAssumption DEF QuietInv, WrongCode, history
<1>9. ASSUME NEW s \in Call, CheckOthers(s) PROVE QuietInv'
  BY <1>9, GrantAssumption DEF GrantTypeOK, QuietInv, CheckOthers, Proceed, Done,
     grants, history
<1>10. ASSUME NEW s \in Call, Confirm(s) PROVE QuietInv'
  BY <1>10, GrantAssumption DEF QuietInv, Confirm, Activate, Proceed, Done
<1>11. ASSUME NEW s \in Call, ConfirmFails(s) PROVE QuietInv'
  BY <1>11, GrantAssumption DEF QuietInv, ConfirmFails, Proceed, Done, grants,
     history
<1>12. ASSUME NEW s \in Call, NEW g \in Grant, DecideRevoke(s, g) PROVE QuietInv'
  BY <1>12, GrantAssumption DEF QuietInv, DecideRevoke, Proceed, grants, history
<1>13. ASSUME NEW s \in Call, Revoke(s) PROVE QuietInv'
  BY <1>13, GrantAssumption DEF GrantTypeOK, QuietInv, Revoke, Proceed, Done, history
<1>14. ASSUME NEW g \in Grant, Delete(g) PROVE QuietInv'
  BY <1>14, GrantAssumption DEF QuietInv, Delete, history
<1>15. ASSUME NEW s \in Call, BeginPrepare(s) PROVE QuietInv'
  BY <1>15, GrantAssumption DEF QuietInv, BeginPrepare, Proceed, grants, history
<1>16. ASSUME NEW s \in Call, PrepareWhich(s) PROVE QuietInv'
  BY <1>16, GrantAssumption DEF GrantTypeOK, QuietInv, PrepareWhich, Proceed, grants,
     history
<1>17. ASSUME NEW s \in Call, Prepare(s) PROVE QuietInv'
  BY <1>17, GrantAssumption DEF QuietInv, Prepare, Proceed, Done, grants, history
<1>18. ASSUME NEW s \in Call, BeginSelf(s) PROVE QuietInv'
  BY <1>18, GrantAssumption DEF GrantTypeOK, QuietInv, Usable, Found, Active,
     BeginSelf, Proceed, grants
<1>19. ASSUME NEW s \in Call, SelfAllowed(s) PROVE QuietInv'
  BY <1>19, GrantAssumption DEF GrantTypeOK, QuietInv, Usable, Found, Active,
     SelfAllowed, Allowed, Proceed, Done, grants, history
<1>20. ASSUME NEW s \in Call, SelfWhich(s) PROVE QuietInv'
  BY <1>20, GrantAssumption DEF GrantTypeOK, QuietInv, SelfWhich, Proceed, Done,
     grants, history
<1>21. ASSUME NEW s \in Call, SelfClaim(s) PROVE QuietInv'
  BY <1>21, GrantAssumption DEF QuietInv, SelfClaim, Proceed, Done, grants,
     history
<1>22. ASSUME ApproverClaims PROVE QuietInv'
  BY <1>22, GrantAssumption DEF QuietInv, ApproverClaims, grants, history
<1>23. CASE UNCHANGED grantVars
  BY <1>23, GrantAssumption DEF QuietInv, grantVars, grants, history
<1> QED
  BY <1>1, <1>2, <1>3, <1>4, <1>5, <1>6, <1>7, <1>8, <1>9, <1>10, <1>11, <1>12,
     <1>13, <1>14, <1>15, <1>16, <1>17, <1>18, <1>19, <1>20, <1>21, <1>22,
     <1>23 DEF GrantNext, CallStep

\* The conjuncts together are inductive.
LEMMA GrantIndStep == GrantIndInv /\ [GrantNext]_grantVars => GrantIndInv'
  BY GrantTypeStep, OnGrantStep, KeyStep, QuietStep DEF GrantIndInv

\* However requests, confirmations, expiries and deletions interleave, the
\* inductive invariant holds.
THEOREM GrantInvariance == GrantSpec => []GrantIndInv
<1>1. GrantIndInv /\ [GrantNext]_grantVars => GrantIndInv'
  BY GrantIndStep
<1> QED
  BY GrantInitInv, <1>1, PTL DEF GrantSpec

\* Type correctness of the grants, the plan and the calls.
THEOREM GrantTypeCorrect == GrantSpec => []GrantTypeOK
<1>1. GrantIndInv => GrantTypeOK
  BY DEF GrantIndInv
<1> QED
  BY GrantInvariance, <1>1, PTL

\* With one key there is one active grant at most.
LEMMA OneActive == ASSUME KeyInv PROVE Cardinality(Active) <= 1
<1>1. CASE Active = {}
  BY <1>1, FS_EmptySet
<1>2. CASE Active # {}
  <2>1. PICK g \in Active : TRUE
    BY <1>2
  <2>2. Active = {g}
    BY <2>1 DEF KeyInv, Active
  <2>3. Cardinality({g}) = 1
    BY FS_Singleton
  <2> QED
    BY <2>2, <2>3
<1> QED
  BY <1>1, <1>2

\* For any number of grants and calls, a scope has one active grant at most, and
\* only a grant that a late expiry overwrote blocks it.
THEOREM OneGrantPerScope == GrantSpec => []ScopeIsExclusive
<1>1. GrantIndInv => ScopeIsExclusive
  BY OneActive DEF GrantIndInv, KeyInv, ScopeIsExclusive
<1> QED
  BY GrantInvariance, <1>1, PTL

\* No call approves the beneficiary's plan without a covering grant that was
\* active at some moment of the call.
THEOREM GrantWhileApproving == GrantSpec => SelfClaimHadGrant
<1>1. GrantIndInv /\ [GrantNext]_grantVars =>
        [\A s \in Call : SelfClaim(s) /\ plan = "pending" => ~quiet[s]]_grantVars
  BY DEF GrantIndInv, QuietInv, SelfClaim
<1> QED
  BY GrantInvariance, <1>1, PTL DEF GrantSpec, SelfClaimHadGrant
=============================================================================
