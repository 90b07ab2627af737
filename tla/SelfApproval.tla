---------------------------- MODULE SelfApproval ----------------------------
(***************************************************************************)
(* Temporary self-approval: the grants of one scope (one beneficiary in one *)
(* conversation, one system and test environment), and one plan of the     *)
(* beneficiary.  TemporaryApprovalService of                               *)
(* app/services/temporary_approval.py, the administrator's endpoints of    *)
(* app/api/temporary_approvals.py, and the two callers that ask for a      *)
(* grant: the tool that prepares a plan (approval_tools.py) and            *)
(* consume_approval of execution_plan.py.                                  *)
(*                                                                         *)
(* A handler decides on the row it loaded and writes it in a later commit. *)
(* Writes by the channel carry their condition in the WHERE; the others    *)
(* write by id, and only the columns whose value differs from the loaded   *)
(* one.  confirmation_consumed_at is set with ACTIVE and no write sets     *)
(* PENDING again, so a row read PENDING has not been confirmed.            *)
(***************************************************************************)
EXTENDS Naturals, FiniteSets

CONSTANTS Grant, Call,
          Covering,      \* the grants whose allowed_actions cover the plan
          MaxAttempts,   \* MAX_CONFIRMATION_ATTEMPTS
          NoGrant

ASSUME GrantAssumption ==
    /\ Covering \subseteq Grant /\ NoGrant \notin Grant
    /\ MaxAttempts \in Nat \ {0}

VARIABLES
    grantStatus, \* grant -> status column; "none" before the request
    key,         \* grant -> active_scope_key is set
    attempts,    \* grant -> confirmation_attempts
    lapsed, over, \* grant -> confirmation_expires_at, expires_at is past
    plan, bound, \* the plan, its temporary_grant_id
    claimedBy,   \* approved_by
    doing, on,   \* call -> what it has read and will do, with which grant
    overruled,   \* history: grants that were ACTIVE when a late expiry hit
    quiet        \* history: call -> no covering grant was active since it began

grants == <<grantStatus, key, attempts, lapsed, over>>
plans == <<plan, bound, claimedBy>>
history == <<overruled, quiet>>
grantVars == <<grants, plans, doing, on, history>>

GrantInit ==
    /\ grantStatus = [g \in Grant |-> "none"] /\ key = [g \in Grant |-> FALSE]
    /\ attempts = [g \in Grant |-> 0]
    /\ lapsed = [g \in Grant |-> FALSE] /\ over = [g \in Grant |-> FALSE]
    /\ plan = "none" /\ bound = NoGrant /\ claimedBy = "none"
    /\ doing = [s \in Call |-> "idle"] /\ on = [s \in Call |-> NoGrant]
    /\ overruled = {}
    /\ quiet = [s \in Call |-> FALSE]

Active == {g \in Grant : grantStatus[g] = "ACTIVE"}

\* get_active_grant: an overdue row is expired (ReadOverdue) and does not count.
Found == {g \in Active : ~over[g]}
Usable == Found \cap Covering

Proceed(s, where, g) ==
    /\ doing' = [doing EXCEPT ![s] = where] /\ on' = [on EXCEPT ![s] = g]

Done(s) == Proceed(s, "idle", NoGrant)

\* Time passes.
ConfirmationRunsOut(g) ==
    /\ grantStatus[g] = "PENDING" /\ ~lapsed[g] /\ lapsed' = [lapsed EXCEPT ![g] = TRUE]
    /\ UNCHANGED <<grantStatus, key, attempts, over, plans, doing, on, history>>

GrantRunsOut(g) ==
    /\ grantStatus[g] = "ACTIVE" /\ ~over[g] /\ over' = [over EXCEPT ![g] = TRUE]
    /\ UNCHANGED <<grantStatus, key, attempts, lapsed, plans, doing, on, history>>

-----------------------------------------------------------------------------
(* Requests, and expiry by whoever reads an overdue row.                   *)

\* No live grant is found; equal requests (same message) are not repeated.
DecideRequest(s) ==
    /\ doing[s] = "idle" /\ Found = {} /\ Proceed(s, "request", NoGrant)
    /\ UNCHANGED <<grants, plans, history>>

Request(s, g) ==
    /\ doing[s] = "request" /\ grantStatus[g] = "none"
    /\ grantStatus' = [grantStatus EXCEPT ![g] = "PENDING"] /\ Done(s)
    /\ UNCHANGED <<key, attempts, lapsed, over, plans, history>>

\* _expire_if_needed, from request, get and every look for an active grant; the
\* channel's confirm does the same to a pending row whose code came too late.
ReadOverdue(s, g) ==
    /\ doing[s] = "idle"
    /\ \/ grantStatus[g] = "PENDING" /\ lapsed[g] /\ Proceed(s, "expire_pending", g)
       \/ grantStatus[g] = "ACTIVE" /\ over[g] /\ Proceed(s, "expire_active", g)
    /\ UNCHANGED <<grants, plans, history>>

\* The key of a row read PENDING is NULL already and is not written.
ExpiredKey(s) ==
    IF doing[s] = "expire_active" THEN [key EXCEPT ![on[s]] = FALSE] ELSE key

\* A write by id has no effect on a row that is gone.
Expire(s) ==
    /\ doing[s] \in {"expire_pending", "expire_active"}
    /\ IF grantStatus[on[s]] = "gone" THEN UNCHANGED <<grantStatus, key, overruled>>
       ELSE /\ grantStatus' = [grantStatus EXCEPT ![on[s]] = "EXPIRED"]
            /\ key' = ExpiredKey(s)
            /\ overruled' = IF doing[s] = "expire_pending" /\ key[on[s]]
                            THEN overruled \cup {on[s]} ELSE overruled
    /\ Done(s)
    /\ UNCHANGED <<attempts, lapsed, over, plans, quiet>>

-----------------------------------------------------------------------------
(* Confirmation.                                                           *)

\* The code of the channel, or the administrator's phrase; the endpoint of the
\* administrator does not look at the time.
ReadPending(s, g) ==
    /\ doing[s] = "idle" /\ grantStatus[g] = "PENDING"
    /\ \/ ~lapsed[g] /\ Proceed(s, "confirm", g)
       \/ Proceed(s, "web", g)
    /\ UNCHANGED <<grants, plans, history>>

\* A wrong code: one conditional update.
WrongCode(g) ==
    /\ grantStatus[g] = "PENDING" /\ attempts[g] < MaxAttempts
    /\ attempts' = [attempts EXCEPT ![g] = @ + 1]
    /\ grantStatus' = [grantStatus EXCEPT ![g] = IF attempts[g] + 1 >= MaxAttempts
                                       THEN "EXPIRED" ELSE @]
    /\ UNCHANGED <<key, lapsed, over, plans, doing, on, history>>

\* No other grant of the scope is active.
CheckOthers(s) ==
    /\ doing[s] \in {"confirm", "web"}
    /\ IF Active \ {on[s]} # {} THEN Done(s)
       ELSE Proceed(s, IF doing[s] = "web" THEN "web_write" ELSE "write", on[s])
    /\ UNCHANGED <<grants, plans, history>>

\* Mutant: the scope key is not unique.
AlwaysFree(g) == TRUE

\* uq_temporary_grant_active_scope_key.
KeyIsFree(g) == \A h \in Grant \ {g} : ~key[h]

Activate(g) ==
    /\ grantStatus' = [grantStatus EXCEPT ![g] = "ACTIVE"]
    /\ key' = [key EXCEPT ![g] = TRUE]
    /\ over' = [over EXCEPT ![g] = FALSE]
    /\ quiet' = IF g \in Covering THEN [s \in Call |-> FALSE] ELSE quiet
    /\ UNCHANGED <<attempts, lapsed, plans, overruled>>

\* The channel updates WHERE status = 'PENDING', the endpoint by id.
Updates(s) ==
    grantStatus[on[s]] \in IF doing[s] = "write" THEN {"PENDING"}
                      ELSE {"PENDING", "ACTIVE", "EXPIRED", "REVOKED"}

Confirm(s) ==
    /\ doing[s] \in {"write", "web_write"}
    /\ Updates(s) /\ KeyIsFree(on[s])
    /\ Activate(on[s]) /\ Done(s)

ConfirmFails(s) ==
    /\ doing[s] \in {"write", "web_write"}
    /\ ~(Updates(s) /\ KeyIsFree(on[s]))
    /\ Done(s) /\ UNCHANGED <<grants, plans, history>>

-----------------------------------------------------------------------------
(* Revocation and deletion, by an approver or an administrator, one row or  *)
(* several of them.                                                        *)

DecideRevoke(s, g) ==
    /\ doing[s] = "idle" /\ grantStatus[g] = "ACTIVE" /\ Proceed(s, "revoke", g)
    /\ UNCHANGED <<grants, plans, history>>

Revoke(s) ==
    /\ doing[s] = "revoke" /\ Done(s)
    /\ IF grantStatus[on[s]] = "gone" THEN UNCHANGED <<grantStatus, key>>
       ELSE /\ grantStatus' = [grantStatus EXCEPT ![on[s]] = "REVOKED"]
            /\ key' = [key EXCEPT ![on[s]] = FALSE]
    /\ UNCHANGED <<attempts, lapsed, over, plans, history>>

Delete(g) ==
    /\ grantStatus[g] \notin {"none", "gone"}
    /\ grantStatus' = [grantStatus EXCEPT ![g] = "gone"]
    /\ key' = [key EXCEPT ![g] = FALSE]
    /\ UNCHANGED <<attempts, lapsed, over, plans, doing, on, history>>

-----------------------------------------------------------------------------
(* The beneficiary prepares a plan and approves it.  Both ask twice: does a *)
(* grant allow the actions; which grant is active.                         *)

BeginPrepare(s) ==
    /\ doing[s] = "idle" /\ plan = "none"
    /\ Proceed(s, IF Usable # {} THEN "prepare_which" ELSE "prepare", NoGrant)
    /\ UNCHANGED <<grants, plans, history>>

PrepareWhich(s) ==
    /\ doing[s] = "prepare_which"
    /\ \/ \E g \in Found : Proceed(s, "prepare", g)
       \/ Found = {} /\ Proceed(s, "prepare", NoGrant)
    /\ UNCHANGED <<grants, plans, history>>

Prepare(s) ==
    /\ doing[s] = "prepare"
    /\ IF plan = "none" THEN plan' = "pending" /\ bound' = on[s]
       ELSE UNCHANGED <<plan, bound>>
    /\ Done(s) /\ UNCHANGED <<grants, claimedBy, history>>

BeginSelf(s) ==
    /\ doing[s] = "idle" /\ plan = "pending" /\ bound # NoGrant
    /\ Proceed(s, "self_allowed", NoGrant)
    /\ quiet' = [quiet EXCEPT ![s] = Usable = {}]
    /\ UNCHANGED <<grants, plans, overruled>>

\* Mutant: it is enough that a grant is active.
AnyGrantAllows == Found # {}

\* is_self_approval_allowed.
Allowed == Usable # {}

SelfAllowed(s) ==
    /\ doing[s] = "self_allowed"
    /\ IF Allowed THEN Proceed(s, "self_which", NoGrant) ELSE Done(s)
    /\ UNCHANGED <<grants, plans, history>>

SelfWhich(s) ==
    /\ doing[s] = "self_which"
    /\ IF Found # {} THEN Proceed(s, "self_claim", NoGrant) ELSE Done(s)
    /\ UNCHANGED <<grants, plans, history>>

SelfClaim(s) ==
    /\ doing[s] = "self_claim" /\ Done(s)
    /\ IF plan = "pending" THEN plan' = "claimed" /\ claimedBy' = "self"
       ELSE UNCHANGED <<plan, claimedBy>>
    /\ UNCHANGED <<grants, bound, history>>

\* An approver needs no grant.
ApproverClaims ==
    /\ plan = "pending" /\ plan' = "claimed" /\ claimedBy' = "approver"
    /\ UNCHANGED <<grants, bound, doing, on, history>>

CallStep(s) ==
    \/ DecideRequest(s) \/ Expire(s) \/ CheckOthers(s) \/ Confirm(s) \/ ConfirmFails(s)
    \/ Revoke(s) \/ BeginPrepare(s) \/ PrepareWhich(s) \/ Prepare(s)
    \/ BeginSelf(s) \/ SelfAllowed(s) \/ SelfWhich(s) \/ SelfClaim(s)
    \/ \E g \in Grant : \/ Request(s, g) \/ ReadOverdue(s, g)
                        \/ ReadPending(s, g) \/ DecideRevoke(s, g)

GrantNext ==
    \/ \E s \in Call : CallStep(s)
    \/ \E g \in Grant : \/ ConfirmationRunsOut(g) \/ GrantRunsOut(g)
                        \/ WrongCode(g) \/ Delete(g)
    \/ ApproverClaims

GrantSpec == GrantInit /\ [][GrantNext]_grantVars

-----------------------------------------------------------------------------
GrantTypeOK ==
    /\ grantStatus \in [Grant -> {"none", "PENDING", "ACTIVE", "EXPIRED", "REVOKED", "gone"}]
    /\ key \in [Grant -> BOOLEAN] /\ attempts \in [Grant -> 0..MaxAttempts]
    /\ lapsed \in [Grant -> BOOLEAN] /\ over \in [Grant -> BOOLEAN]
    /\ plan \in {"none", "pending", "claimed"} /\ bound \in Grant \cup {NoGrant}
    /\ claimedBy \in {"none", "self", "approver"}
    /\ doing \in [Call -> {"idle", "request", "expire_pending", "expire_active",
                           "confirm", "web", "write", "web_write", "revoke",
                           "prepare_which", "prepare", "self_allowed", "self_which",
                           "self_claim"}]
    /\ on \in [Call -> Grant \cup {NoGrant}]
    /\ overruled \subseteq Grant
    /\ quiet \in [Call -> BOOLEAN]

\* A scope has one active grant at most, also when two confirmations each saw no
\* other; and a grant that is not active blocks the scope (its row keeps the
\* unique key) only if a late expiry overwrote its confirmation.
ScopeIsExclusive ==
    /\ Cardinality(Active) <= 1
    /\ \A g \in Grant : /\ grantStatus[g] = "ACTIVE" => key[g]
                        /\ key[g] => grantStatus[g] = "ACTIVE" \/ g \in overruled

\* The beneficiary's call approves the plan only if a grant that covers its
\* actions was active at some moment since the call began.
SelfClaimHadGrant ==
    [][\A s \in Call : SelfClaim(s) /\ plan = "pending" => ~quiet[s]]_grantVars
=============================================================================
