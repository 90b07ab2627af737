------------------------------ MODULE Packages ------------------------------
(***************************************************************************)
(* The deploy packages of the file center (package_retention.py) and the   *)
(* deployments that need them.  A package is a file in the upload          *)
(* directory and a row of deploy_packages.  Uploads, deletions, listings   *)
(* and cleanups run in threads and on the event loop: each reads rows and  *)
(* files, changes a file and writes the row, in this order, and any of     *)
(* them may end in between.  Which packages a cleanup may take is decided  *)
(* from the deployments and plans there are; the cleanup of the release    *)
(* history (release_retention.py) deletes those.                           *)
(*                                                                         *)
(* The calls of a behaviour are made in one period, Now; how long ago      *)
(* packages were uploaded and used and deployments started is in           *)
(* PackagesInit.                                                           *)
(* Each name starts with a row, as one that was ever uploaded has.         *)
(* Packages are protected by hand before, not during, the calls.           *)
(* Deployments that were rolled back, kept for a year by both cleanups,    *)
(* and the temporary file of an upload are left out.                       *)
(***************************************************************************)
EXTENDS Naturals, FiniteSets

CONSTANTS
    Package, Call,
    Deployments,    \* how many deployments or plans there are at most
    Prior,          \* how many of them there may be at the start
    KeepUnused,     \* unused_package_keep_days
    KeepUsed,       \* package_keep_days
    KeepSuccess,    \* deploy_success_keep_days
    KeepFailed,     \* failed_package_keep_days and deploy_failed_keep_days
    KeepPlan,       \* tool_plan_keep_days
    KeepLatest,     \* keep_latest_success_per_service
    None,           \* no file, never used, no package
    Now, MaxCalls

ASSUME PackagesAssumption ==
    /\ {KeepUnused, KeepUsed, KeepSuccess, KeepFailed, KeepPlan} \subseteq Nat
    /\ {Deployments, Prior, KeepLatest, Now, MaxCalls} \subseteq Nat
    /\ None \notin Nat \cup Package

VARIABLES
    file,      \* content of each file, or None
    mtime,
    meta,      \* deleted, protected, digest, uploaded_at, last_used_at
    dep,       \* deployments and plans in the order they were started
    call,      \* where each call is and what it read
    runs,      \* calls begun so far
    crossed    \* packages whose file changed under another call, or whose
               \* change was never recorded, since they were last looked at

packagesVars == <<file, mtime, meta, dep, call, runs, crossed>>

Slot == 1 .. Deployments
Content == 0 .. MaxCalls
Time == 0 .. Now
Row == [deleted : BOOLEAN, protected : BOOLEAN, sha : Content, uploaded : Time,
        used : Time \cup {None}]
Idle == [pc |-> "idle", op |-> "none", p |-> None, ids |-> {}, was |-> <<>>, want |-> <<>>,
         fresh |-> {}, names |-> {}, seen |-> {}, todo |-> {}, gone |-> {}]

On(p) == file[p] # None
Expired(t, days) == Now - t > days

(* What deployments and plans need. *)

InState(states) == {d \in Slot : dep[d].state \in states}
Later(d, states) == {e \in InState(states) : e > d}
Latest(states) == {d \in InState(states) : Cardinality(Later(d, states)) < KeepLatest}
Retried == {d \in InState({"failed"}) : ~Expired(dep[d].at, KeepFailed)}

\* Mutant: a plan does not protect its package until it is executed.
OfDeployments == {d \in InState({"active"}) \cup Retried \cup Latest({"success"}) : dep[d].named}

\* _protected_names_from_deployments: a deployment protects the package its version
\* names, a plan its package.
Protecting ==
    {d \in InState({"active"}) \cup Retried \cup Latest({"success"}) : dep[d].named}
        \cup InState({"planned"})
ProtectedNames == {dep[d].p : d \in Protecting}

\* What there is to lose: the packages of work in progress, of failures to retry, and
\* of the last successes, whether or not their rows are still there.
Needing == InState({"active", "planned"}) \cup Retried \cup Latest({"success", "forgotten"})

\* _candidate_reason
IsCandidate(p, names) ==
    LET r == meta[p]
        base == IF r.used = None THEN r.uploaded ELSE r.used
        days == IF r.used = None THEN KeepUnused ELSE KeepUsed
    IN On(p) /\ ~r.deleted /\ ~r.protected /\ p \notin names /\ Expired(base, days)

(* What calls have in hand. *)

At(c, place) == call[c].pc = place
Done(c) == call' = [call EXCEPT ![c] = Idle]

\* c has changed p's file or read p's row and has not written the row yet.
Touches(c, p) ==
    \/ At(c, "sync")
    \/ At(c, "remove") /\ p \in call[c].todo \cup call[c].gone
    \/ call[c].pc \in {"replace", "load", "store"} /\ p = call[c].p
Touched(p, c) == \E e \in Call \ {c} : Touches(e, p)

\* c changes p's file under the calls that are at work on it.
Disturb(c, p) == crossed' = IF Touched(p, c) THEN crossed \cup {p} ELSE crossed
Others(c, p, mine) ==
    [e \in Call |-> IF e = c THEN mine ELSE [call[e] EXCEPT !.fresh = @ \ {p}]]

\* SQLAlchemy writes the columns in which the object differs from what was loaded.
Written(loaded, wanted, current) ==
    [col \in DOMAIN current |->
        IF wanted[col] # loaded[col] THEN wanted[col] ELSE current[col]]

(***************************************************************************)
(* Deployments and plans.                                                  *)
(***************************************************************************)

Unused == [state |-> "none", p |-> None, named |-> FALSE, at |-> 0]
Over == [Unused EXCEPT !.state = "over"]
Started == {d \in Slot : dep[d].state # "none"}
NextSlot == Cardinality(Started) + 1

Noted(p) == meta' = [meta EXCEPT ![p].used = Now]

\* A plan, a request or a retry notes that the package is used; a RELEASE step does
\* not, and its version is the name of the package.  Any other request may carry a
\* version that names something else.
Start(p, state, named, noted) ==
    /\ state = "planned" => named /\ noted
    /\ ~named => noted
    /\ NextSlot \in Slot
    /\ dep' = [dep EXCEPT ![NextSlot] = [state |-> state, p |-> p, named |-> named, at |-> Now]]
    /\ IF noted THEN Noted(p) ELSE UNCHANGED meta
    /\ UNCHANGED <<file, mtime, call, runs, crossed>>

\* ops.execute_deploy_plan inserts the deployment before it closes the plan.
ExecutePlan(d, named) ==
    /\ dep[d].state = "planned" /\ NextSlot \in Slot
    /\ dep' = [dep EXCEPT ![NextSlot] = [state |-> "active", p |-> dep[d].p, named |-> named,
                                      at |-> Now],
                          ![d] = Over]
    /\ Noted(dep[d].p)
    /\ UNCHANGED <<file, mtime, call, runs, crossed>>

\* The deployment ends; once it is canceled there is nothing to keep.
Finish(d, state) ==
    /\ dep[d].state = "active"
    /\ dep' = [dep EXCEPT ![d] = IF state = "canceled" THEN Over ELSE [@ EXCEPT !.state = state]]
    /\ UNCHANGED <<file, mtime, meta, call, runs, crossed>>

(***************************************************************************)
(* Calls.                                                                  *)
(***************************************************************************)

\* cleanup_runtime_artifacts cleans up the release history and goes on to the
\* packages; an endpoint does the first only, another the second only, and a listing
\* or a preview no more than the walk.
Begin(c, place) ==
    /\ At(c, "idle") /\ runs < MaxCalls /\ runs' = runs + 1
    /\ call' = [call EXCEPT ![c].pc = place, ![c].op = "cleanup"]
    /\ UNCHANGED <<file, mtime, meta, dep, crossed>>

Goes(d) ==
    \/ dep[d].state = "success" /\ Expired(dep[d].at, KeepSuccess)
    \/ dep[d].state = "failed" /\ Expired(dep[d].at, KeepFailed)
    \/ dep[d].state = "planned" /\ Expired(dep[d].at, KeepPlan)

\* _deployment_candidates, _tool_plan_candidates
SelectHistory(c) ==
    /\ At(c, "ids")
    /\ call' = [call EXCEPT ![c].pc = "drop", ![c].ids = {d \in Slot : Goes(d)}]
    /\ UNCHANGED <<file, mtime, meta, dep, runs, crossed>>

\* cleanup_release_history deletes by id, whatever the rows have become.
DropHistory(c) ==
    /\ At(c, "drop")
    /\ dep' = [d \in Slot |->
                   IF d \notin call[c].ids THEN dep[d]
                   ELSE IF dep[d].state = "success"
                        THEN [Over EXCEPT !.state = "forgotten", !.p = dep[d].p]
                        ELSE Over]
    /\ \/ call' = [call EXCEPT ![c].pc = "walk", ![c].ids = {}]
       \/ Done(c)
    /\ UNCHANGED <<file, mtime, meta, runs, crossed>>

\* What sync_package_metadata makes of a row when it finds the file, and when not.
Synced(p) ==
    IF On(p)
    THEN [meta[p] EXCEPT !.deleted = FALSE, !.sha = file[p],
                        !.uploaded = IF mtime[p] > @ THEN mtime[p] ELSE @]
    ELSE [meta[p] EXCEPT !.deleted = TRUE]

\* sync_package_metadata: it hashes every file and then writes all rows.
Walk(c) ==
    /\ At(c, "walk")
    /\ call' = [call EXCEPT ![c].pc = "sync", ![c].was = meta,
                            ![c].want = [p \in Package |-> Synced(p)],
                            ![c].fresh = {p \in Package : ~Touched(p, c)}]
    /\ UNCHANGED <<file, mtime, meta, dep, runs, crossed>>

Sync(c) ==
    /\ At(c, "sync")
    /\ meta' = [p \in Package |-> Written(call[c].was[p], call[c].want[p], meta[p])]
    /\ crossed' = crossed \ call[c].fresh
    /\ \/ call' = [call EXCEPT ![c].pc = "names", ![c].was = <<>>, ![c].want = <<>>]
       \/ Done(c)
    /\ UNCHANGED <<file, mtime, dep, runs>>

\* preview_package_cleanup reads the deployments, then the packages.
ReadNames(c) ==
    /\ At(c, "names")
    /\ call' = [call EXCEPT ![c].pc = "choose", ![c].names = ProtectedNames,
                            ![c].seen = Needing]
    /\ UNCHANGED <<file, mtime, meta, dep, runs, crossed>>

Choose(c) ==
    /\ At(c, "choose")
    /\ call' = [call EXCEPT ![c].pc = "remove", ![c].names = {},
                            ![c].todo = {p \in Package : IsCandidate(p, call[c].names)}]
    /\ UNCHANGED <<file, mtime, meta, dep, runs, crossed>>

\* delete_package
BeginDelete(c, p) ==
    /\ At(c, "idle") /\ runs < MaxCalls /\ runs' = runs + 1
    /\ ~meta[p].deleted /\ ~meta[p].protected /\ p \notin ProtectedNames
    /\ call' = [call EXCEPT ![c].pc = "remove", ![c].op = "delete", ![c].seen = Needing,
                            ![c].todo = {p}]
    /\ UNCHANGED <<file, mtime, meta, dep, crossed>>

\* os.remove, by cleanup_packages and delete_package.
Remove(c, p) ==
    /\ At(c, "remove") /\ p \in call[c].todo
    /\ file' = [file EXCEPT ![p] = None] /\ mtime' = [mtime EXCEPT ![p] = 0]
    /\ Disturb(c, p)
    /\ call' = Others(c, p, [call[c] EXCEPT !.todo = @ \ {p}, !.gone = @ \cup {p}])
    /\ UNCHANGED <<meta, dep, runs>>

\* A file cannot be removed: a cleanup goes on with the next.
Skip(c, p) ==
    /\ At(c, "remove") /\ p \in call[c].todo /\ call[c].op # "delete"
    /\ call' = [call EXCEPT ![c].todo = @ \ {p}]
    /\ UNCHANGED <<file, mtime, meta, dep, runs, crossed>>

\* One commit for all packages removed.
Record(c) ==
    /\ At(c, "remove") /\ call[c].todo = {}
    /\ meta' = [p \in Package |-> IF p \in call[c].gone THEN [meta[p] EXCEPT !.deleted = TRUE]
                                  ELSE meta[p]]
    /\ Done(c)
    /\ UNCHANGED <<file, mtime, dep, runs, crossed>>

\* save_package_fileobj: an existing package is replaced only if the call says so.
BeginUpload(c, p, overwrite) ==
    /\ At(c, "idle") /\ runs < MaxCalls /\ runs' = runs + 1
    /\ On(p) => overwrite
    /\ call' = [call EXCEPT ![c].pc = "replace", ![c].op = "upload", ![c].p = p,
                            ![c].want = runs + 1]
    /\ UNCHANGED <<file, mtime, meta, dep, crossed>>

\* os.replace
Replace(c) ==
    LET p == call[c].p
    IN /\ At(c, "replace")
       /\ file' = [file EXCEPT ![p] = call[c].want]
       /\ mtime' = [mtime EXCEPT ![p] = Now]
       /\ Disturb(c, p)
       /\ call' = Others(c, p, [call[c] EXCEPT !.pc = "load"])
       /\ UNCHANGED <<meta, dep, runs>>

\* upsert_package_metadata; it raises if the file is gone again.
Load(c) ==
    /\ At(c, "load")
    /\ IF On(call[c].p)
       THEN call' = [call EXCEPT ![c].pc = "store", ![c].was = meta[call[c].p]]
       ELSE Done(c)
    /\ UNCHANGED <<file, mtime, meta, dep, runs, crossed>>

\* Mutant: the row of a package that was deleted stays so.
OnlyDigest(c) == [call[c].was EXCEPT !.sha = call[c].want]

Refreshed(c) == [call[c].was EXCEPT !.deleted = FALSE, !.sha = call[c].want]

Store(c) ==
    LET p == call[c].p
    IN /\ At(c, "store")
       /\ meta' = [meta EXCEPT ![p] = Written(call[c].was, Refreshed(c), @)]
       /\ Done(c)
       /\ UNCHANGED <<file, mtime, dep, runs, crossed>>

\* A call raises, or dies with the process; what it removed or replaced stays so.
Fail(c) ==
    /\ ~At(c, "idle")
    /\ Done(c)
    /\ crossed' = crossed \cup call[c].gone
                    \cup (IF call[c].pc \in {"load", "store"} THEN {call[c].p} ELSE {})
    /\ UNCHANGED <<file, mtime, meta, dep, runs>>

CallStep(c) ==
    \/ \E place \in {"ids", "walk"} : Begin(c, place)
    \/ SelectHistory(c) \/ DropHistory(c)
    \/ Walk(c) \/ Sync(c) \/ ReadNames(c) \/ Choose(c)
    \/ \E p \in Package : BeginDelete(c, p) \/ Remove(c, p) \/ Skip(c, p)
    \/ Record(c)
    \/ \E p \in Package, overwrite \in BOOLEAN : BeginUpload(c, p, overwrite)
    \/ Replace(c) \/ Load(c) \/ Store(c)
    \/ Fail(c)

PackagesNext ==
    \/ \E p \in Package, state \in {"planned", "active"}, named, noted \in BOOLEAN :
           Start(p, state, named, noted)
    \/ \E d \in Slot, named \in BOOLEAN : ExecutePlan(d, named)
    \/ \E d \in Slot, state \in {"success", "failed", "canceled"} : Finish(d, state)
    \/ \E c \in Call : CallStep(c)

\* Packages and deployments of earlier periods, looked at since they last changed.
Past == 0 .. Now - 1
Earlier == {Over} \cup [state : {"success", "failed"}, p : Package, named : BOOLEAN, at : Past]
               \cup [state : {"planned"}, p : Package, named : {TRUE}, at : Past]
PackagesInit ==
    /\ runs = 0 /\ crossed = {} /\ call = [c \in Call |-> Idle]
    /\ file \in [Package -> {0, None}]
    /\ mtime \in [Package -> Past]
    /\ \E used \in [Package -> Past \cup {None}], hand \in SUBSET Package :
           /\ \A p \in Package : used[p] # None => used[p] >= mtime[p]
           /\ meta = [p \in Package |->
                         [deleted |-> ~On(p), protected |-> p \in hand, sha |-> 0,
                          uploaded |-> mtime[p], used |-> used[p]]]
    /\ dep \in [Slot -> {Unused} \cup Earlier] /\ Cardinality(Started) <= Prior
    /\ \A d, e \in Slot : d < e /\ dep[e] # Unused =>
           dep[d] # Unused /\ (Over \notin {dep[d], dep[e]} => dep[e].at >= dep[d].at)

PackagesSpec == PackagesInit /\ [][PackagesNext]_packagesVars

(***************************************************************************)
(* Properties.                                                             *)
(***************************************************************************)

PackagesTypeOK ==
    /\ runs \in 0 .. MaxCalls /\ crossed \subseteq Package
    /\ file \in [Package -> Content \cup {None}] /\ mtime \in [Package -> Time]
    /\ meta \in [Package -> Row]
    /\ \A d \in Slot :
           /\ dep[d].state \in {"none", "planned", "active", "success", "failed", "forgotten",
                                "over"}
           /\ dep[d].p \in Package \cup {None} /\ dep[d].named \in BOOLEAN /\ dep[d].at \in Time
    /\ \A c \in Call : call[c].todo \cup call[c].gone \cup call[c].fresh \subseteq Package

Removes(c, p) ==
    /\ At(c, "remove") /\ p \in call[c].todo /\ On(p)
    /\ p \notin call'[c].todo /\ file'[p] = None

\* A package that work in progress, a failure to retry or a last success needed when
\* the call read the deployments is removed only if the deployment goes by another
\* version, or is a success whose row the history no longer has.  What comes to be
\* needed later is not protected.
NeededIsKept(c, p) ==
    \A d \in Needing \cap call[c].seen :
        dep[d].p = p => dep[d].state = "forgotten" \/ ~dep[d].named

\* A cleanup does not remove what was uploaded in this period, unless it was uploaded
\* after the walk, or under a name that had been in use.
FreshIsKept(c, p) ==
    call[c].op # "delete" /\ mtime[p] = Now => p \notin call[c].fresh \/ meta[p].used # None

\* No call, alone or beside another, takes a file it had reason to keep.
RemovalsAreDue ==
    [][\A c \in Call, p \in Package : Removes(c, p) => NeededIsKept(c, p) /\ FreshIsKept(c, p)
      ]_packagesVars

\* Where no call is at work, and none crossed another or failed since the last walk, a
\* row says whether its file is there, and what is in it.
RowsMatchFiles ==
    \A p \in Package \ crossed : (\A c \in Call : ~Touches(c, p)) =>
        /\ meta[p].deleted <=> ~On(p)
        /\ On(p) => meta[p].sha = file[p]
=============================================================================
