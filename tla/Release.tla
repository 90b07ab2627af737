------------------------------- MODULE Release -------------------------------
(***************************************************************************)
(* One server over many releases: PipelineEngine.run with its deploy,      *)
(* switch, restart and health_check steps (app/pipeline), the server run   *)
(* around it (_run_pipeline_task_one_server), and the rollback an operator *)
(* starts later, which takes the second newest directory of releases/      *)
(* (mode symlink_previous of _rollback_plan_for).  Runs and rollbacks take *)
(* different lock keys, so a rollback may fall into a run.                 *)
(*                                                                         *)
(* A step is its commands on the server: what they did and what they       *)
(* answered are two choices.  The restart command loads what the link      *)
(* names, and the health URL asks the process that runs.                   *)
(***************************************************************************)
EXTENDS Naturals, Sequences

CONSTANTS
    Version,
    Sound,          \* versions that answer a health check once they run
    Firsts,         \* what may be linked at the start: versions, Nothing
    Recipes,        \* sequences of step types
    Nothing, Loop,  \* no link; a link to itself
    MaxRuns         \* bound: pipeline runs

\* "nested": a deploy step whose deploy_path is the release's own directory.
StepType == {"deploy", "nested", "switch", "restart", "health"}

ASSUME ReleaseAssumption ==
    /\ Sound \subseteq Version /\ Firsts \subseteq Version \cup {Nothing}
    /\ Nothing \notin Version /\ Loop \notin Version \cup {Nothing}
    /\ Recipes \subseteq Seq(StepType) \ {<<>>} /\ MaxRuns \in Nat

VARIABLES
    made,       \* version -> when its directory in releases/ was last written, 0: never
    whole,      \* those that hold their unpacked package
    link,       \* where current points
    running,    \* what the process runs, Nothing when it is down
    at,         \* idle, step or undo
    ver, steps, k,  \* the run: its version, its recipe, the next step
    saved,      \* the rollback stack: the previous target, or Nothing
    stop,       \* cancel_requested
    runs,
    told,       \* what the last run reported
    undoable,   \* a release succeeded and was not rolled back
    lastGood,   \* history: what was linked by the last success or rollback
    prior,      \* history: what was linked before the last success
    was,        \* history: what was linked when the run began
    overlap,    \* history: a rollback fell into this run
    bare,       \* history: the switch of this run found no previous target
    marred      \* history: since the last success the link may have been left
                \*          elsewhere, see Ends and RollsBack

server == <<made, whole, link, running>>
run == <<at, ver, steps, k, saved, stop, runs, bare>>
reports == <<told, undoable, lastGood, prior, marred>>
releaseVars == <<server, run, reports, was, overlap>>

ReleaseInit ==
    /\ link \in Firsts /\ made = [v \in Version |-> IF v = link THEN 1 ELSE 0]
    /\ whole = {link} \ {Nothing} /\ running \in {link, Nothing}
    /\ at = "idle" /\ ver = Nothing /\ steps = <<>> /\ k = 1 /\ saved = Nothing
    /\ stop = FALSE /\ runs = 0 /\ bare = FALSE
    /\ told = "none" /\ undoable = FALSE /\ lastGood = link /\ prior = Nothing
    /\ marred = FALSE /\ was = Nothing /\ overlap = FALSE

InRun == at # "idle"
At(type) == at = "step" /\ steps[k] = type

Starts(v, r) ==
    /\ at = "idle" /\ runs < MaxRuns /\ runs' = runs + 1
    /\ at' = "step" /\ ver' = v /\ steps' = r /\ k' = 1
    /\ saved' = Nothing /\ stop' = FALSE /\ bare' = FALSE
    /\ was' = link /\ overlap' = FALSE
    /\ UNCHANGED <<server, reports>>

RaisesFlag ==
    /\ InRun /\ ~stop /\ stop' = TRUE
    /\ UNCHANGED <<server, at, ver, steps, k, saved, runs, bare, reports, was, overlap>>

\* The end of the server run, where the flag is read once more; a read that raises
\* answers that it is not set.
Ends(verdict) ==
    /\ at' = "idle" /\ told' \in {verdict} \cup (IF stop THEN {"canceled"} ELSE {})
    /\ UNCHANGED <<ver, steps, k, saved, stop, runs, bare, was, overlap>>

\* A run that did not succeed: harm says that its link may be off.
EndsBadly(verdict, harm) ==
    /\ Ends(verdict) /\ marred' = (marred \/ harm \/ overlap \/ stop)
    /\ UNCHANGED <<undoable, lastGood, prior>>

EndsWell ==
    /\ Ends("success")
    /\ IF told' = "success"
       THEN /\ undoable' = TRUE /\ lastGood' = link' /\ prior' = was
            /\ marred' = (overlap \/ link' # ver)
       ELSE marred' = TRUE /\ UNCHANGED <<undoable, lastGood, prior>>

\* The next step; after the last one the run is over.
Goes ==
    \/ /\ k < Len(steps) /\ k' = k + 1
       /\ UNCHANGED <<at, ver, steps, stop, runs, reports, was, overlap>>
    \/ k = Len(steps) /\ EndsWell

Fails ==
    /\ at' = "undo"
    /\ UNCHANGED <<ver, steps, k, stop, runs, reports, was, overlap>>

-----------------------------------------------------------------------------
\* The flag is read before every step, and may be raised after that; what was done
\* so far stays.
Cancels ==
    /\ at = "step" /\ stop /\ EndsBadly("canceled", TRUE)
    /\ UNCHANGED server

\* It is the newest directory then.
Written == [made EXCEPT ![ver] = runs + 1]

\* mkdir -p and tar: done, or broken off at either.  A nested release is unpacked
\* into releases/<version>/releases/<version>.
Deploys ==
    /\ At("deploy") \/ At("nested")
    /\ UNCHANGED <<link, running, saved, bare>>
    /\ \/ /\ Goes /\ made' = Written
          /\ whole' = IF steps[k] = "deploy" THEN whole \cup {ver} ELSE whole
       \/ Fails /\ UNCHANGED <<made, whole>>
       \/ Fails /\ made' = Written /\ whole' = whole \ {ver}

\* readlink -f || echo NONE: a path that does not exist yet resolves to itself, a
\* loop gives no target.
Seen == CASE link = Nothing -> Loop [] link = Loop -> Nothing [] OTHER -> link

\* Mutant: the target is read after the link was moved.
SavesLate(seen) == saved

Saves(seen) == IF seen \notin {Nothing, ver} THEN seen ELSE saved

\* The connection may also fail on the question.
Switches ==
    /\ At("switch")
    /\ \E seen \in {Seen, Nothing} :
          /\ saved' = Saves(seen) /\ bare' = (bare \/ seen = Nothing \/ link = Nothing)
          /\ \/ link' = ver /\ Goes
             \/ link' \in {link, ver} /\ Fails
    /\ UNCHANGED <<made, whole, running>>

Loaded == IF link \in whole THEN link ELSE Nothing

\* The restart command: it may fail before, in between or after.
Restarts ==
    /\ At("restart") /\ UNCHANGED <<made, whole, link, saved, bare>>
    /\ \/ running' = Loaded /\ Goes
       \/ running' \in {running, Nothing, Loaded} /\ Fails

\* Mutant: the answer of curl is not looked at.
HealthyAnyhow == TRUE

Healthy == running \in Sound

ChecksHealth ==
    /\ At("health") /\ UNCHANGED <<server, saved, bare>>
    /\ \/ Healthy /\ Goes
       \/ Fails

Undone == IF saved = Nothing THEN link ELSE saved

\* _rollback: the link gets its previous target back; a failure is only logged, and
\* the service is not restarted.
Undoes ==
    /\ at = "undo"
    /\ \/ link' = Undone /\ EndsBadly("failed", bare)
       \/ saved # Nothing /\ link' \in {link, Undone} /\ EndsBadly("failed", TRUE)
    /\ UNCHANGED <<made, whole, running>>

\* The process stops in the middle of a run.
Dies ==
    /\ InRun /\ at' = "idle" /\ told' = "failed" /\ marred' = TRUE
    /\ UNCHANGED <<server, ver, steps, k, saved, stop, runs, bare, undoable, lastGood,
                   prior, was, overlap>>

Newer(v) == {w \in Version : made[w] > made[v]}

\* The rollback of a release that succeeded: ls -1t | sed -n 2p, ln -sfn.
RollsBack ==
    /\ undoable /\ undoable' = FALSE
    /\ link' \in {v \in Version : made[v] > 0 /\ \E w \in Version : Newer(v) = {w}}
    /\ lastGood' = link' /\ overlap' = TRUE
    /\ marred' = (marred \/ link' # prior)
    /\ UNCHANGED <<made, whole, running, run, told, prior, was>>

ReleaseNext ==
    \/ \E v \in Version, r \in Recipes : Starts(v, r)
    \/ RaisesFlag \/ Cancels \/ Deploys \/ Switches \/ Restarts \/ ChecksHealth
    \/ Undoes \/ Dies \/ RollsBack

ReleaseSpec == ReleaseInit /\ [][ReleaseNext]_releaseVars

-----------------------------------------------------------------------------
Target == Version \cup {Nothing, Loop}

ReleaseTypeOK ==
    /\ made \in [Version -> Nat] /\ whole \subseteq Version
    /\ link \in Target /\ running \in Version \cup {Nothing}
    /\ at \in {"idle", "step", "undo"} /\ ver \in Version \cup {Nothing}
    /\ steps \in Recipes \cup {<<>>} /\ k \in Nat \ {0} /\ (InRun => k <= Len(steps))
    /\ saved \in Target /\ stop \in BOOLEAN /\ runs \in 0..MaxRuns
    /\ told \in {"none", "success", "failed", "canceled"}
    /\ undoable \in BOOLEAN /\ lastGood \in Target /\ prior \in Target
    /\ was \in Target /\ overlap \in BOOLEAN /\ bare \in BOOLEAN /\ marred \in BOOLEAN

\* Between two runs the link names the release of the last success, or what a
\* rollback went back to, although runs failed in between at any step: the engine
\* takes a failed switch back.  The exceptions are named by marred: a run that was
\* canceled, killed or met a rollback, a switch that found no previous target, a
\* relink that failed.
AtRestLinkIsLastGood == at = "idle" /\ ~marred => link = lastGood

\* A run that switches, restarts, ends with its health check, and reports success
\* leaves its own version linked and running, and the process was healthy, whatever
\* the commands of its steps did; unless a rollback fell into it.
SuccessIsServed ==
    [][ InRun /\ told' = "success" /\ ~InRun' /\ steps = <<"deploy", "switch", "restart", "health">>
           => overlap \/ (link = ver /\ running = ver /\ ver \in Sound) ]_releaseVars

\* Whatever became of the runs before, the server is left in a state the next run and
\* the users can rely on.
LinkIsSound == ReleaseTypeOK /\ AtRestLinkIsLastGood

\* Both, for a run to check: between two runs and when one reports success.
ReleaseIsSound == []LinkIsSound /\ SuccessIsServed
=============================================================================
