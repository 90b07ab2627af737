------------------------------ MODULE BlueGreen ------------------------------
(***************************************************************************)
(* Blue-green updates: execute_blue_green_update of                        *)
(* app/services/blue_green.py, and the step handler that calls it for each *)
(* server of a plan (_bg_update_handler, plan_executor.py).  An update is  *)
(* one such step; the steps of two plans are executed by two threads, and  *)
(* no lock keeps them apart.                                               *)
(*                                                                         *)
(* binupdate.sh and portupdate.sh are outside the repository: what they    *)
(* have done when the answer comes, and what the answer is, are two        *)
(* choices.  The directory task_port names is the one that serves; whether *)
(* the proxy was reloaded is not modelled, for the code never asks.        *)
(***************************************************************************)
EXTENDS Naturals, Sequences

CONSTANTS
    Server, Update,
    Targets,        \* update -> its servers, in order
    Packaged,       \* the updates that upload a package
    Drift,          \* pm2 ids of a server may have changed places
    NoUpdate

Dir == {"blue", "green"}
VERIFY_POLL_TIMES == 3
NoPid == 0

ASSUME BlueGreenAssumption ==
    /\ Targets \in [Update -> Seq(Server)] /\ \A u \in Update : Len(Targets[u]) > 0
    /\ \A u \in Update : \A i, k \in 1..Len(Targets[u]) : Targets[u][i] = Targets[u][k] => i = k
    /\ Packaged \subseteq Update /\ Drift \in BOOLEAN /\ NoUpdate \notin Update

VARIABLES
    port,       \* server -> the directory task_port names
    zip,        \* server -> directory -> whose package lies there
    disk,       \* server -> directory -> whose program is unpacked
    live,       \* server -> directory -> whose program its process runs
    pid,        \* server -> directory -> its process
    place, n,   \* update -> its place, the number of its server
    active,     \* update -> what it took for the serving directory
    before,     \* update -> the pid it saw before the update
    polls,      \* update -> failed looks after the switch
    outcome,    \* update -> server -> what it reports
    hurt,       \* history: servers whose serving process was restarted
    shared,     \* history: servers two updates were on at a time
    drifted,    \* history: servers where a restart hit the other directory
    unsure      \* history: <<update, server>> whose switch, recheck or rollback
                \*          gave no answer, or a bad one

serverVars == <<port, zip, disk, live, pid>>
local == <<active, before, polls>>
updateVars == <<place, n, local, outcome>>
history == <<hurt, shared, drifted, unsure>>
blueGreenVars == <<serverVars, updateVars, history>>

BlueGreenInit ==
    /\ port \in [Server -> Dir]
    /\ zip = [s \in Server |-> [d \in Dir |-> NoUpdate]] /\ disk = zip /\ live = zip
    /\ pid = [s \in Server |-> [d \in Dir |-> 1]]
    /\ place = [u \in Update |-> "probe"] /\ n = [u \in Update |-> 1]
    /\ active = [u \in Update |-> "blue"] /\ before = [u \in Update |-> NoPid]
    /\ polls = [u \in Update |-> 0]
    /\ outcome = [u \in Update |-> [s \in Server |-> "none"]]
    /\ hurt = {} /\ shared = {} /\ drifted = {} /\ unsure = {}

Other(d) == IF d = "blue" THEN "green" ELSE "blue"
standby(u) == Other(active[u])
Here(u) == Targets[u][n[u]]
\* Between its probe and its report.
On(u, s) == place[u] \notin {"probe", "over"} /\ Here(u) = s

After == [probe |-> "upload", upload |-> "snapshot", snapshot |-> "update",
          update |-> "verify", verify |-> "switch", switch |-> "recheck"]

Enters(u, where) == place' = [place EXCEPT ![u] = where] /\ UNCHANGED <<n, outcome>>
Proceeds(u) == Enters(u, After[place[u]]) /\ UNCHANGED local

\* The report on this server, and the end of what was known of it; a failed server
\* does not stop the ones behind it.
Reports(u, x) ==
    /\ active' = [active EXCEPT ![u] = "blue"] /\ before' = [before EXCEPT ![u] = NoPid]
    /\ polls' = [polls EXCEPT ![u] = 0]
    /\ outcome' = [outcome EXCEPT ![u][Here(u)] = x]
    /\ n' = [n EXCEPT ![u] = IF @ < Len(Targets[u]) THEN @ + 1 ELSE @]
    /\ place' = [place EXCEPT ![u] = IF n[u] < Len(Targets[u]) THEN "probe" ELSE "over"]

-----------------------------------------------------------------------------
\* Mutant: the plan's idea of the serving directory, from before its approval.
ProbedFrozen(u) == "blue"

Probed(u) == port[Here(u)]

Probes(u) ==
    /\ place[u] = "probe" /\ Enters(u, After.probe)
    /\ active' = [active EXCEPT ![u] = Probed(u)] /\ UNCHANGED <<before, polls>>
    /\ shared' = shared \cup {s \in {Here(u)} : \E o \in Update \ {u} : On(o, s)}
    /\ UNCHANGED <<serverVars, hurt, drifted, unsure>>

Uploads(u) ==
    /\ place[u] = "upload" /\ Proceeds(u)
    /\ zip' = IF u \in Packaged THEN [zip EXCEPT ![Here(u)][standby(u)] = u] ELSE zip
    /\ UNCHANGED <<port, disk, live, pid, history>>

\* pm2 may not answer; then there is no pid to compare with.
Snapshots(u) ==
    /\ place[u] = "snapshot" /\ Enters(u, After.snapshot)
    /\ \E p \in {pid[Here(u)][standby(u)], NoPid} : before' = [before EXCEPT ![u] = p]
    /\ UNCHANGED <<serverVars, active, polls, history>>

\* pm2 restart: the process of directory d runs what is unpacked there now.
RestartsProcess(s, d) ==
    /\ live' = [live EXCEPT ![s][d] = disk'[s][d]]
    /\ pid' = [pid EXCEPT ![s][d] = @ + 1]
    /\ hurt' = IF port[s] = d THEN hurt \cup {s} ELSE hurt

\* What binupdate.sh has done: unpacked the package, and then restarted a process.
BinUpdate(u, s) ==
    \/ UNCHANGED <<disk, live, pid, hurt, drifted>>
    \/ /\ disk' = [disk EXCEPT ![s][standby(u)] = zip[s][standby(u)]]
       /\ \/ UNCHANGED <<live, pid, hurt, drifted>>
          \/ RestartsProcess(s, standby(u)) /\ UNCHANGED drifted
          \/ Drift /\ RestartsProcess(s, active[u]) /\ drifted' = drifted \cup {s}

Updates(u) ==
    /\ place[u] = "update" /\ BinUpdate(u, Here(u))
    /\ Proceeds(u) \/ Reports(u, "failed")
    /\ UNCHANGED <<port, zip, shared, unsure>>

\* Mutant: the process is not compared with the one seen before.
MayPassAny(u) == TRUE

\* The process changed, if there is one to compare with.  (It must be online and
\* its log fresh as well: if not, GivesUp.)
MayPass(u) == before[u] = NoPid \/ pid[Here(u)][standby(u)] # before[u]

Verifies(u) ==
    /\ place[u] = "verify" /\ MayPass(u) /\ Proceeds(u)
    /\ UNCHANGED <<serverVars, history>>

\* portupdate.sh in a directory: done or not.
PortUpdate(s, d) == port' = port \/ port' = [port EXCEPT ![s] = d]

Doubts(u) == unsure' = unsure \cup {<<u, Here(u)>>}

SwitchesPort(u) ==
    /\ place[u] = "switch" /\ PortUpdate(Here(u), standby(u))
    /\ \/ Proceeds(u) /\ UNCHANGED unsure
       \/ Reports(u, "failed") /\ Doubts(u)
    /\ UNCHANGED <<zip, disk, live, pid, hurt, shared, drifted>>

Rechecks(u) ==
    /\ place[u] = "recheck"
    /\ \/ port[Here(u)] = standby(u) /\ Reports(u, "ok")
       \/ /\ polls' = [polls EXCEPT ![u] = @ + 1]
          /\ Enters(u, IF polls'[u] = VERIFY_POLL_TIMES THEN "rollback" ELSE "recheck")
          /\ UNCHANGED <<active, before>>
    /\ UNCHANGED <<serverVars, history>>

\* portupdate.sh of the old directory: "warned" if it exits with an error.
SwitchesBack(u) ==
    /\ place[u] = "rollback" /\ PortUpdate(Here(u), active[u])
    /\ \/ Enters(u, "confirm") /\ UNCHANGED <<local, unsure>>
       \/ Reports(u, "warned") /\ UNCHANGED unsure
       \/ Reports(u, "failed") /\ Doubts(u)
    /\ UNCHANGED <<zip, disk, live, pid, hurt, shared, drifted>>

\* task_port is read and noted; nobody looks at the note.
Confirms(u) ==
    /\ place[u] = "confirm" /\ Reports(u, "rolled")
    /\ UNCHANGED <<serverVars, history>>

\* No connection, no directory, an unknown port, a failed upload, a command that
\* exits with an error or raises; after the switch an exception only.
GivesUp(u) ==
    /\ place[u] \in {"probe", "upload", "snapshot", "verify", "recheck", "confirm"}
    /\ Reports(u, "failed")
    /\ IF place[u] \in {"recheck", "confirm"} THEN Doubts(u) ELSE UNCHANGED unsure
    /\ UNCHANGED <<serverVars, hurt, shared, drifted>>

UpdateStep(u) ==
    \/ Probes(u) \/ Uploads(u) \/ Snapshots(u) \/ Updates(u) \/ Verifies(u)
    \/ SwitchesPort(u) \/ Rechecks(u) \/ SwitchesBack(u) \/ Confirms(u) \/ GivesUp(u)

BlueGreenNext == \E u \in Update : UpdateStep(u)

BlueGreenSpec == BlueGreenInit /\ [][BlueGreenNext]_blueGreenVars

-----------------------------------------------------------------------------
BlueGreenTypeOK ==
    /\ port \in [Server -> Dir]
    /\ \A x \in {zip, disk, live} : x \in [Server -> [Dir -> Update \cup {NoUpdate}]]
    /\ pid \in [Server -> [Dir -> Nat]]
    /\ place \in [Update -> DOMAIN After \cup {"recheck", "rollback", "confirm", "over"}]
    /\ n \in [Update -> Nat] /\ \A u \in Update : n[u] \in 1..Len(Targets[u])
    /\ active \in [Update -> Dir] /\ before \in [Update -> Nat]
    /\ polls \in [Update -> 0..VERIFY_POLL_TIMES]
    /\ outcome \in [Update -> [Server -> {"none", "ok", "failed", "rolled", "warned"}]]
    /\ hurt \subseteq Server /\ shared \subseteq Server /\ drifted \subseteq Server
    /\ unsure \subseteq Update \X Server

Told(u, s, x) == outcome[u][s] = "none" /\ outcome'[u][s] = x

\* The process that serves is restarted only where two updates met, or where the
\* script's pm2 id names the other directory's process.
LiveIsLeftAlone == hurt \subseteq shared \cup drifted

\* The records are well formed, and what serves is not touched.
LiveIsSound == BlueGreenTypeOK /\ LiveIsLeftAlone

\* A server reported as updated is served by the other directory, and its process
\* was restarted on the package this update uploaded (if it uploaded one, and pm2 told
\* the old pid): unless two updates met on it.
SuccessServesThePackage ==
    [][\A u \in Update, s \in Server : Told(u, s, "ok") /\ s \notin shared =>
          /\ port'[s] = standby(u)
          /\ u \in Packaged /\ before[u] # NoPid => live[s][standby(u)] = u]_blueGreenVars

\* A server reported as failed and not rolled back serves as before, unless the
\* script of the switch or what came after it gave no good answer, or two updates met.
FailureLeavesThePort ==
    [][\A u \in Update, s \in Server :
          Told(u, s, "failed") /\ On(u, s) /\ s \notin shared /\ <<u, s>> \notin unsure' =>
             port'[s] = active[u]]_blueGreenVars

\* What is reported of a server, a success or a failure, is what it serves then.
ReportIsTrue == SuccessServesThePackage /\ FailureLeavesThePort

\* Both, for a run to check: what is left alone and what is reported.
BlueGreenIsSound == []LiveIsSound /\ ReportIsTrue
=============================================================================
