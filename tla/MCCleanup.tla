------------------------------ MODULE MCCleanup ------------------------------
(***************************************************************************)
(* An instance of the two components that delete what is no longer needed: *)
(* a SQL cleanup job (CleanupJob) and the packages of the file center      *)
(* (Packages).  A behaviour is about one of them; the other stays as it    *)
(* starts.  A package protected by hand needs no other reason.             *)
(***************************************************************************)
EXTENDS CleanupJob, Packages, TLC

CONSTANT p1

VARIABLE about

MCInit ==
    /\ about \in {"job", "packages"} /\ Init /\ PackagesInit
    /\ about = "job" => Started = {} /\ On(p1) /\ meta[p1].used = None
    /\ meta[p1].protected => about = "packages" /\ Started = {} /\ On(p1)
JobStep == about = "job" /\ Next /\ UNCHANGED <<about, packagesVars>>
PackagesStep == about = "packages" /\ PackagesNext /\ UNCHANGED <<about, vars>>
MCNext == JobStep \/ PackagesStep
MCSpec == MCInit /\ [][MCNext]_<<about, vars, packagesVars>>

Symmetric == Permutations(Session) \cup Permutations(Loop)
=============================================================================
