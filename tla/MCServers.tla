------------------------------ MODULE MCServers ------------------------------
(***************************************************************************)
(* An instance of the two ways a server gets a new version: the steps of a *)
(* pipeline with their releases (Release) and the blue-green update        *)
(* (BlueGreen).  A behaviour is about one of them; the other stays as it   *)
(* starts.  Of three versions one never answers a health check.            *)
(***************************************************************************)
EXTENDS Release, BlueGreen

VARIABLE about

\* The lists of steps that occur in the code: with a switch before the restart and
\* the check, or after the check; the default of _default_steps_for; the templates
\* standard_web and blue_green.
MCRecipes == { <<"deploy", "switch", "restart", "health">>,
               <<"deploy", "health", "switch", "restart">>,
               <<"deploy", "health", "restart">>,
               <<"deploy", "restart", "health">>,
               <<"nested", "health", "switch", "restart">> }

\* One plan updates two servers, another the second of them as well.
MCTargets == [r1 |-> <<"s1", "s2">>, r2 |-> <<"s2">>]

MCInit ==
    /\ about \in {"release", "blue-green"} /\ ReleaseInit /\ BlueGreenInit
    /\ about # "release" => link = "nothing"
    /\ port["s1"] = "blue" /\ (about # "blue-green" => port["s2"] = "blue")
ReleaseStep == about = "release" /\ ReleaseNext /\ UNCHANGED <<about, blueGreenVars>>
BlueGreenStep == about = "blue-green" /\ BlueGreenNext /\ UNCHANGED <<about, releaseVars>>
MCNext == ReleaseStep \/ BlueGreenStep
MCSpec == MCInit /\ [][MCNext]_<<about, releaseVars, blueGreenVars>>
=============================================================================
