--------------------------- MODULE MCEnvScenarios ---------------------------
(* A behaviour is one of two: any documents served one at a time, or two    *)
(* documents and their reapplies with restarts and takeovers.               *)
EXTENDS MCEnvLifecycle

VARIABLE scenario

R == INSTANCE EnvLifecycle WITH
        Requests <- {top, h1}, Documents <- SameNodes, Takeovers <- TRUE, Crashes <- TRUE

InTurn == scenario = "in turn"
Restarting == scenario = "restarting"

MCInit == \/ InTurn /\ Init
          \/ Restarting /\ R!Init
MCNext == /\ UNCHANGED scenario
          /\ \/ InTurn /\ Next
             \/ Restarting /\ R!Next
MCSpec == MCInit /\ [][MCNext]_<<vars, scenario>> /\ Fairness

\* Agreement and ExclusiveDelegation (and the types), where requests are served
\* one at a time and the control plane is not restarted.
AgreementInTurn == InTurn => TypeOK /\ Agreement /\ ExclusiveDelegation
\* CleanupFreesAgents, where requests that are being served go on.
CleanupFreesInTurn == InTurn => CleanupFreesAgents
=============================================================================
