------------------------ MODULE MCReconcileScenarios ------------------------
(* A behaviour is one of two: several storages, heights, failures and        *)
(* crashes; or one storage and two heights, where progress is asked for.     *)
EXTENDS MCAgentReconciler

VARIABLE scenario

K == INSTANCE AgentReconciler WITH
        Storages <- OneStorage, Heights <- TopOrCheckpoint, MaxQueue <- 1,
        Results <- {"ok", "failed"}, Moves <- Moves \ {"crash"}

Calm == scenario = "calm"
Failing == scenario = "failing"

MCInit == \/ Failing /\ Init
          \/ Calm /\ K!Init
MCNext == /\ UNCHANGED scenario
          /\ \/ Failing /\ Next
             \/ Calm /\ K!Next

\* The fairness of AgentReconciler, for the calm scenario.
On(A) == Calm /\ A
MCFairness ==
    /\ WF_vars(On(K!Pass))
    /\ SF_vars(On(K!GetEnvInfo)) /\ SF_vars(On(K!InfoStep))
    /\ SF_vars(On(K!LedgerStep)) /\ SF_vars(On(K!StartNode))
    /\ WF_vars(On(Alive /\ ctx.process.signal /\ K!NodeExits))
    /\ WF_vars(On(\E r \in {"ok", "failed"} : K!ModifyEnds(r))) /\ SF_vars(On(K!ModifyEnds("ok")))

MCSpec == MCInit /\ [][MCNext]_<<vars, scenario>> /\ MCFairness

\* RequestedNodeRuns and UnwantedNodeStops, where modifications do not end in errors.
RequestedNodeRunsCalmly == Calm => K!RequestedNodeRuns
UnwantedNodeStopsCalmly == Calm => K!UnwantedNodeStops
=============================================================================
