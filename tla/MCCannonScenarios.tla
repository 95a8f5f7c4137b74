-------------------------- MODULE MCCannonScenarios --------------------------
(* A behaviour is one of four: two transactions that two requests race to     *)
(* hand over; one transaction whose executions and broadcasts overlap; one    *)
(* with restarts and a second instance; or a cannon without a target that     *)
(* drains.                                                                    *)
EXTENDS MCCannonTracker

VARIABLE scenario

\* The cannon that drains; the others are restrictions of CannonTracker with
\* the constants of the cfg.
Drain == INSTANCE CannonTracker WITH
        AuthAttempts <- 1, CastAttempts <- 0, HasTarget <- FALSE, MaxInstances <- 1,
        MaxHeight <- 0, MaxWork <- 1, MaxAttempts <- 3, MaxSubmissions <- 1, Crashes <- FALSE

Draining == scenario = "draining"
Racing == scenario = "racing"
Overlapping == scenario = "overlapping"
Restarting == scenario = "restarting"

\* One instance, and no restart; transactions are submitted once; one request
\* is served at a time.
Alone == made' = 1 /\ ~Restart
Once == \A t \in Txs : submitted'[t] <= 1
Serial == \A c, d \in Clients : client'[c] # Idle /\ client'[d] # Idle => c = d

\* The bounds of a scenario: transactions, chain, executions and broadcasts at
\* a time.
Upto(S, height, work) ==
    /\ \A t \in Txs \ S : submitted'[t] = 0
    /\ chain' <= height
    /\ \A i \in Instances : BagCardinality(execs'[i]) <= work /\ BagCardinality(shots'[i]) <= work

MCInit == \/ scenario \in {"racing", "overlapping", "restarting"} /\ Init
          \/ Draining /\ Drain!Init
MCNext == /\ UNCHANGED scenario
          /\ \/ Racing /\ Next /\ Alone /\ Once /\ Upto(Txs, 0, 1)
             \/ Overlapping /\ Next /\ Alone /\ Serial /\ Upto({x1}, 2, 2)
             \/ Restarting /\ Next /\ Once /\ Upto({x1}, 1, 1)
             \/ Draining /\ Drain!Next

\* The fairness of CannonTracker, of the steps a cannon that drains can take:
\* it broadcasts nothing and confirms nothing.
On(A) == Draining /\ A
MCFairness ==
    /\ SF_vars(On(Drain!Sweep(Txs))) /\ WF_vars(On(Drain!SweepEnds))
    /\ \A c \in Clients : WF_vars(On(Drain!Serve(c)))
    /\ WF_vars(On(Drain!RecvAuth(1))) /\ WF_vars(On(Drain!RecvTx(1)))
    /\ WF_vars(On(Drain!Spawn(1)))
    /\ \A t \in Txs :
        /\ WF_vars(On(Drain!Forget(t))) /\ WF_vars(On(Drain!DeleteRows(t)))
        /\ SF_vars(On(Drain!StartExec(1, t)))
        /\ WF_vars(On(Drain!ExecDone(1, t) \/ Drain!ExecFails(1, t)))

MCSpec == MCInit /\ [][MCNext]_<<vars, scenario>> /\ MCFairness

\* SinkDrains, for the cannon without a target.
SinkDrainsOnce == Draining => Drain!SinkDrains

\* IndexesUnique, where two requests are served at a time; SentHasTransaction,
\* where results of executions and answers of nodes arrive late or twice; and
\* the types.
TrackersAreSound ==
    /\ ~Draining => TypeOK
    /\ Racing => IndexesUnique
    /\ Overlapping => SentHasTransaction
\* RowsFollowTrackers and TrackedIsPersisted, across restarts and instances.
RowsFollow == Restarting => RowsFollowTrackers /\ TrackedIsPersisted
\* AcceptedIsKept, across restarts.
AcceptedIsKeptAgain == [][Restarting => KeepsAccepted]_vars
=============================================================================
