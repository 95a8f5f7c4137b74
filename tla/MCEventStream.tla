--------------------------- MODULE MCEventStream ---------------------------
(* Two agents and a power action, a client that waits, and the filters a   *)
(* client can build.                                                       *)
EXTENDS EventStream

CONSTANTS a1, a2, e1, all, first

MCMatching == (all :> {a1, a2}) @@ (first :> {a1})

MCNodeSets == {{a1, a2}}

\* Building a filter touches nothing else, so that it is explored where
\* nothing has happened yet.
Explores == client.filter # WaitFilter
\* The request and the client do not see each other: where the websocket
\* is open the request only changes the agents, and its wait is left out,
\* and a reconcile is queued again only where there is no request yet.
MCNext ==
    /\ Next
    /\ Explores' => UNCHANGED <<log, agents, request, noise>> /\ log = <<>>
    /\ socket.pos # None /\ request.step \in {"updated", "waiting"} => UNCHANGED request
    /\ noise' # noise => socket.pos # None /\ request.step = "idle"

MCSpec ==
    /\ Init /\ [][MCNext]_vars
    /\ \A a \in AgentIds : WF_vars(Start(a)) /\ SF_vars(Complete(a))
    /\ WF_vars(Forward) /\ WF_vars(Ping) /\ WF_vars(Next1)
=============================================================================
