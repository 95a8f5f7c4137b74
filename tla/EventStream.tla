---------------------------- MODULE EventStream -----------------------------
(***************************************************************************)
(* Waiting for events.  The control plane broadcasts events on a channel   *)
(* of a fixed capacity (controlplane/src/events/stream.rs): a subscriber   *)
(* that falls behind loses the oldest.  A power action waits in its        *)
(* request for the nodes it changed (server/actions/power.rs); the command *)
(* line client opens a websocket (server/event_ws.rs, cli/src/events.rs)   *)
(* and waits there (post_and_wait of cli/src/commands/env/mod.rs).         *)
(*                                                                         *)
(* One environment; a node is named as its agent.                          *)
(***************************************************************************)
EXTENDS EventFilters

CONSTANTS
    Capacity,  \* of the broadcast channel
    Env,       \* the environment
    NodeSets,  \* the sets of nodes that requests change
    Noise,     \* bound on the reconciles that end without being complete
    Depth      \* bound on the operators a client puts on a filter

ASSUME EventStreamAssumption ==
    /\ Capacity \in Nat \ {0} /\ Noise \in Nat /\ Depth \in Nat
    /\ EnvNames = {Env} /\ NodeSets \subseteq SUBSET AgentIds
    /\ {"agent-reconcile", "agent-reconcile-complete"} \subseteq Kinds

VARIABLES
    log,      \* every event that was emitted, with the state it is about
    agents,   \* per agent: the state it should have, the one it works on, the last done
    request,  \* the request of a power action
    client,   \* the command line client
    socket,   \* its websocket in the control plane
    noise

vars == <<log, agents, request, client, socket, noise>>

----------------------------------------------------------------------------
(* The channel.  A subscriber is the index of the next event it reads.     *)

Subscribed == Len(log) + 1
Lagged(pos) == pos + Capacity <= Len(log)
Oldest == Len(log) - Capacity + 1
Readable(pos) == pos <= Len(log) /\ ~Lagged(pos)

----------------------------------------------------------------------------
(* The agents.  post_reconcile_status emits the status, and a completion   *)
(* when nothing is left to do; both carry the agent's node and environment.*)

AgentEvent(a, kind) == [agent |-> a, env |-> Env, node |-> a, event |-> kind]
Posted(a, kinds) ==
    [i \in DOMAIN kinds |-> [event |-> AgentEvent(a, kinds[i]), about |-> agents[a].works]]

Start(a) ==
    /\ agents[a].works = None /\ agents[a].done < agents[a].should
    /\ agents' = [agents EXCEPT ![a].works = agents[a].should]
    /\ UNCHANGED <<log, request, client, socket, noise>>

Complete(a) ==
    /\ agents[a].works # None
    /\ log' = log \o Posted(a, <<"agent-reconcile", "agent-reconcile-complete">>)
    /\ agents' = [agents EXCEPT ![a].done = agents[a].works, ![a].works = None]
    /\ UNCHANGED <<request, client, socket, noise>>

Requeue(a) ==
    /\ agents[a].works # None /\ noise < Noise
    /\ noise' = noise + 1
    /\ log' = log \o Posted(a, <<"agent-reconcile">>)
    /\ UNCHANGED <<agents, request, client, socket>>

Changed(nodes) ==
    [a \in AgentIds |-> [agents[a] EXCEPT !.should = IF a \in nodes THEN @ + 1 ELSE @]]

----------------------------------------------------------------------------
(* A power action.                                                         *)

PowerFilter == And(And(TargetIs(<<CHOOSE t \in Targets : Matching[t] = AgentIds>>),
                       Is("env", Env)),
                   Is("event", "agent-reconcile-complete"))

\* The nodes to change are computed, then the subscriber is created.
Subscribe ==
    /\ request.step = "idle"
    /\ \E nodes \in NodeSets :
          request' = [step |-> "subscribed", pos |-> Subscribed, waits |-> nodes,
                      from |-> [a \in AgentIds |-> agents[a].should + 1], lost |-> FALSE]
    /\ UNCHANGED <<log, agents, client, socket, noise>>

\* update_agent_states, or queue_many_reconciles for a reboot.
Update ==
    /\ request.step = "subscribed"
    /\ agents' = Changed(request.waits)
    /\ request' = [request EXCEPT !.step = "updated"]
    /\ UNCHANGED <<log, client, socket, noise>>

\* Mutant: the subscriber is created after the states were updated.
UpdatedAndSubscribed ==
    /\ request.step = "updated"
    /\ request' = [request EXCEPT !.step = "waiting", !.pos = Subscribed]
    /\ UNCHANGED <<log, agents, client, socket, noise>>

\* The calls to the agents have returned.
Updated ==
    /\ request.step = "updated"
    /\ request' = [request EXCEPT !.step = "waiting"]
    /\ UNCHANGED <<log, agents, client, socket, noise>>

Hear ==
    /\ request.step = "waiting" /\ request.waits # {} /\ request.pos <= Len(log)
    /\ IF Lagged(request.pos)
       THEN request' = [request EXCEPT !.pos = Oldest, !.lost = TRUE]
       ELSE LET e == log[request.pos].event
            IN request' = [request EXCEPT !.pos = @ + 1,
                               !.waits = IF Matches(e, PowerFilter) THEN @ \ {e.agent} ELSE @]
    /\ UNCHANGED <<log, agents, client, socket, noise>>

\* The answer: all nodes are done, or 30 seconds are over.
Reply ==
    /\ request.step = "waiting"
    /\ request' = [request EXCEPT !.step = "replied"]
    /\ UNCHANGED <<log, agents, client, socket, noise>>

----------------------------------------------------------------------------
(* The client builds a filter, opens the websocket with it and posts its   *)
(* request; it reads what the socket has sent once it has the answer.      *)

\* EnvIs(env) & (AgentConnected | ... | AgentReconcileError)
WaitFilter == And(Is("env", Env),
                  Or(Is("event", "agent-reconcile"), Is("event", "agent-reconcile-complete")))

Meaning(f) == {e \in Events : Matches(e, f)}

\* A filter is combined with another one.  ^ is used only where no operand
\* is a list of it, nor the unfiltered filter.
Combine ==
    /\ client.step = "building" /\ client.depth < Depth
    /\ \E g \in Leaves \cup Lists, op \in {"and", "or", "not", "xor"} :
          /\ op = "xor" => \A f \in {g, client.filter} : f.op \notin {"one-of", "unfiltered"}
          /\ client' = [client EXCEPT !.depth = @ + 1,
                !.filter = CASE op = "and" -> And(@, g) [] op = "or" -> Or(@, g)
                             [] op = "not" -> Not(@) [] op = "xor" -> Xor(@, g),
                !.meant = CASE op = "and" -> @ \cap Meaning(g) [] op = "or" -> @ \cup Meaning(g)
                            [] op = "not" -> Events \ @
                            [] op = "xor" -> (@ \ Meaning(g)) \cup (Meaning(g) \ @)]
    /\ UNCHANGED <<log, agents, request, socket, noise>>

\* The websocket request carries the filter as a string.
Send ==
    /\ client.step = "building"
    /\ client' = [client EXCEPT !.step = "sent", !.filter = Parse(Display(@)).value]
    /\ UNCHANGED <<log, agents, request, socket, noise>>

Open ==
    /\ client.step = "building" /\ client.filter = WaitFilter
    /\ client' = [client EXCEPT !.step = "open", !.filter = Parse(Display(@)).value]
    /\ socket' = [socket EXCEPT !.pos = Subscribed]
    /\ UNCHANGED <<log, agents, request, noise>>

\* The request of the client changes the nodes and is answered with them.
Post ==
    /\ client.step = "open"
    /\ \E nodes \in NodeSets :
          /\ agents' = Changed(nodes)
          /\ client' = [client EXCEPT !.step = "waiting", !.nodes = nodes]
    /\ UNCHANGED <<log, request, socket, noise>>

\* handle_ws: an event is forwarded.  When events were lost the branch of
\* the events is off until the client sends something.
Forward ==
    /\ socket.pos # None /\ ~socket.deaf
    /\ socket.pos <= Len(log)
    /\ socket' = IF Lagged(socket.pos)
                 THEN [socket EXCEPT !.pos = Oldest, !.deaf = TRUE, !.lost = TRUE]
                 ELSE [socket EXCEPT !.pos = @ + 1,
                           !.queue = IF Matches(log[socket.pos].event, client.filter)
                                     THEN Append(@, log[socket.pos].event) ELSE @]
    /\ UNCHANGED <<log, agents, request, client, noise>>

\* The client pings every ten seconds while it waits.
Done(e) == e.node # None /\ e.event = "agent-reconcile-complete"

Ping ==
    /\ client.step = "waiting" /\ socket.deaf
    /\ socket' = [socket EXCEPT !.deaf = FALSE]
    /\ UNCHANGED <<log, agents, request, client, noise>>

\* Mutant: it looks before it takes the node away.
Next1Early ==
    /\ client.step = "waiting" /\ socket.queue # <<>>
    /\ LET e == Head(socket.queue)
           left == IF Done(e) THEN client.nodes \ {e.node} ELSE client.nodes
       IN client' = [client EXCEPT !.nodes = left,
                         !.step = IF Done(e) /\ client.nodes = {} THEN "returned" ELSE @]
    /\ socket' = [socket EXCEPT !.queue = Tail(@)]
    /\ UNCHANGED <<log, agents, request, noise>>

\* The client looks at the nodes that are left only after an event of them.
Next1 ==
    /\ client.step = "waiting" /\ socket.queue # <<>>
    /\ LET e == Head(socket.queue)
           left == IF Done(e) THEN client.nodes \ {e.node} ELSE client.nodes
       IN client' = [client EXCEPT !.nodes = left,
                         !.step = IF Done(e) /\ left = {} THEN "returned" ELSE @]
    /\ socket' = [socket EXCEPT !.queue = Tail(@)]
    /\ UNCHANGED <<log, agents, request, noise>>

----------------------------------------------------------------------------
Init ==
    /\ log = <<>>
    /\ agents = [a \in AgentIds |-> [should |-> 1, works |-> None, done |-> 1]]
    /\ request = [step |-> "idle", pos |-> 1, waits |-> {},
                  from |-> [a \in AgentIds |-> 1], lost |-> FALSE]
    /\ \E f \in Leaves \cup {WaitFilter} :
          client = [step |-> "building", filter |-> f, meant |-> Meaning(f),
                    nodes |-> {}, depth |-> 0]
    /\ socket = [pos |-> None, deaf |-> FALSE, queue |-> <<>>, lost |-> FALSE]
    /\ noise = 0

Next ==
    \/ \E a \in AgentIds : Start(a) \/ Complete(a) \/ Requeue(a)
    \/ Subscribe \/ Update \/ Updated \/ Hear \/ Reply
    \/ Combine \/ Send \/ Open \/ Post \/ Forward \/ Ping \/ Next1

\* The agents reconcile, the tasks of the runtime are scheduled and the
\* client's timer ticks.
FairSpec ==
    /\ Init /\ [][Next]_vars
    /\ \A a \in AgentIds : WF_vars(Start(a)) /\ SF_vars(Complete(a))
    /\ WF_vars(Forward) /\ WF_vars(Ping) /\ WF_vars(Next1)

----------------------------------------------------------------------------
(* Properties.                                                             *)

\* A filter matches the events that were meant, whatever it was combined
\* from and in which order, and also after it was sent as a string: lists
\* are merged or nested, empty or of one operand, and an operand may be
\* the filter that lets everything through.
FilterMeansIt == client.filter # None /\ client.meant = Meaning(client.filter)

\* "create the subscriber before updating agent states in order to avoid
\* missing any events" (power.rs): a node the request still waits for has
\* not completed the state of the request, or a later one, in an event the
\* request has passed by, unless events were lost for falling behind.
NoCompletionMissed ==
    request.step \in {"subscribed", "updated", "waiting"} /\ ~request.lost =>
        \A a \in request.waits : \A i \in 1 .. request.pos - 1 :
            log[i].event # AgentEvent(a, "agent-reconcile-complete")
            \/ log[i].about < request.from[a]

\* The client that waits for nodes returns in the end, through reconciles
\* that are queued again and other requests, unless events were lost.
CliReturns ==
    (client.step = "waiting" /\ client.nodes # {})
        ~> (client.step = "returned" \/ socket.lost)
=============================================================================
