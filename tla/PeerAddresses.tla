--------------------------- MODULE PeerAddresses ---------------------------
(***************************************************************************)
(* How a node learns where its peers are.  The control plane turns the     *)
(* targets of a node into agents and ports (env/mod.rs) and pushes them in *)
(* the agent's state; the agent asks for the addresses (server/rpc.rs,     *)
(* reconcile/address.rs), keeps them in a cache that survives it (agent    *)
(* db.rs) and starts the node with what it knows (reconcile/command.rs).   *)
(* An agent that connects reports where it is (server/agent_ws.rs), and    *)
(* update_peer_addr tells the others.                                      *)
(*                                                                         *)
(* A call of the control plane reaches an agent at once or is lost with    *)
(* its connection, and an answer takes effect before any later call; the   *)
(* handshake, which waits for answers of its own, is the exception.  What  *)
(* pushes may do to each other is the subject of AgentSync; which agent    *)
(* gets which node, that of AgentClaims and EnvLifecycle.                  *)
(***************************************************************************)
EXTENDS NodeDocuments, FiniteSets

CONSTANTS
    Agents,
    Worlds,      \* where agents start and may move, and how much may happen:
                 \* [at, places, hasty, troubles, applies, documents]
    AgentFor,    \* [node keys -> Agents]: the delegation
    Unknown,     \* the location of an agent that has reported none
    Inventory    \* the state of an agent without a node

ASSUME AddressesAssumption ==
    /\ \A w \in Worlds :
          /\ \A d \in w.documents : NodeKeys(d) \subseteq DOMAIN AgentFor
          /\ {w.troubles, w.applies} \subseteq Nat   \* bounds: moves, losses and
                                                   \* restarts; environments
          /\ w.at \in [Agents -> w.places] /\ Unknown \notin w.places

VARIABLES
    world,     \* the member of Worlds this run is in
    real,      \* [Agents -> locations]: the addresses and ports an agent runs with
    online,    \* [Agents -> BOOLEAN]: the websocket is up
    known,     \* the pool: addrs and ports of each agent, or Unknown
    state,     \* the pool: Inventory, or the peers, validators and key of a node
    env,       \* the environment: its nodes, their agents, the external nodes; or None
    greeting,  \* [Agents -> the state in a handshake that is not done, or None]
    fetching,  \* [Agents -> BOOLEAN]: get_addrs under way
    updates,   \* the calls of update_peer_addr that have not returned
    target,    \* the agent: agent_state, in memory and saved
    cache,     \* the agent: resolved_addrs
    saved,     \* the agent: resolved_addrs in its database
    info,      \* the agent: the environment's info is cached
    requests,  \* the agent: reconciles that are queued
    node,      \* the agent: the peers in the command of its node, or None
    unheard,   \* ghost: cached peers that moved while no environment linked the two,
               \* or whose old address came back with an agent that had no node
    spent      \* how often each bounded event happened

control == <<known, state, env, greeting, fetching, updates>>
agent == <<target, cache, saved, info, requests, node>>
vars == <<world, real, online, control, agent, unheard, spent>>

Empty == [b \in Agents |-> None]
PortOfType == [peers |-> "node", validators |-> "bft"]
PortTypes == DOMAIN PortOfType

Init ==
    /\ world \in Worlds /\ real = world.at
    /\ online = [a \in Agents |-> FALSE]
    /\ known = [a \in Agents |-> Unknown]
    /\ state = [a \in Agents |-> Inventory] /\ env = None
    /\ greeting = [a \in Agents |-> None] /\ fetching = [a \in Agents |-> FALSE]
    /\ updates = {}
    /\ target = [a \in Agents |-> Inventory]
    /\ cache = [a \in Agents |-> Empty] /\ saved = cache
    /\ info = [a \in Agents |-> FALSE]
    /\ requests = [a \in Agents |-> {}] /\ node = [a \in Agents |-> None]
    /\ unheard = [a \in Agents |-> {}]
    /\ spent = [troubles |-> 0, applies |-> 0]

Within(what) == /\ spent[what] < world[what]
                /\ spent' = [spent EXCEPT ![what] = @ + 1]

----------------------------------------------------------------------------
(* Who peers with whom.                                                    *)

KeyFor(e, a) == CHOOSE k \in DOMAIN e.agents : e.agents[k] = a
InEnv(e, a) == e # None /\ \E k \in DOMAIN e.agents : e.agents[k] = a

\* Agent::node_port, bft_port: 0 until the agent has reported.
PortOf(where, b, type) ==
    IF where[b] = Unknown THEN 0
    ELSE where[b][PortOfType[type]]

\* matching_nodes and not_me, for the peers or the validators of a's node.
Matching(e, where, a, type) ==
    LET targets == e.nodes[KeyFor(e, a)][type] IN
    {<<b, PortOf(where, b, type)>> :
        b \in {c \in Agents \ {a} : InEnv(e, c) /\ TargetsMatch(targets, KeyFor(e, c))}}
    \cup {<<None, e.external[k][PortOfType[type]]>> :
        k \in {x \in DOMAIN e.external :
                  TargetsMatch(targets, x) /\ e.external[x][PortOfType[type]] # None}}

ResolveNodeState(e, where, a) ==
    [peers |-> Matching(e, where, a, "peers"),
     validators |-> Matching(e, where, a, "validators"),
     key |-> LookupPk(e.nodes[KeyFor(e, a)].key)]

\* The agents among the peers and validators of a state.
Internal(s) == {p[1] : p \in s.peers \cup s.validators} \ {None}

\* nodes_with_peer
Referring(a) ==
    {b \in Agents \ {a} : InEnv(env, b) /\
        \E type \in PortTypes : TargetsMatch(env.nodes[KeyFor(env, b)][type], KeyFor(env, a))}

----------------------------------------------------------------------------
(* Addresses, as one agent sees them from another.                         *)

ResolveOneAddr(src, dst) ==
    IF src.external = dst.external /\ dst.internal # None THEN dst.internal ELSE dst.external

\* The RPC: one agent without addresses fails it for all.
Resolvable(a, S) == \A b \in S \cup {a} : known[b] # Unknown
Answer(a, S) == [b \in S \ {a} |-> ResolveOneAddr(known[a], known[b])]

\* Mutant: an address that is cached stays.
ExtendedMissing(old, new) ==
    [b \in Agents |-> IF b \in DOMAIN new /\ old[b] = None THEN new[b] ELSE old[b]]
Extended(old, new) ==
    [b \in Agents |-> IF b \in DOMAIN new /\ new[b] # None THEN new[b] ELSE old[b]]

----------------------------------------------------------------------------
(* The states and the agents in the databases: a tag before each part that *)
(* may be absent or has variants.                                          *)

WritePeer(p) == IF p[1] = None THEN <<1, p[2]>> ELSE <<0, p[1], p[2]>>
ReadPeer(data) ==
    IF data[1] = 1 THEN Got(<<None, data[2]>>, Past(data, 2))
    ELSE Got(<<data[2], data[3]>>, Past(data, 3))

WriteKey(k) == IF k = None THEN <<0>> ELSE IF k = "local" THEN <<1>> ELSE <<2, k>>
ReadKey(data) ==
    CASE data[1] = 0 -> Got(None, Tail(data))
      [] data[1] = 1 -> Got("local", Tail(data))
      [] data[1] = 2 -> Got(data[2], Past(data, 2))

\* The peers of a state are a list; their order is of no use.
WriteState(s) ==
    IF s = Inventory THEN <<0>>
    ELSE <<1>> \o WriteKey(s.key) \o WriteMany(WritePeer, SetToSeq(s.peers))
               \o WriteMany(WritePeer, SetToSeq(s.validators))
ReadState(data) ==
    IF data[1] = 0 THEN Inventory
    ELSE LET key == ReadKey(Tail(data))
             peers == ReadMany(ReadPeer, key.rest)
             validators == ReadMany(ReadPeer, peers.rest)
         IN [peers |-> ToSet(peers.value), validators |-> ToSet(validators.value),
             key |-> key.value]

\* Ports and addresses; of internal addresses there is one or none.
WriteLocation(l) ==
    IF l = Unknown THEN <<0>>
    ELSE <<1, l.node, l.bft, l.rest>>
             \o WriteOption(WriteValue, l.external) \o WriteOption(WriteValue, l.internal)
ReadLocation(data) ==
    IF data[1] = 0 THEN Unknown
    ELSE LET external == ReadOption(ReadValue, Past(data, 4)) IN
         [node |-> data[2], bft |-> data[3], rest |-> data[4], external |-> external.value,
          internal |-> ReadOption(ReadValue, external.rest).value]

----------------------------------------------------------------------------
(* The control plane.                                                      *)

\* queue_many_reconciles: who is connected gets its state.
Push(S, states) ==
    LET reached == {b \in S : online[b]} IN
    /\ target' = [b \in Agents |-> IF b \in reached THEN states[b] ELSE target[b]]
    /\ requests' = [b \in Agents |-> requests[b] \cup
                       (IF b \in reached THEN {"plain"} ELSE {})]

\* Where ports differ between locations, what they do to each other is left
\* to AgentSync: agents connect one at a time, and nothing overtakes an update.
PortsVary == \E l, m \in world.places : l.node # m.node \/ l.bft # m.bft
Calm == PortsVary => /\ updates = {}
                     /\ \A a \in Agents : greeting[a] = None /\ ~fetching[a]
NoGreeting == \A a \in Agents : greeting[a] = None

\* An apply, and one that follows a cleanup.  Overtaken handshakes: AgentSync.
Apply(d) ==
    /\ env = None /\ Calm /\ NoGreeting /\ Within("applies")
    /\ env' = [nodes |-> Flattened(d), external |-> d.external,
               agents |-> [k \in NodeKeys(d) |-> AgentFor[k]]]
    /\ LET S == {a \in Agents : InEnv(env', a)} IN
         /\ \A a \in S : online[a]
         /\ state' = [a \in Agents |-> IF a \in S THEN ResolveNodeState(env', known, a)
                                       ELSE state[a]]
         /\ Push(S, state')
    /\ UNCHANGED <<world, real, online, known, greeting, fetching, updates,
                   cache, saved, info, node, unheard>>

Cleanup ==
    /\ env # None /\ Calm /\ NoGreeting /\ updates = {}
    /\ spent.applies < world.applies
    /\ env' = None
    /\ state' = [a \in Agents |-> IF InEnv(env, a) THEN Inventory ELSE state[a]]
    /\ Push({a \in Agents : InEnv(env, a)}, state')
    /\ UNCHANGED <<world, real, online, known, greeting, fetching, updates,
                   cache, saved, info, node, unheard, spent>>

\* handle_socket: the handshake carries the state of the pool.
Connect(a) ==
    /\ ~online[a] /\ Calm
    /\ online' = [online EXCEPT ![a] = TRUE]
    /\ greeting' = [greeting EXCEPT ![a] = state[a]]
    /\ fetching' = [fetching EXCEPT ![a] = TRUE]
    /\ UNCHANGED <<world, real, known, state, env, updates, agent, unheard, spent>>

\* The agents update_peer_addr is about, with the states it collects for them.
NewStates(where, a) == [b \in Referring(a) |-> ResolveNodeState(env, where, b)]
\* Mutant: the agents that are away are left out.
PendingOnline(where, a, isPort) ==
    IF ~isPort THEN Referring(a)
    ELSE {b \in Referring(a) : online[b] /\ state[b].peers # NewStates(where, a)[b].peers}
Pending(where, a, isPort) ==
    IF ~isPort THEN Referring(a)
    ELSE {b \in Referring(a) : state[b] # Inventory /\
             \/ state[b].peers # NewStates(where, a)[b].peers
             \/ state[b].validators # NewStates(where, a)[b].validators}

UpdateOf(where, a, isPort, isIp) ==
    LET P == Pending(where, a, isPort) IN
    [moved |-> a, port |-> isPort, pending |-> P,
     clears |-> IF isIp THEN {b \in P : online[b]} ELSE {},
     states |-> [b \in P |-> [state[b] EXCEPT !.peers = NewStates(where, a)[b].peers,
                                              !.validators = NewStates(where, a)[b].validators]]]

\* The answer to get_addrs: set_ports, set_addrs, save, update_peer_addr.
FetchAddrs(a) ==
    /\ fetching[a]
    /\ fetching' = [fetching EXCEPT ![a] = FALSE]
    /\ known' = [known EXCEPT ![a] = real[a]]
    /\ LET old == known[a]
           isPort == IF old = Unknown THEN TRUE
                     ELSE \E p \in {"node", "bft", "rest"} : old[p] # real[a][p]
           isIp == IF old = Unknown THEN TRUE
                   ELSE \E p \in {"internal", "external"} : old[p] # real[a][p]
           linked == state[a] # Inventory /\ InEnv(env, a)
       IN /\ updates' = IF linked /\ (isPort \/ isIp)
                           /\ Pending(known', a, isPort) # {}
                        THEN updates \cup {UpdateOf(known', a, isPort, isIp)}
                        ELSE updates
          /\ unheard' = [b \in Agents |-> unheard[b] \cup
                {c \in Agents : isIp /\ a \in {b, c} /\ {cache[b][c], saved[b][c]} # {None}
                                  /\ ~(linked /\ b \in Referring(a) \cup {a})}]
    /\ UNCHANGED <<world, real, online, state, env, greeting, agent, spent>>

ClearPeerAddr(u, b) ==
    /\ b \in u.clears
    /\ cache' = [cache EXCEPT ![b][u.moved] = None]
    /\ updates' = (updates \ {u}) \cup {[u EXCEPT !.clears = @ \ {b}]}
    /\ unheard' = [unheard EXCEPT ![b] = @ \ {u.moved}]
    /\ UNCHANGED <<world, real, online, known, state, env, greeting, fetching,
                   target, saved, info, requests, node, spent>>

FinishUpdate(u) ==
    /\ u \in updates /\ u.clears = {}
    /\ updates' = updates \ {u}
    /\ state' = [b \in Agents |-> IF u.port /\ b \in u.pending THEN u.states[b] ELSE state[b]]
    /\ Push(u.pending, state')
    /\ UNCHANGED <<world, real, online, known, env, greeting, fetching,
                   cache, saved, info, node, unheard, spent>>

\* The pool and the environments come back from the database, the calls do not.
ControlRestart ==
    /\ Calm /\ Within("troubles")
    /\ online' = [a \in Agents |-> FALSE]
    /\ greeting' = [a \in Agents |-> None] /\ fetching' = [a \in Agents |-> FALSE]
    /\ updates' = {}
    /\ env' = IF env = None THEN None ELSE ReadEnv(WriteEnv(env))
    /\ state' = [a \in Agents |-> ReadState(WriteState(state[a]))]
    /\ known' = [a \in Agents |-> ReadLocation(WriteLocation(known[a]))]
    /\ UNCHANGED <<world, real, agent, unheard>>

----------------------------------------------------------------------------
(* The agent.                                                              *)

\* The calls and tasks of a connection end with it.
Cut(a) ==
    /\ online' = [online EXCEPT ![a] = FALSE]
    /\ greeting' = [greeting EXCEPT ![a] = None]
    /\ fetching' = [fetching EXCEPT ![a] = FALSE]
    /\ updates' = {[u EXCEPT !.clears = @ \ {a}] : u \in updates}

Lose(a) ==
    /\ online[a] /\ Within("troubles")
    /\ Cut(a)
    /\ UNCHANGED <<world, real, known, state, env, agent, unheard>>

\* The agent ends, and starts with other addresses or ports; its node goes with it.
Move(a, l) ==
    /\ Within("troubles")
    /\ Cut(a)
    /\ real' = [real EXCEPT ![a] = l]
    /\ cache' = [cache EXCEPT ![a] = saved[a]]
    /\ unheard' = [unheard EXCEPT ![a] = @ \cup {b \in Agents :
                      target[a] = Inventory /\ saved[a][b] # cache[a][b]}]
    /\ requests' = [requests EXCEPT ![a] = {}]
    /\ node' = [node EXCEPT ![a] = None]
    /\ target' = [target EXCEPT ![a] = ReadState(WriteState(@))]
    /\ UNCHANGED <<world, known, state, env, saved, info>>

\* re_fetch_peer_addrs, for the peers of the state it had; nothing on an error.
Fetched(a) ==
    IF target[a] = Inventory THEN <<>>
    ELSE IF Resolvable(a, Internal(target[a])) THEN Answer(a, Internal(target[a])) ELSE <<>>

\* get_addrs is answered in one trip, a handshake in two; where agents are hasty,
\* the first handshake may still be done before anything is known.
Handshake(a) ==
    /\ online[a] /\ greeting[a] # None
    /\ fetching[a] => world.hasty /\ known[a] = Unknown
    /\ cache' = [cache EXCEPT ![a] = Extended(@, Fetched(a))]
    /\ saved' = [saved EXCEPT ![a] = IF cache'[a] # cache[a] THEN cache'[a] ELSE @]
    /\ unheard' = [unheard EXCEPT ![a] =
                      {b \in @ : b \in DOMAIN Fetched(a) => Fetched(a)[b] = None}]
    /\ target' = [target EXCEPT ![a] = greeting[a]]
    /\ requests' = [requests EXCEPT ![a] = @ \cup {"refetch"}]
    /\ greeting' = [greeting EXCEPT ![a] = None]
    /\ UNCHANGED <<world, real, online, known, state, env, fetching, updates,
                   info, node, spent>>

\* A request that is drained leaves no trace, what it asked for included.
Reconciles(a, refetch) ==
    /\ refetch => "refetch" \in requests[a]
    /\ requests[a] = {"refetch"} => refetch
    /\ requests' = [requests EXCEPT ![a] = {}]

\* agentpeers_to_cli: a peer whose address is not known is left out.
Arguments(a, known_, type) ==
    {<<type, IF p[1] = None THEN None ELSE known_[p[1]], p[2]>> :
        p \in {q \in target[a][type] : IF q[1] = None THEN TRUE ELSE known_[q[1]] # None}}
Command(a, known_) ==
    [args |-> Arguments(a, known_, "peers") \cup Arguments(a, known_, "validators"),
     key |-> target[a].key]

\* Mutant: a node that runs is left alone.
RunNodeOnce(a, command) == node' = [node EXCEPT ![a] = IF @ = None THEN command ELSE @]
\* The node is started, left alone, or stopped because its command has changed.
RunNode(a, command) ==
    node' = [node EXCEPT ![a] = IF @ = None THEN command
                                ELSE IF @ = command THEN @ ELSE None]

ReconcileInventory(a) ==
    /\ \E refetch \in BOOLEAN :
          /\ Reconciles(a, refetch)
          /\ info' = [info EXCEPT ![a] = @ /\ ~refetch]
    /\ target[a] = Inventory
    /\ node' = [node EXCEPT ![a] = None]
    /\ UNCHANGED <<world, real, online, control, target, cache, saved, unheard, spent>>

\* AddressResolveReconciler: only the peers that are not cached are asked for.
Missing(a, old) == {b \in Internal(target[a]) : old[b] = None}

ReconcileNode(a) ==
    \E refetch \in BOOLEAN :
      /\ Reconciles(a, refetch) /\ target[a] # Inventory
      /\ LET fresh == ~info[a] \/ refetch    \* get_env_info asks, and forgets the addresses
             old == IF fresh THEN Empty ELSE cache[a]
             missing == Missing(a, old)
             asks == online[a] /\ missing # {}
             new == IF asks THEN Extended(old, Answer(a, missing)) ELSE old
         IN \/ /\ fresh /\ ~online[a]
               /\ info' = [info EXCEPT ![a] = FALSE]
               /\ UNCHANGED <<cache, saved, node, unheard>>
            \/ /\ ~fresh \/ online[a]
               /\ info' = [info EXCEPT ![a] = TRUE]
               /\ unheard' = IF fresh THEN [unheard EXCEPT ![a] = {}] ELSE unheard
               /\ \/ /\ asks /\ ~Resolvable(a, missing)
                     /\ cache' = [cache EXCEPT ![a] = old]
                     /\ saved' = IF fresh THEN [saved EXCEPT ![a] = Empty] ELSE saved
                     /\ UNCHANGED node
                  \/ /\ asks => Resolvable(a, missing)
                     /\ cache' = [cache EXCEPT ![a] = new]
                     /\ saved' = [saved EXCEPT ![a] = IF asks THEN new
                                                      ELSE IF fresh THEN Empty ELSE @]
                     /\ RunNode(a, Command(a, new))
      /\ UNCHANGED <<world, real, online, control, target, spent>>

----------------------------------------------------------------------------
Deliver == \E u \in updates : FinishUpdate(u) \/ \E b \in u.clears : ClearPeerAddr(u, b)
Next ==
    \/ \E d \in world.documents : Apply(d)
    \/ Cleanup \/ Deliver \/ ControlRestart
    \/ \E a \in Agents :
          \/ Connect(a) \/ FetchAddrs(a) \/ Lose(a) \/ Handshake(a)
          \/ ReconcileInventory(a) \/ ReconcileNode(a)
          \/ \E l \in world.places : Move(a, l)

Spec == Init /\ [][Next]_vars
Fairness ==
    /\ WF_vars(Deliver)
    /\ \A a \in Agents :
          /\ WF_vars(Connect(a)) /\ WF_vars(FetchAddrs(a)) /\ WF_vars(Handshake(a))
          /\ WF_vars(ReconcileInventory(a)) /\ WF_vars(ReconcileNode(a))
FairSpec == Spec /\ Fairness

----------------------------------------------------------------------------
(* What is promised.                                                       *)

Settled(a) == online[a] /\ greeting[a] = None /\ ~fetching[a] /\ requests[a] = {}

\* Once nothing is under way for an agent, the address it has of a peer is
\* the one the peer reported last, seen from where the agent is: whatever
\* was lost, restarted or restored.  Only a move while no environment linked
\* the two goes unheard (update_peer_addr, re_fetch_peer_addrs, get_env_info).
AddressesCurrent ==
    updates = {} =>
        \A a \in {x \in Agents : Settled(x) /\ target[x] # Inventory} :
            \A b \in Internal(target[a]) \ unheard[a] :
                cache[a][b] # None =>
                    ResolveOneAddr(known[a], known[b]) \in {cache[a][b], None}

\* Once nothing is under way, an agent has the state that its node's targets
\* resolve to, with the ports its peers listen on.
PortsCurrent ==
    PortsVary /\ env # None /\ Calm =>
        \A a \in {x \in Agents : online[x] /\ InEnv(env, x)} :
            target[a] = ResolveNodeState(env, known, a)

\* A control plane that restarts reads back agents where they were and in the
\* state they were in; nodes with the agents they had, which select the same
\* peers and hold the same keys; and external nodes at the addresses they had
\* (Agent, NodeState, PersistEnv, PersistNode and what they contain).
RestartKeepsNodes ==
    [][ControlRestart =>
           /\ state' = state /\ known' = known
           /\ env # None => env'.external = env.external
           /\ \A a \in Agents : InEnv(env, a) =>
                /\ InEnv(env', a) /\ KeyFor(env', a) = KeyFor(env, a)
                /\ ResolveNodeState(env', known', a) = ResolveNodeState(env, known, a)]_vars

\* Every node ends up running with the addresses and the ports its peers
\* have, however its agent and theirs moved, restarted or lost connections.
Peering(a) ==
    LET type == [p \in PortTypes |->
            {<<p, IF q[1] = None THEN None
                  ELSE IF q[1] \in unheard[a] THEN cache[a][q[1]]
                  ELSE ResolveOneAddr(real[a], real[q[1]]), q[2]>> :
                q \in Matching(env, real, a, p)}]
    IN {p \in UNION {type[x] : x \in PortTypes} :
           p[2] # None \/ \E k \in DOMAIN env.external : p[3] = env.external[k][PortOfType[p[1]]]}
PeersAreReached ==
    PortsVary => <>[](\A a \in Agents : state[a] # Inventory =>
                          /\ node[a] # None
                          /\ node[a].args = Peering(a))
=============================================================================
