---------------------------- MODULE EnvLifecycle ----------------------------
(***************************************************************************)
(* The life of environments in the control plane: Environment::apply and   *)
(* cleanup (controlplane/src/env/mod.rs), the actions that rewrite node    *)
(* states (server/actions/config.rs, power.rs, update_peer_addr), agents   *)
(* that leave and come back (server/agent_ws.rs), and a restart of the     *)
(* control plane (state/global.rs).                                        *)
(*                                                                         *)
(* A task is one request being served.  Tasks interleave wherever the code *)
(* awaits, and between two agents of update_agent_states, which locks one  *)
(* entry of the pool at a time.  The pairing of nodes with agents, which   *)
(* has no await, is one step here; AgentClaims opens it up.                *)
(*                                                                         *)
(* The database row of an agent is written under the same lock as its      *)
(* state, so pool is both; that of an environment has a step of its own.   *)
(***************************************************************************)
EXTENDS Naturals, FiniteSets, Functions

CONSTANTS
    Agents,      \* agent ids
    EnvIds,      \* environment ids
    Keys,        \* node keys a document may have
    Requests,    \* height requests (HeightRequest)
    Documents,   \* the node documents applied: keys with requested heights
    Tasks,       \* requests served at the same time
    MaxCounter,  \* bound on the counter of a height request
    Takeovers,   \* whether an agent id may be taken over
    Crashes,     \* whether the control plane may restart
    NoEnv

\* The functions from a part of S into T.
Partial(S, T) == UNION {[U -> T] : U \in SUBSET S}

ASSUME LifecycleAssumption ==
    /\ NoEnv \notin EnvIds
    /\ MaxCounter \in Nat
    /\ Takeovers \in BOOLEAN /\ Crashes \in BOOLEAN
    /\ IsFiniteSet(Agents) /\ IsFiniteSet(Keys)
    /\ Documents \subseteq Partial(Keys, Requests)

VARIABLES
    envs,    \* the env map: peers and requested heights of each environment
    dbEnvs,  \* its persisted copy
    pool,    \* the AgentState of every agent: Inventory, or a Node of an env
    online,  \* the connected agents
    task     \* what every task is doing

vars == <<envs, dbEnvs, pool, online, task>>

Inventory == [env |-> NoEnv]
Node(e, k, h) == [env |-> e, key |-> k, height |-> h]
IsNode(s) == s.env # NoEnv

Heights == (0 .. MaxCounter) \X Requests
States == {Inventory} \cup {Node(e, k, h) : e \in EnvIds, k \in Keys, h \in Heights}

EmptyFun == [x \in {} |-> x]
\* What the env map keeps of an environment: every peer has a requested height.
Environments == {r \in [peers : Partial(Keys, Agents), heights : Partial(Keys, Requests)] :
                    DOMAIN r.peers \subseteq DOMAIN r.heights}

Idle == [phase |-> "idle"]
Free(t) == task[t] = Idle
Quiet == \A t \in Tasks : Free(t)
Become(t, r) == task' = [task EXCEPT ![t] = r]

\* BiMap::extend: a pair evicts every pair with its key or its agent.
BiExtend(m, n) ==
    LET kept == {k \in DOMAIN m \ DOMAIN n : m[k] \notin Range(n)}
    IN [k \in kept \cup DOMAIN n |-> IF k \in DOMAIN n THEN n[k] ELSE m[k]]

(***************************************************************************)
(* update_agent_states: one agent of the list after the other.             *)
(***************************************************************************)

Write(t) ==
    /\ task[t].phase = "write"
    /\ \E a \in DOMAIN task[t].pending :
        /\ pool' = [pool EXCEPT ![a] = task[t].pending[a]]
        /\ Become(t, [task[t] EXCEPT !.pending = Restrict(@, DOMAIN @ \ {a})])
    /\ UNCHANGED <<envs, dbEnvs, online>>

\* All agents were asked to reconcile; an apply still has to emit its states.
Written(t) ==
    /\ task[t].phase = "write"
    /\ task[t].pending = EmptyFun
    /\ Become(t, IF task[t].op = "apply" THEN [task[t] EXCEPT !.phase = "emit"] ELSE Idle)
    /\ UNCHANGED <<envs, dbEnvs, pool, online>>

(***************************************************************************)
(* Environment::apply.                                                     *)
(***************************************************************************)

\* Who can be given a node: connected agents in inventory, and those whose
\* nodes the document removes.
Delegable(gone) == {a \in online : pool[a] = Inventory} \cup gone

\* The documents are read: nodes the environment already has keep their
\* agents, and the new nodes are paired with delegable ones.
Apply(t, e, doc) ==
    LET prev == IF e \in DOMAIN envs THEN envs[e].peers ELSE EmptyFun
        gone == {prev[k] : k \in DOMAIN prev \ DOMAIN doc}
        kept == Restrict(prev, DOMAIN prev \cap DOMAIN doc)
    IN /\ Free(t)
       /\ \E pairs \in Injection(DOMAIN doc \ DOMAIN prev, Delegable(gone)) :
            Become(t, [phase |-> "save", op |-> "apply", env |-> e,
                       made |-> [peers |-> BiExtend(kept, pairs), heights |-> doc],
                       spare |-> gone \ Range(pairs)])
       /\ UNCHANGED <<envs, dbEnvs, pool, online>>

\* The storage or the cannons cannot be prepared: nothing has changed yet.
ApplyFails(t) ==
    /\ task[t].phase = "save"
    /\ Become(t, Idle)
    /\ UNCHANGED <<envs, dbEnvs, pool, online>>

\* After its awaits the apply saves the environment it made before them...
ApplySave(t) ==
    /\ task[t].phase = "save"
    /\ dbEnvs' = [e \in DOMAIN dbEnvs \cup {task[t].env} |->
                    IF e = task[t].env THEN task[t].made ELSE dbEnvs[e]]
    /\ Become(t, [task[t] EXCEPT !.phase = "insert"])
    /\ UNCHANGED <<envs, pool, online>>

\* Mutant: the agents of removed nodes are left as they were.
InsertKeepsSpare(t) ==
    /\ task[t].phase = "insert"
    /\ envs' = [e \in DOMAIN envs \cup {task[t].env} |->
                  IF e = task[t].env THEN task[t].made ELSE envs[e]]
    /\ Become(t, [phase |-> "emit", op |-> "apply", env |-> task[t].env,
                  made |-> task[t].made])
    /\ UNCHANGED <<dbEnvs, pool, online>>

\* ...puts it into the env map, and inventories the agents it no longer needs.
ApplyInsert(t) ==
    /\ task[t].phase = "insert"
    /\ envs' = [e \in DOMAIN envs \cup {task[t].env} |->
                  IF e = task[t].env THEN task[t].made ELSE envs[e]]
    /\ Become(t, [phase |-> "write", op |-> "apply", env |-> task[t].env,
                  made |-> task[t].made,
                  pending |-> [a \in task[t].spare |-> Inventory]])
    /\ UNCHANGED <<dbEnvs, pool, online>>

\* The height an agent is asked for: its counter survives when the request is
\* the one it already has in this environment, and restarts otherwise.
ResolveHeight(e, s, req) ==
    IF IsNode(s) /\ s.env = e /\ s.height[2] = req THEN s.height ELSE <<0, req>>

\* update_all_agents: the state of every node that has an agent.
ApplyEmit(t) ==
    /\ task[t].phase = "emit"
    /\ LET e == task[t].env
           peers == task[t].made.peers
           heights == task[t].made.heights
           KeyOf(a) == CHOOSE k \in DOMAIN peers : peers[k] = a
       IN Become(t, [phase |-> "write", op |-> "emitted",
                     pending |-> [a \in Range(peers) |->
                        Node(e, KeyOf(a), ResolveHeight(e, pool[a], heights[KeyOf(a)]))]])
    /\ UNCHANGED <<envs, dbEnvs, pool, online>>

(***************************************************************************)
(* Environment::cleanup.                                                   *)
(***************************************************************************)

Cleanup(t, e) ==
    /\ Free(t)
    /\ e \in DOMAIN envs
    /\ envs' = Restrict(envs, DOMAIN envs \ {e})
    /\ Become(t, [phase |-> "delete", env |-> e, peers |-> envs[e].peers])
    /\ UNCHANGED <<dbEnvs, pool, online>>

\* Mutant: the agents stay nodes of the environment.
CleanupForgetsAgents(t) ==
    /\ task[t].phase = "delete"
    /\ dbEnvs' = Restrict(dbEnvs, DOMAIN dbEnvs \ {task[t].env})
    /\ Become(t, Idle)
    /\ UNCHANGED <<envs, pool, online>>

CleanupDelete(t) ==
    /\ task[t].phase = "delete"
    /\ dbEnvs' = Restrict(dbEnvs, DOMAIN dbEnvs \ {task[t].env})
    /\ Become(t, [phase |-> "write", op |-> "cleanup",
                  pending |-> [a \in Range(task[t].peers) |-> Inventory]])
    /\ UNCHANGED <<envs, pool, online>>

(***************************************************************************)
(* Actions: they read the states of an environment's agents and write      *)
(* changed copies later.                                                   *)
(***************************************************************************)

\* config: a new height for the node of key k.  The copy is made whatever the
\* agent's state is; the node map of the answer needs all of them to be nodes.
Config(t, e, k, req) ==
    /\ Free(t)
    /\ e \in DOMAIN envs
    /\ k \in DOMAIN envs[e].peers
    /\ LET a == envs[e].peers[k]
           s == pool[a]
       IN /\ IsNode(s) => s.height[1] < MaxCounter
          /\ Become(t, [phase |-> "answer", op |-> "config", pending |->
                [b \in {a} |-> IF IsNode(s) THEN Node(s.env, s.key, <<s.height[1] + 1, req>>)
                                            ELSE s]])
    /\ UNCHANGED <<envs, dbEnvs, pool, online>>

\* pending_reconcile_node_map panics on a state that is not a node.
ConfigAnswer(t) ==
    /\ task[t].phase = "answer"
    /\ Become(t, IF \A a \in DOMAIN task[t].pending : IsNode(task[t].pending[a])
                 THEN [task[t] EXCEPT !.phase = "write"] ELSE Idle)
    /\ UNCHANGED <<envs, dbEnvs, pool, online>>

\* online, offline and the peer updates of update_peer_addr, for the nodes of
\* the keys ks: agents that are not nodes are left out.  What they change is
\* not part of this model, that they write back a copy is.
Rewrite(t, e, ks) ==
    /\ Free(t)
    /\ e \in DOMAIN envs
    /\ LET agents == {envs[e].peers[k] : k \in ks \cap DOMAIN envs[e].peers}
       IN Become(t, [phase |-> "write", op |-> "rewrite",
                     pending |-> Restrict(pool, {a \in agents : IsNode(pool[a])})])
    /\ UNCHANGED <<envs, dbEnvs, pool, online>>

(***************************************************************************)
(* Agents and restarts.                                                    *)
(***************************************************************************)

Disconnect(a) ==
    /\ a \in online
    /\ online' = online \ {a}
    /\ UNCHANGED <<envs, dbEnvs, pool, task>>

\* An agent comes back with its claims: it is inventoried if its environment
\* has gone in the meantime (agent_ws.rs looks for the environment only).
Reconnect(a) ==
    /\ a \notin online
    /\ online' = online \cup {a}
    /\ pool' = IF IsNode(pool[a]) /\ pool[a].env \notin DOMAIN envs
               THEN [pool EXCEPT ![a] = Inventory] ELSE pool
    /\ UNCHANGED <<envs, dbEnvs, task>>

\* Somebody without the claims connects under its id and replaces it.
Takeover(a) ==
    /\ Takeovers
    /\ a \notin online
    /\ online' = online \cup {a}
    /\ pool' = [pool EXCEPT ![a] = Inventory]
    /\ UNCHANGED <<envs, dbEnvs, task>>

\* Mutant: the agents are loaded as they were.
RestartTrusting ==
    /\ Crashes
    /\ task' = [t \in Tasks |-> Idle]
    /\ envs' = dbEnvs
    /\ online' = {}
    /\ UNCHANGED <<dbEnvs, pool>>

\* The control plane stops and loads what it has persisted.  Agents whose
\* environment it does not find are inventoried.
Restart ==
    /\ Crashes
    /\ task' = [t \in Tasks |-> Idle]
    /\ envs' = dbEnvs
    /\ online' = {}
    /\ pool' = [a \in Agents |->
                  IF IsNode(pool[a]) /\ pool[a].env \notin DOMAIN dbEnvs
                  THEN Inventory ELSE pool[a]]
    /\ UNCHANGED dbEnvs

-----------------------------------------------------------------------------

Init ==
    /\ envs = EmptyFun
    /\ dbEnvs = EmptyFun
    /\ pool = [a \in Agents |-> Inventory]
    /\ online = Agents
    /\ task = [t \in Tasks |-> Idle]

Start(t) ==
    \E e \in EnvIds :
        \/ \E doc \in Documents : Apply(t, e, doc)
        \/ Cleanup(t, e)
        \/ \E k \in Keys, req \in Requests : Config(t, e, k, req)
        \/ \E ks \in SUBSET Keys \ {{}} : Rewrite(t, e, ks)

Continue(t) ==
    \/ ApplySave(t) \/ ApplyInsert(t) \/ ApplyEmit(t)
    \/ CleanupDelete(t) \/ ConfigAnswer(t) \/ Write(t) \/ Written(t)

AgentStep(a) == Disconnect(a) \/ Reconnect(a) \/ Takeover(a)

Next ==
    \/ \E t \in Tasks : Start(t) \/ Continue(t) \/ ApplyFails(t)
    \/ \E a \in Agents : AgentStep(a)
    \/ Restart

Spec == Init /\ [][Next]_vars

\* A request that is being served goes on.
Fairness == \A t \in Tasks : WF_vars(Continue(t))
FairSpec == Spec /\ Fairness

-----------------------------------------------------------------------------

Pendings == Partial(Agents, States)
TaskTypes ==
    {Idle}
    \cup [phase : {"save", "insert"}, op : {"apply"}, env : EnvIds, made : Environments,
          spare : SUBSET Agents]
    \cup [phase : {"write", "emit"}, op : {"apply"}, env : EnvIds, made : Environments,
          pending : Pendings]
    \cup [phase : {"write"}, op : {"emitted", "cleanup", "rewrite"}, pending : Pendings]
    \cup [phase : {"answer", "write"}, op : {"config"}, pending : Pendings]
    \cup [phase : {"delete"}, env : EnvIds, peers : Partial(Keys, Agents)]

\* The type of every variable; pending writes are states of agents.
TypeOK ==
    /\ envs \in Partial(EnvIds, Environments) /\ dbEnvs \in Partial(EnvIds, Environments)
    /\ pool \in [Agents -> States]
    /\ online \subseteq Agents
    /\ task \in [Tasks -> TaskTypes]

\* mod.rs apply, update_all_agents and cleanup: when requests are served one
\* at a time, the env map and the pool tell the same story between requests.
\* An agent is the node of a key of an environment exactly when that
\* environment maps the key to it, whatever was applied, reapplied, configured
\* or cleaned up before and however agents came and went.
Agreement ==
    Quiet =>
        /\ dbEnvs = envs
        /\ \A a \in Agents, e \in EnvIds, k \in Keys :
              (IsNode(pool[a]) /\ pool[a].env = e /\ pool[a].key = k)
              <=> (e \in DOMAIN envs /\ k \in DOMAIN envs[e].peers /\ envs[e].peers[k] = a)

\* mod.rs:261-263 and 275-276: the busy claims prevent multiple environment
\* prepares from delegating the same agents, so no agent is a peer of two
\* environments.
ExclusiveDelegation ==
    \A e, f \in DOMAIN envs :
        e # f => Range(envs[e].peers) \cap Range(envs[f].peers) = {}

\* node_peers is a BiMap: whoever takes over ids and whatever is applied, no
\* agent ever serves two keys of an environment, in memory or persisted.
PeersInjective ==
    \A e \in EnvIds :
        /\ e \in DOMAIN envs => IsInjective(envs[e].peers)
        /\ e \in DOMAIN dbEnvs => IsInjective(dbEnvs[e].peers)

\* global.rs:135-151 and agent_ws.rs:159-165: across restarts at any point of
\* a request, an agent is never left the node of an environment that does not
\* exist: between requests its environment is in the env map.
NodesHaveEnvironments ==
    Quiet => \A a \in Agents : IsNode(pool[a]) => pool[a].env \in DOMAIN envs

\* global.rs:135: "For all agents not in envs, set their state to Inventory":
\* after a restart every node is a peer of its environment.
RestartInventoriesStrangers ==
    [][Restart => \A a \in Agents : IsNode(pool'[a]) =>
                    a \in Range(envs'[pool'[a].env].peers)]_vars

\* cleanup: the agents of an environment that is gone become free, or the
\* environment comes back.
CleanupFreesAgents ==
    \A a \in Agents, e \in EnvIds :
        (pool[a].env = e /\ e \notin DOMAIN envs)
            ~> (pool[a].env # e \/ e \in DOMAIN envs)

\* node_state.rs:12: the counter of a height request is incremented whenever
\* the request is updated (while the agent stays a node of its environment).
HeightCounterGrows ==
    [][\A a \in Agents :
         /\ IsNode(pool[a]) /\ IsNode(pool'[a])
         /\ pool[a].env = pool'[a].env
         /\ pool[a].height[2] # pool'[a].height[2]
         => pool'[a].height[1] > pool[a].height[1]]_vars

\* reconcile.rs:19: the states a config action answers with are all nodes
\* (`_ => unreachable!()`).
ConfigStatesAreNodes ==
    \A t \in Tasks : task[t].phase = "answer" =>
        \A a \in DOMAIN task[t].pending : IsNode(task[t].pending[a])

\* mod.rs:115-116: an apply errors if the environment is not unset before.
ApplyNeedsUnsetEnv ==
    [][\A t \in Tasks :
         task[t].phase = "save" /\ task'[t].phase = "insert"
         => task[t].env \notin DOMAIN envs]_vars
=============================================================================
