---------------------------- MODULE AgentClaims ----------------------------
(***************************************************************************)
(* How the control plane reserves agents: the reference-counted claims of  *)
(* controlplane/src/env/set.rs and controlplane/src/state/agent.rs.        *)
(*                                                                         *)
(* Every Agent owns two Arc<Busy>, env_claim and compute_claim.  A node of *)
(* an environment being applied reserves its agent by holding a second     *)
(* strong reference to env_claim, an execution one to compute_claim.  The  *)
(* nodes of an apply are paired by rayon threads, applies and executions   *)
(* run on different tokio threads, and there is no lock: every load and    *)
(* every increment of a reference count is an atomic step of its own here. *)
(*                                                                         *)
(* An agent that connects without valid claims under the id of an offline  *)
(* one replaces it in the pool (agent_ws.rs); the new Agent has new Arcs.  *)
(* An Arc is therefore identified by its agent and a generation.           *)
(***************************************************************************)
EXTENDS Naturals, FiniteSets

CONSTANTS
    Agents,       \* agent ids of the pool
    Applies,      \* concurrent Environment::apply calls, one Nodes document each
    Nodes,        \* the incoming nodes of all of them
    ApplyOf,      \* the apply a node belongs to
    Pinned,       \* the agent a node asks for by id, or NoAgent
    Fits,         \* the agents whose mask has the node's labels and mode
    Removed,      \* the agents of the nodes an apply removes from its environment
    Executors,    \* cannon executions that look for a compute agent
    ComputeFits,  \* the agents with compute mode and an executor's labels
    MaxReplace,   \* bound: how many times one agent id is taken over
    NoAgent

Claimants == Nodes \cup Executors
Generations == 0 .. MaxReplace
NoRef == <<NoAgent, 0>>
Refs == Agents \X Generations

ASSUME ClaimsAssumption ==
    /\ IsFiniteSet(Nodes) /\ IsFiniteSet(Executors)
    /\ Nodes \cap Executors = {}
    /\ ApplyOf \in [Nodes -> Applies]
    /\ Pinned \in [Nodes -> Agents \cup {NoAgent}]
    /\ Fits \in [Nodes -> SUBSET Agents]
    /\ Removed \in [Applies -> SUBSET Agents]
    /\ ComputeFits \in [Executors -> SUBSET Agents]
    /\ MaxReplace \in Nat
    /\ NoAgent \notin Agents

VARIABLES
    inventory,  \* is_inventory of the pool's entry
    online,     \* is_connected of the pool's entry
    gen,        \* the generation of the pool's entry: which Arcs it owns
    phase,      \* where an apply is
    list,       \* its Vec<AgentMapping>: <<agent, generation of the Weak>>
    pc,         \* where a claimant is
    todo,       \* the mappings it has still to try
    cand        \* the Arc it is trying to claim, or has claimed

poolVars == <<inventory, online, gen>>
vars == <<inventory, online, gen, phase, list, pc, todo, cand>>

NodesOf(p) == {n \in Nodes : ApplyOf[n] = p}
ById(p)    == {n \in NodesOf(p) : Pinned[n] # NoAgent}
Settled(n) == pc[n] \in {"claimed", "error"}

Kind == [c \in Claimants |-> IF c \in Nodes THEN "env" ELSE "compute"]

\* The steps in which a claimant holds a strong reference.
Holding == {"verify", "drop", "claimed"}

\* The claimants that hold a strong reference to the Arc r of kind k.
Holders(k, r) == {c \in Claimants : Kind[c] = k /\ pc[c] \in Holding /\ cand[c] = r}

\* Arc::strong_count: one for the agent while the pool still has that Agent.
StrongCount(k, r) ==
    (IF gen[r[1]] = r[2] THEN 1 ELSE 0) + Cardinality(Holders(k, r))

Mapping(a) == <<a, gen[a]>>

(***************************************************************************)
(* The pool.                                                               *)
(***************************************************************************)

\* Mutant: the pool is not locked while an execution claims.
LockedNever(a) == FALSE

\* find_compute_agent looks at an agent under the pool's read lock; whoever
\* writes the entry waits for it.
Locked(a) ==
    \E x \in Executors : /\ pc[x] \in {"upgrade", "verify", "drop"}
                         /\ cand[x][1] = a

\* set_state of an update somewhere else in the control plane.
SetState(a) ==
    /\ ~Locked(a)
    /\ inventory' = [inventory EXCEPT ![a] = ~inventory[a]]
    /\ UNCHANGED <<online, gen, phase, list, pc, todo, cand>>

\* The agent's socket closes, or it reconnects with its claims.
Connection(a) ==
    /\ ~Locked(a)
    /\ online' = [online EXCEPT ![a] = ~online[a]]
    /\ UNCHANGED <<inventory, gen, phase, list, pc, todo, cand>>

\* An agent without valid claims connects under an offline agent's id: the
\* pool's entry is overwritten by a new Agent, in inventory.
Replace(a) ==
    /\ ~Locked(a)
    /\ ~online[a]
    /\ gen[a] < MaxReplace
    /\ gen' = [gen EXCEPT ![a] = gen[a] + 1]
    /\ inventory' = [inventory EXCEPT ![a] = TRUE]
    /\ online' = [online EXCEPT ![a] = TRUE]
    /\ UNCHANGED <<phase, list, pc, todo, cand>>

(***************************************************************************)
(* Claiming: the same four steps for a node and for an execution.          *)
(***************************************************************************)

CanEnvClaim(a) ==
    /\ inventory[a] /\ online[a]
    /\ StrongCount("env", Mapping(a)) <= 1

CanComputeClaim(x, a) ==
    /\ inventory[a]
    /\ a \in ComputeFits[x]
    /\ StrongCount("compute", Mapping(a)) <= 1

\* The first look at the next agent, in whatever order the pool was iterated:
\* a node compares the masks and reads the count of the Weak it was given, an
\* execution checks the pool's entry.  Who finds the agent unfit or taken goes
\* on to the next one.
Look(c) ==
    /\ pc[c] = "scan"
    /\ \E m \in todo[c] :
        LET free == IF c \in Nodes
                    THEN m[1] \in Fits[c] /\ StrongCount("env", m) <= 1
                    ELSE CanComputeClaim(c, m[1])
        IN /\ todo' = [todo EXCEPT ![c] = @ \ {m}]
           /\ IF free
              THEN /\ pc' = [pc EXCEPT ![c] = "upgrade"]
                   /\ cand' = [cand EXCEPT ![c] = IF c \in Nodes THEN m ELSE Mapping(m[1])]
              ELSE UNCHANGED <<pc, cand>>
    /\ UNCHANGED <<poolVars, phase, list>>

\* Weak::upgrade of a node, which fails when the Arc is gone, or Arc::clone of
\* an execution.
Upgrade(c) ==
    /\ pc[c] = "upgrade"
    /\ IF StrongCount(Kind[c], cand[c]) = 0
       THEN /\ pc' = [pc EXCEPT ![c] = "scan"]
            /\ cand' = [cand EXCEPT ![c] = NoRef]
       ELSE /\ pc' = [pc EXCEPT ![c] = "verify"]
            /\ UNCHANGED cand
    /\ UNCHANGED <<poolVars, phase, list, todo>>

\* Mutant: the claim stands without counting again.
VerifyUncounted(c) ==
    /\ pc[c] = "verify"
    /\ pc' = [pc EXCEPT ![c] = "claimed"]
    /\ UNCHANGED <<poolVars, phase, list, todo, cand>>

\* The claim stands when the count is two: the agent's reference and this one.
\* An execution also needs the client of a connected agent.
Verify(c) ==
    /\ pc[c] = "verify"
    /\ pc' = [pc EXCEPT ![c] =
                IF /\ StrongCount(Kind[c], cand[c]) = 2
                   /\ c \in Executors => online[cand[c][1]]
                THEN "claimed" ELSE "drop"]
    /\ UNCHANGED <<poolVars, phase, list, todo, cand>>

\* Otherwise the reference is dropped and the next agent is tried.
Drop(c) ==
    /\ pc[c] = "drop"
    /\ pc' = [pc EXCEPT ![c] = "scan"]
    /\ cand' = [cand EXCEPT ![c] = NoRef]
    /\ UNCHANGED <<poolVars, phase, list, todo>>

\* No agent is left: a delegation error for a node, NoAvailableAgents for an
\* execution, which gives up until it is queued again.
Exhausted(c) ==
    /\ pc[c] = "scan"
    /\ todo[c] = {}
    /\ pc' = [pc EXCEPT ![c] = IF c \in Nodes THEN "error" ELSE "idle"]
    /\ UNCHANGED <<poolVars, phase, list, todo, cand>>

(***************************************************************************)
(* An execution: find_compute_agent and the RPC made under its claim.      *)
(***************************************************************************)

FindComputeAgent(x) ==
    /\ pc[x] = "idle"
    /\ pc' = [pc EXCEPT ![x] = "scan"]
    /\ todo' = [todo EXCEPT ![x] = {Mapping(a) : a \in Agents}]
    /\ UNCHANGED <<poolVars, phase, list, cand>>

\* The execution ends, in whatever way, and its claim with it.
EndExecution(x) ==
    /\ pc[x] = "claimed"
    /\ pc' = [pc EXCEPT ![x] = "idle"]
    /\ todo' = [todo EXCEPT ![x] = {}]
    /\ cand' = [cand EXCEPT ![x] = NoRef]
    /\ UNCHANGED <<poolVars, phase, list>>

(***************************************************************************)
(* The Nodes document of an apply.                                         *)
(***************************************************************************)

\* get_agent_mappings(Env) and the agents of removed nodes; pair_with_nodes
\* gives up at once when there are fewer agents than nodes.
ListAgents(p) ==
    /\ phase[p] = "idle"
    /\ LET maps == {Mapping(a) : a \in {b \in Agents : CanEnvClaim(b)} \cup Removed[p]}
       IN /\ list' = [list EXCEPT ![p] = maps]
          /\ phase' = [phase EXCEPT ![p] =
                IF Cardinality(maps) < Cardinality(NodesOf(p)) THEN "failed" ELSE "ids"]
    /\ UNCHANGED <<poolVars, pc, todo, cand>>

\* A node that names an agent: it must be listed and have the node's mode.
StartById(n) ==
    LET p    == ApplyOf[n]
        mine == {m \in list[p] : m[1] = Pinned[n]}
    IN /\ Pinned[n] # NoAgent
       /\ phase[p] = "ids"
       /\ pc[n] = "wait"
       /\ IF mine # {} /\ Pinned[n] \in Fits[n]
          THEN /\ todo' = [todo EXCEPT ![n] = mine]
               /\ pc' = [pc EXCEPT ![n] = "scan"]
          ELSE /\ pc' = [pc EXCEPT ![n] = "error"]
               /\ UNCHANGED todo
       /\ UNCHANGED <<poolVars, phase, list, cand>>

\* The nodes that want labels start when those that want ids have settled.
StartLabels(p) ==
    /\ phase[p] = "ids"
    /\ \A n \in ById(p) : Settled(n)
    /\ phase' = [phase EXCEPT ![p] = "labels"]
    /\ UNCHANGED <<poolVars, list, pc, todo, cand>>

StartByLabel(n) ==
    /\ Pinned[n] = NoAgent
    /\ phase[ApplyOf[n]] = "labels"
    /\ pc[n] = "wait"
    /\ pc' = [pc EXCEPT ![n] = "scan"]
    /\ todo' = [todo EXCEPT ![n] = list[ApplyOf[n]]]
    /\ UNCHANGED <<poolVars, phase, list, cand>>

\* pair_with_nodes returns: the pairs, or the errors if there is one.
Collect(p) ==
    /\ phase[p] = "labels"
    /\ \A n \in NodesOf(p) : Settled(n)
    /\ phase' = [phase EXCEPT ![p] =
                   IF \E n \in NodesOf(p) : pc[n] = "error" THEN "failed" ELSE "paired"]
    /\ UNCHANGED <<poolVars, list, pc, todo, cand>>

\* The match arm of the Nodes document ends, and with it the scope of _busy.
EndDocument(p) ==
    /\ phase[p] = "paired"
    /\ phase' = [phase EXCEPT ![p] = "released"]
    /\ UNCHANGED <<poolVars, list, pc, todo, cand>>

\* Mutant: the claims of a failed apply are kept.
UnclaimPaired(n) ==
    /\ phase[ApplyOf[n]] = "released"
    /\ pc[n] = "claimed"
    /\ pc' = [pc EXCEPT ![n] = "done"]
    /\ cand' = [cand EXCEPT ![n] = NoRef]
    /\ UNCHANGED <<poolVars, phase, list, todo>>

\* The claims go one after the other: _busy when its scope ended, or the
\* channel of claims when there were errors.
Unclaim(n) ==
    /\ phase[ApplyOf[n]] \in {"failed", "released"}
    /\ pc[n] = "claimed"
    /\ pc' = [pc EXCEPT ![n] = "done"]
    /\ cand' = [cand EXCEPT ![n] = NoRef]
    /\ UNCHANGED <<poolVars, phase, list, todo>>

-----------------------------------------------------------------------------

\* Agents that are nodes of the environments being applied are not in
\* inventory; the others start free.
Init ==
    /\ inventory = [a \in Agents |->
                      \A p \in Applies : a \notin Removed[p]]
    /\ online = [a \in Agents |-> TRUE]
    /\ gen = [a \in Agents |-> 0]
    /\ phase = [p \in Applies |-> "idle"]
    /\ list = [p \in Applies |-> {}]
    /\ pc = [c \in Claimants |-> IF c \in Nodes THEN "wait" ELSE "idle"]
    /\ todo = [c \in Claimants |-> {}]
    /\ cand = [c \in Claimants |-> NoRef]

ClaimStep(c) == Look(c) \/ Upgrade(c) \/ Verify(c) \/ Drop(c) \/ Exhausted(c)

NodeStep(n) == ClaimStep(n) \/ StartById(n) \/ StartByLabel(n) \/ Unclaim(n)

ApplyStep(p) == ListAgents(p) \/ StartLabels(p) \/ Collect(p) \/ EndDocument(p)

ExecutorStep(x) == ClaimStep(x) \/ FindComputeAgent(x) \/ EndExecution(x)

PoolStep(a) == SetState(a) \/ Connection(a) \/ Replace(a)

Next ==
    \/ \E a \in Agents : PoolStep(a)
    \/ \E p \in Applies : ApplyStep(p)
    \/ \E n \in Nodes : NodeStep(n)
    \/ \E x \in Executors : ExecutorStep(x)

Spec == Init /\ [][Next]_vars

\* Threads run: a started apply and its nodes never stop by themselves.
Fairness ==
    /\ \A p \in Applies : WF_vars(ApplyStep(p))
    /\ \A n \in Nodes : WF_vars(NodeStep(n))

FairSpec == Spec /\ Fairness

-----------------------------------------------------------------------------

\* The type of every variable.
TypeOK ==
    /\ inventory \in [Agents -> BOOLEAN]
    /\ online \in [Agents -> BOOLEAN]
    /\ gen \in [Agents -> Generations]
    /\ phase \in [Applies -> {"idle", "ids", "labels", "failed", "paired", "released"}]
    /\ list \in [Applies -> SUBSET Refs]
    /\ pc \in [Claimants -> {"wait", "idle", "scan", "upgrade", "verify", "drop",
                            "claimed", "error", "done"}]
    /\ todo \in [Claimants -> SUBSET Refs]
    /\ cand \in [Claimants -> Refs \cup {NoRef}]

\* set.rs:93-97 fears that two nodes could claim the same agent.  They cannot
\* while the agent still owns the Arc: whoever verifies a count of two is the
\* only holder, and everybody who comes later counts at least three.
ExclusiveArc ==
    \A c, d \in Claimants :
        /\ c # d /\ Kind[c] = Kind[d]
        /\ pc[c] = "claimed" /\ pc[d] = "claimed"
        /\ gen[cand[c][1]] = cand[c][2]
        => cand[c] # cand[d]

\* mod.rs:261-263: the claims prevent two applies from delegating the same
\* agent and two nodes from claiming it.  Identity is the agent's, not the
\* Arc's, as whoever uses the pairs sees it.
ExclusiveAgent ==
    \A c, d \in Claimants :
        /\ c # d /\ Kind[c] = Kind[d]
        /\ pc[c] = "claimed" /\ pc[d] = "claimed"
        => cand[c][1] # cand[d][1]

\* An execution is only ever placed on a connected inventory agent nobody else
\* computes on: what find_compute_agent checked first still holds when it
\* takes the claim, because it looks under the pool's lock.
ComputeOnIdleAgent ==
    [][\A x \in Executors : pc[x] # "claimed" /\ pc'[x] = "claimed" =>
          LET a == cand[x][1] IN inventory[a] /\ online[a] /\ gen[a] = cand[x][2]]_vars

\* An apply that fails gives back every agent its nodes had claimed, and one
\* that succeeds does so after its document: no claim is ever leaked, which
\* would keep the agent out of every later environment.
ClaimsReturn ==
    \A p \in Applies : phase[p] # "idle" ~>
        (phase[p] \in {"failed", "released"} /\ \A n \in NodesOf(p) : pc[n] \notin Holding)

\* The reference counts implement exclusive ownership, as long as no agent is
\* replaced under the feet of an apply.
Owned == [c \in Claimants |-> IF pc[c] = "claimed" THEN cand[c][1] ELSE NoAgent]
Registry == INSTANCE ClaimRegistry WITH owns <- Owned

ClaimsAreExclusive == Registry!Spec
=============================================================================
