-------------------------- MODULE MCClaimScenarios --------------------------
(* A behaviour is one of two: two applies delegate three nodes to two agents; *)
(* or two applies of a node and two executions contest one agent, which is    *)
(* taken over while they do.                                                  *)
EXTENDS MCAgentClaims

CONSTANT p0    \* in the first an apply of no nodes, in the second n1's; it never comes

VARIABLE scenario

Delegating == scenario = "delegating"
Computing == scenario = "computing"

\* One agent, which either node takes.
C == INSTANCE AgentClaims WITH
        Agents <- {a2}, ApplyOf <- (n1 :> p0) @@ (n2 :> p1) @@ (n3 :> p2),
        Pinned <- [n \in Nodes |-> NoAgent], Fits <- [n \in Nodes |-> {a2}],
        ComputeFits <- [x \in Executors |-> {a2}]

\* No executions and no takeovers.
OnlyApplies == gen' = gen /\ \A x \in Executors : pc'[x] = "idle"

MCInit == \/ Delegating /\ Init
          \/ Computing /\ C!Init
MCNext == /\ UNCHANGED scenario
          /\ \/ Delegating /\ Next /\ OnlyApplies
             \/ Computing /\ C!Next
          /\ phase'[p0] = "idle"

\* The fairness of AgentClaims, of the applies that come.
On(A) == Delegating /\ A
MCFairness ==
    /\ \A p \in Applies \ {p0} : WF_vars(On(ApplyStep(p)))
    /\ \A n \in Nodes : WF_vars(On(NodeStep(n)))

MCSpec == MCInit /\ [][MCNext]_<<vars, scenario>> /\ MCFairness

\* ExclusiveAgent, where no agent is taken over: mod.rs:261-263.
AgentsInTurn == Delegating => ExclusiveAgent
\* ClaimsAreExclusive, there too: the reference counts implement ownership.
RegistryInTurn ==
    /\ Delegating => Registry!Init
    /\ [][Delegating => Registry!Next \/ UNCHANGED Owned]_vars
\* ClaimsReturn: no apply, whether it fails or not, leaks a claim.
ReturnInTurn == Delegating => ClaimsReturn
=============================================================================
