--------------------------- MODULE MCAgentClaims ---------------------------
(* Two applies race for one to three agents while up to two executions      *)
(* look for a compute agent.                                                *)
EXTENDS AgentClaims, TLC

CONSTANTS a1, a2, a3, p1, p2, n1, n2, n3, x1, x2

\* n1 names a1, n2 takes what fits, both of p1; n3 of p2 takes what fits.
AllApplies == (n1 :> p1) @@ (n2 :> p1) @@ (n3 :> p2)
AllPins == (n1 :> a1) @@ (n2 :> NoAgent) @@ (n3 :> NoAgent)

MCApplyOf == [n \in Nodes |-> AllApplies[n]]
MCPinned == [n \in Nodes |-> AllPins[n]]
\* a1 lacks the labels n2 asks for.
MCFits == [n \in Nodes |-> IF n = n2 THEN Agents \ {a1} ELSE Agents]
MCComputeFits == [x \in Executors |-> IF x = x2 THEN {a2} ELSE Agents]

NothingRemoved == [p \in Applies |-> {}]
\* p1 drops a node of its environment that runs on a2.
OneRemoved == [p \in Applies |-> IF p = p1 THEN {a2} ELSE {}]
=============================================================================
