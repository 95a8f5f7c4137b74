-------------------------- MODULE MCAgentReconciler --------------------------
(* One agent, one or two environments, storages and heights.                 *)
EXTENDS AgentReconciler

CONSTANTS e1, e2, s1, c1

Temporary == [id |-> s1, version |-> 1, persist |-> FALSE]
Converted == [id |-> s1, version |-> 2, persist |-> TRUE]

OneStorage == {Temporary}
TwoKinds == {Temporary, Converted}

TopOrCheckpoint == {<<0, "top">>, <<1, "checkpoint">>}
AnyHeight == {<<0, "top">>, <<1, "checkpoint">>, <<1, "reset">>}
=============================================================================
