--------------------------- MODULE MCEnvLifecycle ---------------------------
(* Two agents, two environments with one or two keys, one or two requests at *)
(* a time.                                                                   *)
EXTENDS EnvLifecycle

CONSTANTS a1, a2, e1, e2, k1, k2, top, h1, t1, t2

\* The documents a run applies: any nodes, or always the same two nodes with
\* other heights.
AnyNodes == UNION {[U -> {top}] : U \in SUBSET {k1, k2}}
OneNode == [{k1} -> {top}]
SameNodes == {[k \in {k1, k2} |-> top], [k \in {k1, k2} |-> IF k = k1 THEN h1 ELSE top]}
=============================================================================
