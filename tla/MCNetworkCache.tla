--------------------------- MODULE MCNetworkCache ---------------------------
(* Two blocks at one height that share a transaction, and one above.       *)
EXTENDS NetworkCache

CONSTANTS b1, f1, b2, x1, x2

HeightOf == [b \in Blocks |-> IF b = b2 THEN 2 ELSE 1]
MintedAt == [b \in Blocks |-> CASE b = b1 -> 1 [] b = f1 -> 2 [] OTHER -> 3]
ContentOf == [b \in Blocks |-> CASE b = b1 -> {x1} [] b = f1 -> {x1, x2} [] OTHER -> {}]
=============================================================================
