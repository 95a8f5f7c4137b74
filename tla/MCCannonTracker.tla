--------------------------- MODULE MCCannonTracker ---------------------------
(* One or two transactions, one or two requests at a time, one cannon.        *)
EXTENDS CannonTracker

CONSTANTS x1, x2, c1, c2
=============================================================================
