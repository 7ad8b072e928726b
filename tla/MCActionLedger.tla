--------------------------- MODULE MCActionLedger ---------------------------
(* Four successive owners under every policy, bound of two dispatches.      *)
EXTENDS ActionLedger, TLC

CONSTANTS w1, w2, w3, w4

MCWorkers == {w1, w2, w3, w4}
Owners == Permutations(MCWorkers)
=============================================================================
