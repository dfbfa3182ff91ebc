--------------------------- MODULE MCSessionTurns ---------------------------
(* Small instances of SessionTurns for TLC.                                *)
EXTENDS SessionTurns, TLC

Symmetry == Permutations(Turns)
=============================================================================
