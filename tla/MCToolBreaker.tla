---------------------------- MODULE MCToolBreaker ----------------------------
(* Small instances of ToolBreaker for TLC.                                 *)
EXTENDS ToolBreaker, TLC

Symmetry == Permutations(Calls)
=============================================================================
