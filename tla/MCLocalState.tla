----------------------------- MODULE MCLocalState -----------------------------
(* Instance for TLC: the values of the constants are in the .cfg file.     *)
EXTENDS LocalState, TLC

Symmetry == Permutations(Commands)
=============================================================================
