---------------------------- MODULE MCActivitySync ----------------------------
(* Instance for TLC: the values of the constants are in the .cfg file.     *)
EXTENDS ActivitySync, TLC

(* Two commands may overlap on the first device, one runs on the second.   *)
CONSTANTS d1, d2, c3
TwoAndOne == [c \in Commands |-> IF c = c3 THEN d2 ELSE d1]

Symmetry == Permutations(Commands \ {c3})
=============================================================================
