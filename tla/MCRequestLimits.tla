--------------------------- MODULE MCRequestLimits ---------------------------
(* Instance for TLC: the values of the constants are in the .cfg file.     *)
EXTENDS RequestLimits

(* Two requests per window and key.                                        *)
TwoEach == [k \in Keys |-> 2]
=============================================================================
