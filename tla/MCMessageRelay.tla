---------------------------- MODULE MCMessageRelay ----------------------------
(* Instance for TLC: the values of the constants are in the .cfg files.    *)
EXTENDS MessageRelay, TLC

Symmetry == Permutations(Handlers)
=============================================================================
