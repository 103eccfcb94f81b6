---------------------------- MODULE MCRequestAuth ----------------------------
(* Instance for TLC: the values of the constants are in the .cfg files.    *)
EXTENDS RequestAuth, TLC

Symmetry == Permutations(Handlers) \union Permutations(NonceKeys)
=============================================================================
