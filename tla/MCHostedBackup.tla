---------------------------- MODULE MCHostedBackup ----------------------------
(* Instance for TLC: the values of the constants are in the .cfg file.     *)
EXTENDS HostedBackup, TLC

Symmetry == Permutations(Handlers) \union Permutations(Lookups)
                \union Permutations(Tokens)
=============================================================================
