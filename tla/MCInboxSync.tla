----------------------------- MODULE MCInboxSync -----------------------------
(* Instance for TLC: the values of the constants are in the .cfg files.    *)
EXTENDS InboxSync, TLC

(* Every command runs on one device.                                       *)
CONSTANT d1
OneDevice == [c \in Commands |-> d1]

Symmetry == Permutations(Handlers) \union Permutations(Commands)
=============================================================================
