---------------------------- MODULE MCPublishSearch ----------------------------
(* Instance for TLC: the values of the constants are in the .cfg file.     *)
EXTENDS PublishSearch, TLC

(* Two ids share their score.                                              *)
SomeScores == [id \in PublishIds |-> id % 2]

Symmetry == Permutations(Tags)
=============================================================================
