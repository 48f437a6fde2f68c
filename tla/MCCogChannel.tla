---------------------------- MODULE MCCogChannel ----------------------------
(* Instances of CogChannel for TLC. *)
EXTENDS CogChannel, TLC

CONSTANTS w1, w2, u1, u2, list, get, set, ok

Symmetry == Permutations(Worker) \cup Permutations(User)
=============================================================================
