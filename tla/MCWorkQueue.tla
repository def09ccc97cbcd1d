---------------------------- MODULE MCWorkQueue ----------------------------
(* Model-checking instance of PoolList. *)
EXTENDS PoolList, TLC

Symmetry == Permutations(Node) \cup Permutations(Worker) \cup Permutations(Client)
=============================================================================
