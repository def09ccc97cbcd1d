---------------------------- MODULE MCThreadPool ----------------------------
(* Model-checking instances of ThreadPool. *)
EXTENDS ThreadPool, TLC

Symmetry == Permutations(Client) \cup Permutations(Worker)
=============================================================================
