---------------------------- MODULE MCConnTable ----------------------------
(* Model-checking instances of ConnTable. *)
EXTENDS ConnTable, TLC

Symmetry == Permutations(Tag) \cup Permutations(Worker) \cup Permutations(Fd)
=============================================================================
