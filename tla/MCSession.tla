------------------------------ MODULE MCSession ------------------------------
(* Model-checking instances of Session. *)
EXTENDS Session, TLC

CONSTANTS n1, n2, p1, p2

(* Two people, or one, have registered before, or nobody.  *)
MCRows == {<<n1, p1>>, <<n2, p2>>}
MCOneRow == {<<n1, p1>>}
MCNoRows == {}

Symmetry == Permutations(Fd)
=============================================================================
