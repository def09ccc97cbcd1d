--------------------------- MODULE MCProcessPool ---------------------------
(* Instances of ProcessPool. *)
EXTENDS ProcessPool
=============================================================================
