---------------------------- MODULE MCTransFile ----------------------------
(* Instances of TransFile: one file to send, one to get, of 1 to 3 chunks. *)
EXTENDS TransFile
CONSTANTS putFile, getFile
MCSize == [f \in Files |-> IF f = putFile THEN 2 ELSE 3]
=============================================================================
