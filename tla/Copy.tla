-------------------------------- MODULE Copy --------------------------------
(***************************************************************************)
(* What transferring files promises: chunks arrive in order, what has      *)
(* arrived stays (an interrupted transfer is resumed, not restarted), and  *)
(* a file is called received only when all of it is there.                 *)
(***************************************************************************)
EXTENDS Naturals

CONSTANTS Files, Size      \* Size[f] is the number of chunks of file f

VARIABLES have,            \* have[f]: the chunks of f that have arrived
          received         \* the files the receiver has called received

Init == have = [f \in Files |-> 0] /\ received = {}

Deliver(f) == /\ have[f] < Size[f]
              /\ have' = [have EXCEPT ![f] = @ + 1]
              /\ UNCHANGED received

Complete(f) == /\ have[f] = Size[f]
               /\ received' = received \union {f}
               /\ UNCHANGED have

Next == \E f \in Files : Deliver(f) \/ Complete(f)

Spec == Init /\ [][Next]_<<have, received>>
=============================================================================
