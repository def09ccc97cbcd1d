-------------------------------- MODULE Fifo --------------------------------
(***************************************************************************)
(* What the work queue of the thread pools promises, whatever list it is   *)
(* kept in: a bounded first-come-first-served hand-over of connections     *)
(* from the accepting thread to the threads that take them (work_que.h,    *)
(* "implements first come, first served").  An insertion fails exactly     *)
(* when Capacity items wait, a pop fails exactly when none does, and an    *)
(* item is in one pair of hands at a time.                                 *)
(***************************************************************************)
EXTENDS Integers, Sequences, Functions

CONSTANTS Item, Consumer, Capacity, NoItem

VARIABLES
    queue,  \* the items waiting, oldest first
    taken,  \* taken[c]: the item c is working on, or NoItem
    ret     \* what the last queue operation returned: 0 done, -1 refused

vars == <<queue, taken, ret>>

Init ==
    /\ queue = << >>
    /\ taken = [c \in Consumer |-> NoItem]
    /\ ret = 0

Insert(i) ==
    /\ Len(queue) < Capacity
    /\ i \notin Range(queue)
    /\ \A c \in Consumer : taken[c] # i
    /\ queue' = Append(queue, i)
    /\ ret' = 0
    /\ UNCHANGED taken

RefuseFull ==
    /\ Len(queue) = Capacity
    /\ ret' = -1
    /\ UNCHANGED <<queue, taken>>

Pop(c) ==
    /\ queue # << >>
    /\ taken[c] = NoItem
    /\ taken' = [taken EXCEPT ![c] = Head(queue)]
    /\ queue' = Tail(queue)
    /\ ret' = 0

RefuseEmpty ==
    /\ queue = << >>
    /\ ret' = -1
    /\ UNCHANGED <<queue, taken>>

Finish(c) ==
    /\ taken[c] # NoItem
    /\ taken' = [taken EXCEPT ![c] = NoItem]
    /\ UNCHANGED <<queue, ret>>

Next ==
    \/ \E i \in Item : Insert(i)
    \/ \E c \in Consumer : Pop(c) \/ Finish(c)
    \/ RefuseFull
    \/ RefuseEmpty

Spec == Init /\ [][Next]_vars
=============================================================================
