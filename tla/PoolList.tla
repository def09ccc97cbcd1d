------------------------------ MODULE PoolList ------------------------------
(***************************************************************************)
(* The server of 20190207/thread_pool with the linked list behind its      *)
(* queue: ThreadPool, which speaks of connections in a FIFO, and           *)
(* WorkQueue, which speaks of cells and links, take the steps of main.c    *)
(* together.  A cell's newfd joins the two.  WorkQueue alone lets the      *)
(* threads call the list in any order; here they call it where main.c      *)
(* does.                                                                   *)
(***************************************************************************)
EXTENDS ThreadPool

CONSTANTS
    Node,      \* heap cells
    Main,      \* the accepting thread
    NULL

ASSUME ListAssumption == Main \notin Worker /\ NULL \notin Node

VARIABLES
    phead, pTail, currentSize, nextNode, allocated, mainNode, pnode,
    lister,    \* what main is doing with the list
    ret, order,
    newfdOf    \* newfdOf[n]: the field newfd of cell n

Q == INSTANCE WorkQueue WITH main <- lister

list == <<phead, pTail, currentSize, nextNode, allocated, mainNode, pnode,
          lister, ret, order>>
poolVars == <<vars, list, newfdOf>>

PoolInit ==
    /\ Init
    /\ Q!Init
    /\ newfdOf = [n \in Node |-> None]

(* calloc, accept, and the assignment to the cell's newfd. *)
AcceptNode(c, n) ==
    /\ Accept(c)
    /\ Q!Calloc(n)
    /\ newfdOf' = [newfdOf EXCEPT ![n] = c]

(* Main's and a worker's steps with the list. *)
MainList ==
    /\ \/ Insert /\ Q!MainInsert
       \/ StartExit /\ Q!Shutdown
       \/ Drain /\ Q!MainDrain
       \/ Drop /\ Q!MainClose
    /\ UNCHANGED newfdOf

WorkerList(w) ==
    /\ \/ Take(w) /\ Q!WorkerPop(w)
       \/ Serve(w) /\ Q!WorkerFree(w)
       \/ Wait(w) /\ currentSize = 0 /\ UNCHANGED list
    /\ UNCHANGED newfdOf

(* Their steps without. *)
Aside ==
    /\ \/ Refuse \/ Signal \/ Wake \/ Join \/ SigFunc \/ Terminated
       \/ \E w \in Worker : Check(w) \/ SpuriousWakeup(w)
    /\ UNCHANGED <<list, newfdOf>>

PoolNext ==
    \/ \E c \in Client, n \in Node : AcceptNode(c, n)
    \/ MainList
    \/ \E w \in Worker : WorkerList(w)
    \/ Aside

PoolSpec == PoolInit /\ [][PoolNext]_poolVars

-----------------------------------------------------------------------------
(* What thread t has popped: the newfd of its node. *)
Popped(t) == IF pnode[t] = NULL THEN None ELSE newfdOf[pnode[t]]

(* The list threaded from phead is sound, and the connections in its cells *)
(* are the server's queue, in its order.  So currentSize, which the code   *)
(* tests, is empty or full just when ThreadPool's queue is.                *)
ListShape ==
    /\ Q!ListShape
    /\ queue = [i \in 1..Len(order) |-> newfdOf[order[i]]]

(* Every cell is in one pair of hands, and a worker serves the connection  *)
(* of the node it holds, which it can still read (main.c:19-24): nobody    *)
(* has freed the cell or written the next connection into it.              *)
OneOwner ==
    /\ Q!OneOwner
    /\ \A w \in Worker : serving[w] = Popped(w)

(* The list, called as the server calls it, is the bounded FIFO.           *)
FirstComeFirstServed == Q!FirstComeFirstServed
=============================================================================
