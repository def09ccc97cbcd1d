------------------------------ MODULE WorkQueue ------------------------------
(***************************************************************************)
(* The linked list behind the thread pool (20190207/thread_pool:           *)
(* queOperate.c, work_que.h) with the life of its nodes: main callocs a    *)
(* node for each connection and inserts it, a worker pops it, serves the   *)
(* connection and frees it, and the allocator may then hand the same cell  *)
(* to main again.  Each queue operation runs under queMutex, so it is one  *)
(* action.  When a worker gets to its pop is ThreadPool's subject; here a  *)
(* worker without a node may try at any time.  PoolList is the two         *)
(* together.                                                               *)
(***************************************************************************)
EXTENDS Integers, Sequences, Functions

CONSTANTS
    Node,      \* heap cells
    Worker,    \* threads of the pool
    Main,      \* the accepting thread, which pops too when it shuts down
    Capacity,  \* threadQue->Capacity
    NULL

Thread == Worker \cup {Main}

VARIABLES
    phead, pTail, currentSize,  \* struct Que
    nextNode,   \* nextNode[n]: the field of cell n
    allocated,  \* cells calloc has returned and nobody has freed
    mainNode,   \* main's node between calloc and queInsert, else NULL
    pnode,      \* pnode[t]: the node t popped last and is not done with
                \* (main's is called closep), else NULL
    main,       \* what main is doing: "serving", "draining", "joining"
    ret,        \* the value the last queue operation returned
    order       \* auxiliary: the nodes inserted and not popped, oldest first

queVars == <<phead, pTail, currentSize, nextNode>>
vars == <<phead, pTail, currentSize, nextNode, allocated, mainNode, pnode,
          main, ret, order>>

Init ==
    /\ phead = NULL
    /\ pTail = NULL
    /\ currentSize = 0
    /\ nextNode = [n \in Node |-> NULL]
    /\ allocated = {}
    /\ mainNode = NULL
    /\ pnode = [t \in Thread |-> NULL]
    /\ main = "serving"
    /\ ret = 0
    /\ order = << >>

(***************************************************************************)
(* The two list operations.                                                *)
(***************************************************************************)
(* Mutants: insertion at the head; a pop that leaves phead where it was.   *)

QueInsertAtHead(n) ==
    /\ currentSize # Capacity
    /\ phead' = n
    /\ nextNode' = [nextNode EXCEPT ![n] = phead]
    /\ pTail' = IF phead = NULL THEN n ELSE pTail
    /\ currentSize' = currentSize + 1
    /\ ret' = 0
    /\ order' = Append(order, n)

QuePopKeepsHead ==
    /\ currentSize # 0
    /\ currentSize' = currentSize - 1
    /\ ret' = 0
    /\ order' = Tail(order)
    /\ UNCHANGED <<phead, pTail, nextNode>>

QueInsert(n) ==
    /\ currentSize # Capacity
    /\ phead' = IF phead = NULL THEN n ELSE phead
    /\ nextNode' = IF phead = NULL THEN nextNode
                                   ELSE [nextNode EXCEPT ![pTail] = n]
    /\ pTail' = n
    /\ currentSize' = currentSize + 1
    /\ ret' = 0
    /\ order' = Append(order, n)

QueInsertFull ==
    /\ currentSize = Capacity
    /\ ret' = -1
    /\ UNCHANGED <<queVars, order>>

QuePop ==
    /\ currentSize # 0
    /\ phead' = nextNode[phead]
    /\ currentSize' = currentSize - 1
    /\ ret' = 0
    /\ order' = Tail(order)
    /\ UNCHANGED <<pTail, nextNode>>

QuePopEmpty ==
    /\ currentSize = 0
    /\ ret' = -1
    /\ UNCHANGED <<queVars, order>>

(***************************************************************************)
(* Their callers.  A node main could not insert is closed, not freed; so   *)
(* is one that main pops while it drains the queue on shutdown.            *)
(***************************************************************************)
(* Mutant: malloc in place of calloc. *)
Malloc(n) ==
    /\ main = "serving"
    /\ mainNode = NULL
    /\ n \notin allocated
    /\ allocated' = allocated \cup {n}
    /\ mainNode' = n
    /\ UNCHANGED <<queVars, pnode, main, ret, order>>

Calloc(n) ==
    /\ main = "serving"
    /\ mainNode = NULL
    /\ n \notin allocated
    /\ allocated' = allocated \cup {n}
    /\ nextNode' = [nextNode EXCEPT ![n] = NULL]
    /\ mainNode' = n
    /\ UNCHANGED <<phead, pTail, currentSize, pnode, main, ret, order>>

MainInsert ==
    /\ mainNode # NULL
    /\ QueInsert(mainNode) \/ QueInsertFull
    /\ mainNode' = NULL
    /\ UNCHANGED <<allocated, pnode, main>>

Shutdown ==
    /\ main = "serving"
    /\ mainNode = NULL
    /\ main' = "draining"
    /\ UNCHANGED <<queVars, allocated, mainNode, pnode, ret, order>>

Pop(t) ==
    /\ QuePop
    /\ pnode' = [pnode EXCEPT ![t] = phead]
    /\ UNCHANGED <<allocated, mainNode, main>>

MainDrain ==
    /\ main = "draining"
    /\ pnode[Main] = NULL
    /\ \/ Pop(Main)
       \/ QuePopEmpty /\ main' = "joining" /\ UNCHANGED <<allocated, mainNode, pnode>>

MainClose ==
    /\ pnode[Main] # NULL
    /\ pnode' = [pnode EXCEPT ![Main] = NULL]
    /\ UNCHANGED <<queVars, allocated, mainNode, main, ret, order>>

WorkerPop(w) ==
    /\ pnode[w] = NULL
    /\ \/ Pop(w)
       \/ QuePopEmpty /\ UNCHANGED <<allocated, mainNode, pnode, main>>

WorkerFree(w) ==
    /\ pnode[w] # NULL
    /\ allocated' = allocated \ {pnode[w]}
    /\ pnode' = [pnode EXCEPT ![w] = NULL]
    /\ UNCHANGED <<queVars, mainNode, main, ret, order>>

Next ==
    \/ \E n \in Node : Calloc(n)
    \/ MainInsert
    \/ Shutdown
    \/ MainDrain
    \/ MainClose
    \/ \E w \in Worker : WorkerPop(w) \/ WorkerFree(w)

Spec == Init /\ [][Next]_vars

-----------------------------------------------------------------------------
(* Type invariant: every field and local holds a value of its kind, and    *)
(* currentSize never leaves 0..Capacity (work_que.h:11-16).                *)
TypeOK ==
    /\ phead \in Node \cup {NULL}
    /\ pTail \in Node \cup {NULL}
    /\ currentSize \in 0..Capacity
    /\ nextNode \in [Node -> Node \cup {NULL}]
    /\ allocated \in SUBSET Node
    /\ mainNode \in Node \cup {NULL}
    /\ pnode \in [Thread -> Node \cup {NULL}]
    /\ main \in {"serving", "draining", "joining"}
    /\ ret \in {-1, 0}
    /\ order \in Seq(Node)

(* The list threaded through nextNode from phead is exactly the inserted   *)
(* nodes, in insertion order, and ends in NULL at pTail; an empty list has *)
(* phead = NULL, which is what queInsert tests (quePop leaves pTail        *)
(* dangling, so it must not be used then).  It needs calloc's zeroed       *)
(* nextNode: a reused cell still holding its old link would splice a freed *)
(* cell into the list.                                                     *)
ListShape ==
    /\ currentSize = Len(order)
    /\ order = << >> => phead = NULL
    /\ order # << >> => /\ phead = order[1]
                        /\ pTail = order[Len(order)]
                        /\ nextNode[pTail] = NULL
    /\ \A i \in 1..Len(order) - 1 : nextNode[order[i]] = order[i + 1]

(* A node is in one pair of hands at a time: main's, the queue's or one    *)
(* worker's; whatever any of them can reach is allocated, so no thread     *)
(* dereferences or frees a cell twice.                                     *)
OneOwner ==
    /\ mainNode # NULL => mainNode \in allocated
    /\ \A i \in 1..Len(order) :
          /\ order[i] \in allocated
          /\ order[i] # mainNode
          /\ \A j \in 1..Len(order) : order[i] = order[j] => i = j
    /\ \A t \in Thread : pnode[t] # NULL =>
          /\ pnode[t] \in allocated
          /\ pnode[t] # mainNode
          /\ \A i \in 1..Len(order) : order[i] # pnode[t]
          /\ \A u \in Thread : pnode[u] = pnode[t] => u = t

(* The pool's queue hands connections over first come, first served: with  *)
(* the cells the pops return as what the threads take, the linked list is  *)
(* the bounded FIFO of module Fifo (comment at work_que.h:10).             *)
Queue == INSTANCE Fifo WITH
    Item <- Node, Consumer <- Thread, NoItem <- NULL,
    queue <- order, taken <- pnode

FirstComeFirstServed == Queue!Spec
=============================================================================
