----------------------------- MODULE ConnTable -----------------------------
(***************************************************************************)
(* Connections in the file server FileServerAdvance (src/main.cpp): what   *)
(* main, the supervising thread and the workers do to the tables that are  *)
(* keyed by a descriptor number - the kernel's descriptors and epoll set,  *)
(* the map mp from descriptor to node, the ring fdSet of the idle timeout, *)
(* the work queue and the count currentSize.                               *)
(*                                                                         *)
(* setMutex protects the ring only; close, free and mp.erase are separate  *)
(* steps in each thread, and any of the other threads may run in between.  *)
(* What a command does to the user's session or files is left to other     *)
(* modules: here it either keeps the connection or ends it.  An operation  *)
(* on mp takes effect at once (the tree itself is not modelled).           *)
(*                                                                         *)
(* A node is one calloced object, not an address: it is named by the       *)
(* descriptor its newfd holds for life and a tag, which serves again only  *)
(* once nothing refers to the old object.  So a use of a freed object      *)
(* shows as such even if the allocator has given its memory out again.  A  *)
(* use of NULL or of a freed object is undefined: fault names the first    *)
(* one, and no behaviour after it is described.                            *)
(***************************************************************************)
EXTENDS Integers, Sequences, FiniteSets, Functions

CONSTANTS
    Fd,        \* descriptor numbers accept may return
    Tag,       \* tells apart the nodes made for one descriptor number
    Worker,
    TimeOut,   \* the ring has TimeOut + 1 slots
    MaxNum,    \* most clients at a time, and capacity of the work queue
    Protocol,  \* clients send what client.cpp sends: 2 first or never, else 1
    NULL

ASSUME TimeOutAssumption == TimeOut \in Nat \ {0}
ASSUME MaxNumAssumption == MaxNum \in Nat \ {0}
ASSUME ProtocolAssumption == Protocol \in BOOLEAN
Node == Fd \X Tag
newfd(n) == n[1]

ASSUME NullNotNode == NULL \notin Node

Slot == 0..TimeOut
Listen == "socketfd"

ASSUME ListenAssumption == Listen \notin Fd

VARIABLES
    open,         \* descriptors the kernel has open for clients
    epoll,        \* descriptors registered with epoll
    mp,           \* mp[fd]: its node, or NULL
    allocated,    \* nodes calloced and not freed
    setPos,       \* setPos[n]: the field of node n
    fdSet,        \* fdSet[s]: slot s of the ring
    fdPointer,
    currentSize,  \* clients connected, as main counts them
    que,          \* threadQue
    main,         \* main: its place, the events left, newfd, pnode, and
                  \* whether this client is known to send no 2
    sup,          \* supervise: its place, the iterator's rest, and *it
    worker,       \* worker[w]: its place and its pnode
    fault,        \* the first invalid dereference, or "none"
    silent        \* auxiliary: silent[fd], ring turns since main last put fd
                  \* in the ring; -1 before the first time

kernelVars == <<open, epoll>>
ringVars == <<fdSet, fdPointer, silent>>
nodeVars == <<mp, allocated, setPos>>
vars == <<open, epoll, mp, allocated, setPos, fdSet, fdPointer, currentSize, que,
          main, sup, worker, fault, silent>>

Init ==
    /\ open = {} /\ epoll = {}
    /\ mp = [fd \in Fd |-> NULL]
    /\ allocated = {}
    /\ setPos = [n \in Node |-> 0]
    /\ fdSet = [s \in Slot |-> {}]
    /\ fdPointer = 0
    /\ currentSize = 0
    /\ que = << >>
    /\ main = [pc |-> "loop", evs |-> {}, newfd |-> NULL, pnode |-> NULL,
               known |-> FALSE]
    /\ sup = [pc |-> "sleep", left |-> {}, it |-> NULL]
    /\ worker = [w \in Worker |-> [pc |-> "pop", pnode |-> NULL]]
    /\ fault = "none"
    /\ silent = [fd \in Fd |-> -1]

-----------------------------------------------------------------------------
(* What the threads share. *)

(* Where a thread is; nothing runs after a fault.                          *)
MainAt(pc) == fault = "none" /\ main.pc = pc
SupAt(pc) == fault = "none" /\ sup.pc = pc
WorkerAt(w, pc) == fault = "none" /\ worker[w].pc = pc

(* close(fd): whatever connection has that number now; EBADF if none has.  *)
Close(fd) ==
    /\ open' = open \ {fd}
    /\ epoll' = epoll \ {fd}
    /\ silent' = [silent EXCEPT ![fd] = -1]

(* free(mp[fd]): mp[] yields NULL for a missing key, and free(NULL) is     *)
(* nothing; a node already freed aborts the process.  The fields of a      *)
(* freed node are undefined, so setPos gets one value for all of them.     *)
FreeMapped(fd) ==
    IF mp[fd] # NULL /\ mp[fd] \notin allocated
    THEN fault' = "doubleFree" /\ UNCHANGED <<allocated, setPos>>
    ELSE /\ fault' = fault
         /\ allocated' = allocated \ {mp[fd]}
         /\ setPos' = [n \in Node |-> IF n = mp[fd] THEN 0 ELSE setPos[n]]

Erase(fd) == mp' = [mp EXCEPT ![fd] = NULL]

(* A use of a node through a pointer: valid until the object is freed.     *)
Valid(n) == n \in allocated
InvalidUse(n) ==
    /\ ~Valid(n)
    /\ fault' = IF n = NULL THEN "null" ELSE "freed"

Referenced == Range(mp) \cup Range(que) \cup {main.pnode}
              \cup {worker[w].pnode : w \in Worker}

SetMutexFree == sup.pc = "sleep"

(* setPos = fdPointer - 1, wrapping to TimeOut: the slot the supervisor    *)
(* reaches last.                                                           *)
LastSlot == IF fdPointer = 0 THEN TimeOut ELSE fdPointer - 1

-----------------------------------------------------------------------------
(* The main thread. *)
Goto(pc) == main' = [main EXCEPT !.pc = pc]

(* The next iteration of the event loop; newfd and pnode are set afresh.   *)
Continue == main' = [main EXCEPT !.pc = "loop", !.newfd = NULL, !.pnode = NULL,
                                 !.known = FALSE]

(* Any registered client may have sent something or closed its end, and    *)
(* another may be waiting to be accepted while a descriptor is left (a     *)
(* bound of the model).                                                    *)
EpollWait ==
    /\ MainAt("loop")
    /\ main.evs = {}
    /\ \E evs \in SUBSET (epoll \cup (IF open = Fd THEN {} ELSE {Listen})) \ {{}} :
          main' = [main EXCEPT !.evs = evs]
    /\ UNCHANGED <<kernelVars, nodeVars, ringVars, currentSize, que, sup,
                   worker, fault>>

Accept(n) ==
    /\ MainAt("loop")
    /\ Listen \in main.evs
    /\ newfd(n) \notin open
    /\ n \notin Referenced
    /\ open' = open \cup {newfd(n)}
    /\ allocated' = (allocated \cap Referenced) \cup {n}
    /\ setPos' = [setPos EXCEPT ![n] = 0]
    /\ main' = [pc |-> "accepted", evs |-> main.evs \ {Listen},
                newfd |-> newfd(n), pnode |-> n, known |-> FALSE]
    /\ UNCHANGED <<epoll, mp, ringVars, currentSize, que, sup, worker, fault>>

Admit ==
    /\ MainAt("accepted")
    /\ currentSize < MaxNum
    /\ currentSize' = currentSize + 1
    /\ mp' = [mp EXCEPT ![main.newfd] = main.pnode]
    /\ epoll' = epoll \cup ({main.newfd} \cap open)
    /\ Continue
    /\ UNCHANGED <<open, allocated, setPos, ringVars, que, sup, worker, fault>>

Reject ==
    /\ MainAt("accepted")
    /\ currentSize >= MaxNum
    /\ Close(main.newfd)
    /\ allocated' = allocated \ {main.pnode}
    /\ Continue
    /\ UNCHANGED <<mp, setPos, fdSet, fdPointer, currentSize, que, sup, worker, fault>>

Lookup(fd) ==
    /\ MainAt("loop")
    /\ fd \in main.evs
    /\ fd # Listen
    /\ main' = [pc |-> "insert", evs |-> main.evs \ {fd}, newfd |-> fd,
                pnode |-> mp[fd], known |-> Protocol /\ silent[fd] >= 0]
    /\ UNCHANGED <<kernelVars, nodeVars, ringVars, currentSize, que, sup,
                   worker, fault>>

(* Mutant: the old entry is erased after the new one is made.              *)
PutInRingThenErase(n, from) ==
    /\ setPos' = [setPos EXCEPT ![n] = LastSlot]
    /\ fdSet' = [s \in Slot |->
          IF s \in from THEN fdSet[s] \ {newfd(n)}
          ELSE IF s = LastSlot THEN fdSet[s] \cup {newfd(n)} ELSE fdSet[s]]
    /\ silent' = [silent EXCEPT ![newfd(n)] = IF newfd(n) \in open THEN 0 ELSE -1]

(* pnode->setPos = ..., fdSet[setPos].insert(pnode->newfd), after erasing  *)
(* the descriptor from the slots in from.                                  *)
PutInRing(n, from) ==
    /\ setPos' = [setPos EXCEPT ![n] = LastSlot]
    /\ fdSet' = [s \in Slot |->
          IF s = LastSlot THEN fdSet[s] \cup {newfd(n)}
          ELSE IF s \in from THEN fdSet[s] \ {newfd(n)} ELSE fdSet[s]]
    /\ silent' = [silent EXCEPT ![newfd(n)] = IF newfd(n) \in open THEN 0 ELSE -1]

RingInsert ==
    /\ MainAt("insert")
    /\ SetMutexFree
    /\ IF Valid(main.pnode)
       THEN PutInRing(main.pnode, {}) /\ fault' = fault
       ELSE InvalidUse(main.pnode) /\ UNCHANGED <<setPos, fdSet, silent>>
    /\ Goto("header")
    /\ UNCHANGED <<kernelVars, mp, allocated, fdPointer, currentSize, que, sup,
                   worker>>

(* recv of the header: 1 (or nothing, when recv fails), 2, or else; the    *)
(* client may take any time.                                               *)
Header ==
    /\ MainAt("header")
    /\ \/ Goto("update")
       \/ ~main.known /\ Goto("unring")
       \/ ~Protocol /\ Continue
    /\ UNCHANGED <<kernelVars, nodeVars, ringVars, currentSize, que, sup,
                   worker, fault>>

RingUpdate ==
    /\ MainAt("update")
    /\ SetMutexFree
    /\ IF Valid(main.pnode)
       THEN PutInRing(main.pnode, {setPos[main.pnode]}) /\ fault' = fault
       ELSE InvalidUse(main.pnode) /\ UNCHANGED <<setPos, fdSet, silent>>
    /\ Goto("command")
    /\ UNCHANGED <<kernelVars, mp, allocated, fdPointer, currentSize, que, sup,
                   worker>>

(* One command of the session: the connection stays or main ends it.       *)
Command ==
    /\ MainAt("command")
    /\ IF Valid(main.pnode)
       THEN (Continue \/ Goto("close")) /\ fault' = fault
       ELSE InvalidUse(main.pnode) /\ main' = main
    /\ UNCHANGED <<kernelVars, nodeVars, ringVars, currentSize, que, sup,
                   worker>>

RingErase ==
    /\ MainAt("unring")
    /\ SetMutexFree
    /\ IF Valid(main.pnode)
       THEN /\ fdSet' = [fdSet EXCEPT ![setPos[main.pnode]] = @ \ {newfd(main.pnode)}]
            /\ fault' = fault
       ELSE InvalidUse(main.pnode) /\ fdSet' = fdSet
    /\ Goto("token")
    /\ UNCHANGED <<kernelVars, nodeVars, fdPointer, silent, currentSize, que, sup,
                   worker>>

(* The token is wrong, or the queue is full: main ends the connection.     *)
TokenRefused ==
    /\ MainAt("token")
    /\ Goto("close")
    /\ UNCHANGED <<kernelVars, nodeVars, ringVars, currentSize, que, sup,
                   worker, fault>>

TokenAccepted ==
    /\ MainAt("token")
    /\ IF Valid(main.pnode)
       THEN /\ fault' = fault
            /\ IF Len(que) = MaxNum
               THEN Goto("close") /\ que' = que
               ELSE /\ que' = Append(que, main.pnode)
                    /\ Goto("handed")
       ELSE InvalidUse(main.pnode) /\ UNCHANGED <<que, main>>
    /\ UNCHANGED <<kernelVars, nodeVars, ringVars, currentSize, sup, worker>>

HandOver ==
    /\ MainAt("handed")
    /\ epoll' = epoll \ {main.newfd}
    /\ currentSize' = currentSize - 1
    /\ Continue
    /\ UNCHANGED <<open, nodeVars, ringVars, que, sup, worker, fault>>

MainClose ==
    /\ MainAt("close")
    /\ Close(main.newfd)
    /\ Goto("free")
    /\ UNCHANGED <<nodeVars, fdSet, fdPointer, currentSize, que, sup, worker, fault>>

MainFree ==
    /\ MainAt("free")
    /\ FreeMapped(main.newfd)
    /\ Goto("erase")
    /\ UNCHANGED <<kernelVars, mp, ringVars, currentSize, que, sup,
                   worker>>

MainErase ==
    /\ MainAt("erase")
    /\ Erase(main.newfd)
    /\ currentSize' = currentSize - 1
    /\ Continue
    /\ UNCHANGED <<kernelVars, allocated, setPos, ringVars, que, sup, worker,
                   fault>>

-----------------------------------------------------------------------------
(* The supervising thread: once a second, with setMutex held throughout.   *)
(* Mutant: the supervisor takes the client it drops off the count, though  *)
(* main may be dropping it too.                                            *)
SupEraseCounts ==
    /\ SupAt("erase")
    /\ Erase(sup.it)
    /\ currentSize' = currentSize - 1
    /\ sup' = [sup EXCEPT !.pc = "scan", !.it = NULL]
    /\ UNCHANGED <<kernelVars, allocated, setPos, ringVars, que, main, worker,
                   fault>>

SupLock ==
    /\ SupAt("sleep")
    /\ sup' = [pc |-> "scan", left |-> fdSet[fdPointer], it |-> NULL]
    /\ UNCHANGED <<kernelVars, nodeVars, ringVars, currentSize, que, main,
                   worker, fault>>

SupClose(fd) ==
    /\ SupAt("scan")
    /\ fd \in sup.left
    /\ Close(fd)
    /\ sup' = [pc |-> "free", left |-> sup.left \ {fd}, it |-> fd]
    /\ UNCHANGED <<nodeVars, fdSet, fdPointer, currentSize, que, main, worker, fault>>

SupFree ==
    /\ SupAt("free")
    /\ FreeMapped(sup.it)
    /\ sup' = [sup EXCEPT !.pc = "erase"]
    /\ UNCHANGED <<kernelVars, mp, ringVars, currentSize, que, main,
                   worker>>

SupErase ==
    /\ SupAt("erase")
    /\ Erase(sup.it)
    /\ sup' = [sup EXCEPT !.pc = "scan", !.it = NULL]
    /\ UNCHANGED <<kernelVars, allocated, setPos, ringVars, currentSize, que,
                   main, worker, fault>>

SupAdvance ==
    /\ SupAt("scan")
    /\ sup.left = {}
    /\ fdSet' = [fdSet EXCEPT ![fdPointer] = {}]
    /\ fdPointer' = (fdPointer + 1) % (TimeOut + 1)
    /\ silent' = [fd \in Fd |-> IF silent[fd] \in 0..TimeOut
                                THEN silent[fd] + 1 ELSE silent[fd]]
    /\ sup' = [sup EXCEPT !.pc = "sleep"]
    /\ UNCHANGED <<kernelVars, nodeVars, currentSize, que, main, worker, fault>>

-----------------------------------------------------------------------------
(* A worker: ThreadPool shows how it waits; here it pops when it can.      *)
Pop(w) ==
    /\ WorkerAt(w, "pop")
    /\ que # << >>
    /\ worker' = [worker EXCEPT ![w] = [pc |-> "transfer", pnode |-> Head(que)]]
    /\ que' = Tail(que)
    /\ UNCHANGED <<kernelVars, nodeVars, ringVars, currentSize, main, sup,
                   fault>>

(* The whole transfer, of any length, then close(pnode->newfd).            *)
WorkerClose(w) ==
    /\ WorkerAt(w, "transfer")
    /\ IF Valid(worker[w].pnode)
       THEN Close(newfd(worker[w].pnode)) /\ fault' = fault
       ELSE InvalidUse(worker[w].pnode) /\ UNCHANGED <<kernelVars, silent>>
    /\ worker' = [worker EXCEPT ![w].pc = "free"]
    /\ UNCHANGED <<nodeVars, fdSet, fdPointer, currentSize, que, main, sup>>

WorkerFree(w) ==
    /\ WorkerAt(w, "free")
    /\ IF Valid(worker[w].pnode)
       THEN FreeMapped(newfd(worker[w].pnode))
       ELSE InvalidUse(worker[w].pnode) /\ UNCHANGED <<allocated, setPos>>
    /\ worker' = [worker EXCEPT ![w].pc = "erase"]
    /\ UNCHANGED <<kernelVars, mp, ringVars, currentSize, que, main, sup>>

(* mp.erase(pnode->newfd) reads the node free has just been given: the old *)
(* number may still be there, or the allocator's data, which is no key.    *)
WorkerErase(w) ==
    /\ WorkerAt(w, "erase")
    /\ \/ Erase(newfd(worker[w].pnode))
       \/ ~Valid(worker[w].pnode) /\ mp' = mp
    /\ worker' = [worker EXCEPT ![w] = [pc |-> "pop", pnode |-> NULL]]
    /\ UNCHANGED <<kernelVars, allocated, setPos, ringVars, currentSize, que,
                   main, sup, fault>>

-----------------------------------------------------------------------------
MainStep ==
    \/ EpollWait
    \/ \E n \in Node : Accept(n)
    \/ Admit \/ Reject
    \/ \E fd \in Fd : Lookup(fd)
    \/ RingInsert \/ Header \/ RingUpdate \/ Command
    \/ RingErase \/ TokenRefused \/ TokenAccepted \/ HandOver
    \/ MainClose \/ MainFree \/ MainErase

SupStep ==
    \/ SupLock \/ SupFree \/ SupErase \/ SupAdvance
    \/ \E fd \in Fd : SupClose(fd)

WorkerStep(w) == Pop(w) \/ WorkerClose(w) \/ WorkerFree(w) \/ WorkerErase(w)

Next == MainStep \/ SupStep \/ \E w \in Worker : WorkerStep(w)

Spec == Init /\ [][Next]_vars

(* The supervisor is a thread of its own and waits for nobody for ever:    *)
(* main holds setMutex only across two set operations.                     *)
FairSpec == Spec /\ WF_vars(SupStep)

-----------------------------------------------------------------------------
(* The place and the locals of main, of supervise and of a worker.         *)
MainPlace == {"loop", "accepted", "insert", "header", "update", "command",
              "unring", "token", "handed", "close", "free", "erase"}
MainState == [pc : MainPlace, evs : SUBSET (Fd \cup {Listen}),
              newfd : Fd \cup {NULL}, pnode : Node \cup {NULL}, known : BOOLEAN]
SupState == [pc : {"sleep", "scan", "free", "erase"},
             left : SUBSET Fd, it : Fd \cup {NULL}]
WorkerState == [pc : {"pop", "transfer", "free", "erase"},
                pnode : Node \cup {NULL}]

(* Type invariant of the tables and of each thread's place (main.cpp:15-21,*)
(* 54-72, 462-484, 705-709).                                               *)
TypeOK ==
    /\ open \in SUBSET Fd /\ epoll \in SUBSET open
    /\ mp \in [Fd -> Node \cup {NULL}]
    /\ allocated \in SUBSET Node
    /\ setPos \in [Node -> Slot]
    /\ fdSet \in [Slot -> SUBSET Fd] /\ fdPointer \in Slot
    /\ silent \in [Fd -> -1..TimeOut + 1]
    /\ currentSize \in 0..MaxNum
    /\ que \in Seq(Node) /\ Len(que) <= MaxNum
    /\ main \in MainState /\ sup \in SupState
    /\ worker \in [Worker -> WorkerState]
    /\ fault \in {"none", "null", "freed", "doubleFree"}

(* Between events: main waits in epoll_wait and supervise sleeps.          *)
Quiet == main.pc = "loop" /\ main.evs = {} /\ sup.pc = "sleep"

(* A client that has sent something and then falls silent is closed before *)
(* the ring has turned more than TimeOut times: the entry main made last   *)
(* is in the slot the supervisor reaches TimeOut turns later, wherever     *)
(* fdPointer wraps and however the supervisor's second falls between the   *)
(* two updates of one event (main.cpp:111-115, 122-127, 712-724).          *)
IdleBound ==
    \A fd \in epoll : fd # main.newfd => silent[fd] <= TimeOut

(* setPos names a slot that holds the descriptor, so the erase at the next *)
(* update (main.cpp:123, 187) removes the entry it means to remove.        *)
RingPosition ==
    \A fd \in epoll : silent[fd] >= 0 /\ fd # main.newfd /\ mp[fd] \in allocated
        => fd \in fdSet[setPos[mp[fd]]]

(* main never counts too few: the clients registered with epoll are at     *)
(* most currentSize, so never more than MaxNum, whichever of the three     *)
(* threads closes connections under main (main.cpp:90-95, 138, 217, 228).  *)
CountBounds == Cardinality(epoll) <= currentSize /\ currentSize <= MaxNum

(* "number of clients connected" (main.cpp:70): between events currentSize *)
(* is the number of clients main serves.                                   *)
CountIsClients == Quiet => currentSize = Cardinality(epoll)

(* "close the descriptors in the set: they have timed out after 30 s"      *)
(* (main.cpp:707, and :16): what the supervisor closes has been silent for *)
(* TimeOut turns of the ring.                                              *)
ClosedAfterTimeOut ==
    [][\A fd \in open : SupClose(fd) => silent[fd] >= TimeOut]_vars

(* "maps newfd to its pNode" (main.cpp:19): a client main serves is mapped *)
(* to a node that is still there.                                          *)
MapHasNode == Quiet => \A fd \in epoll : mp[fd] \in allocated

(* "puts and gets are deleted from the ring" (main.cpp:185): a connection  *)
(* that waits for a worker is in no slot, so no timeout cuts its transfer. *)
TransferNotInRing ==
    \A i \in 1..Len(que), s \in Slot : newfd(que[i]) \notin fdSet[s]

(* A client that has sent something and falls silent is disconnected,      *)
(* whatever the other clients, main and the workers do.                    *)
HeardIsDropped ==
    \A fd \in Fd : fd \in epoll /\ silent[fd] >= 0
        ~> fd \notin epoll \/ fd = main.newfd \/ fault # "none"

(* "ring queue, to disconnect after 30 s" (main.cpp:16): every client that *)
(* stays silent is disconnected.                                           *)
SilentIsDropped ==
    \A fd \in Fd : fd \in epoll
        ~> fd \notin epoll \/ fd = main.newfd \/ fault # "none"
=============================================================================
