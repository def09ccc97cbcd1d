-------------------------- MODULE ConnTableProofs --------------------------
(***************************************************************************)
(* The connection tables of FileServerAdvance for every number of          *)
(* descriptors, nodes and workers, every ring and every limit: main never  *)
(* counts too few clients, and no client it has heard from outlives the    *)
(* ring.                                                                   *)
(*                                                                         *)
(* CountBounds is not inductive: main takes a client off the count at the  *)
(* end of an event, possibly long after the supervisor closed it, so the   *)
(* count must be known to cover the clients of the events still to come    *)
(* (Counted).  IdleBound is not either: it holds because of where in the   *)
(* ring a client is (InRing), which in turn needs the erase of another     *)
(* client never to hit it, hence that main's pointer is a node of the      *)
(* descriptor main serves (NodeIsMains, MapIsByFd).                        *)
(***************************************************************************)
EXTENDS ConnTable, FiniteSetTheorems, TLAPS

(* Main serves a client it has looked up: until it goes on to the next     *)
(* event, that client is on the count.                                     *)
Serving == main.pc \in {"insert", "header", "update", "command", "unring",
                        "token", "handed", "close", "free", "erase"}

(* Whom the count covers: who is registered, who is in the events main has *)
(* fetched and not yet served, and the one main serves.                    *)
Counted == epoll \cup (main.evs \ {Listen})
           \cup (IF Serving THEN {main.newfd} ELSE {})

(* The count covers them, and is within its limit.                         *)
CountSound ==
    /\ IsFiniteSet(Counted)
    /\ currentSize \in Nat
    /\ Cardinality(Counted) <= currentSize
    /\ currentSize <= MaxNum

(* Inductive because a client served is in no other event, so that it is   *)
(* not covered any more when main takes it off the count.                  *)
CountInv ==
    /\ CountSound
    /\ Serving => main.newfd \notin main.evs
    /\ main.pc \in {"free", "erase"} => main.newfd \notin epoll

(* The slot k turns behind the supervisor's.                               *)
Back(k) == IF k < fdPointer THEN fdPointer - 1 - k ELSE fdPointer + TimeOut - k

(* Main is past the erase of the client it hands over or refuses.          *)
Unringed(fd) == fd = main.newfd
                /\ main.pc \in {"token", "handed", "close", "free", "erase"}

(* A client silent for k turns is in the slot k behind; after TimeOut      *)
(* turns it is in the slot the supervisor scans, and in what is left of it *)
(* once the scan has begun.                                                *)
InRing(fd) ==
    /\ silent[fd] \in Slot
    /\ fd \in fdSet[Back(silent[fd])]
    /\ (silent[fd] = TimeOut /\ sup.pc # "sleep") => fd \in sup.left
    /\ mp[fd] \in allocated => setPos[mp[fd]] = Back(silent[fd])

(* What main hears from is in the ring until it is taken out or closed.    *)
HeardInRing == \A fd \in epoll : Unringed(fd) \/ silent[fd] = -1 \/ InRing(fd)

(* A descriptor that is closed starts over.                                *)
ClosedIsUnheard == \A fd \in Fd \ open : silent[fd] = -1

(* A node is mapped under the descriptor it carries (main.cpp:93).         *)
MapIsByFd == \A fd \in Fd : mp[fd] # NULL => newfd(mp[fd]) = fd

(* The node main works on is the one it looked up for newfd, and while     *)
(* both are there mp still has it.                                         *)
NodeIsMains ==
    /\ main.pc = "loop" => main.newfd = NULL /\ main.pnode = NULL
    /\ main.pc = "accepted" => silent[main.newfd] = -1 /\ main.pnode # NULL
    /\ main.pnode # NULL => newfd(main.pnode) = main.newfd
    /\ (Serving /\ mp[main.newfd] \in allocated /\ main.pnode \in allocated)
          => mp[main.newfd] = main.pnode

(* The ring, the map and main's own pointer.                               *)
RingInv == HeardInRing /\ ClosedIsUnheard /\ MapIsByFd /\ NodeIsMains

(* Main has a client except between events.                                *)
Placed == main.pc # "loop" => main.newfd \in Fd

(* The inductive invariant.                                                *)
IInv == TypeOK /\ Placed /\ CountInv /\ RingInv

-----------------------------------------------------------------------------
(* Types. *)
(* A node carries the descriptor it was made for (main.cpp:85-86).         *)
LEMMA NodeFd ==
    ASSUME NEW n \in Node PROVE newfd(n) \in Fd
  BY DEF Node, newfd

(* The slot before fdPointer is one of the ring, also across its end       *)
(* (main.cpp:112, 124).                                                    *)
LEMMA LastSlotIsSlot ==
    ASSUME fdPointer \in Slot PROVE LastSlot \in Slot
  BY TimeOutAssumption, SMT DEF Slot, LastSlot

(* How fdPointer moves on: by one, and from the last slot to the first     *)
(* (main.cpp:723).                                                         *)
LEMMA NextSlot ==
    ASSUME NEW p \in Slot
    PROVE  (p + 1) % (TimeOut + 1) = (IF p = TimeOut THEN 0 ELSE p + 1)
  <1>1. CASE p = TimeOut
    BY <1>1, TimeOutAssumption, SMT DEF Slot
  <1>2. CASE p # TimeOut
    <2>1. p + 1 \in 0..TimeOut /\ TimeOut + 1 \in Nat \ {0}
      BY <1>2, TimeOutAssumption, SMT DEF Slot
    <2> QED
      BY <2>1, <1>2, TimeOutAssumption, SMT DEF Slot
  <1> QED
    BY <1>1, <1>2

(* While main serves a client the count is not 0, so taking it off the     *)
(* count leaves a count (main.cpp:138, 217, 228).                          *)
LEMMA SizeDrops ==
    ASSUME TypeOK, Placed, CountInv, Serving
    PROVE  currentSize - 1 \in 0..MaxNum
  <1>1. main.newfd \in Counted
    BY DEF Counted
  <1>2. Cardinality(Counted) # 0
    BY <1>1, FS_EmptySet DEF CountInv, CountSound
  <1> QED
    BY <1>2, FS_CardinalityType, MaxNumAssumption, SMT DEF CountInv, CountSound

(* Main moves within an event: its locals stay.                            *)
LEMMA GotoMain ==
    ASSUME main \in MainState, NEW pc \in MainPlace, Goto(pc)
    PROVE  /\ main' \in MainState
           /\ main'.pc = pc
           /\ main'.evs = main.evs /\ main'.newfd = main.newfd
           /\ main'.pnode = main.pnode
  BY DEF Goto, MainState

(* Main goes on to its next event: only the events are left.               *)
LEMMA ContinueMain ==
    ASSUME main \in MainState, Continue
    PROVE  /\ main' \in MainState
           /\ main'.pc = "loop"
           /\ main'.evs = main.evs /\ main'.newfd = NULL /\ main'.pnode = NULL
  BY DEF Continue, MainState, MainPlace

(* close keeps the types of what the kernel has.                           *)
LEMMA CloseTypes ==
    ASSUME TypeOK, NEW fd \in Fd, Close(fd)
    PROVE  /\ open' \in SUBSET Fd /\ epoll' \in SUBSET open'
           /\ silent' \in [Fd -> -1..TimeOut + 1]
  BY TimeOutAssumption, SMT DEF TypeOK, Close

(* free keeps the types of the nodes, if it aborts as well.                *)
LEMMA FreeTypes ==
    ASSUME TypeOK, NEW fd, FreeMapped(fd)
    PROVE  /\ allocated' \in SUBSET Node
           /\ setPos' \in [Node -> Slot]
           /\ fault' \in {"none", "null", "freed", "doubleFree"}
  BY TimeOutAssumption, SMT DEF TypeOK, FreeMapped, Slot

(* mp.erase keeps the type of mp.                                          *)
LEMMA EraseTypes ==
    ASSUME TypeOK, NEW fd, Erase(fd)
    PROVE  mp' \in [Fd -> Node \cup {NULL}]
  BY DEF TypeOK, Erase

(* The two updates of the ring keep its types (main.cpp:111-115, 122-127). *)
LEMMA PutTypes ==
    ASSUME TypeOK, NEW n \in Node, NEW from, PutInRing(n, from)
    PROVE  /\ setPos' \in [Node -> Slot]
           /\ fdSet' \in [Slot -> SUBSET Fd]
           /\ silent' \in [Fd -> -1..TimeOut + 1]
  <1>1. setPos' \in [Node -> Slot]
    BY LastSlotIsSlot DEF PutInRing, TypeOK
  <1>2. fdSet' \in [Slot -> SUBSET Fd]
    BY NodeFd DEF PutInRing, TypeOK
  <1>3. silent' \in [Fd -> -1..TimeOut + 1]
    <2>1. 0 \in -1..TimeOut + 1 /\ -1 \in -1..TimeOut + 1
      BY TimeOutAssumption, SMT
    <2>2. PICK v \in {0, -1} : silent' = [silent EXCEPT ![newfd(n)] = v]
      BY DEF PutInRing
    <2> QED
      BY <2>1, <2>2 DEF TypeOK
  <1> QED
    BY <1>1, <1>2, <1>3

(* A use of an invalid pointer is one of the faults.                       *)
LEMMA UseTypes ==
    ASSUME NEW n, InvalidUse(n)
    PROVE  fault' \in {"none", "null", "freed", "doubleFree"}
  BY DEF InvalidUse

(* EpollWait keeps the types.                                              *)
LEMMA EpollWaitType ==
    ASSUME TypeOK, Placed, CountInv, EpollWait
    PROVE  TypeOK' /\ Placed'
  <1>1. PICK evs \in SUBSET (Fd \cup {Listen}) : main' = [main EXCEPT !.evs = evs]
    BY DEF EpollWait, TypeOK
  <1>2. main' \in MainState /\ Placed'
    BY <1>1 DEF EpollWait, TypeOK, MainState, Placed, MainAt
  <1> QED
    BY <1>2 DEF EpollWait, TypeOK, kernelVars, ringVars, nodeVars

(* Accept keeps the types.                                                 *)
LEMMA AcceptType ==
    ASSUME TypeOK, Placed, CountInv, NEW n \in Node, Accept(n)
    PROVE  TypeOK' /\ Placed'
  <1>1. main' \in MainState /\ Placed'
    BY NodeFd DEF Accept, TypeOK, MainState, MainPlace, Placed
  <1>2. open' \in SUBSET Fd /\ epoll' \in SUBSET open' /\ allocated' \in SUBSET Node
    BY NodeFd DEF Accept, TypeOK
  <1>3. setPos' \in [Node -> Slot]
    BY TimeOutAssumption, SMT DEF Accept, TypeOK, Slot
  <1> QED
    BY <1>1, <1>2, <1>3 DEF Accept, TypeOK, kernelVars, ringVars, nodeVars

(* Admit keeps the types.                                                  *)
LEMMA AdmitType ==
    ASSUME TypeOK, Placed, CountInv, Admit
    PROVE  TypeOK' /\ Placed'
  <1>1. main' \in MainState /\ Placed'
    BY ContinueMain DEF Admit, TypeOK, Placed
  <1>2. mp' \in [Fd -> Node \cup {NULL}]
    BY DEF Admit, TypeOK, MainState
  <1>3. epoll' \in SUBSET open' /\ open' \in SUBSET Fd
    BY DEF Admit, TypeOK
  <1>4. currentSize' \in 0..MaxNum
    BY MaxNumAssumption, SMT DEF Admit, TypeOK
  <1> QED
    BY <1>1, <1>2, <1>3, <1>4 DEF Admit, TypeOK, kernelVars, ringVars, nodeVars

(* Reject keeps the types.                                                 *)
LEMMA RejectType ==
    ASSUME TypeOK, Placed, CountInv, Reject
    PROVE  TypeOK' /\ Placed'
  <1>1. main' \in MainState /\ Placed'
    BY ContinueMain DEF Reject, TypeOK, Placed
  <1>2. main.newfd \in Fd
    BY DEF Reject, MainAt, Placed
  <1>3. /\ open' \in SUBSET Fd /\ epoll' \in SUBSET open'
        /\ silent' \in [Fd -> -1..TimeOut + 1]
    BY <1>2, CloseTypes DEF Reject
  <1> QED
    BY <1>1, <1>3 DEF Reject, TypeOK, kernelVars, ringVars, nodeVars

(* Lookup keeps the types.                                                 *)
LEMMA LookupType ==
    ASSUME TypeOK, Placed, CountInv, NEW fd \in Fd, Lookup(fd)
    PROVE  TypeOK' /\ Placed'
  <1>1. mp[fd] \in Node \cup {NULL} /\ (Protocol /\ silent[fd] >= 0) \in BOOLEAN
    BY DEF TypeOK
  <1>2. main' \in MainState /\ Placed'
    BY <1>1 DEF Lookup, TypeOK, MainState, MainPlace, Placed
  <1> QED
    BY <1>2 DEF Lookup, TypeOK, kernelVars, ringVars, nodeVars

(* RingInsert keeps the types.                                             *)
LEMMA RingInsertType ==
    ASSUME TypeOK, Placed, CountInv, RingInsert
    PROVE  TypeOK' /\ Placed'
  <1>1. main' \in MainState /\ Placed'
    BY GotoMain, ContinueMain DEF RingInsert, TypeOK, Placed, MainPlace, MainAt
  <1>2. CASE Valid(main.pnode)
    <2>1. main.pnode \in Node
      BY <1>2 DEF Valid, TypeOK
    <2>2. PutInRing(main.pnode, {}) /\ fault' = fault
      BY <1>2 DEF RingInsert
    <2>3. /\ setPos' \in [Node -> Slot]
          /\ fdSet' \in [Slot -> SUBSET Fd]
          /\ silent' \in [Fd -> -1..TimeOut + 1]
      BY <2>1, <2>2, PutTypes
    <2> QED
      BY <1>1, <2>2, <2>3 DEF RingInsert, TypeOK, kernelVars, ringVars, nodeVars
  <1>3. CASE ~Valid(main.pnode)
    BY <1>1, <1>3, UseTypes DEF RingInsert, TypeOK, kernelVars, ringVars, nodeVars
  <1> QED
    BY <1>2, <1>3

(* RingUpdate keeps the types.                                             *)
LEMMA RingUpdateType ==
    ASSUME TypeOK, Placed, CountInv, RingUpdate
    PROVE  TypeOK' /\ Placed'
  <1>1. main' \in MainState /\ Placed'
    BY GotoMain, ContinueMain DEF RingUpdate, TypeOK, Placed, MainPlace, MainAt
  <1>2. CASE Valid(main.pnode)
    <2>1. main.pnode \in Node
      BY <1>2 DEF Valid, TypeOK
    <2>2. PutInRing(main.pnode, {setPos[main.pnode]}) /\ fault' = fault
      BY <1>2 DEF RingUpdate
    <2>3. /\ setPos' \in [Node -> Slot]
          /\ fdSet' \in [Slot -> SUBSET Fd]
          /\ silent' \in [Fd -> -1..TimeOut + 1]
      BY <2>1, <2>2, PutTypes
    <2> QED
      BY <1>1, <2>2, <2>3 DEF RingUpdate, TypeOK, kernelVars, ringVars, nodeVars
  <1>3. CASE ~Valid(main.pnode)
    BY <1>1, <1>3, UseTypes DEF RingUpdate, TypeOK, kernelVars, ringVars, nodeVars
  <1> QED
    BY <1>2, <1>3

(* Header keeps the types.                                                 *)
LEMMA HeaderType ==
    ASSUME TypeOK, Placed, CountInv, Header
    PROVE  TypeOK' /\ Placed'
  <1>1. main' \in MainState /\ Placed'
    BY GotoMain, ContinueMain DEF Header, TypeOK, Placed, MainPlace, MainAt
  <1> QED
    BY <1>1 DEF Header, TypeOK, kernelVars, ringVars, nodeVars

(* Command keeps the types.                                                *)
LEMMA CommandType ==
    ASSUME TypeOK, Placed, CountInv, Command
    PROVE  TypeOK' /\ Placed'
  <1>1. main' \in MainState /\ Placed'
    BY GotoMain, ContinueMain DEF Command, TypeOK, Placed, MainPlace, MainAt
  <1> QED
    BY <1>1, UseTypes DEF Command, TypeOK, kernelVars, ringVars, nodeVars

(* RingErase keeps the types.                                              *)
LEMMA RingEraseType ==
    ASSUME TypeOK, Placed, CountInv, RingErase
    PROVE  TypeOK' /\ Placed'
  <1>1. main' \in MainState /\ Placed'
    BY GotoMain, ContinueMain DEF RingErase, TypeOK, Placed, MainPlace, MainAt
  <1>2. /\ fdSet' \in [Slot -> SUBSET Fd]
        /\ fault' \in {"none", "null", "freed", "doubleFree"}
    BY UseTypes DEF RingErase, TypeOK
  <1> QED
    BY <1>1, <1>2 DEF RingErase, TypeOK, kernelVars, ringVars, nodeVars

(* TokenRefused keeps the types.                                           *)
LEMMA TokenRefusedType ==
    ASSUME TypeOK, Placed, CountInv, TokenRefused
    PROVE  TypeOK' /\ Placed'
  <1>1. main' \in MainState /\ Placed'
    BY GotoMain, ContinueMain DEF TokenRefused, TypeOK, Placed, MainPlace, MainAt
  <1> QED
    BY <1>1 DEF TokenRefused, TypeOK, kernelVars, ringVars, nodeVars

(* TokenAccepted keeps the types.                                          *)
LEMMA TokenAcceptedType ==
    ASSUME TypeOK, Placed, CountInv, TokenAccepted
    PROVE  TypeOK' /\ Placed'
  <1>1. main' \in MainState /\ Placed'
    BY GotoMain, ContinueMain DEF TokenAccepted, TypeOK, Placed, MainPlace, MainAt
  <1>2. que' \in Seq(Node) /\ Len(que') <= MaxNum
    <2>1. CASE que' = que
      BY <2>1 DEF TypeOK
    <2>2. CASE que' # que
      <3>1. main.pnode \in Node /\ Len(que) # MaxNum /\ que' = Append(que, main.pnode)
        BY <2>2 DEF TokenAccepted, Valid, TypeOK
      <3>2. que \in Seq(Node) /\ Len(que) <= MaxNum
        BY DEF TypeOK
      <3> QED
        BY <3>1, <3>2, MaxNumAssumption, SMT
    <2> QED
      BY <2>1, <2>2
  <1>3. fault' \in {"none", "null", "freed", "doubleFree"}
    BY UseTypes DEF TokenAccepted, TypeOK
  <1> QED
    BY <1>1, <1>2, <1>3 DEF TokenAccepted, TypeOK, kernelVars, ringVars, nodeVars

(* HandOver keeps the types.                                               *)
LEMMA HandOverType ==
    ASSUME TypeOK, Placed, CountInv, HandOver
    PROVE  TypeOK' /\ Placed'
  <1>1. main' \in MainState /\ Placed'
    BY ContinueMain DEF HandOver, TypeOK, Placed
  <1>2. currentSize' \in 0..MaxNum
    BY SizeDrops DEF HandOver, Serving, MainAt
  <1> QED
    BY <1>1, <1>2 DEF HandOver, TypeOK, kernelVars, ringVars, nodeVars

(* MainClose keeps the types.                                              *)
LEMMA MainCloseType ==
    ASSUME TypeOK, Placed, CountInv, MainClose
    PROVE  TypeOK' /\ Placed'
  <1>1. main' \in MainState /\ Placed'
    BY GotoMain, ContinueMain DEF MainClose, TypeOK, Placed, MainPlace, MainAt
  <1>2. main.newfd \in Fd
    BY DEF MainClose, MainAt, Placed
  <1>3. /\ open' \in SUBSET Fd /\ epoll' \in SUBSET open'
        /\ silent' \in [Fd -> -1..TimeOut + 1]
    BY <1>2, CloseTypes DEF MainClose
  <1> QED
    BY <1>1, <1>3 DEF MainClose, TypeOK, kernelVars, ringVars, nodeVars

(* MainFree keeps the types.                                               *)
LEMMA MainFreeType ==
    ASSUME TypeOK, Placed, CountInv, MainFree
    PROVE  TypeOK' /\ Placed'
  <1>1. main' \in MainState /\ Placed'
    BY GotoMain, ContinueMain DEF MainFree, TypeOK, Placed, MainPlace, MainAt
  <1>3. /\ allocated' \in SUBSET Node
        /\ setPos' \in [Node -> Slot]
        /\ fault' \in {"none", "null", "freed", "doubleFree"}
    BY FreeTypes DEF MainFree
  <1> QED
    BY <1>1, <1>3 DEF MainFree, TypeOK, kernelVars, ringVars, nodeVars

(* MainErase keeps the types.                                              *)
LEMMA MainEraseType ==
    ASSUME TypeOK, Placed, CountInv, MainErase
    PROVE  TypeOK' /\ Placed'
  <1>1. main' \in MainState /\ Placed'
    BY ContinueMain DEF MainErase, TypeOK, Placed
  <1>2. currentSize' \in 0..MaxNum
    BY SizeDrops DEF MainErase, Serving, MainAt
  <1>3. mp' \in [Fd -> Node \cup {NULL}]
    BY EraseTypes DEF MainErase
  <1> QED
    BY <1>1, <1>2, <1>3 DEF MainErase, TypeOK, kernelVars, ringVars, nodeVars

(* SupLock keeps the types.                                                *)
LEMMA SupLockType ==
    ASSUME TypeOK, Placed, CountInv, SupLock
    PROVE  TypeOK' /\ Placed'
  <1>1. sup' \in SupState
    BY DEF SupLock, TypeOK, SupState
  <1> QED
    BY <1>1 DEF SupLock, TypeOK, Placed, kernelVars, ringVars,
         nodeVars

(* SupClose keeps the types.                                               *)
LEMMA SupCloseType ==
    ASSUME TypeOK, Placed, CountInv, NEW fd \in Fd, SupClose(fd)
    PROVE  TypeOK' /\ Placed'
  <1>1. sup' \in SupState
    BY DEF SupClose, TypeOK, SupState
  <1>2. /\ open' \in SUBSET Fd /\ epoll' \in SUBSET open'
        /\ silent' \in [Fd -> -1..TimeOut + 1]
    BY CloseTypes DEF SupClose
  <1> QED
    BY <1>1, <1>2 DEF SupClose, TypeOK, Placed, kernelVars, ringVars,
         nodeVars

(* SupFree keeps the types.                                                *)
LEMMA SupFreeType ==
    ASSUME TypeOK, Placed, CountInv, SupFree
    PROVE  TypeOK' /\ Placed'
  <1>1. sup' \in SupState
    BY DEF SupFree, TypeOK, SupState
  <1>2. /\ allocated' \in SUBSET Node
        /\ setPos' \in [Node -> Slot]
        /\ fault' \in {"none", "null", "freed", "doubleFree"}
    BY FreeTypes DEF SupFree
  <1> QED
    BY <1>1, <1>2 DEF SupFree, TypeOK, Placed, kernelVars, ringVars,
         nodeVars

(* SupErase keeps the types.                                               *)
LEMMA SupEraseType ==
    ASSUME TypeOK, Placed, CountInv, SupErase
    PROVE  TypeOK' /\ Placed'
  <1>1. sup' \in SupState
    BY DEF SupErase, TypeOK, SupState
  <1>2. mp' \in [Fd -> Node \cup {NULL}]
    BY EraseTypes DEF SupErase
  <1> QED
    BY <1>1, <1>2 DEF SupErase, TypeOK, Placed, kernelVars, ringVars,
         nodeVars

(* SupAdvance keeps the types.                                             *)
LEMMA SupAdvanceType ==
    ASSUME TypeOK, Placed, CountInv, SupAdvance
    PROVE  TypeOK' /\ Placed'
  <1>1. sup' \in SupState
    BY DEF SupAdvance, TypeOK, SupState
  <1>2. fdSet' \in [Slot -> SUBSET Fd]
    BY DEF SupAdvance, TypeOK
  <1>3. fdPointer' \in Slot
    BY NextSlot, TimeOutAssumption, SMT DEF SupAdvance, TypeOK, Slot
  <1>4. silent' \in [Fd -> -1..TimeOut + 1]
    BY TimeOutAssumption, SMT DEF SupAdvance, TypeOK
  <1> QED
    BY <1>1, <1>2, <1>3, <1>4 DEF SupAdvance, TypeOK, Placed, kernelVars, ringVars,
         nodeVars

(* Pop keeps the types.                                                    *)
LEMMA PopType ==
    ASSUME TypeOK, Placed, CountInv, NEW w \in Worker, Pop(w)
    PROVE  TypeOK' /\ Placed'
  <1>1. /\ Head(que) \in Node /\ que' \in Seq(Node)
        /\ Len(que') <= MaxNum
    BY MaxNumAssumption, SMT DEF Pop, TypeOK
  <1>2. worker' \in [Worker -> WorkerState]
    BY <1>1 DEF Pop, TypeOK, WorkerState
  <1> QED
    BY <1>1, <1>2 DEF Pop, TypeOK, Placed, kernelVars, ringVars,
         nodeVars

(* WorkerClose keeps the types.                                            *)
LEMMA WorkerCloseType ==
    ASSUME TypeOK, Placed, CountInv, NEW w \in Worker, WorkerClose(w)
    PROVE  TypeOK' /\ Placed'
  <1>1. worker' \in [Worker -> WorkerState]
    BY DEF WorkerClose, TypeOK, WorkerState
  <1>2. CASE Valid(worker[w].pnode)
    <2>1. newfd(worker[w].pnode) \in Fd
      BY <1>2, NodeFd DEF Valid, TypeOK
    <2>2. /\ open' \in SUBSET Fd /\ epoll' \in SUBSET open'
          /\ silent' \in [Fd -> -1..TimeOut + 1]
      BY <1>2, <2>1, CloseTypes DEF WorkerClose
    <2> QED
      BY <1>1, <1>2, <2>2 DEF WorkerClose, TypeOK, Placed, kernelVars, ringVars,
         nodeVars
  <1>3. CASE ~Valid(worker[w].pnode)
    BY <1>1, <1>3, UseTypes DEF WorkerClose, TypeOK, Placed, kernelVars, ringVars,
         nodeVars
  <1> QED
    BY <1>1, <1>2, <1>3 DEF WorkerClose, TypeOK, Placed, kernelVars, ringVars,
         nodeVars

(* WorkerFree keeps the types.                                             *)
LEMMA WorkerFreeType ==
    ASSUME TypeOK, Placed, CountInv, NEW w \in Worker, WorkerFree(w)
    PROVE  TypeOK' /\ Placed'
  <1>1. worker' \in [Worker -> WorkerState]
    BY DEF WorkerFree, TypeOK, WorkerState
  <1>2. /\ allocated' \in SUBSET Node
        /\ setPos' \in [Node -> Slot]
        /\ fault' \in {"none", "null", "freed", "doubleFree"}
    BY FreeTypes, UseTypes DEF WorkerFree, TypeOK
  <1> QED
    BY <1>1, <1>2 DEF WorkerFree, TypeOK, Placed, kernelVars, ringVars,
         nodeVars

(* WorkerErase keeps the types.                                            *)
LEMMA WorkerEraseType ==
    ASSUME TypeOK, Placed, CountInv, NEW w \in Worker, WorkerErase(w)
    PROVE  TypeOK' /\ Placed'
  <1>1. worker' \in [Worker -> WorkerState]
    BY DEF WorkerErase, TypeOK, WorkerState
  <1>2. mp' \in [Fd -> Node \cup {NULL}]
    BY EraseTypes DEF WorkerErase, TypeOK
  <1> QED
    BY <1>1, <1>2 DEF WorkerErase, TypeOK, Placed, kernelVars, ringVars,
         nodeVars

-----------------------------------------------------------------------------
(* The count. *)

(* At the start nobody is counted.                                         *)
LEMMA CountInit ==
    ASSUME Init PROVE CountInv
  <1>1. Counted = {}
    BY DEF Init, Counted, Serving
  <1> QED
    BY <1>1, FS_EmptySet, MaxNumAssumption, SMT DEF Init, CountInv, CountSound

(* If nobody new is covered and the count stays, the count stays sound.    *)
LEMMA FewerCounted ==
    ASSUME CountSound, Counted' \subseteq Counted, currentSize' = currentSize
    PROVE  CountSound'
  <1>1. /\ IsFiniteSet(Counted') /\ Cardinality(Counted') <= Cardinality(Counted)
        /\ Cardinality(Counted') \in Nat /\ Cardinality(Counted) \in Nat
    BY FS_Subset, FS_CardinalityType DEF CountSound
  <1> QED
    BY <1>1, MaxNumAssumption, SMT DEF CountSound

(* Who closes connections under main and leaves its count alone keeps the  *)
(* count sound: epoll only shrinks (main.cpp:574, 717-718).                *)
LEMMA OthersKeepCount ==
    ASSUME CountInv, UNCHANGED <<main, currentSize>>, epoll' \subseteq epoll
    PROVE  CountInv'
  <1>1. Counted' \subseteq Counted /\ Serving' = Serving
    BY DEF Counted, Serving
  <1> QED
    BY <1>1, FewerCounted DEF CountInv

(* So does main while it serves one client.                                *)
LEMMA ServingKeepsCount ==
    ASSUME CountInv, Serving, epoll' \subseteq epoll, currentSize' = currentSize,
           main'.evs = main.evs, main'.newfd = main.newfd,
           main'.pc \in {"free", "erase"} => main.newfd \notin epoll'
    PROVE  CountInv'
  <1>1. Counted' \subseteq Counted
    BY DEF Counted
  <1> QED
    BY <1>1, FewerCounted DEF CountInv

(* So does main when it goes on to the next event and the client stays, or *)
(* was never admitted.                                                     *)
LEMMA ContinueKeepsCount ==
    ASSUME CountInv, TypeOK, epoll' \subseteq epoll, currentSize' = currentSize,
           Continue
    PROVE  CountInv'
  <1>1. main'.pc = "loop" /\ main'.evs = main.evs
    BY ContinueMain DEF TypeOK
  <1>2. ~Serving' /\ Counted' \subseteq Counted
    BY <1>1 DEF Counted, Serving
  <1> QED
    BY <1>1, <1>2, FewerCounted DEF CountInv

(* Main takes off the count the client it serves, which is in no other     *)
(* event and no longer in epoll: one covered client less, one counted      *)
(* less.                                                                   *)
LEMMA ServedLeavesCount ==
    ASSUME CountInv, TypeOK, Serving, epoll' = epoll \ {main.newfd},
           currentSize' = currentSize - 1, Continue
    PROVE  CountInv'
  <1>1. main'.pc = "loop" /\ main'.evs = main.evs
    BY ContinueMain DEF TypeOK
  <1>2. main.newfd \in Counted /\ main.newfd \notin main.evs
    BY DEF Counted, CountInv
  <1>3. ~Serving' /\ Counted' \subseteq Counted \ {main.newfd}
    BY <1>1, <1>2 DEF Counted, Serving
  <1>4. /\ IsFiniteSet(Counted \ {main.newfd})
        /\ Cardinality(Counted \ {main.newfd}) = Cardinality(Counted) - 1
    BY <1>2, FS_RemoveElement DEF CountInv, CountSound
  <1>5. /\ IsFiniteSet(Counted')
        /\ Cardinality(Counted') <= Cardinality(Counted \ {main.newfd})
        /\ Cardinality(Counted') \in Nat /\ Cardinality(Counted) \in Nat
    BY <1>3, <1>4, FS_Subset, FS_CardinalityType DEF CountInv, CountSound
  <1>6. CountSound'
    BY <1>4, <1>5, MaxNumAssumption, SMT DEF CountInv, CountSound
  <1> QED
    BY <1>1, <1>3, <1>6 DEF CountInv

(* An admitted client is counted; if its number is in the events of an     *)
(* older connection still, it is covered already (main.cpp:90-104).        *)
LEMMA AdmitCount ==
    ASSUME TypeOK, CountInv, Admit PROVE CountInv'
  <1>1. main'.pc = "loop" /\ main'.evs = main.evs
    BY ContinueMain DEF TypeOK, Admit
  <1>2. ~Serving' /\ ~Serving
    BY <1>1 DEF Serving, Admit, MainAt
  <1>3. Counted' \subseteq Counted \cup {main.newfd}
    BY <1>1, <1>2 DEF Counted, Admit
  <1>4. /\ IsFiniteSet(Counted \cup {main.newfd})
        /\ Cardinality(Counted \cup {main.newfd}) <= Cardinality(Counted) + 1
    <2>1. Cardinality(Counted) \in Nat
      BY FS_CardinalityType DEF CountInv, CountSound
    <2>2. CASE main.newfd \in Counted
      <3>1. Counted \cup {main.newfd} = Counted
        BY <2>2
      <3> QED
        BY <2>1, <3>1, SMT DEF CountInv, CountSound
    <2>3. CASE main.newfd \notin Counted
      <3>1. /\ IsFiniteSet(Counted \cup {main.newfd})
            /\ Cardinality(Counted \cup {main.newfd}) = Cardinality(Counted) + 1
        BY <2>3, FS_AddElement DEF CountInv, CountSound
      <3> QED
        BY <2>1, <3>1, SMT
    <2> QED
      BY <2>2, <2>3
  <1>5. /\ IsFiniteSet(Counted')
        /\ Cardinality(Counted') <= Cardinality(Counted \cup {main.newfd})
        /\ Cardinality(Counted') \in Nat /\ Cardinality(Counted) \in Nat
        /\ Cardinality(Counted \cup {main.newfd}) \in Nat
    BY <1>3, <1>4, FS_Subset, FS_CardinalityType DEF CountInv, CountSound
  <1>6. CountSound'
    BY <1>4, <1>5, MaxNumAssumption, SMT DEF CountInv, CountSound, Admit
  <1> QED
    BY <1>1, <1>2, <1>6 DEF CountInv

(* From the events fetched to the client served: covered all the time      *)
(* (main.cpp:107-108).                                                     *)
LEMMA LookupCount ==
    ASSUME TypeOK, CountInv, NEW fd \in Fd, Lookup(fd) PROVE CountInv'
  <1>1. /\ main'.pc = "insert" /\ main'.evs = main.evs \ {fd}
        /\ main'.newfd = fd /\ fd \in main.evs /\ fd # Listen
        /\ epoll' = epoll /\ currentSize' = currentSize
    BY DEF Lookup, kernelVars
  <1>2. Counted' \subseteq Counted
    BY <1>1 DEF Counted
  <1> QED
    BY <1>1, <1>2, FewerCounted DEF CountInv

(* Every step of main keeps the count sound.                               *)
LEMMA MainCount ==
    ASSUME TypeOK, CountInv, MainStep PROVE CountInv'
  <1> USE DEF MainAt, kernelVars
  <1>1. CASE EpollWait
    <2>1. PICK evs \in SUBSET (epoll \cup {Listen}) : main' = [main EXCEPT !.evs = evs]
      BY <1>1 DEF EpollWait
    <2>2. /\ main.pc = "loop" /\ main'.pc = "loop" /\ main'.evs = evs
          /\ epoll' = epoll /\ currentSize' = currentSize
      BY <1>1, <2>1 DEF EpollWait, TypeOK, MainState
    <2>3. ~Serving' /\ Counted' \subseteq Counted
      BY <2>1, <2>2 DEF Counted, Serving
    <2> QED
      BY <2>2, <2>3, FewerCounted DEF CountInv
  <1>2. ASSUME NEW n \in Node, Accept(n) PROVE CountInv'
    <2>1. /\ main'.pc = "accepted" /\ main'.evs = main.evs \ {Listen}
          /\ epoll' = epoll /\ currentSize' = currentSize
      BY <1>2 DEF Accept
    <2>2. ~Serving' /\ Counted' \subseteq Counted
      BY <2>1 DEF Counted, Serving
    <2> QED
      BY <2>1, <2>2, FewerCounted DEF CountInv
  <1>3. CASE Admit
    BY <1>3, AdmitCount
  <1>4. CASE Reject
    BY <1>4, ContinueKeepsCount DEF Reject, Close
  <1>5. ASSUME NEW fd \in Fd, Lookup(fd) PROVE CountInv'
    BY <1>5, LookupCount
  <1>6. CASE RingInsert
    BY <1>6, GotoMain, ServingKeepsCount DEF RingInsert, Serving, TypeOK, MainPlace
  <1>7. CASE Header
    BY <1>7, GotoMain, ContinueKeepsCount, ServingKeepsCount
       DEF Header, Serving, TypeOK, MainPlace
  <1>8. CASE RingUpdate
    BY <1>8, GotoMain, ServingKeepsCount DEF RingUpdate, Serving, TypeOK, MainPlace
  <1>9. CASE Command
    BY <1>9, GotoMain, ContinueKeepsCount, ServingKeepsCount
       DEF Command, Serving, TypeOK, MainPlace
  <1>10. CASE RingErase
    BY <1>10, GotoMain, ServingKeepsCount DEF RingErase, Serving, TypeOK, MainPlace
  <1>11. CASE TokenRefused
    BY <1>11, GotoMain, ServingKeepsCount DEF TokenRefused, Serving, TypeOK, MainPlace
  <1>12. CASE TokenAccepted
    BY <1>12, GotoMain, ServingKeepsCount DEF TokenAccepted, Serving, TypeOK, MainPlace
  <1>13. CASE HandOver
    BY <1>13, ServedLeavesCount DEF HandOver, Serving
  <1>14. CASE MainClose
    BY <1>14, GotoMain, ServingKeepsCount DEF MainClose, Close, Serving, TypeOK, MainPlace
  <1>15. CASE MainFree
    BY <1>15, GotoMain, ServingKeepsCount
       DEF MainFree, CountInv, Serving, TypeOK, MainPlace
  <1>16. CASE MainErase
    BY <1>16, ServedLeavesCount DEF MainErase, CountInv, Serving
  <1> QED
    BY <1>1, <1>2, <1>3, <1>4, <1>5, <1>6, <1>7, <1>8, <1>9, <1>10, <1>11, <1>12,
       <1>13, <1>14, <1>15, <1>16 DEF MainStep

(* So does every step of the supervisor, which closes and does not count.  *)
LEMMA SupCount ==
    ASSUME CountInv, SupStep PROVE CountInv'
  <1>1. UNCHANGED <<main, currentSize>> /\ epoll' \subseteq epoll
    BY DEF SupStep, SupLock, SupClose, SupFree, SupErase, SupAdvance, Close, kernelVars
  <1> QED
    BY <1>1, OthersKeepCount

(* So does every step of a worker.                                         *)
LEMMA WorkerCount ==
    ASSUME CountInv, NEW w \in Worker, WorkerStep(w) PROVE CountInv'
  <1>1. UNCHANGED <<main, currentSize>> /\ epoll' \subseteq epoll
    BY DEF WorkerStep, Pop, WorkerClose, WorkerFree, WorkerErase, Close, kernelVars
  <1> QED
    BY <1>1, OthersKeepCount

-----------------------------------------------------------------------------
(* A step takes from mp and adds nothing to it.                            *)
MapShrinks == \A fd \in Fd : mp'[fd] = mp[fd] \/ mp'[fd] = NULL
(* A step takes nodes away and leaves the others as they are.              *)
NodesShrink == allocated' \subseteq allocated
               /\ \A n \in allocated' : setPos'[n] = setPos[n]
(* What mp has afterwards and is still there it had before, in the same    *)
(* slot of the ring.                                                       *)
MappedKept == \A fd \in Fd : mp'[fd] \in allocated' =>
                  /\ mp'[fd] = mp[fd] /\ mp[fd] \in allocated
                  /\ setPos'[mp[fd]] = setPos[mp[fd]]

(* mp.erase only takes from mp.                                            *)
LEMMA EraseShrinks ==
    ASSUME TypeOK, NEW fd, Erase(fd) PROVE MapShrinks
  BY DEF TypeOK, Erase, MapShrinks

(* free only takes nodes away, and touches no field of another.            *)
LEMMA FreeShrinks ==
    ASSUME TypeOK, NEW fd, FreeMapped(fd) PROVE NodesShrink
  BY DEF TypeOK, FreeMapped, NodesShrink

(* Then what mp has afterwards it had before.                              *)
LEMMA ShrinkKeepsMapped ==
    ASSUME TypeOK, TypeOK', MapShrinks, NodesShrink PROVE MappedKept
  <1>1. NULL \notin allocated'
    BY NullNotNode DEF TypeOK
  <1> QED
    BY <1>1 DEF MapShrinks, NodesShrink, MappedKept

(* A step that moves nothing in the ring and puts nobody into epoll keeps  *)
(* every client in the ring.                                               *)
LEMMA HeardFrame ==
    ASSUME TypeOK, HeardInRing, epoll' \subseteq epoll, UNCHANGED <<fdSet, fdPointer>>,
           MappedKept,
           \A fd \in epoll' : silent'[fd] = silent[fd] /\ (Unringed(fd) => Unringed(fd)'),
           sup'.pc # "sleep" =>
               sup.pc # "sleep" /\ sup.left \cap epoll' \subseteq sup'.left
    PROVE  HeardInRing'
  <1> SUFFICES ASSUME NEW fd \in epoll', ~Unringed(fd)', silent'[fd] # -1
               PROVE  InRing(fd)'
    BY DEF HeardInRing
  <1>1. fd \in Fd /\ InRing(fd) /\ silent'[fd] = silent[fd]
    BY DEF HeardInRing, TypeOK
  <1>2. Back(silent[fd])' = Back(silent[fd])
    BY <1>1 DEF Back
  <1> QED
    BY <1>1, <1>2 DEF InRing, MappedKept

(* close makes its descriptor unheard of and leaves the others alone.      *)
LEMMA CloseUnheard ==
    ASSUME TypeOK, ClosedIsUnheard, NEW fd, Close(fd)
    PROVE  /\ ClosedIsUnheard' /\ epoll' \subseteq epoll
           /\ \A f \in epoll' : silent'[f] = silent[f]
           /\ \A f \in Fd : silent[f] = -1 => silent'[f] = -1
           /\ fd \notin epoll'
  BY DEF TypeOK, Close, ClosedIsUnheard

(* A step that only takes from mp keeps each node under its own            *)
(* descriptor.                                                             *)
LEMMA MapFrame ==
    ASSUME MapShrinks, MapIsByFd PROVE MapIsByFd'
  BY DEF MapShrinks, MapIsByFd

(* A step of another thread keeps main's node main's.                      *)
LEMMA NodeFrame ==
    ASSUME TypeOK, TypeOK', Placed, NodeIsMains, MapShrinks, NodesShrink, main' = main,
           \A fd \in Fd : silent[fd] = -1 => silent'[fd] = -1
    PROVE  NodeIsMains'
  <1>1. MappedKept
    BY ShrinkKeepsMapped
  <1>2. main.pc # "loop" => main.newfd \in Fd
    BY DEF Placed
  <1> QED
    BY <1>1, <1>2 DEF NodeIsMains, MappedKept, NodesShrink, Serving

(* So does a step of main within an event.                                 *)
LEMMA ServingNode ==
    ASSUME TypeOK, TypeOK', Placed, NodeIsMains, MapShrinks, NodesShrink, Serving,
           Serving', main'.newfd = main.newfd, main'.pnode = main.pnode
    PROVE  NodeIsMains'
  <1>1. MappedKept
    BY ShrinkKeepsMapped
  <1>2. main.newfd \in Fd
    BY DEF Placed, Serving
  <1> QED
    BY <1>1, <1>2 DEF NodeIsMains, MappedKept, NodesShrink, Serving

(* At its next event main has no node.                                     *)
LEMMA ContinueNode ==
    ASSUME TypeOK, Continue PROVE NodeIsMains'
  <1>1. main'.pc = "loop" /\ main'.newfd = NULL /\ main'.pnode = NULL
    BY ContinueMain DEF TypeOK
  <1> QED
    BY <1>1 DEF NodeIsMains, Serving

(* At the start the ring is empty.                                         *)
LEMMA RingInit ==
    ASSUME Init PROVE RingInv
  <1>1. HeardInRing
    BY DEF Init, HeardInRing
  <1>2. ClosedIsUnheard /\ MapIsByFd
    BY DEF Init, ClosedIsUnheard, MapIsByFd
  <1>3. NodeIsMains
    BY DEF Init, NodeIsMains, Serving
  <1> QED
    BY <1>1, <1>2, <1>3 DEF RingInv

(* A step that touches no node takes nothing away.                         *)
LEMMA NodesStill ==
    ASSUME UNCHANGED nodeVars PROVE MapShrinks /\ NodesShrink
  BY DEF MapShrinks, NodesShrink, nodeVars

(* SupLock: the slot it iterates over is where the clients silent for      *)
(* TimeOut turns are (main.cpp:714-715).                                   *)
LEMMA SupLockRing ==
    ASSUME IInv, TypeOK', SupLock PROVE RingInv'
  <1>1. /\ MapShrinks /\ NodesShrink /\ UNCHANGED main
        /\ UNCHANGED <<epoll, open, silent, fdSet, fdPointer, mp, allocated, setPos>>
    BY NodesStill DEF SupLock, kernelVars, ringVars, nodeVars
  <1>2. HeardInRing'
    <2> SUFFICES ASSUME NEW fd \in epoll', ~Unringed(fd)', silent'[fd] # -1
                 PROVE  InRing(fd)'
      BY DEF HeardInRing
    <2>1. fd \in epoll /\ ~Unringed(fd) /\ silent[fd] # -1
      BY <1>1 DEF Unringed
    <2>2. InRing(fd)
      BY <2>1 DEF IInv, RingInv, HeardInRing
    <2>3. Back(silent[fd])' = Back(silent[fd])
      BY <1>1 DEF Back
    <2>4. Back(TimeOut) = fdPointer
      BY TimeOutAssumption, SMT DEF Back, IInv, TypeOK, Slot
    <2>5. sup'.left = fdSet[fdPointer]
      BY DEF SupLock
    <2> QED
      BY <1>1, <2>2, <2>3, <2>4, <2>5 DEF InRing
  <1>3. ClosedIsUnheard' /\ MapIsByFd'
    BY <1>1, MapFrame DEF IInv, RingInv, ClosedIsUnheard
  <1>4. NodeIsMains'
    BY <1>1, NodeFrame DEF IInv, RingInv
  <1> QED
    BY <1>2, <1>3, <1>4 DEF RingInv

(* SupClose: the client it closes leaves epoll before it leaves the        *)
(* iterator (main.cpp:717-718).                                            *)
LEMMA SupCloseRing ==
    ASSUME IInv, TypeOK', NEW fd \in Fd, SupClose(fd) PROVE RingInv'
  <1>1. /\ MapShrinks /\ NodesShrink /\ MappedKept
        /\ UNCHANGED <<fdSet, fdPointer, main>> /\ Close(fd)
    BY NodesStill, ShrinkKeepsMapped DEF SupClose, nodeVars, IInv
  <1>2. /\ ClosedIsUnheard' /\ epoll' \subseteq epoll
        /\ \A f \in epoll' : silent'[f] = silent[f]
        /\ \A f \in Fd : silent[f] = -1 => silent'[f] = -1
        /\ fd \notin epoll'
    BY <1>1, CloseUnheard DEF IInv, RingInv
  <1>3. sup.pc = "scan" /\ sup.left \cap epoll' \subseteq sup'.left
    BY <1>2 DEF SupClose, SupAt
  <1>4. \A f \in epoll' : Unringed(f) => Unringed(f)'
    BY <1>1 DEF Unringed
  <1>5. HeardInRing'
    BY <1>1, <1>2, <1>3, <1>4, HeardFrame DEF IInv, RingInv
  <1>6. NodeIsMains' /\ MapIsByFd'
    BY <1>1, <1>2, NodeFrame, MapFrame DEF IInv, RingInv
  <1> QED
    BY <1>2, <1>5, <1>6 DEF RingInv

(* A step that only takes nodes or entries of mp away keeps the ring.      *)
LEMMA NodeStepRing ==
    ASSUME IInv, TypeOK', MapShrinks, NodesShrink,
           UNCHANGED <<open, epoll, silent, fdSet, fdPointer, main>>,
           sup'.pc # "sleep" => sup.pc # "sleep" /\ sup'.left = sup.left
    PROVE  RingInv'
  <1>1. MappedKept
    BY ShrinkKeepsMapped DEF IInv
  <1>2. \A f \in epoll' : Unringed(f) => Unringed(f)'
    BY DEF Unringed
  <1>3. HeardInRing'
    BY <1>1, <1>2, HeardFrame DEF IInv, RingInv
  <1>4. NodeIsMains' /\ MapIsByFd'
    BY NodeFrame, MapFrame DEF IInv, RingInv
  <1>5. ClosedIsUnheard'
    BY DEF IInv, RingInv, ClosedIsUnheard
  <1> QED
    BY <1>3, <1>4, <1>5 DEF RingInv

(* SupAdvance: nobody was left in the slot it clears, and each client      *)
(* keeps its slot while the pointer and its silence move on together       *)
(* (main.cpp:722-724).                                                     *)
LEMMA SupAdvanceRing ==
    ASSUME IInv, TypeOK', SupAdvance PROVE RingInv'
  <1>1. /\ MapShrinks /\ NodesShrink /\ MappedKept
        /\ UNCHANGED <<epoll, open, mp, allocated, setPos, main>>
    BY NodesStill, ShrinkKeepsMapped DEF SupAdvance, kernelVars, nodeVars, IInv
  <1>2. \A f \in Fd : silent[f] = -1 => silent'[f] = -1
    BY TimeOutAssumption, SMT DEF SupAdvance
  <1>3. HeardInRing'
    <2> SUFFICES ASSUME NEW fd \in epoll', ~Unringed(fd)', silent'[fd] # -1
                 PROVE  InRing(fd)'
      BY DEF HeardInRing
    <2>1. fd \in Fd /\ fd \in epoll /\ ~Unringed(fd) /\ silent[fd] # -1
      BY <1>1, <1>2 DEF Unringed, IInv, TypeOK
    <2>2. InRing(fd)
      BY <2>1 DEF IInv, RingInv, HeardInRing
    <2>3. silent[fd] \in Slot /\ silent[fd] # TimeOut /\ fdPointer \in Slot
      BY <2>2 DEF InRing, SupAdvance, SupAt, IInv, TypeOK
    <2>4. silent'[fd] = silent[fd] + 1
      BY <2>1, <2>3 DEF SupAdvance, Slot
    <2>5. fdPointer' = IF fdPointer = TimeOut THEN 0 ELSE fdPointer + 1
      BY <2>3, NextSlot DEF SupAdvance
    <2>6. silent'[fd] \in Slot
      BY <2>3, <2>4, TimeOutAssumption, SMT DEF Slot
    <2>7. /\ Back(silent[fd])' = Back(silent[fd])
          /\ Back(silent[fd]) \in Slot /\ Back(silent[fd]) # fdPointer
      BY <2>3, <2>4, <2>5, TimeOutAssumption, SMT DEF Slot, Back
    <2>8. fdSet'[Back(silent[fd])] = fdSet[Back(silent[fd])]
      BY <2>7 DEF SupAdvance, IInv, TypeOK
    <2>9. sup'.pc = "sleep"
      BY DEF SupAdvance, IInv, TypeOK, SupState
    <2> QED
      BY <1>1, <2>2, <2>6, <2>7, <2>8, <2>9 DEF InRing
  <1>4. NodeIsMains' /\ MapIsByFd'
    BY <1>1, <1>2, NodeFrame, MapFrame DEF IInv, RingInv
  <1>5. ClosedIsUnheard'
    BY <1>1, <1>2 DEF IInv, RingInv, ClosedIsUnheard
  <1> QED
    BY <1>3, <1>4, <1>5 DEF RingInv

(* Every step of the supervisor keeps the ring.                            *)
LEMMA SupRing ==
    ASSUME IInv, TypeOK', SupStep PROVE RingInv'
  <1>1. CASE SupLock
    BY <1>1, SupLockRing
  <1>2. ASSUME NEW fd \in Fd, SupClose(fd) PROVE RingInv'
    BY <1>2, SupCloseRing
  <1>3. CASE SupFree
    <2>1. MapShrinks /\ NodesShrink
      BY <1>3, FreeShrinks DEF SupFree, MapShrinks, IInv
    <2> QED
      BY <1>3, <2>1, NodeStepRing
         DEF SupFree, SupAt, kernelVars, ringVars, IInv, TypeOK, SupState
  <1>4. CASE SupErase
    <2>1. MapShrinks /\ NodesShrink
      BY <1>4, EraseShrinks DEF SupErase, NodesShrink, IInv
    <2> QED
      BY <1>4, <2>1, NodeStepRing
         DEF SupErase, SupAt, kernelVars, ringVars, IInv, TypeOK, SupState
  <1>5. CASE SupAdvance
    BY <1>5, SupAdvanceRing
  <1> QED
    BY <1>1, <1>2, <1>3, <1>4, <1>5 DEF SupStep

(* Every step of a worker keeps the ring, if it closes a number that       *)
(* serves somebody else by then as well.                                   *)
LEMMA WorkerRing ==
    ASSUME IInv, TypeOK', NEW w \in Worker, WorkerStep(w) PROVE RingInv'
  <1>1. CASE Pop(w)
    BY <1>1, NodesStill, NodeStepRing DEF Pop, kernelVars, ringVars
  <1>2. CASE WorkerClose(w)
    <2>1. CASE Valid(worker[w].pnode)
      <3>1. /\ MapShrinks /\ NodesShrink /\ MappedKept
            /\ UNCHANGED <<fdSet, fdPointer, main, sup>>
        BY <1>2, NodesStill, ShrinkKeepsMapped DEF WorkerClose, nodeVars, IInv
      <3>2. /\ ClosedIsUnheard' /\ epoll' \subseteq epoll
            /\ \A f \in epoll' : silent'[f] = silent[f]
            /\ \A f \in Fd : silent[f] = -1 => silent'[f] = -1
        BY <1>2, <2>1, CloseUnheard DEF WorkerClose, IInv, RingInv
      <3>3. \A f \in epoll' : Unringed(f) => Unringed(f)'
        BY <3>1 DEF Unringed
      <3>4. HeardInRing'
        BY <3>1, <3>2, <3>3, HeardFrame DEF IInv, RingInv
      <3>5. NodeIsMains' /\ MapIsByFd'
        BY <3>1, <3>2, NodeFrame, MapFrame DEF IInv, RingInv
      <3> QED
        BY <3>2, <3>4, <3>5 DEF RingInv
    <2>2. CASE ~Valid(worker[w].pnode)
      BY <1>2, <2>2, NodesStill, NodeStepRing DEF WorkerClose, kernelVars, InvalidUse
    <2> QED
      BY <2>1, <2>2
  <1>3. CASE WorkerFree(w)
    <2>1. MapShrinks /\ NodesShrink
      BY <1>3, FreeShrinks DEF WorkerFree, MapShrinks, NodesShrink, IInv
    <2> QED
      BY <1>3, <2>1, NodeStepRing DEF WorkerFree, kernelVars, ringVars
  <1>4. CASE WorkerErase(w)
    <2>1. MapShrinks /\ NodesShrink
      BY <1>4, EraseShrinks DEF WorkerErase, MapShrinks, NodesShrink, IInv
    <2> QED
      BY <1>4, <2>1, NodeStepRing DEF WorkerErase, kernelVars, ringVars
  <1> QED
    BY <1>1, <1>2, <1>3, <1>4 DEF WorkerStep

(* EpollWait fetches events and touches no table.                          *)
LEMMA EpollWaitRing ==
    ASSUME IInv, TypeOK', EpollWait PROVE RingInv'
  <1>1. /\ MapShrinks /\ NodesShrink /\ MappedKept
        /\ UNCHANGED <<epoll, open, silent, fdSet, fdPointer, mp, sup>>
    BY NodesStill, ShrinkKeepsMapped
       DEF EpollWait, kernelVars, ringVars, nodeVars, IInv
  <1>2. PICK evs \in SUBSET (Fd \cup {Listen}) : main' = [main EXCEPT !.evs = evs]
    BY DEF EpollWait, IInv, TypeOK
  <1>3. /\ main'.pc = main.pc /\ main'.newfd = main.newfd /\ main'.pnode = main.pnode
        /\ main.pc = "loop"
    BY <1>2 DEF EpollWait, MainAt, IInv, TypeOK, MainState
  <1>4. \A f \in epoll' : Unringed(f) => Unringed(f)'
    BY <1>3 DEF Unringed
  <1>5. HeardInRing'
    BY <1>1, <1>4, HeardFrame DEF IInv, RingInv
  <1>6. ClosedIsUnheard' /\ MapIsByFd'
    BY <1>1, MapFrame DEF IInv, RingInv, ClosedIsUnheard
  <1>7. NodeIsMains'
    BY <1>3 DEF IInv, RingInv, NodeIsMains, Serving
  <1> QED
    BY <1>5, <1>6, <1>7 DEF RingInv

(* Accept: a new node is nobody's, and a new descriptor is unheard of.     *)
LEMMA AcceptRing ==
    ASSUME IInv, TypeOK', NEW n \in Node, Accept(n) PROVE RingInv'
  <1>1. /\ MapShrinks /\ UNCHANGED <<epoll, silent, fdSet, fdPointer, mp, sup>>
        /\ main.pc = "loop" /\ main'.pc = "accepted"
        /\ main'.newfd = newfd(n) /\ main'.pnode = n
    BY DEF Accept, MainAt, ringVars, MapShrinks
  <1>2. MappedKept
    <2> SUFFICES ASSUME NEW fd \in Fd, mp'[fd] \in allocated'
                 PROVE  /\ mp'[fd] = mp[fd] /\ mp[fd] \in allocated
                        /\ setPos'[mp[fd]] = setPos[mp[fd]]
      BY DEF MappedKept
    <2>1. mp[fd] \in Range(mp)
      BY DEF Range, IInv, TypeOK
    <2>2. mp[fd] # n /\ mp'[fd] = mp[fd]
      BY <1>1, <2>1 DEF Accept, Referenced
    <2>3. mp[fd] \in allocated /\ mp[fd] \in Node
      BY <2>2 DEF Accept, IInv, TypeOK
    <2> QED
      BY <2>2, <2>3 DEF Accept, IInv, TypeOK
  <1>3. \A f \in epoll' : Unringed(f) => Unringed(f)'
    BY <1>1 DEF Unringed
  <1>4. HeardInRing'
    BY <1>1, <1>2, <1>3, HeardFrame DEF IInv, RingInv
  <1>5. ClosedIsUnheard' /\ MapIsByFd'
    BY <1>1, MapFrame DEF Accept, IInv, RingInv, ClosedIsUnheard
  <1>6. silent[newfd(n)] = -1 /\ n # NULL
    BY NodeFd, NullNotNode DEF Accept, IInv, RingInv, ClosedIsUnheard
  <1>7. NodeIsMains'
    BY <1>1, <1>6 DEF NodeIsMains, Serving
  <1> QED
    BY <1>4, <1>5, <1>7 DEF RingInv

(* Admit: the client is in epoll, under its node, and not in the ring      *)
(* before it sends something (main.cpp:90-104).                            *)
LEMMA AdmitRing ==
    ASSUME IInv, TypeOK', Admit PROVE RingInv'
  <1>1. /\ UNCHANGED <<open, silent, fdSet, fdPointer, allocated, setPos, sup>>
        /\ main.pc = "accepted" /\ Continue
        /\ epoll' = epoll \cup ({main.newfd} \cap open)
        /\ mp' = [mp EXCEPT ![main.newfd] = main.pnode]
    BY DEF Admit, MainAt, ringVars
  <1>2. silent[main.newfd] = -1 /\ newfd(main.pnode) = main.newfd
    BY <1>1 DEF IInv, RingInv, NodeIsMains
  <1>3. HeardInRing'
    <2> SUFFICES ASSUME NEW fd \in epoll', ~Unringed(fd)', silent'[fd] # -1
                 PROVE  InRing(fd)'
      BY DEF HeardInRing
    <2>1. fd \in epoll /\ fd \in Fd /\ fd # main.newfd /\ silent[fd] # -1
      BY <1>1, <1>2 DEF IInv, TypeOK
    <2>2. InRing(fd)
      BY <1>1, <2>1 DEF IInv, RingInv, HeardInRing, Unringed
    <2>3. mp'[fd] = mp[fd] /\ Back(silent[fd])' = Back(silent[fd])
      BY <1>1, <2>1 DEF IInv, TypeOK, Back
    <2> QED
      BY <1>1, <2>2, <2>3 DEF InRing
  <1>4. ClosedIsUnheard'
    BY <1>1 DEF IInv, RingInv, ClosedIsUnheard
  <1>5. MapIsByFd'
    BY <1>1, <1>2 DEF IInv, RingInv, MapIsByFd, TypeOK
  <1>6. NodeIsMains'
    BY <1>1, ContinueNode DEF IInv
  <1> QED
    BY <1>3, <1>4, <1>5, <1>6 DEF RingInv

(* Reject: the client is gone again (main.cpp:96-100).                     *)
LEMMA RejectRing ==
    ASSUME IInv, TypeOK', Reject PROVE RingInv'
  <1>1. /\ UNCHANGED <<mp, setPos, fdSet, fdPointer, sup>> /\ main.pc = "accepted"
        /\ Continue /\ Close(main.newfd) /\ allocated' = allocated \ {main.pnode}
    BY DEF Reject, MainAt
  <1>2. MapShrinks /\ NodesShrink /\ MappedKept
    <2>1. MapShrinks /\ NodesShrink
      BY <1>1 DEF MapShrinks, NodesShrink
    <2> QED
      BY <2>1, ShrinkKeepsMapped DEF IInv
  <1>3. /\ ClosedIsUnheard' /\ epoll' \subseteq epoll
        /\ \A f \in epoll' : silent'[f] = silent[f]
    BY <1>1, CloseUnheard DEF IInv, RingInv
  <1>4. \A f \in epoll' : Unringed(f) => Unringed(f)'
    BY <1>1 DEF Unringed
  <1>5. HeardInRing'
    BY <1>1, <1>2, <1>3, <1>4, HeardFrame DEF IInv, RingInv
  <1>6. NodeIsMains' /\ MapIsByFd'
    BY <1>1, <1>2, ContinueNode, MapFrame DEF IInv, RingInv
  <1> QED
    BY <1>3, <1>5, <1>6 DEF RingInv

(* Lookup: the node main works on is the one mp has (main.cpp:107-108).    *)
LEMMA LookupRing ==
    ASSUME IInv, TypeOK', NEW fd \in Fd, Lookup(fd) PROVE RingInv'
  <1>1. /\ MapShrinks /\ NodesShrink /\ MappedKept
        /\ UNCHANGED <<epoll, open, silent, fdSet, fdPointer, mp, allocated, sup>>
    BY NodesStill, ShrinkKeepsMapped DEF Lookup, kernelVars, ringVars, nodeVars, IInv
  <1>2. /\ main.pc = "loop" /\ main'.pc = "insert" /\ main'.newfd = fd
        /\ main'.pnode = mp[fd]
    BY DEF Lookup, MainAt
  <1>3. \A f \in epoll' : Unringed(f) => Unringed(f)'
    BY <1>2 DEF Unringed
  <1>4. HeardInRing'
    BY <1>1, <1>3, HeardFrame DEF IInv, RingInv
  <1>5. ClosedIsUnheard' /\ MapIsByFd'
    BY <1>1, MapFrame DEF IInv, RingInv, ClosedIsUnheard
  <1>6. NodeIsMains'
    BY <1>1, <1>2 DEF IInv, RingInv, NodeIsMains, MapIsByFd
  <1> QED
    BY <1>4, <1>5, <1>6 DEF RingInv

(* RingInsert and RingUpdate: the client is in the slot the supervisor     *)
(* reaches last, its node says so, and every other client stays in its     *)
(* slot (main.cpp:111-115, 122-127).                                       *)
LEMMA PutRing ==
    ASSUME IInv, TypeOK', NEW from, PutInRing(main.pnode, from), Valid(main.pnode),
           main.pc \in {"insert", "update"}, main'.pc \in {"header", "command"},
           main'.newfd = main.newfd, main'.pnode = main.pnode,
           from \in {{}, {setPos[main.pnode]}},
           UNCHANGED <<open, epoll, mp, allocated, fdPointer, sup>>, sup.pc = "sleep"
    PROVE  RingInv'
  <1> DEFINE n == main.pnode
             me == newfd(n)
  <1>1. n \in Node /\ n # NULL /\ me = main.newfd /\ me \in Fd
    BY NullNotNode, NodeFd DEF Valid, IInv, RingInv, NodeIsMains, TypeOK
  <1>2. LastSlot \in Slot /\ LastSlot = Back(0)
    BY LastSlotIsSlot, TimeOutAssumption, SMT
       DEF IInv, TypeOK, Slot, LastSlot, Back
  <1>3. /\ \A f \in Fd : f # me => silent'[f] = silent[f]
        /\ silent'[me] = IF me \in open THEN 0 ELSE -1
        /\ \A f \in Fd, s \in Slot : f # me /\ f \in fdSet[s] => f \in fdSet'[s]
        /\ me \in fdSet'[LastSlot]
        /\ setPos'[n] = LastSlot
        /\ \A k \in Node : k # n => setPos'[k] = setPos[k]
    BY <1>1, <1>2 DEF PutInRing, IInv, TypeOK
  <1>4. \A f \in Fd : mp[f] \in Node /\ f # me => mp[f] # n
    BY <1>1, NullNotNode DEF IInv, RingInv, MapIsByFd
  <1>5. mp[me] \in allocated => mp[me] = n
    BY <1>1 DEF Valid, IInv, RingInv, NodeIsMains, Serving
  <1>6. HeardInRing'
    <2> SUFFICES ASSUME NEW fd \in epoll', ~Unringed(fd)', silent'[fd] # -1
                 PROVE  InRing(fd)'
      BY DEF HeardInRing
    <2>1. fd \in Fd /\ fd \in epoll /\ ~Unringed(fd)
      BY DEF IInv, TypeOK, Unringed
    <2>2. CASE fd = me
      <3>1. silent'[fd] = 0 /\ Back(silent[fd])' = LastSlot /\ 0 \in Slot
        BY <1>2, <1>3, <2>2, TimeOutAssumption, SMT DEF Back, Slot
      <3>2. mp'[fd] \in allocated' => setPos'[mp'[fd]] = LastSlot
        BY <1>3, <1>5, <2>2
      <3> QED
        BY <1>3, <2>2, <3>1, <3>2 DEF InRing
    <2>3. CASE fd # me
      <3>1. silent'[fd] = silent[fd] /\ InRing(fd)
        BY <1>3, <2>1, <2>3 DEF IInv, RingInv, HeardInRing
      <3>2. Back(silent[fd])' = Back(silent[fd]) /\ Back(silent[fd]) \in Slot
        BY <3>1, TimeOutAssumption, SMT DEF Back, InRing, Slot, IInv, TypeOK
      <3>3. mp'[fd] \in allocated' => setPos'[mp'[fd]] = setPos[mp[fd]]
        BY <1>3, <1>4, <2>1, <2>3 DEF IInv, TypeOK
      <3> QED
        BY <1>3, <2>1, <2>3, <3>1, <3>2, <3>3 DEF InRing
    <2> QED
      BY <2>2, <2>3
  <1>7. ClosedIsUnheard'
    BY <1>1, <1>3 DEF IInv, RingInv, ClosedIsUnheard
  <1>8. MapIsByFd'
    BY DEF IInv, RingInv, MapIsByFd
  <1>9. NodeIsMains'
    BY <1>1, <1>5 DEF IInv, RingInv, NodeIsMains
  <1> QED
    BY <1>6, <1>7, <1>8, <1>9 DEF RingInv

(* A step of main within an event that moves nothing in the ring keeps it. *)
LEMMA ServingStepRing ==
    ASSUME IInv, TypeOK', Serving, Serving', main'.newfd = main.newfd,
           main'.pnode = main.pnode, MapShrinks, NodesShrink,
           UNCHANGED <<open, epoll, silent, fdSet, fdPointer, sup>>,
           main.pc \in {"token", "handed", "close", "free", "erase"} =>
               main'.pc \in {"token", "handed", "close", "free", "erase"}
    PROVE  RingInv'
  <1>1. MappedKept
    BY ShrinkKeepsMapped DEF IInv
  <1>2. \A f \in epoll' : Unringed(f) => Unringed(f)'
    BY DEF Unringed
  <1>3. HeardInRing'
    BY <1>1, <1>2, HeardFrame DEF IInv, RingInv
  <1>4. ClosedIsUnheard' /\ MapIsByFd'
    BY MapFrame DEF IInv, RingInv, ClosedIsUnheard
  <1>5. NodeIsMains'
    BY ServingNode DEF IInv, RingInv
  <1> QED
    BY <1>3, <1>4, <1>5 DEF RingInv

(* So does the end of an event, if a client taken out of the ring is out   *)
(* of epoll.                                                               *)
LEMMA ContinueStepRing ==
    ASSUME IInv, TypeOK', Continue, MapShrinks, NodesShrink, epoll' \subseteq epoll,
           UNCHANGED <<open, silent, fdSet, fdPointer, sup>>,
           main.pc \in {"token", "handed", "close", "free", "erase"} =>
               main.newfd \notin epoll'
    PROVE  RingInv'
  <1>1. MappedKept
    BY ShrinkKeepsMapped DEF IInv
  <1>2. \A f \in epoll' : Unringed(f) => Unringed(f)'
    BY DEF Unringed
  <1>3. HeardInRing'
    BY <1>1, <1>2, HeardFrame DEF IInv, RingInv
  <1>4. ClosedIsUnheard' /\ MapIsByFd'
    BY MapFrame DEF IInv, RingInv, ClosedIsUnheard
  <1>5. NodeIsMains'
    BY ContinueNode DEF IInv
  <1> QED
    BY <1>3, <1>4, <1>5 DEF RingInv

(* MainClose: the client is out of epoll (main.cpp:132, 222).              *)
LEMMA MainCloseRing ==
    ASSUME IInv, TypeOK', MainClose PROVE RingInv'
  <1>1. /\ MapShrinks /\ NodesShrink /\ MappedKept
        /\ UNCHANGED <<fdSet, fdPointer, sup>> /\ main.pc = "close"
        /\ Close(main.newfd)
    BY NodesStill, ShrinkKeepsMapped DEF MainClose, MainAt, nodeVars, IInv
  <1>2. /\ main'.pc = "free" /\ main'.newfd = main.newfd /\ main'.pnode = main.pnode
    BY GotoMain DEF MainClose, MainPlace, IInv, TypeOK
  <1>3. /\ ClosedIsUnheard' /\ epoll' \subseteq epoll
        /\ \A f \in epoll' : silent'[f] = silent[f]
    BY <1>1, CloseUnheard DEF IInv, RingInv
  <1>4. \A f \in epoll' : Unringed(f) => Unringed(f)'
    BY <1>2 DEF Unringed
  <1>5. HeardInRing'
    BY <1>1, <1>3, <1>4, HeardFrame DEF IInv, RingInv
  <1>6. NodeIsMains' /\ MapIsByFd'
    BY <1>1, <1>2, ServingNode, MapFrame DEF IInv, RingInv, Serving
  <1> QED
    BY <1>3, <1>5, <1>6 DEF RingInv

(* RingErase takes out the client main serves and no other                 *)
(* (main.cpp:185-189).                                                     *)
LEMMA RingEraseRing ==
    ASSUME IInv, TypeOK', RingErase PROVE RingInv'
  <1>1. /\ MapShrinks /\ NodesShrink
        /\ UNCHANGED <<open, epoll, silent, fdPointer, mp, allocated, setPos, sup>>
        /\ main.pc = "unring"
    BY NodesStill DEF RingErase, MainAt, kernelVars, nodeVars
  <1>2. main'.pc = "token" /\ main'.newfd = main.newfd /\ main'.pnode = main.pnode
    BY GotoMain DEF RingErase, MainPlace, IInv, TypeOK
  <1>3. HeardInRing'
    <2> SUFFICES ASSUME NEW fd \in epoll', ~Unringed(fd)', silent'[fd] # -1
                 PROVE  InRing(fd)'
      BY DEF HeardInRing
    <2>1. fd \in Fd /\ fd # main.newfd /\ InRing(fd)
      BY <1>1, <1>2 DEF IInv, RingInv, TypeOK, HeardInRing, Unringed
    <2>2. Back(silent[fd])' = Back(silent[fd]) /\ Back(silent[fd]) \in Slot
      BY <1>1, <2>1, TimeOutAssumption, SMT DEF Back, InRing, Slot, IInv, TypeOK
    <2>3. fd \in fdSet'[Back(silent[fd])]
      <3>1. fd \in fdSet[Back(silent[fd])]
        BY <2>1 DEF InRing
      <3>2. CASE Valid(main.pnode)
        <4>1. newfd(main.pnode) = main.newfd
          BY <3>2, NullNotNode DEF Valid, IInv, TypeOK, RingInv, NodeIsMains
        <4> QED
          BY <2>1, <2>2, <3>1, <3>2, <4>1 DEF RingErase, IInv, TypeOK
      <3>3. CASE ~Valid(main.pnode)
        BY <3>1, <3>3 DEF RingErase
      <3> QED
        BY <3>2, <3>3
    <2> QED
      BY <1>1, <2>1, <2>2, <2>3 DEF InRing
  <1>4. ClosedIsUnheard' /\ MapIsByFd'
    BY <1>1, MapFrame DEF IInv, RingInv, ClosedIsUnheard
  <1>5. NodeIsMains'
    BY <1>1, <1>2, ServingNode DEF IInv, RingInv, Serving
  <1> QED
    BY <1>3, <1>4, <1>5 DEF RingInv

(* Every step of main keeps the ring.                                      *)
LEMMA MainRing ==
    ASSUME IInv, TypeOK', MainStep PROVE RingInv'
  <1>1. CASE EpollWait
    BY <1>1, EpollWaitRing
  <1>2. ASSUME NEW n \in Node, Accept(n) PROVE RingInv'
    BY <1>2, AcceptRing
  <1>3. CASE Admit
    BY <1>3, AdmitRing
  <1>4. CASE Reject
    BY <1>4, RejectRing
  <1>5. ASSUME NEW fd \in Fd, Lookup(fd) PROVE RingInv'
    BY <1>5, LookupRing
  <1>6. CASE RingInsert
    <2>1. /\ main'.pc = "header" /\ main'.newfd = main.newfd /\ main'.pnode = main.pnode
          /\ main.pc = "insert"
      BY <1>6, GotoMain DEF RingInsert, MainPlace, MainAt, IInv, TypeOK
    <2>2. CASE Valid(main.pnode)
      BY <1>6, <2>1, <2>2, PutRing DEF RingInsert, SetMutexFree, kernelVars
    <2>3. CASE ~Valid(main.pnode)
      BY <1>6, <2>1, <2>3, ServingStepRing
         DEF RingInsert, InvalidUse, Serving, MapShrinks, NodesShrink, kernelVars
    <2> QED
      BY <2>2, <2>3
  <1>7. CASE Header
    <2>1. main.pc = "header" /\ MapShrinks /\ NodesShrink
          /\ UNCHANGED <<open, epoll, silent, fdSet, fdPointer, sup>>
      BY <1>7, NodesStill DEF Header, MainAt, kernelVars, ringVars
    <2>2. CASE Continue
      BY <2>1, <2>2, ContinueStepRing
    <2>3. CASE ~Continue
      <3>1. PICK pc \in {"update", "unring"} : Goto(pc)
        BY <1>7, <2>3 DEF Header
      <3>2. main'.pc = pc /\ main'.newfd = main.newfd /\ main'.pnode = main.pnode
        BY <3>1, GotoMain DEF MainPlace, IInv, TypeOK
      <3> QED
        BY <2>1, <3>2, ServingStepRing DEF Serving
    <2> QED
      BY <2>2, <2>3
  <1>8. CASE RingUpdate
    <2>1. /\ main'.pc = "command" /\ main'.newfd = main.newfd /\ main'.pnode = main.pnode
          /\ main.pc = "update"
      BY <1>8, GotoMain DEF RingUpdate, MainPlace, MainAt, IInv, TypeOK
    <2>2. CASE Valid(main.pnode)
      BY <1>8, <2>1, <2>2, PutRing DEF RingUpdate, SetMutexFree, kernelVars
    <2>3. CASE ~Valid(main.pnode)
      BY <1>8, <2>1, <2>3, ServingStepRing
         DEF RingUpdate, InvalidUse, Serving, MapShrinks, NodesShrink, kernelVars
    <2> QED
      BY <2>2, <2>3
  <1>9. CASE Command
    <2>1. main.pc = "command" /\ MapShrinks /\ NodesShrink
          /\ UNCHANGED <<open, epoll, silent, fdSet, fdPointer, sup>>
      BY <1>9, NodesStill DEF Command, MainAt, kernelVars, ringVars
    <2>2. CASE Continue
      BY <2>1, <2>2, ContinueStepRing
    <2>3. CASE ~Continue
      <3>1. Goto("close") \/ main' = main
        BY <1>9, <2>3 DEF Command
      <3>2. main'.pc \in {"command", "close"} /\ main'.newfd = main.newfd
            /\ main'.pnode = main.pnode
        BY <2>1, <3>1, GotoMain DEF MainPlace, IInv, TypeOK
      <3> QED
        BY <2>1, <3>2, ServingStepRing DEF Serving
    <2> QED
      BY <2>2, <2>3
  <1>10. CASE RingErase
    BY <1>10, RingEraseRing
  <1>11. CASE TokenRefused
    <2>1. /\ main'.pc = "close" /\ main'.newfd = main.newfd /\ main'.pnode = main.pnode
          /\ main.pc = "token" /\ MapShrinks /\ NodesShrink
          /\ UNCHANGED <<open, epoll, silent, fdSet, fdPointer, sup>>
      BY <1>11, GotoMain, NodesStill
         DEF TokenRefused, MainPlace, MainAt, IInv, TypeOK, kernelVars, ringVars
    <2> QED
      BY <2>1, ServingStepRing DEF Serving
  <1>12. CASE TokenAccepted
    <2>1. /\ main.pc = "token" /\ MapShrinks /\ NodesShrink
          /\ UNCHANGED <<open, epoll, silent, fdSet, fdPointer, sup>>
      BY <1>12, NodesStill DEF TokenAccepted, MainAt, kernelVars, ringVars
    <2>2. main'.pc \in {"token", "handed", "close"} /\ main'.newfd = main.newfd
          /\ main'.pnode = main.pnode
      BY <1>12, <2>1, GotoMain DEF TokenAccepted, MainPlace, IInv, TypeOK
    <2> QED
      BY <2>1, <2>2, ServingStepRing DEF Serving
  <1>13. CASE HandOver
    <2>1. /\ MapShrinks /\ NodesShrink /\ epoll' = epoll \ {main.newfd} /\ Continue
          /\ UNCHANGED <<open, silent, fdSet, fdPointer, sup>>
      BY <1>13, NodesStill DEF HandOver, ringVars
    <2> QED
      BY <2>1, ContinueStepRing
  <1>14. CASE MainClose
    BY <1>14, MainCloseRing
  <1>15. CASE MainFree
    <2>1. /\ main'.pc = "erase" /\ main'.newfd = main.newfd /\ main'.pnode = main.pnode
          /\ main.pc = "free"
      BY <1>15, GotoMain DEF MainFree, MainPlace, MainAt, IInv, TypeOK
    <2>2. /\ MapShrinks /\ NodesShrink
          /\ UNCHANGED <<open, epoll, silent, fdSet, fdPointer, sup>>
      BY <1>15, FreeShrinks DEF MainFree, MapShrinks, kernelVars, ringVars, IInv
    <2> QED
      BY <2>1, <2>2, ServingStepRing DEF Serving
  <1>16. CASE MainErase
    <2>1. /\ MapShrinks /\ NodesShrink /\ Continue /\ main.pc = "erase"
          /\ UNCHANGED <<open, epoll, silent, fdSet, fdPointer, sup>>
      BY <1>16, EraseShrinks
         DEF MainErase, MainAt, NodesShrink, kernelVars, ringVars, IInv
    <2>2. main.newfd \notin epoll'
      BY <2>1 DEF IInv, CountInv
    <2> QED
      BY <2>1, <2>2, ContinueStepRing
  <1> QED
    BY <1>1, <1>2, <1>3, <1>4, <1>5, <1>6, <1>7, <1>8, <1>9, <1>10, <1>11, <1>12,
       <1>13, <1>14, <1>15, <1>16 DEF MainStep

-----------------------------------------------------------------------------
(* The tables at the start have their types.                               *)
LEMMA TypeInit ==
    ASSUME Init PROVE TypeOK /\ Placed
  <1>1. main \in MainState /\ sup \in SupState /\ Placed
    BY DEF Init, MainState, MainPlace, SupState, Placed
  <1>2. worker \in [Worker -> WorkerState]
    BY DEF Init, WorkerState
  <1>3. /\ setPos \in [Node -> Slot] /\ fdPointer \in Slot
        /\ silent \in [Fd -> -1..TimeOut + 1] /\ currentSize \in 0..MaxNum
    BY TimeOutAssumption, MaxNumAssumption, SMT DEF Init, Slot
  <1>4. que \in Seq(Node) /\ Len(que) <= MaxNum
    BY MaxNumAssumption, SMT DEF Init
  <1>5. /\ open \in SUBSET Fd /\ epoll \in SUBSET open /\ allocated \in SUBSET Node
        /\ mp \in [Fd -> Node \cup {NULL}] /\ fdSet \in [Slot -> SUBSET Fd]
        /\ fault \in {"none", "null", "freed", "doubleFree"}
    BY DEF Init
  <1> QED
    BY <1>1, <1>2, <1>3, <1>4, <1>5 DEF TypeOK

(* Every step keeps the types.                                             *)
LEMMA StepType ==
    ASSUME IInv, Next PROVE TypeOK' /\ Placed'
  <1> USE DEF IInv
  <1>1. CASE MainStep
    BY <1>1, EpollWaitType, AcceptType, AdmitType, RejectType, LookupType,
       RingInsertType, HeaderType, RingUpdateType, CommandType, RingEraseType,
       TokenRefusedType, TokenAcceptedType, HandOverType, MainCloseType,
       MainFreeType, MainEraseType DEF MainStep
  <1>2. CASE SupStep
    BY <1>2, SupLockType, SupCloseType, SupFreeType, SupEraseType, SupAdvanceType
       DEF SupStep
  <1>3. ASSUME NEW w \in Worker, WorkerStep(w) PROVE TypeOK' /\ Placed'
    BY <1>3, PopType, WorkerCloseType, WorkerFreeType, WorkerEraseType DEF WorkerStep
  <1> QED
    BY <1>1, <1>2, <1>3 DEF Next

(* A step in which nothing changes keeps the invariant.                    *)
LEMMA StutterKeeps ==
    ASSUME IInv, UNCHANGED vars PROVE IInv'
  <1>1. TypeOK' /\ Placed'
    BY DEF IInv, TypeOK, Placed, vars
  <1>2. CountInv'
    <2>1. UNCHANGED <<main, currentSize>> /\ epoll' \subseteq epoll
      BY DEF vars
    <2> QED
      BY <2>1, OthersKeepCount DEF IInv
  <1>3. RingInv'
    BY <1>1, NodeStepRing DEF vars, MapShrinks, NodesShrink
  <1> QED
    BY <1>1, <1>2, <1>3 DEF IInv

(* Every step of any of the threads keeps the invariant.                   *)
LEMMA StepKeeps ==
    ASSUME IInv, Next PROVE IInv'
  <1>1. TypeOK' /\ Placed'
    BY StepType
  <1>2. CountInv'
    BY MainCount, SupCount, WorkerCount DEF Next, IInv
  <1>3. RingInv'
    BY <1>1, MainRing, SupRing, WorkerRing DEF Next
  <1> QED
    BY <1>1, <1>2, <1>3 DEF IInv

(* The inductive invariant of the connection tables: the types, who is     *)
(* covered by currentSize, where in the ring a client is, and whose node   *)
(* main holds.                                                             *)
THEOREM TablesInvariant == Spec => []IInv
  <1>1. Init => IInv
    BY TypeInit, CountInit, RingInit DEF IInv
  <1>2. IInv /\ [Next]_vars => IInv'
    BY StepKeeps, StutterKeeps
  <1> QED
    BY <1>1, <1>2, PTL DEF Spec

(* The tables and the places of all threads keep their types; for          *)
(* currentSize, between 0 and MaxNum, that takes the count's own invariant *)
(* (main.cpp:15-21, 54-72).                                                *)
THEOREM TablesTypeCorrect == Spec => []TypeOK
  <1>1. IInv => TypeOK
    BY DEF IInv
  <1> QED
    BY <1>1, TablesInvariant, PTL

(* Main never counts too few and never admits more than MaxNum, however    *)
(* many workers there are and whichever thread closes connections under    *)
(* main (main.cpp:90-95, 138, 217, 228).                                   *)
THEOREM CountIsBounded == Spec => []CountBounds
  <1>1. IInv => CountBounds
    <2> SUFFICES ASSUME IInv PROVE CountBounds
      OBVIOUS
    <2>1. epoll \subseteq Counted
      BY DEF Counted
    <2>2. Cardinality(epoll) <= Cardinality(Counted) /\ Cardinality(epoll) \in Nat
          /\ Cardinality(Counted) \in Nat
      BY <2>1, FS_Subset, FS_CardinalityType DEF IInv, CountInv, CountSound
    <2> QED
      BY <2>2, MaxNumAssumption, SMT DEF IInv, CountInv, CountSound, CountBounds
  <1> QED
    BY <1>1, TablesInvariant, PTL

(* A client that main has heard from is never in epoll after more than     *)
(* TimeOut turns of silence: for every size of the ring, and wherever the  *)
(* supervisor's second falls (main.cpp:111-115, 122-127, 712-724).         *)
THEOREM IdleIsBounded == Spec => []IdleBound
  <1>1. IInv => IdleBound
    <2> SUFFICES ASSUME IInv, NEW fd \in epoll, fd # main.newfd
                 PROVE  silent[fd] <= TimeOut
      BY DEF IdleBound
    <2>1. silent[fd] = -1 \/ silent[fd] \in Slot
      BY DEF IInv, RingInv, HeardInRing, InRing, Unringed
    <2> QED
      BY <2>1, TimeOutAssumption, SMT DEF Slot
  <1> QED
    BY <1>1, TablesInvariant, PTL

(* setPos names a slot that holds the descriptor, so that the next update  *)
(* erases the entry it means to erase (main.cpp:123, 187).                 *)
THEOREM PositionIsInRing == Spec => []RingPosition
  <1>1. IInv => RingPosition
    <2> SUFFICES ASSUME IInv, NEW fd \in epoll, silent[fd] >= 0, fd # main.newfd,
                        mp[fd] \in allocated
                 PROVE  fd \in fdSet[setPos[mp[fd]]]
      BY DEF RingPosition
    <2>1. silent[fd] # -1
      BY SMT
    <2>2. InRing(fd)
      BY <2>1 DEF IInv, RingInv, HeardInRing, Unringed
    <2> QED
      BY <2>2 DEF InRing
  <1> QED
    BY <1>1, TablesInvariant, PTL
=============================================================================
