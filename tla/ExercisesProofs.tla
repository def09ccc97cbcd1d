-------------------------- MODULE ExercisesProofs --------------------------
(***************************************************************************)
(* The safety of the smaller programs: the pool that cancels its threads,  *)
(* for every number of threads and clients; what a chat shows, however     *)
(* much is typed; and the sums under a lock, for every number of rounds.   *)
(* One inductive invariant for each program, and a second for the pool: in *)
(* whose hands a connection is, from which follows what clients are told.  *)
(***************************************************************************)
EXTENDS MCExercises, SequenceTheorems, FiniteSetTheorems, TLAPS
-----------------------------------------------------------------------------
(* The pool of 20190208.  The mutex excludes as it should until main       *)
(* cancels threads; from then on the queue is empty.                       *)

(* Main cancels or has cancelled.                                          *)
Ending == {"cancel", "join", "gone"}

(* Main is between lock and unlock.                                        *)
MainInside == main \in {"inserting", "draining"}

(* Who is between lock and unlock is alone there, and the mutex is locked. *)
Exclusion ==
  /\ MainInside => Inside = {}
  /\ \A t, u \in Inside : t = u
  /\ ~ locked => Inside = {} /\ ~ MainInside

PoolInv ==
  /\ pc \in [Threads -> {"lock", "relock", "test", "wait", "pop", "unlock",
                         "send", "close", "gone"}]
  /\ IF main \in Ending THEN queue = <<>> ELSE cancelled = {} /\ Exclusion

(* Initially nobody has the mutex.                                         *)
LEMMA PoolInit == Init => PoolInv
  BY DEF Init, PoolInv, Ending, Exclusion, MainInside, Inside

(* A thread that takes the mutex, works under it, or gives it back.        *)
LEMMA ThreadKeeps ==
  ASSUME PoolInv, NEW t \in Threads, ThreadStep(t) \/ Spurious(t)
  PROVE  PoolInv'
  <1> USE DEF PoolInv, Ending, Exclusion, MainInside, Inside, Goto, mains, net
  <1>1. CASE Lock(t)
    BY <1>1 DEF Lock
  <1>2. CASE Test(t)
    BY <1>2 DEF Test
  <1>3. CASE QuePop(t)
    BY <1>3 DEF QuePop
  <1>4. CASE Unlock(t)
    BY <1>4 DEF Unlock
  <1>5. CASE Send(t)
    BY <1>5 DEF Send
  <1>6. CASE CloseServed(t)
    BY <1>6 DEF CloseServed
  <1>7. CASE CleanFunc(t)
    BY <1>7 DEF CleanFunc
  <1>8. CASE Spurious(t)
    BY <1>8 DEF Spurious, Wake
  <1> QED
    BY <1>1, <1>2, <1>3, <1>4, <1>5, <1>6, <1>7, <1>8 DEF ThreadStep

(* Main, which drains the queue before it cancels.                         *)
LEMMA MainKeeps ==
  ASSUME PoolInv, MainStep
  PROVE  PoolInv'
  <1> USE DEF PoolInv, Ending, Exclusion, MainInside, Inside, Goto, threads, net
  <1>1. ASSUME NEW c \in Clients, Accept(c) PROVE PoolInv'
    BY <1>1 DEF Accept
  <1>2. CASE MainLock("insert", "inserting") \/ MainLock("drain", "draining")
    BY <1>2 DEF MainLock
  <1>3. CASE QueInsert
    BY <1>3 DEF QueInsert
  <1>4. CASE Signal
    BY <1>4 DEF Signal, Wake
  <1>5. CASE Exit
    BY <1>5 DEF Exit
  <1>6. CASE Drain
    BY <1>6 DEF Drain
  <1>7. CASE Cancel \/ Join
    BY <1>7 DEF Cancel, Join
  <1> QED
    BY <1>1, <1>2, <1>3, <1>4, <1>5, <1>6, <1>7 DEF MainStep

(* Every step.                                                             *)
LEMMA PoolNext ==
  ASSUME PoolInv, Next \/ UNCHANGED vars
  PROVE  PoolInv'
  <1>1. CASE UNCHANGED <<locked, queue, pc, cancelled, main>>
    BY <1>1 DEF PoolInv, Exclusion, MainInside, Inside
  <1>2. CASE SigFunc
    BY <1>1, <1>2 DEF SigFunc, threads
  <1>3. ASSUME NEW c \in Clients, Connect(c) \/ Receive(c) \/ HangUp(c) PROVE PoolInv'
    BY <1>1, <1>3 DEF Connect, Receive, HangUp, threads, mains
  <1> QED
    BY <1>1, <1>2, <1>3, ThreadKeeps, MainKeeps DEF Next, vars

(* Nobody is inside, or one, until the queue is empty for good.            *)
LEMMA PoolAlone == PoolInv => PopAlone
  <1> SUFFICES ASSUME PoolInv, main \notin Ending PROVE PopAlone
    BY DEF PoolInv, PopAlone
  <1>1. Exclusion
    BY DEF PoolInv
  <1>2. CASE Inside = {}
    <2>1. Cardinality(Inside) = 0
      BY <1>2, FS_EmptySet
    <2> QED
      BY <2>1 DEF PopAlone
  <1>3. CASE Inside # {}
    <2>1. PICK t : Inside = {t}
      BY <1>1, <1>3 DEF Exclusion
    <2>2. Cardinality(Inside) = 1
      BY <2>1, FS_Singleton
    <2>3. ~ MainInside
      BY <1>1, <1>3 DEF Exclusion
    <2> QED
      BY <2>2, <2>3 DEF PopAlone, MainInside
  <1> QED
    BY <1>2, <1>3

-----------------------------------------------------------------------------
(* Who has a connection of the pool, and who comes for it.                 *)

(* A NULL that is no connection, a number of threads and one of items.     *)
PoolBounds == None \notin Clients /\ ThreadNum \in Nat /\ Items \in Nat

(* Main has a connection it has accepted and not queued.                   *)
Handing == main \in {"insert", "inserting"}

HeldTypes ==
  /\ conn \in [Clients -> {"none", "backlog", "open", "closed"}]
  /\ client \in [Clients -> {"new", "open", "success", "crash", "left"}]
  /\ sent \in [Clients -> Nat]
  /\ queue \in Seq(Clients) /\ newfd \in Clients \union {None}
  /\ pnode \in [Threads -> Clients \union {None}]
  /\ main \in {"loop", "insert", "inserting", "signal", "drain", "draining"} \union Ending

(* What a thread has, by where it is.                                      *)
Hands ==
  /\ Handing => newfd \in Clients
  /\ \A t \in Threads :
       /\ pc[t] \in {"lock", "relock", "test", "wait", "pop"} => pnode[t] = None
       /\ pc[t] \in {"send", "close"} => pnode[t] \in Clients

(* Nobody is in the backlog once main has closed the listening socket.     *)
Backlog ==
  /\ \A c \in Clients : client[c] = "new" <=> conn[c] = "none"
  /\ main \in {"drain", "draining"} \union Ending => \A c \in Clients : conn[c] # "backlog"

(* Until exit, an open connection is in main's hands, in the queue or with *)
(* a thread, a cancelled one perhaps; in one of them, and once; and what   *)
(* they have is open.                                                      *)
OneHolder ==
  main # "gone" =>
    /\ Handing => conn[newfd] = "open"
    /\ \A i \in 1 .. Len(queue) : conn[queue[i]] = "open" /\ (Handing => queue[i] # newfd)
    /\ \A i, j \in 1 .. Len(queue) : queue[i] = queue[j] => i = j
    /\ \A t \in Threads : pnode[t] # None =>
         /\ conn[pnode[t]] = "open" /\ (Handing => pnode[t] # newfd)
         /\ \A i \in 1 .. Len(queue) : queue[i] # pnode[t]
         /\ \A u \in Threads : pnode[u] = pnode[t] => t = u
    /\ \A c \in Clients : conn[c] = "open" =>
         \/ Handing /\ newfd = c
         \/ \E i \in 1 .. Len(queue) : queue[i] = c
         \/ \E t \in Threads : pnode[t] = c

HeldInv == HeldTypes /\ Hands /\ Backlog /\ OneHolder

(* Initially there is none.                                                *)
LEMMA HeldInit == ASSUME PoolBounds, Init PROVE HeldInv
  <1>1. HeldTypes
    BY DEF Init, HeldTypes
  <1>2. Hands /\ Backlog
    BY DEF Init, Hands, Backlog, Handing, Ending
  <1>3. OneHolder
    <2>1. /\ ~ Handing /\ Len(queue) = 0
          /\ \A t \in Threads : pnode[t] = None
          /\ \A c \in Clients : conn[c] = "none"
      BY DEF Init, Handing
    <2> QED
      BY <2>1 DEF OneHolder
  <1> QED
    BY <1>1, <1>2, <1>3 DEF HeldInv

(* A step that moves no connection.                                        *)
LEMMA HolderStays ==
  ASSUME OneHolder, UNCHANGED <<queue, pnode, newfd, conn>>, Handing' <=> Handing,
         main = "gone" => main' = "gone"
  PROVE  OneHolder'
  BY DEF OneHolder

(* A step of a thread on its way, in a transfer, or cancelled.             *)
LEMMA ThreadHolds ==
  ASSUME HeldInv, PoolInv, NEW t \in Threads,
         Lock(t) \/ Test(t) \/ Unlock(t) \/ Send(t) \/ CleanFunc(t) \/ Spurious(t)
  PROVE  HeldInv'
  <1>1. UNCHANGED <<queue, pnode, newfd, conn, client, main>>
    BY DEF Lock, Test, Unlock, Send, CleanFunc, Spurious, mains, net
  <1>2. sent' \in [Clients -> Nat]
    BY DEF HeldInv, HeldTypes, Lock, Test, Unlock, Send, CleanFunc, Spurious, net
  <1>3. HeldTypes' /\ Backlog'
    BY <1>1, <1>2 DEF HeldInv, HeldTypes, Backlog
  <1>4. OneHolder'
    BY <1>1, HolderStays DEF HeldInv, Handing
  <1>5. \A u \in Threads : u # t => pc'[u] = pc[u]
    BY DEF PoolInv, Lock, Test, Unlock, Send, CleanFunc, Spurious, Wake, Goto
  <1>6. /\ pc'[t] \in {"lock", "relock", "test", "wait", "pop"} => pnode[t] = None
        /\ pc'[t] \in {"send", "close"} => pnode[t] \in Clients
    BY DEF HeldInv, HeldTypes, Hands, PoolInv, Lock, Test, Unlock, Send, CleanFunc, Spurious,
       Wake, Goto
  <1>7. Hands'
    BY <1>1, <1>5, <1>6 DEF HeldInv, Hands, Handing
  <1> QED
    BY <1>3, <1>4, <1>7 DEF HeldInv

(* What quePop leaves in the queue.                                        *)
LEMMA RestFacts ==
  ASSUME NEW Set, NEW q \in Seq(Set), q # <<>>
  PROVE  /\ Len(q) \in Nat /\ Len(q) >= 1 /\ q[1] \in Set /\ Head(q) = q[1]
         /\ Tail(q) \in Seq(Set) /\ Len(Tail(q)) = Len(q) - 1
         /\ \A i \in 1 .. Len(q) - 1 : Tail(q)[i] = q[i + 1]
  OBVIOUS

(* The head of the queue passes to a thread.                               *)
LEMMA QuePopHolds ==
  ASSUME PoolBounds, HeldInv, PoolInv, NEW t \in Threads, QuePop(t), main # "gone"
  PROVE  HeldInv'
  <1>1. pc[t] = "pop" /\ pnode[t] = None /\ pc' = [pc EXCEPT ![t] = "unlock"]
        /\ UNCHANGED <<newfd, conn, client, main, sent>>
    BY DEF HeldInv, Hands, QuePop, Goto, mains, net
  <1>2. \A u \in Threads : u # t => pnode'[u] = pnode[u] /\ pc'[u] = pc[u]
    BY <1>1 DEF HeldInv, HeldTypes, PoolInv, QuePop
  <1>3. Backlog'
    BY <1>1 DEF HeldInv, Backlog
  <1>4. Hands'
    BY <1>1, <1>2 DEF HeldInv, Hands, Handing, PoolInv
  <1>5. CASE queue = <<>>
    <2>1. UNCHANGED <<queue, pnode>>
      BY <1>1, <1>5 DEF QuePop, HeldInv, HeldTypes
    <2> QED
      BY <1>1, <1>3, <1>4, <2>1, HolderStays DEF HeldInv, HeldTypes, Handing
  <1>6. CASE queue # <<>>
    <2>1. queue' = Tail(queue) /\ pnode' = [pnode EXCEPT ![t] = Head(queue)]
      BY <1>6 DEF QuePop
    <2>2. /\ Len(queue) \in Nat /\ Len(queue) >= 1 /\ queue[1] \in Clients
          /\ Head(queue) = queue[1]
          /\ queue' \in Seq(Clients) /\ Len(queue') = Len(queue) - 1
          /\ \A i \in 1 .. Len(queue') : queue'[i] = queue[i + 1]
      BY <1>6, <2>1, RestFacts DEF HeldInv, HeldTypes
    <2>3. pnode'[t] = queue[1] /\ pnode' \in [Threads -> Clients \union {None}]
      BY <2>1, <2>2 DEF HeldInv, HeldTypes
    <2>4. HeldTypes'
      BY <1>1, <2>2, <2>3 DEF HeldInv, HeldTypes
    <2>5. Handing' <=> Handing
      BY <1>1 DEF Handing
    <2>6. OneHolder'
      <3>1. \A i \in 1 .. Len(queue') : i + 1 \in 1 .. Len(queue) /\ i + 1 # 1
        BY <2>2
      <3>2. 1 \in 1 .. Len(queue)
        BY <2>2
      <3> HIDE DEF HeldInv
      <3>3. Handing => conn[newfd] = "open"
        BY DEF HeldInv, OneHolder
      <3>4. \A i \in 1 .. Len(queue') :
              /\ conn[queue'[i]] = "open" /\ (Handing => queue'[i] # newfd)
              /\ queue'[i] # queue[1]
        BY <2>2, <3>1, <3>2 DEF HeldInv, OneHolder
      <3>5. \A i, j \in 1 .. Len(queue') : queue'[i] = queue'[j] => i = j
        <4> SUFFICES ASSUME NEW i \in 1 .. Len(queue'), NEW j \in 1 .. Len(queue'),
                            queue'[i] = queue'[j]
                     PROVE  i = j
          OBVIOUS
        <4>1. i + 1 = j + 1
          BY <2>2, <3>1 DEF HeldInv, OneHolder
        <4> QED
          BY <4>1
      <3>6. ASSUME NEW u \in Threads, pnode'[u] # None
            PROVE  /\ conn[pnode'[u]] = "open" /\ (Handing => pnode'[u] # newfd)
                   /\ \A i \in 1 .. Len(queue') : queue'[i] # pnode'[u]
                   /\ \A v \in Threads : pnode'[v] = pnode'[u] => u = v
        <4>1. \A v \in Threads \ {t} : pnode[v] # queue[1]
          BY <2>2, <3>2 DEF HeldInv, OneHolder, PoolBounds
        <4>2. CASE u = t
          BY <1>2, <2>2, <2>3, <3>2, <3>4, <4>1, <4>2 DEF HeldInv, OneHolder
        <4>3. CASE u # t
          <5>1. pnode'[u] = pnode[u]
            BY <1>2, <4>3
          <5>2. /\ conn[pnode[u]] = "open" /\ (Handing => pnode[u] # newfd)
                /\ \A i \in 1 .. Len(queue) : queue[i] # pnode[u]
                /\ \A v \in Threads : pnode[v] = pnode[u] => u = v
            BY <3>6, <5>1 DEF HeldInv, OneHolder
          <5> QED
            BY <1>2, <2>2, <2>3, <3>1, <3>2, <5>1, <5>2
        <4> QED
          BY <4>2, <4>3
      <3>7. ASSUME NEW c \in Clients, conn[c] = "open"
            PROVE  \/ Handing /\ newfd = c
                   \/ \E i \in 1 .. Len(queue') : queue'[i] = c
                   \/ \E u \in Threads : pnode'[u] = c
        <4>1. CASE \E i \in 1 .. Len(queue) : queue[i] = c
          <5>1. PICK i \in 1 .. Len(queue) : queue[i] = c
            BY <4>1
          <5>2. CASE i = 1
            BY <2>3, <5>1, <5>2
          <5>3. CASE i # 1
            <6>1. i - 1 \in 1 .. Len(queue') /\ (i - 1) + 1 = i
              BY <2>2, <5>3
            <6> QED
              BY <2>2, <5>1, <6>1
          <5> QED
            BY <5>2, <5>3
        <4>2. CASE \E u \in Threads : pnode[u] = c
          BY <1>1, <1>2, <4>2 DEF PoolBounds
        <4> QED
          BY <3>7, <4>1, <4>2 DEF HeldInv, OneHolder
      <3> QED
        BY <1>1, <2>5, <3>3, <3>4, <3>5, <3>6, <3>7 DEF OneHolder
    <2> QED
      BY <1>3, <1>4, <2>4, <2>6 DEF HeldInv
  <1> QED
    BY <1>5, <1>6

(* A served connection is closed and nobody has it.                        *)
LEMMA CloseHolds ==
  ASSUME PoolBounds, HeldInv, PoolInv, NEW t \in Threads, CloseServed(t), main # "gone"
  PROVE  HeldInv'
  <1> DEFINE d == pnode[t]
  <1>1. /\ pc[t] = "close" /\ d \in Clients /\ d # None /\ conn[d] = "open"
        /\ conn' = [conn EXCEPT ![d] = "closed"] /\ pnode' = [pnode EXCEPT ![t] = None]
        /\ pc' = [pc EXCEPT ![t] = "lock"]
        /\ UNCHANGED <<queue, newfd, client, main, sent>>
    BY DEF HeldInv, Hands, OneHolder, PoolBounds, CloseServed, Close, Goto, mains
  <1>2. /\ \A u \in Threads : u # t => pnode'[u] = pnode[u] /\ pc'[u] = pc[u]
        /\ pnode'[t] = None /\ pc'[t] = "lock" /\ conn'[d] = "closed"
        /\ \A c \in Clients : c # d => conn'[c] = conn[c]
    BY <1>1 DEF HeldInv, HeldTypes, PoolInv
  <1>3. HeldTypes'
    BY <1>1 DEF HeldInv, HeldTypes
  <1>4. Backlog'
    BY <1>1, <1>2 DEF HeldInv, Backlog
  <1>5. Hands'
    BY <1>1, <1>2 DEF HeldInv, Hands, Handing
  <1>6. /\ Handing => newfd \in Clients /\ newfd # d
        /\ \A i \in 1 .. Len(queue) : queue[i] \in Clients /\ queue[i] # d
        /\ \A u \in Threads : u # t /\ pnode[u] # None => pnode[u] \in Clients /\ pnode[u] # d
    <2>1. \A i \in 1 .. Len(queue) : queue[i] \in Clients
      BY ElementOfSeq DEF HeldInv, HeldTypes
    <2> QED
      BY <1>1, <2>1 DEF HeldInv, HeldTypes, Hands, OneHolder
  <1> HIDE DEF d
  <1>7. OneHolder'
    BY <1>1, <1>2, <1>6 DEF HeldInv, OneHolder, Handing
  <1> QED
    BY <1>3, <1>4, <1>5, <1>7 DEF HeldInv

(* Main takes a connection out of the backlog.                             *)
LEMMA AcceptHolds ==
  ASSUME PoolBounds, HeldInv, NEW c \in Clients, Accept(c)
  PROVE  HeldInv'
  <1>1. /\ main = "loop" /\ main' = "insert" /\ conn[c] = "backlog" /\ newfd' = c
        /\ conn' = [conn EXCEPT ![c] = "open"]
        /\ UNCHANGED <<queue, pc, pnode, client, sent>>
    BY DEF Accept, threads
  <1>2. conn'[c] = "open" /\ \A d \in Clients : d # c => conn'[d] = conn[d]
    BY <1>1 DEF HeldInv, HeldTypes
  <1>3. HeldTypes'
    BY <1>1 DEF HeldInv, HeldTypes, Ending
  <1>4. Backlog'
    BY <1>1, <1>2 DEF HeldInv, Backlog, Ending
  <1>5. Hands'
    BY <1>1 DEF HeldInv, Hands, Handing
  <1>6. /\ \A i \in 1 .. Len(queue) : queue[i] \in Clients /\ queue[i] # c
        /\ \A u \in Threads : pnode[u] # None => pnode[u] \in Clients /\ pnode[u] # c
    <2>1. \A i \in 1 .. Len(queue) : queue[i] \in Clients
      BY ElementOfSeq DEF HeldInv, HeldTypes
    <2> QED
      BY <1>1, <2>1 DEF HeldInv, HeldTypes, OneHolder
  <1>7. OneHolder'
    BY <1>1, <1>2, <1>6 DEF HeldInv, OneHolder, Handing
  <1> QED
    BY <1>3, <1>4, <1>5, <1>7 DEF HeldInv

(* Main takes the mutex, signals, or cancels.                              *)
LEMMA MainHolds ==
  ASSUME HeldInv, PoolInv,
         MainLock("insert", "inserting") \/ MainLock("drain", "draining") \/ Signal \/ Cancel
  PROVE  HeldInv'
  <1>1. UNCHANGED <<queue, pnode, newfd, conn, client, sent>> /\ main # "gone"
    BY DEF MainLock, Signal, Cancel, threads, net
  <1>2. (Handing' <=> Handing) /\ (main' \in {"drain", "draining"} \union Ending
                                     <=> main \in {"drain", "draining"} \union Ending)
    BY DEF MainLock, Signal, Cancel, Handing, Ending
  <1>3. main' \in {"inserting", "draining", "loop", "cancel", "join"}
    BY DEF MainLock, Signal, Cancel
  <1>4. HeldTypes' /\ Backlog'
    BY <1>1, <1>2, <1>3 DEF HeldInv, HeldTypes, Backlog, Ending
  <1>5. OneHolder'
    BY <1>1, <1>2, HolderStays DEF HeldInv
  <1>6. UNCHANGED pc \/ \E t \in Threads : pc[t] = "wait" /\ pc' = [pc EXCEPT ![t] = "relock"]
    BY DEF MainLock, Signal, Cancel, threads, Wake, Goto
  <1>7. Hands'
    BY <1>1, <1>2, <1>6 DEF HeldInv, Hands, PoolInv
  <1> QED
    BY <1>4, <1>5, <1>7 DEF HeldInv

(* What queInsert adds.                                                    *)
LEMMA LongerFacts ==
  ASSUME NEW Set, NEW q \in Seq(Set), NEW x \in Set
  PROVE  /\ Len(q) \in Nat /\ Append(q, x) \in Seq(Set) /\ Len(Append(q, x)) = Len(q) + 1
         /\ \A i \in 1 .. Len(q) : Append(q, x)[i] = q[i]
         /\ Append(q, x)[Len(q) + 1] = x
  OBVIOUS

(* Main queues the connection, or closes it.                               *)
LEMMA QueInsertHolds ==
  ASSUME PoolBounds, HeldInv, QueInsert
  PROVE  HeldInv'
  <1>1. /\ main = "inserting" /\ main' = "signal" /\ Handing /\ ~ Handing'
        /\ UNCHANGED <<pc, pnode, newfd, client, sent>>
    BY DEF QueInsert, Handing, threads
  <1>2. newfd \in Clients /\ conn[newfd] = "open"
    BY <1>1 DEF HeldInv, Hands, OneHolder
  <1>3. Hands'
    BY <1>1 DEF HeldInv, Hands
  <1>4. \A i \in 1 .. Len(queue) : queue[i] \in Clients /\ queue[i] # newfd
    <2>1. \A i \in 1 .. Len(queue) : queue[i] \in Clients
      BY ElementOfSeq DEF HeldInv, HeldTypes
    <2> QED
      BY <1>1, <2>1 DEF HeldInv, OneHolder
  <1>5. \A u \in Threads : pnode[u] # None => pnode[u] \in Clients /\ pnode[u] # newfd
    BY <1>1 DEF HeldInv, HeldTypes, OneHolder
  <1>6. CASE Len(queue) = Capacity
    <2>1. UNCHANGED queue /\ conn' = [conn EXCEPT ![newfd] = "closed"]
      BY <1>6 DEF QueInsert, Close
    <2>2. conn'[newfd] = "closed" /\ \A d \in Clients : d # newfd => conn'[d] = conn[d]
      BY <1>2, <2>1 DEF HeldInv, HeldTypes
    <2>3. HeldTypes' /\ Backlog'
      BY <1>1, <1>2, <2>1, <2>2 DEF HeldInv, HeldTypes, Backlog, Ending
    <2>4. OneHolder'
      BY <1>1, <1>2, <1>4, <1>5, <2>1, <2>2 DEF HeldInv, OneHolder
    <2> QED
      BY <1>3, <2>3, <2>4 DEF HeldInv
  <1>7. CASE Len(queue) # Capacity
    <2>1. UNCHANGED conn /\ queue' = Append(queue, newfd)
      BY <1>7 DEF QueInsert
    <2>2. /\ Len(queue) \in Nat /\ queue' \in Seq(Clients) /\ Len(queue') = Len(queue) + 1
          /\ \A i \in 1 .. Len(queue) : queue'[i] = queue[i]
          /\ queue'[Len(queue) + 1] = newfd
      BY <1>2, <2>1, LongerFacts DEF HeldInv, HeldTypes
    <2>3. HeldTypes' /\ Backlog'
      BY <1>1, <2>1, <2>2 DEF HeldInv, HeldTypes, Backlog, Ending
    <2>4. \A i \in 1 .. Len(queue') :
            i = Len(queue) + 1 \/ (i \in 1 .. Len(queue) /\ i # Len(queue) + 1)
      BY <2>2
    <2>5. \A i \in 1 .. Len(queue') : conn[queue'[i]] = "open"
      BY <1>1, <1>2, <2>2, <2>4 DEF HeldInv, OneHolder
    <2>6. \A i, j \in 1 .. Len(queue') : queue'[i] = queue'[j] => i = j
      BY <1>1, <1>4, <2>2, <2>4 DEF HeldInv, OneHolder
    <2>7. ASSUME NEW u \in Threads, pnode[u] # None
          PROVE  /\ conn[pnode[u]] = "open"
                 /\ \A i \in 1 .. Len(queue') : queue'[i] # pnode[u]
                 /\ \A v \in Threads : pnode[v] = pnode[u] => u = v
      BY <1>1, <1>5, <2>2, <2>4, <2>7 DEF HeldInv, OneHolder
    <2>8. Len(queue) + 1 \in 1 .. Len(queue')
          /\ \A i \in 1 .. Len(queue) : i \in 1 .. Len(queue')
      BY <2>2
    <2>9. ASSUME NEW c \in Clients, conn[c] = "open"
          PROVE  (\E i \in 1 .. Len(queue') : queue'[i] = c) \/ \E u \in Threads : pnode[u] = c
      BY <1>1, <2>2, <2>8, <2>9 DEF HeldInv, OneHolder
    <2>10. OneHolder'
      BY <1>1, <2>1, <2>5, <2>6, <2>7, <2>9 DEF OneHolder
    <2> QED
      BY <1>3, <2>3, <2>10 DEF HeldInv
  <1> QED
    BY <1>6, <1>7

(* Main closes the listening socket.                                       *)
LEMMA ExitHolds ==
  ASSUME PoolBounds, HeldInv, Exit
  PROVE  HeldInv'
  <1>1. /\ main = "loop" /\ main' = "drain" /\ ~ Handing /\ ~ Handing'
        /\ conn' = [c \in Clients |-> IF conn[c] = "backlog" THEN "closed" ELSE conn[c]]
        /\ UNCHANGED <<queue, pc, pnode, newfd, client, sent>>
    BY DEF Exit, Handing, threads
  <1>2. \A c \in Clients : /\ conn'[c] = IF conn[c] = "backlog" THEN "closed" ELSE conn[c]
                           /\ conn'[c] = "open" <=> conn[c] = "open"
    BY <1>1
  <1>3. HeldTypes' /\ Backlog'
    BY <1>1, <1>2 DEF HeldInv, HeldTypes, Backlog, Ending
  <1>4. Hands'
    BY <1>1 DEF HeldInv, Hands
  <1>5. /\ \A i \in 1 .. Len(queue) : queue[i] \in Clients
        /\ \A u \in Threads : pnode[u] # None => pnode[u] \in Clients
    BY ElementOfSeq DEF HeldInv, HeldTypes
  <1>6. OneHolder'
    BY <1>1, <1>2, <1>5 DEF HeldInv, OneHolder
  <1> QED
    BY <1>3, <1>4, <1>6 DEF HeldInv

(* Main closes the first connection of the queue.                          *)
LEMMA DrainHolds ==
  ASSUME PoolBounds, HeldInv, Drain
  PROVE  HeldInv'
  <1>1. /\ main = "draining" /\ main' \in {"drain", "cancel"} /\ ~ Handing /\ ~ Handing'
        /\ UNCHANGED <<pc, pnode, newfd, client, sent>>
    BY DEF Drain, Handing, threads
  <1>2. Hands'
    BY <1>1 DEF HeldInv, Hands
  <1>3. CASE queue = <<>>
    <2>1. UNCHANGED <<queue, conn>>
      BY <1>3 DEF Drain
    <2>2. HeldTypes' /\ Backlog'
      BY <1>1, <2>1 DEF HeldInv, HeldTypes, Backlog, Ending
    <2> QED
      BY <1>1, <1>2, <2>1, <2>2, HolderStays DEF HeldInv
  <1>4. CASE queue # <<>>
    <2> DEFINE d == queue[1]
    <2>1. /\ Len(queue) \in Nat /\ Len(queue) >= 1 /\ d \in Clients
          /\ queue' \in Seq(Clients) /\ Len(queue') = Len(queue) - 1
          /\ \A i \in 1 .. Len(queue') : queue'[i] = queue[i + 1]
          /\ conn' = [conn EXCEPT ![d] = "closed"]
      <3>1. queue' = Tail(queue) /\ conn' = [conn EXCEPT ![Head(queue)] = "closed"]
        BY <1>4 DEF Drain, Close
      <3>2. queue \in Seq(Clients)
        BY DEF HeldInv, HeldTypes
      <3> QED
        BY <1>4, <3>1, <3>2, RestFacts
    <2>2. conn'[d] = "closed" /\ \A c \in Clients : c # d => conn'[c] = conn[c]
      BY <2>1 DEF HeldInv, HeldTypes
    <2>3. 1 \in 1 .. Len(queue)
          /\ \A i \in 1 .. Len(queue') : i + 1 \in 1 .. Len(queue) /\ i + 1 # 1
      BY <2>1
    <2>4. conn[d] = "open" /\ \A u \in Threads : pnode[u] # None => pnode[u] # d
      BY <1>1, <2>3 DEF HeldInv, OneHolder
    <2> HIDE DEF d
    <2>5. HeldTypes' /\ Backlog'
      BY <1>1, <2>1, <2>2, <2>4 DEF HeldInv, HeldTypes, Backlog, Ending
    <2>6. \A i \in 1 .. Len(queue) : queue[i] \in Clients
      BY ElementOfSeq DEF HeldInv, HeldTypes
    <2>7. \A i \in 1 .. Len(queue') : queue'[i] # d /\ queue'[i] \in Clients
      BY <1>1, <2>1, <2>3, <2>6 DEF HeldInv, OneHolder, d
    <2>8. \A i \in 1 .. Len(queue') : conn'[queue'[i]] = "open"
      BY <1>1, <2>1, <2>2, <2>3, <2>7 DEF HeldInv, OneHolder
    <2>9. \A i, j \in 1 .. Len(queue') : queue'[i] = queue'[j] => i = j
      <3> SUFFICES ASSUME NEW i \in 1 .. Len(queue'), NEW j \in 1 .. Len(queue'),
                          queue'[i] = queue'[j]
                   PROVE  i = j
        OBVIOUS
      <3>1. i + 1 = j + 1
        BY <1>1, <2>1, <2>3 DEF HeldInv, OneHolder
      <3> QED
        BY <3>1
    <2>10. ASSUME NEW u \in Threads, pnode[u] # None
           PROVE  /\ conn'[pnode[u]] = "open"
                  /\ \A i \in 1 .. Len(queue') : queue'[i] # pnode[u]
                  /\ \A v \in Threads : pnode[v] = pnode[u] => u = v
      BY <1>1, <2>1, <2>2, <2>3, <2>4, <2>10 DEF HeldInv, HeldTypes, OneHolder
    <2>11. ASSUME NEW c \in Clients, conn'[c] = "open"
           PROVE  (\E i \in 1 .. Len(queue') : queue'[i] = c) \/ \E u \in Threads : pnode[u] = c
      <3>1. c # d /\ conn[c] = "open"
        BY <2>2, <2>11
      <3>2. CASE \E i \in 1 .. Len(queue) : queue[i] = c
        <4>1. PICK i \in 1 .. Len(queue) : queue[i] = c
          BY <3>2
        <4>2. i # 1
          BY <3>1, <4>1 DEF d
        <4>3. i - 1 \in 1 .. Len(queue') /\ (i - 1) + 1 = i
          BY <2>1, <4>2
        <4> QED
          BY <2>1, <4>1, <4>3
      <3> QED
        BY <1>1, <3>1, <3>2 DEF HeldInv, OneHolder
    <2>12. OneHolder'
      BY <1>1, <2>8, <2>9, <2>10, <2>11 DEF OneHolder
    <2> QED
      BY <1>2, <2>5, <2>12 DEF HeldInv
  <1> QED
    BY <1>3, <1>4

(* exit, and the clients.                                                  *)
LEMMA OthersHold ==
  ASSUME HeldInv,
         Join \/ SigFunc \/ \E c \in Clients : Connect(c) \/ Receive(c) \/ HangUp(c)
  PROVE  HeldInv'
  <1>1. UNCHANGED <<queue, pc, pnode, newfd, sent>> /\ (Handing' <=> Handing)
    BY DEF Join, SigFunc, Connect, Receive, HangUp, threads, mains, net, Handing
  <1>2. Hands'
    BY <1>1 DEF HeldInv, Hands
  <1>3. CASE Join
    <2>1. /\ main = "join" /\ main' = "gone" /\ UNCHANGED client
          /\ conn' = [c \in Clients |-> IF conn[c] = "open" THEN "closed" ELSE conn[c]]
      BY <1>3 DEF Join
    <2>2. HeldTypes' /\ Backlog'
      BY <1>1, <2>1 DEF HeldInv, HeldTypes, Backlog, Ending
    <2>3. OneHolder'
      BY <2>1 DEF OneHolder
    <2> QED
      BY <1>2, <2>2, <2>3 DEF HeldInv
  <1>4. CASE SigFunc
    <2>1. UNCHANGED <<conn, client, main>>
      BY <1>4 DEF SigFunc, net
    <2>2. HeldTypes' /\ Backlog'
      BY <1>1, <2>1 DEF HeldInv, HeldTypes, Backlog
    <2> QED
      BY <1>1, <1>2, <2>1, <2>2, HolderStays DEF HeldInv
  <1>5. ASSUME NEW c \in Clients, Connect(c) PROVE HeldInv'
    <2>1. /\ client[c] = "new" /\ client' = [client EXCEPT ![c] = "open"]
          /\ conn' = [conn EXCEPT ![c] = "backlog"] /\ UNCHANGED main
          /\ main \in {"loop", "insert", "inserting", "signal"}
      BY <1>5 DEF Connect, mains
    <2>2. HeldTypes' /\ Backlog'
      BY <1>1, <2>1 DEF HeldInv, HeldTypes, Backlog, Ending
    <2>3. conn[c] = "none" /\ \A d \in Clients : conn[d] = "open" <=> conn'[d] = "open"
      BY <2>1 DEF HeldInv, HeldTypes, Backlog
    <2>4. /\ \A i \in 1 .. Len(queue) : queue[i] \in Clients
          /\ \A u \in Threads : pnode[u] # None => pnode[u] \in Clients
          /\ Handing => newfd \in Clients
      BY ElementOfSeq DEF HeldInv, HeldTypes, Hands
    <2>5. OneHolder'
      BY <1>1, <2>1, <2>3, <2>4 DEF HeldInv, OneHolder
    <2> QED
      BY <1>2, <2>2, <2>5 DEF HeldInv
  <1>6. ASSUME NEW c \in Clients, Receive(c) \/ HangUp(c) PROVE HeldInv'
    <2>1. /\ client[c] = "open" /\ UNCHANGED <<main, conn>>
          /\ \E x \in {"success", "crash", "left"} : client' = [client EXCEPT ![c] = x]
      BY <1>6 DEF Receive, HangUp, mains
    <2>2. HeldTypes' /\ Backlog'
      BY <1>1, <2>1 DEF HeldInv, HeldTypes, Backlog
    <2> QED
      BY <1>1, <1>2, <2>1, <2>2, HolderStays DEF HeldInv
  <1> QED
    BY <1>3, <1>4, <1>5, <1>6

(* Every step.                                                             *)
LEMMA HeldNext ==
  ASSUME PoolBounds, HeldInv, PoolInv, Next \/ UNCHANGED vars
  PROVE  HeldInv'
  <1>1. CASE UNCHANGED vars
    <2>1. UNCHANGED <<queue, pc, pnode, main, newfd, conn, sent, client>>
      BY <1>1 DEF vars
    <2>2. HeldTypes' /\ Hands' /\ Backlog'
      BY <2>1 DEF HeldInv, HeldTypes, Hands, Backlog, Handing
    <2>3. OneHolder'
      BY <2>1, HolderStays DEF HeldInv, Handing
    <2> QED
      BY <2>2, <2>3 DEF HeldInv
  <1>2. ASSUME NEW t \in Threads, ThreadStep(t) \/ Spurious(t) PROVE HeldInv'
    BY <1>2, ThreadHolds, QuePopHolds, CloseHolds DEF ThreadStep
  <1>3. CASE MainStep
    BY <1>3, AcceptHolds, MainHolds, QueInsertHolds, ExitHolds, DrainHolds, OthersHold
    DEF MainStep
  <1> QED
    BY <1>1, <1>2, <1>3, OthersHold DEF Next

-----------------------------------------------------------------------------
(* What clients are told.                                                  *)

(* Success means all of the file; "Server crash" means that the connection *)
(* was closed before, and then no more is sent; and exit leaves nobody     *)
(* waiting.                                                                *)
Told ==
  /\ \A c \in Clients :
       /\ client[c] = "success" => sent[c] = Items
       /\ client[c] = "crash" => conn[c] = "closed" /\ sent[c] < Items
  /\ main = "gone" => \A c \in Clients : client[c] = "open" => conn[c] = "closed"

(* Every step.                                                             *)
LEMMA ToldNext ==
  ASSUME PoolBounds, HeldInv, PoolInv, Told, Next \/ UNCHANGED vars
  PROVE  Told'
  <1>1. HeldTypes
    BY DEF HeldInv
  <1>2. CASE UNCHANGED <<main, conn, sent, client>>
    BY <1>2 DEF Told
  <1>3. ASSUME UNCHANGED <<sent, client>>, main # "gone", main' # "gone",
               \A c \in Clients : conn[c] = "closed" => conn'[c] = "closed"
        PROVE  Told'
    BY <1>3 DEF Told
  <1>4. ASSUME NEW t \in Threads, Send(t), main # "gone" PROVE Told'
    <2>1. UNCHANGED <<main, conn, client>>
      BY <1>4 DEF Send, mains
    <2>2. pnode[t] \in Clients /\ conn[pnode[t]] = "open"
      BY <1>4 DEF HeldInv, Hands, OneHolder, Send, PoolBounds
    <2>3. \/ UNCHANGED sent
          \/ sent[pnode[t]] < Items /\ sent' = [sent EXCEPT ![pnode[t]] = @ + 1]
      BY <1>4 DEF Send
    <2>4. \A c \in Clients : (c = pnode[t] /\ sent[c] < Items) \/ sent'[c] = sent[c]
      BY <1>1, <2>3 DEF HeldTypes
    <2>5. ASSUME NEW c \in Clients
          PROVE  /\ client[c] = "success" => sent'[c] = Items
                 /\ client[c] = "crash" => conn[c] = "closed" /\ sent'[c] < Items
      <3>1. CASE sent'[c] = sent[c]
        BY <3>1 DEF Told
      <3>2. CASE c = pnode[t] /\ sent[c] < Items
        <4>1. client[c] # "success"
          BY <1>1, <3>2 DEF Told, HeldTypes, PoolBounds
        <4>2. client[c] # "crash"
          BY <2>2, <3>2 DEF Told
        <4> QED
          BY <4>1, <4>2
      <3> QED
        BY <2>4, <3>1, <3>2
    <2> QED
      BY <1>4, <2>1, <2>5 DEF Told
  <1>5. ASSUME NEW t \in Threads, ThreadStep(t) \/ Spurious(t) PROVE Told'
    <2>1. CASE Lock(t) \/ Test(t) \/ QuePop(t) \/ Unlock(t) \/ CleanFunc(t) \/ Spurious(t)
      BY <1>2, <2>1 DEF Lock, Test, QuePop, Unlock, CleanFunc, Spurious, mains, net
    <2>2. CASE CloseServed(t) /\ main # "gone"
      <3>1. conn' = [conn EXCEPT ![pnode[t]] = "closed"] /\ UNCHANGED <<main, sent, client>>
        BY <2>2 DEF CloseServed, Close, mains
      <3> QED
        BY <1>1, <1>3, <2>2, <3>1 DEF HeldTypes
    <2> QED
      BY <1>4, <1>5, <2>1, <2>2 DEF ThreadStep
  <1>6. CASE MainStep
    <2>1. ASSUME NEW c \in Clients, Accept(c) PROVE Told'
      BY <1>1, <1>3, <2>1 DEF Accept, HeldTypes
    <2>2. CASE \/ MainLock("insert", "inserting") \/ MainLock("drain", "draining")
               \/ Signal \/ Cancel
      BY <1>3, <2>2 DEF MainLock, Signal, Cancel, net
    <2>3. CASE QueInsert
      BY <1>1, <1>3, <2>3 DEF QueInsert, Close, HeldTypes
    <2>4. CASE Exit
      BY <1>3, <2>4 DEF Exit
    <2>5. CASE Drain
      BY <1>1, <1>3, <2>5 DEF Drain, Close, HeldTypes
    <2>6. CASE Join
      <3>1. /\ main = "join" /\ UNCHANGED <<sent, client>>
            /\ \A c \in Clients : conn'[c] = IF conn[c] = "open" THEN "closed" ELSE conn[c]
        BY <2>6 DEF Join
      <3>2. \A c \in Clients : client[c] = "open" => conn[c] \in {"open", "closed"}
        BY <1>1, <3>1 DEF HeldInv, HeldTypes, Backlog, Ending
      <3> QED
        BY <3>1, <3>2 DEF Told
    <2> QED
      BY <1>6, <2>1, <2>2, <2>3, <2>4, <2>5, <2>6 DEF MainStep
  <1>7. ASSUME NEW c \in Clients, Connect(c) PROVE Told'
    <2>1. /\ client[c] = "new" /\ client' = [client EXCEPT ![c] = "open"]
          /\ conn' = [conn EXCEPT ![c] = "backlog"] /\ UNCHANGED <<main, sent>> /\ main # "gone"
      BY <1>7 DEF Connect, mains
    <2> QED
      BY <1>1, <2>1 DEF HeldTypes, Told
  <1>8. ASSUME NEW c \in Clients, Receive(c) \/ HangUp(c) PROVE Told'
    <2>1. /\ client[c] = "open" /\ UNCHANGED <<main, conn, sent>>
          /\ \/ client' = [client EXCEPT ![c] = "success"] /\ sent[c] = Items
             \/ /\ client' = [client EXCEPT ![c] = "crash"]
                /\ conn[c] = "closed" /\ sent[c] < Items
             \/ client' = [client EXCEPT ![c] = "left"]
      BY <1>8 DEF Receive, HangUp, mains
    <2> QED
      BY <1>1, <2>1 DEF HeldTypes, Told
  <1> QED
    BY <1>2, <1>5, <1>6, <1>7, <1>8 DEF Next, SigFunc, vars, net, mains

-----------------------------------------------------------------------------
(* Signals, which a thread may not wait for (20190208/thread_pool/main.c). *)

(* The threads that come to the queue, and the signal main is about to     *)
(* send.                                                                   *)
OnTheWay == {t \in Threads : pc[t] \in {"lock", "relock", "test", "pop"}}
Pending == IF main = "signal" THEN 1 ELSE 0

(* While a thread sleeps, as many others come as connections wait.         *)
SignalsArrive ==
  (\E t \in Threads : pc[t] = "wait") => Len(queue) <= Cardinality(OnTheWay) + Pending

(* Counting them.                                                          *)
LEMMA WayFacts ==
  ASSUME PoolBounds
  PROVE  /\ IsFiniteSet(OnTheWay) /\ Cardinality(OnTheWay) \in Nat
         /\ IsFiniteSet(OnTheWay') /\ Cardinality(OnTheWay') \in Nat
  <1>1. IsFiniteSet(Threads)
    BY FS_Interval DEF PoolBounds, Threads
  <1>2. OnTheWay \in SUBSET Threads /\ OnTheWay' \in SUBSET Threads
    BY DEF OnTheWay
  <1> QED
    BY <1>1, <1>2, FS_Subset, FS_CardinalityType

(* One thread moves.                                                       *)
LEMMA WayMoves ==
  ASSUME PoolBounds, PoolInv, NEW t \in Threads, NEW l, pc' = [pc EXCEPT ![t] = l]
  PROVE  /\ t \notin OnTheWay /\ l \in {"lock", "relock", "test", "pop"} =>
              Cardinality(OnTheWay') = Cardinality(OnTheWay) + 1
         /\ t \in OnTheWay /\ l \notin {"lock", "relock", "test", "pop"} =>
              Cardinality(OnTheWay') = Cardinality(OnTheWay) - 1
         /\ t \in OnTheWay /\ l \in {"lock", "relock", "test", "pop"} =>
              Cardinality(OnTheWay') = Cardinality(OnTheWay)
         /\ t \notin OnTheWay /\ l \notin {"lock", "relock", "test", "pop"} =>
              Cardinality(OnTheWay') = Cardinality(OnTheWay)
  <1> DEFINE Way == {"lock", "relock", "test", "pop"}
  <1>1. ASSUME t \notin OnTheWay, l \in Way
        PROVE  Cardinality(OnTheWay') = Cardinality(OnTheWay) + 1
    <2>1. OnTheWay' = OnTheWay \union {t}
      BY <1>1 DEF PoolInv, OnTheWay
    <2> QED
      BY <1>1, <2>1, WayFacts, FS_AddElement
  <1>2. ASSUME t \in OnTheWay, l \notin Way
        PROVE  Cardinality(OnTheWay') = Cardinality(OnTheWay) - 1
    <2>1. OnTheWay' = OnTheWay \ {t}
      BY <1>2 DEF PoolInv, OnTheWay
    <2> QED
      BY <1>2, <2>1, WayFacts, FS_RemoveElement
  <1>3. ASSUME t \in OnTheWay, l \in Way PROVE OnTheWay' = OnTheWay
    BY <1>3 DEF PoolInv, OnTheWay
  <1>4. ASSUME t \notin OnTheWay, l \notin Way PROVE OnTheWay' = OnTheWay
    BY <1>4 DEF PoolInv, OnTheWay
  <1> QED
    BY <1>1, <1>2, <1>3, <1>4

(* A thread comes, goes, or takes a connection.                            *)
LEMMA ThreadSignals ==
  ASSUME PoolBounds, HeldInv, PoolInv, SignalsArrive, NEW t \in Threads,
         ThreadStep(t) \/ Spurious(t)
  PROVE  SignalsArrive'
  <1>1. /\ Len(queue) \in Nat /\ queue \in Seq(Clients)
        /\ Cardinality(OnTheWay) \in Nat /\ Cardinality(OnTheWay') \in Nat
        /\ Pending \in {0, 1}
    BY WayFacts DEF HeldInv, HeldTypes, Pending
  <1>2. UNCHANGED main
    BY DEF ThreadStep, Lock, Test, QuePop, Unlock, Send, CloseServed, CleanFunc, Spurious, mains
  <1>3. Pending' = Pending
    BY <1>2 DEF Pending
  <1>4. ASSUME (\E u \in Threads : pc'[u] = "wait") => \E u \in Threads : pc[u] = "wait",
               UNCHANGED queue, Cardinality(OnTheWay') >= Cardinality(OnTheWay)
        PROVE  SignalsArrive'
    BY <1>1, <1>3, <1>4 DEF SignalsArrive
  <1>5. ASSUME NEW l, l # "wait", pc' = [pc EXCEPT ![t] = l]
        PROVE  (\E u \in Threads : pc'[u] = "wait") => \E u \in Threads : pc[u] = "wait"
    BY <1>5 DEF PoolInv
  <1>6. CASE Lock(t) \/ Unlock(t) \/ CloseServed(t) \/ Spurious(t) \/ Send(t)
    <2>1. UNCHANGED queue
      BY <1>6 DEF Lock, Unlock, CloseServed, Spurious, Send
    <2>2. \/ UNCHANGED pc
          \/ \E l \in {"test", "pop", "lock", "relock"} : pc' = [pc EXCEPT ![t] = l]
          \/ /\ pc[t] \notin {"lock", "relock", "test", "pop"}
             /\ \E l \in {"send", "close"} : pc' = [pc EXCEPT ![t] = l]
      BY <1>6 DEF Lock, Unlock, CloseServed, Spurious, Wake, Send, Goto
    <2>3. CASE UNCHANGED pc
      <3>1. OnTheWay' = OnTheWay
        BY <2>3 DEF OnTheWay
      <3> QED
        BY <1>1, <1>4, <2>1, <2>3, <3>1
    <2>4. ASSUME NEW l \in {"test", "pop", "lock", "relock"}, pc' = [pc EXCEPT ![t] = l]
          PROVE  SignalsArrive'
      <3>1. \/ Cardinality(OnTheWay') = Cardinality(OnTheWay) + 1
            \/ Cardinality(OnTheWay') = Cardinality(OnTheWay)
        <4>1. CASE t \in OnTheWay
          BY <2>4, <4>1, WayMoves
        <4>2. CASE t \notin OnTheWay
          BY <2>4, <4>2, WayMoves
        <4> QED
          BY <4>1, <4>2
      <3> QED
        BY <1>1, <1>4, <1>5, <2>1, <2>4, <3>1
    <2>5. ASSUME NEW l \in {"send", "close"}, pc' = [pc EXCEPT ![t] = l], t \notin OnTheWay
          PROVE  SignalsArrive'
      <3>1. Cardinality(OnTheWay') = Cardinality(OnTheWay)
        BY <2>5, WayMoves
      <3> QED
        BY <1>1, <1>4, <1>5, <2>1, <2>5, <3>1
    <2> QED
      BY <2>2, <2>3, <2>4, <2>5 DEF OnTheWay
  <1>7. CASE Test(t)
    <2>1. CASE queue = <<>>
      <3>1. Len(queue') = 0
        BY <1>7, <2>1 DEF Test
      <3> QED
        BY <1>1, <1>3, <3>1 DEF SignalsArrive
    <2>2. CASE queue # <<>>
      <3>1. pc[t] = "test" /\ pc' = [pc EXCEPT ![t] = "pop"] /\ UNCHANGED queue
        BY <1>7, <2>2 DEF Test, Goto
      <3>2. Cardinality(OnTheWay') = Cardinality(OnTheWay)
        BY <3>1, WayMoves DEF OnTheWay
      <3> QED
        BY <1>1, <1>4, <1>5, <3>1, <3>2
    <2> QED
      BY <2>1, <2>2
  <1>8. CASE QuePop(t)
    <2>1. pc[t] = "pop" /\ pc' = [pc EXCEPT ![t] = "unlock"]
          /\ queue' = IF queue = <<>> THEN queue ELSE Tail(queue)
      BY <1>8 DEF QuePop, Goto
    <2>2. Cardinality(OnTheWay') = Cardinality(OnTheWay) - 1
      <3>1. t \in OnTheWay
        BY <2>1 DEF OnTheWay
      <3>2. ASSUME NEW l, pc' = [pc EXCEPT ![t] = l], l \notin {"lock", "relock", "test", "pop"}
            PROVE  Cardinality(OnTheWay') = Cardinality(OnTheWay) - 1
        BY <3>1, <3>2, WayMoves
      <3> QED
        BY <2>1, <3>2
    <2>3. Len(queue') = 0 \/ Len(queue') = Len(queue) - 1
      <3>1. CASE queue = <<>>
        <4>1. queue' = <<>>
          BY <2>1, <3>1
        <4> QED
          BY <4>1
      <3>2. CASE queue # <<>>
        <4>1. queue' = Tail(queue)
          BY <2>1, <3>2
        <4> QED
          BY <1>1, <3>2, <4>1, RestFacts
      <3> QED
        BY <3>1, <3>2
    <2>4. (\E u \in Threads : pc'[u] = "wait") => \E u \in Threads : pc[u] = "wait"
      BY <1>5, <2>1
    <2> QED
      BY <1>1, <1>3, <2>2, <2>3, <2>4 DEF SignalsArrive
  <1>9. CASE CleanFunc(t)
    <2>1. UNCHANGED queue /\ cancelled # {}
      BY <1>9 DEF CleanFunc
    <2>2. queue' = <<>>
      BY <2>1 DEF PoolInv
    <2>3. Len(queue') = 0
      BY <2>2
    <2> QED
      BY <1>1, <1>3, <2>3 DEF SignalsArrive
  <1> QED
    BY <1>6, <1>7, <1>8, <1>9 DEF ThreadStep

(* Main sends a signal for every connection it queues.                     *)
LEMMA MainSignals ==
  ASSUME PoolBounds, HeldInv, PoolInv, SignalsArrive, MainStep
  PROVE  SignalsArrive'
  <1>1. /\ Len(queue) \in Nat /\ queue \in Seq(Clients)
        /\ Cardinality(OnTheWay) \in Nat /\ Cardinality(OnTheWay') \in Nat
    BY WayFacts DEF HeldInv, HeldTypes
  <1>2. ASSUME UNCHANGED pc, Len(queue') \in Nat, Len(queue') + Pending <= Len(queue) + Pending'
        PROVE  SignalsArrive'
    <2>1. OnTheWay' = OnTheWay
      BY <1>2 DEF OnTheWay
    <2>2. Pending \in {0, 1} /\ Pending' \in {0, 1}
      BY DEF Pending
    <2> QED
      BY <1>1, <1>2, <2>1, <2>2 DEF SignalsArrive
  <1>3. CASE \/ MainLock("insert", "inserting") \/ MainLock("drain", "draining") \/ Exit \/ Cancel
             \/ Join \/ \E c \in Clients : Accept(c)
    <2>1. UNCHANGED <<pc, queue>> /\ main # "signal" /\ main' # "signal"
      BY <1>3 DEF MainLock, Exit, Cancel, Join, Accept, threads
    <2> QED
      BY <1>1, <1>2, <2>1 DEF Pending
  <1>4. CASE QueInsert
    <2>1. UNCHANGED pc /\ main = "inserting" /\ main' = "signal"
          /\ (UNCHANGED queue \/ queue' = Append(queue, newfd))
      BY <1>4 DEF QueInsert, threads
    <2>2. newfd \in Clients
      BY <2>1 DEF HeldInv, Hands, Handing
    <2>3. Len(queue') \in Nat /\ Len(queue') <= Len(queue) + 1
      BY <1>1, <2>1, <2>2, LongerFacts
    <2> QED
      BY <1>1, <1>2, <2>1, <2>3 DEF Pending
  <1>5. CASE Drain
    <2>1. UNCHANGED pc /\ main = "draining" /\ main' # "signal"
          /\ (UNCHANGED queue \/ (queue # <<>> /\ queue' = Tail(queue)))
      BY <1>5 DEF Drain, threads
    <2>2. Len(queue') \in Nat /\ Len(queue') <= Len(queue)
      BY <1>1, <2>1, RestFacts
    <2> QED
      BY <1>1, <1>2, <2>1, <2>2 DEF Pending
  <1>6. CASE Signal
    <2>1. main = "signal" /\ main' = "loop" /\ UNCHANGED queue
      BY <1>6 DEF Signal
    <2>2. Pending = 1 /\ Pending' = 0
      BY <2>1 DEF Pending
    <2>3. CASE \A t \in Threads : pc[t] # "wait"
      <3>1. UNCHANGED pc
        BY <1>6, <2>3 DEF Signal
      <3> QED
        BY <2>3, <3>1 DEF SignalsArrive
    <2>4. CASE \E t \in Threads : pc[t] = "wait"
      <3>1. PICK t \in Threads : Wake(t)
        BY <1>6, <2>4 DEF Signal
      <3>2. pc[t] = "wait" /\ pc' = [pc EXCEPT ![t] = "relock"]
        BY <3>1 DEF Wake, Goto
      <3>3. Cardinality(OnTheWay') = Cardinality(OnTheWay) + 1
        BY <3>2, WayMoves DEF OnTheWay
      <3> QED
        BY <1>1, <2>1, <2>2, <2>4, <3>3 DEF SignalsArrive
    <2> QED
      BY <2>3, <2>4
  <1> QED
    BY <1>3, <1>4, <1>5, <1>6 DEF MainStep

(* Every step.                                                             *)
LEMMA SignalsNext ==
  ASSUME PoolBounds, HeldInv, PoolInv, SignalsArrive, Next \/ UNCHANGED vars
  PROVE  SignalsArrive'
  <1>1. CASE UNCHANGED <<queue, pc, main>>
    BY <1>1 DEF SignalsArrive, OnTheWay, Pending
  <1>2. CASE SigFunc \/ \E c \in Clients : Connect(c) \/ Receive(c) \/ HangUp(c)
    BY <1>1, <1>2 DEF SigFunc, Connect, Receive, HangUp, threads, mains
  <1> QED
    BY <1>1, <1>2, ThreadSignals, MainSignals DEF Next, vars

-----------------------------------------------------------------------------
(* Adding under a lock.                                                    *)

UnderLock == {"semadd", "mutexadd"}

(* Who has the lock.                                                       *)
Inner == {"load", "store", "release"}

(* The lock excludes, what has been loaded is still the number, and the    *)
(* number is that of the additions.                                        *)
Counted ==
  /\ proc \in [K!Procs -> {"top", "exit"} \union Inner]
  /\ rounds \in [K!Procs -> Nat] /\ val \in Nat /\ reg \in [K!Procs -> Nat]
  /\ \A p \in K!Procs : /\ proc[p] \in Inner => holder = p
                        /\ proc[p] = "store" => reg[p] = val
                        /\ proc[p] = "exit" => rounds[p] = N
  /\ val = rounds[1] + rounds[2]
           + (IF \E p \in K!Procs : proc[p] = "release" THEN 1 ELSE 0)
  /\ nmain = "done" => proc[1] = "exit" /\ proc[2] = "exit"

CountInv == nprog \in UnderLock => Counted

(* Nothing has been added.                                                 *)
LEMMA CountInit == K!Init => CountInv
  BY DEF K!Init, CountInv, Counted, Inner, K!Procs

(* A process takes a step of its round.                                    *)
LEMMA RoundKeeps ==
  ASSUME Counted, nprog \in UnderLock, NEW p \in K!Procs, K!Step(p)
  PROVE  Counted'
  <1>0. nprog \in K!Adding /\ nprog \notin K!Buffered \union {"add", "tickets"}
    BY DEF UnderLock, K!Adding, K!Buffered
  <1> USE <1>0 DEF Counted, Inner, K!Procs, K!Goto, K!sale
  <1>1. CASE K!Acquire(p)
    BY <1>1 DEF K!Acquire
  <1>2. CASE K!Load(p)
    BY <1>2 DEF K!Load
  <1>3. CASE K!Store(p)
    <2>1. /\ \A q \in K!Procs : proc[q] # "release" /\ (q # p => proc[q] \notin Inner)
          /\ reg[p] = val /\ val = rounds[1] + rounds[2]
      BY <1>3 DEF K!Store
    <2>2. /\ proc' = [proc EXCEPT ![p] = "release"] /\ val' = val + 1
          /\ UNCHANGED <<rounds, reg, holder, nmain, nprog>>
      BY <1>3, <2>1 DEF K!Store
    <2>3. (\E q \in K!Procs : proc'[q] = "release") /\ proc[p] \in Inner
      BY <1>3, <2>2 DEF K!Store
    <2>4. val' = rounds'[1] + rounds'[2]
                 + (IF \E q \in K!Procs : proc'[q] = "release" THEN 1 ELSE 0)
      BY <2>1, <2>2, <2>3
    <2> QED
      BY <2>1, <2>2, <2>3, <2>4
  <1>4. CASE K!Release(p)
    BY <1>4 DEF K!Release
  <1>5. CASE K!Exit(p)
    BY <1>5 DEF K!Exit
  <1> QED
    BY <1>1, <1>2, <1>3, <1>4, <1>5 DEF K!Step, K!SemP, K!SemV, K!Sell

(* Every step.                                                             *)
LEMMA CountNext ==
  ASSUME CountInv, K!Next \/ UNCHANGED counters
  PROVE  CountInv'
  <1> SUFFICES ASSUME nprog' \in UnderLock PROVE Counted'
    BY DEF CountInv
  <1>1. nprog' = nprog
    BY DEF K!Next, K!Step, K!Acquire, K!Load, K!Store, K!Release, K!SemP, K!SemV, K!Exit,
           K!Sell, K!Product, K!JoinSellers, K!vars, counters
  <1>2. Counted
    BY <1>1 DEF CountInv
  <1>3. CASE UNCHANGED <<proc, rounds, val, reg, holder, nmain>>
    BY <1>2, <1>3 DEF Counted
  <1>4. CASE K!Product \/ K!JoinSellers
    BY <1>1, <1>4 DEF K!Product, K!JoinSellers, UnderLock
  <1> QED
    BY <1>1, <1>2, <1>3, <1>4, RoundKeeps DEF K!Next, K!vars, counters

(* When both have ended all rounds are done.                               *)
LEMMA CountExact == CountInv => Exact
  BY ProgsAssumption DEF CountInv, Counted, Exact, K!Exact, UnderLock, K!Adding, K!Procs, Inner

-----------------------------------------------------------------------------
(* The chats over FIFOs.                                                   *)

Text == H!Sides \X Nat

(* Nothing is all of nothing.                                              *)
LEMMA OrderNone ==
  ASSUME NEW q
  PROVE  H!InOrder(q, <<>>, 0)
  <1>1. 1 .. Len(<<>>) = {} /\ 1 .. 0 = {}
    OBVIOUS
  <1> QED
    BY <1>1 DEF H!InOrder

(* The lines of q among the items that s is made of.                       *)
Theirs(q, s) == {i \in 1 .. Len(s) : s[i][1] = q}

(* The next line of q.                                                     *)
LEMMA OrderNext ==
  ASSUME NEW q \in H!Sides, NEW n \in Nat, NEW s \in Seq(Text), H!InOrder(q, s, n)
  PROVE  H!InOrder(q, s \o <<<<q, n + 1>>>>, n + 1)
  <1> DEFINE x == <<q, n + 1>>
             t == s \o <<x>>
             k == Len(s) + 1
  <1>1. /\ Len(s) \in Nat /\ Len(t) = k /\ t[k] = x
        /\ \A i \in 1 .. Len(s) : t[i] = s[i] /\ s[i] \in Text
    <2>1. x \in Text
      BY DEF Text
    <2> HIDE DEF x
    <2>2. <<x>> \in Seq(Text) /\ Len(<<x>>) = 1 /\ <<x>>[1] = x
      BY <2>1
    <2> QED
      BY <2>2, ConcatProperties, ElementOfSeq, LenProperties
  <1>2. x[1] = q /\ x[2] = n + 1
    OBVIOUS
  <1> HIDE DEF x, t, k
  <1>3. Theirs(q, t) = Theirs(q, s) \union {k}
    BY <1>1, <1>2 DEF Theirs, k
  <1>4. {s[i][2] : i \in Theirs(q, s)} = 1 .. n
    BY DEF H!InOrder, Theirs
  <1>5. {t[i][2] : i \in Theirs(q, t)} = (1 .. n) \union {n + 1}
    <2>1. \A i \in Theirs(q, s) : t[i][2] = s[i][2] /\ i \in 1 .. Len(s)
      BY <1>1 DEF Theirs
    <2> QED
      BY <1>1, <1>2, <1>3, <1>4, <2>1, SMTT(30)
  <1>6. ASSUME NEW i \in Theirs(q, t), NEW j \in Theirs(q, t), i < j PROVE t[i][2] < t[j][2]
    <2>1. i \in 1 .. Len(s) /\ i \in Theirs(q, s) /\ (j = k \/ j \in Theirs(q, s))
      BY <1>1, <1>3, <1>6 DEF Theirs, k
    <2>2. s[i][2] \in 1 .. n
      BY <1>4, <2>1
    <2>3. CASE j = k
      BY <1>1, <1>2, <2>1, <2>2, <2>3
    <2>4. CASE j \in Theirs(q, s)
      <3>1. s[i][2] < s[j][2]
        BY <1>6, <2>1, <2>4 DEF H!InOrder, Theirs
      <3> QED
        BY <1>1, <2>1, <2>4, <3>1 DEF Theirs
    <2> QED
      BY <2>1, <2>3, <2>4
  <1>7. (1 .. n) \union {n + 1} = 1 .. n + 1
    OBVIOUS
  <1>8. H!InOrder(q, t, n + 1)
    BY <1>5, <1>6, <1>7 DEF H!InOrder, Theirs
  <1> QED
    BY <1>8 DEF t, x

(* A line of somebody else, anywhere.                                      *)
LEMMA OrderOther ==
  ASSUME NEW q, NEW n, NEW a \in Seq(Text), NEW b \in Seq(Text), NEW x \in Text, x[1] # q,
         H!InOrder(q, a \o b, n)
  PROVE  H!InOrder(q, (a \o <<x>>) \o b, n)
  <1> DEFINE s == a \o b
             t == (a \o <<x>>) \o b
             f(i) == IF i <= Len(a) THEN i ELSE i + 1
  <1>1. /\ Len(a) \in Nat /\ Len(b) \in Nat /\ Len(s) = Len(a) + Len(b)
        /\ Len(t) = Len(s) + 1 /\ t[Len(a) + 1] = x
        /\ \A i \in 1 .. Len(s) : t[f(i)] = s[i]
    <2>1. <<x>> \in Seq(Text) /\ Len(<<x>>) = 1 /\ <<x>>[1] = x
      OBVIOUS
    <2>2. /\ Len(a) \in Nat /\ Len(b) \in Nat
      BY LenProperties
    <2> DEFINE c == a \o <<x>>
    <2>3. /\ c \in Seq(Text) /\ Len(c) = Len(a) + 1
          /\ \A i \in 1 .. Len(a) : c[i] = a[i] 
          /\ c[Len(a) + 1] = x
      BY <2>1, <2>2, ConcatProperties
    <2>4. /\ Len(s) = Len(a) + Len(b)
          /\ \A i \in 1 .. Len(s) : s[i] = IF i <= Len(a) THEN a[i] ELSE b[i - Len(a)]
      BY ConcatProperties
    <2> HIDE DEF c
    <2>5. /\ Len(c \o b) = Len(c) + Len(b)
          /\ \A i \in 1 .. Len(c) + Len(b) :
                (c \o b)[i] = IF i <= Len(c) THEN c[i] ELSE b[i - Len(c)]
      BY <2>3, ConcatProperties
    <2>6. t = c \o b
      BY DEF c
    <2> HIDE DEF s, t
    <2>7. ASSUME NEW i \in 1 .. Len(s) PROVE t[f(i)] = s[i]
      <3>1. CASE i <= Len(a)
        BY <2>2, <2>3, <2>4, <2>5, <2>6, <3>1
      <3>2. CASE i > Len(a)
        <4>1. f(i) = i + 1 /\ i + 1 \in 1 .. Len(c) + Len(b) /\ i + 1 > Len(c)
              /\ (i + 1) - Len(c) = i - Len(a)
          BY <2>2, <2>3, <2>4, <3>2
        <4>2. t[i + 1] = b[(i + 1) - Len(c)]
          BY <2>2, <2>3, <2>5, <2>6, <4>1
        <4> QED
          BY <2>2, <2>4, <3>2, <4>1, <4>2
      <3> QED
        BY <2>2, <2>4, <3>1, <3>2
    <2> QED
      BY <2>2, <2>3, <2>4, <2>5, <2>6, <2>7
  <1>2. H!InOrder(q, s, n)
    OBVIOUS
  <1> HIDE DEF s, t
  <1>3. \A i \in Theirs(q, s) : f(i) \in Theirs(q, t)
    BY <1>1 DEF Theirs
  <1>4. ASSUME NEW j \in Theirs(q, t) PROVE \E i \in Theirs(q, s) : j = f(i)
    <2>1. j \in 1 .. Len(s) + 1 /\ j # Len(a) + 1
      BY <1>1 DEF Theirs
    <2>2. CASE j <= Len(a)
      <3>1. j \in 1 .. Len(s) /\ f(j) = j
        BY <1>1, <2>1, <2>2
      <3> QED
        BY <1>1, <3>1 DEF Theirs
    <2>3. CASE j > Len(a) + 1
      <3>1. j - 1 \in 1 .. Len(s) /\ f(j - 1) = j
        BY <1>1, <2>1, <2>3
      <3>2. s[j - 1] = t[j]
        BY <1>1, <3>1
      <3> QED
        BY <3>1, <3>2 DEF Theirs
    <2>4. j <= Len(a) \/ j > Len(a) + 1
      BY <1>1, <2>1
    <2> QED
      BY <2>2, <2>3, <2>4
  <1>5. \A i \in Theirs(q, s) : t[f(i)][2] = s[i][2] /\ i \in 1 .. Len(s)
    BY <1>1 DEF Theirs
  <1>6. {t[j][2] : j \in Theirs(q, t)} = {s[i][2] : i \in Theirs(q, s)}
    <2> HIDE DEF f
    <2> QED
      BY <1>3, <1>4, <1>5
  <1>7. ASSUME NEW i \in Theirs(q, t), NEW j \in Theirs(q, t), i < j PROVE t[i][2] < t[j][2]
    <2>1. PICK k \in Theirs(q, s), l \in Theirs(q, s) : i = f(k) /\ j = f(l)
      BY <1>4
    <2>2. k < l
      BY <1>1, <1>5, <1>7, <2>1
    <2>3. s[k][2] < s[l][2]
      BY <1>2, <2>2 DEF H!InOrder, Theirs
    <2> QED
      BY <1>5, <2>1, <2>3
  <1>8. H!InOrder(q, t, n)
    BY <1>2, <1>6, <1>7 DEF H!InOrder, Theirs
  <1> QED
    BY <1>8 DEF t

(* The items of a FIFO.                                                    *)
LEMMA MarkedFacts ==
  ASSUME NEW q \in H!Sides, NEW s \in Seq(Nat), NEW l \in Nat
  PROVE  /\ H!Marked(q, s) \in Seq(Text)
         /\ H!Marked(q, Append(s, l)) = H!Marked(q, s) \o <<<<q, l>>>>
         /\ H!Marked(q, <<>>) = <<>>
         /\ H!Marked(q, <<l>>) = <<<<q, l>>>>
  <1> DEFINE x == <<q, l>>
  <1>1. Len(s) \in Nat /\ \A i \in 1 .. Len(s) : s[i] \in Nat
    BY ElementOfSeq, LenProperties
  <1>2. x \in Text /\ \A i \in 1 .. Len(s) : <<q, s[i]>> \in Text
    BY <1>1 DEF Text
  <1>3. H!Marked(q, s) \in Seq(Text) /\ Len(H!Marked(q, s)) = Len(s)
    BY <1>1, <1>2 DEF H!Marked
  <1>4. /\ Append(s, l) \in Seq(Nat) /\ Len(Append(s, l)) = Len(s) + 1
        /\ \A i \in 1 .. Len(s) : Append(s, l)[i] = s[i]
        /\ Append(s, l)[Len(s) + 1] = l
    BY AppendProperties
  <1> HIDE DEF x
  <1>5. <<x>> \in Seq(Text) /\ Len(<<x>>) = 1 /\ <<x>>[1] = x
    BY <1>2
  <1>6. H!Marked(q, Append(s, l)) = H!Marked(q, s) \o <<x>>
    <2> DEFINE u == H!Marked(q, Append(s, l))
               v == H!Marked(q, s) \o <<x>>
    <2>1. /\ v \in Seq(Text) /\ Len(v) = Len(s) + 1
          /\ \A i \in 1 .. Len(s) : v[i] = H!Marked(q, s)[i]
          /\ v[Len(s) + 1] = x
      BY <1>1, <1>3, <1>5, ConcatProperties
    <2>2. u = [i \in 1 .. Len(s) + 1 |-> <<q, Append(s, l)[i]>>]
      BY <1>4 DEF H!Marked
    <2>3. \A i \in 1 .. Len(s) + 1 : u[i] \in Text
      <3>1. \A i \in 1 .. Len(s) + 1 : Append(s, l)[i] \in Nat
        BY <1>4, ElementOfSeq
      <3>2. \A y \in Nat : <<q, y>> \in Text
        BY DEF Text
      <3> QED
        BY <2>2, <3>1, <3>2
    <2>4. u \in Seq(Text) /\ Len(u) = Len(s) + 1
      BY <1>1, <2>2, <2>3
    <2>5. \A i \in 1 .. Len(s) + 1 : u[i] = v[i]
      BY <1>1, <1>4, <2>1, <2>2 DEF H!Marked, x
    <2> HIDE DEF u, v
    <2>6. u = v
      BY <2>1, <2>4, <2>5, SeqEqual
    <2> QED
      BY <2>6 DEF u, v
  <1>7. H!Marked(q, <<>>) = <<>>
    <2>1. H!Marked(q, <<>>) \in Seq(Text) /\ Len(H!Marked(q, <<>>)) = 0
      BY DEF H!Marked
    <2> QED
      BY <2>1, EmptySeq
  <1>8. H!Marked(q, <<l>>) = <<x>>
    BY DEF H!Marked, x
  <1> QED
    BY <1>3, <1>6, <1>7, <1>8 DEF x

(* Alone.                                                                  *)
LEMMA MarkedType ==
  ASSUME NEW q \in H!Sides, NEW s \in Seq(Nat)
  PROVE  H!Marked(q, s) \in Seq(Text)
  <1>1. 0 \in Nat
    OBVIOUS
  <1> QED
    BY <1>1, MarkedFacts

(* The state of the chats.                                                 *)
ChatTypes ==
  /\ cprog \in Chats
  /\ side \in [H!Sides -> {"setup", "open", "writePid", "readPid", "loop", "end"}]
  /\ typed \in [H!Sides -> Nat] /\ pipe \in [H!Sides -> Seq(Nat)]
  /\ shown \in [H!Sides -> Seq(Text)] /\ handed \in [H!Sides -> Seq(Text)]
  /\ slot \in Seq(Text)

(* Side p has, or will have, all that the other side has typed.            *)
Talks(p) == H!InOrder(H!Other(p), H!Coming(p), typed[H!Other(p)])

(* The chat of 20190121: as long as a side is there nothing is lost, also  *)
(* before it has opened the FIFOs.                                         *)
PipeChat ==
  /\ slot = <<>>
  /\ \A p \in H!Sides : /\ side[p] \notin {"writePid", "readPid"}
                        /\ handed[p] = <<>>
                        /\ side[p] # "end" => Talks(p)

(* The chat of 20190127: when side 2 begins to chat it has read the pid    *)
(* and nothing else, because side 1 waits for its answer.                  *)
Unwritten == {"setup", "open", "writePid"}
Greeting ==
  /\ side[1] # "loop" /\ typed[1] = 0
  /\ pipe[1] = <<>> /\ Len(pipe[2]) <= 1
  /\ handed[2] = <<>> /\ shown[2] = <<>>
  /\ side[1] \in Unwritten => pipe[2] = <<>>
  /\ side[2] = "writePid" => pipe[2] = <<>> /\ side[1] \in {"readPid", "end"}
IpcChat ==
  /\ side[2] = "loop" => side[1] \notin Unwritten /\ Talks(2)
  /\ side[2] \in Unwritten \union {"readPid"} => Greeting

ChatInv == /\ ChatTypes
           /\ cprog = "pipe" => PipeChat
           /\ cprog = "ipc" => IpcChat

(* There are two sides.                                                    *)
LEMMA SidesAre ==
  /\ H!Sides = {1, 2} /\ H!Other(1) = 2 /\ H!Other(2) = 1
  /\ \A p \in H!Sides : H!Other(p) \in H!Sides /\ H!Other(p) # p /\ H!Other(H!Other(p)) = p
  BY DEF H!Sides, H!Other

(* The two versions.                                                       *)
LEMMA Versions == ChatTypes => cprog \in {"pipe", "ipc"}
  BY ProgsAssumption DEF ChatTypes

(* Initially nothing has been said.                                        *)
LEMMA ChatInit == H!Init => ChatInv
  <1> SUFFICES ASSUME H!Init PROVE ChatInv
    OBVIOUS
  <1> USE DEF H!Init
  <1>1. <<>> \in Seq(Nat) /\ <<>> \in Seq(Text) /\ Len(<<>>) = 0
    OBVIOUS
  <1>2. ChatTypes
    BY <1>1 DEF ChatTypes
  <1>3. ASSUME NEW p \in H!Sides PROVE Talks(p)
    <2>1. H!Marked(H!Other(p), <<>>) = <<>>
      BY SidesAre, MarkedFacts, <1>1
    <2>2. H!Coming(p) = <<>>
      BY <1>1, <2>1, ConcatEmptySeq DEF H!Coming
    <2>3. typed[H!Other(p)] = 0
      BY SidesAre
    <2> QED
      BY <2>2, <2>3, OrderNone DEF Talks
  <1>4. PipeChat
    BY <1>3 DEF PipeChat
  <1>5. IpcChat
    BY <1>1, SidesAre DEF IpcChat, Greeting, Unwritten
  <1> QED
    BY <1>2, <1>4, <1>5 DEF ChatInv

(* What a side hands over keeps its type.                                  *)
LEMMA HandOverTypes ==
  ASSUME ChatTypes, NEW p \in H!Sides, NEW s \in Seq(Text), H!HandOver(p, s)
  PROVE  shown' \in [H!Sides -> Seq(Text)] /\ handed' \in [H!Sides -> Seq(Text)]
  <1>1. shown[p] \o s \in Seq(Text) /\ handed[p] \o s \in Seq(Text)
    BY ConcatProperties DEF ChatTypes
  <1> QED
    BY <1>1, Versions DEF H!HandOver, ChatTypes

(* So do the steps of a side.                                              *)
LEMMA SideTypes ==
  ASSUME ChatTypes, NEW p \in H!Sides,
         H!Program(p) \/ H!Say(p) \/ H!Interrupt(p) \/ H!Quit(p)
  PROVE  ChatTypes'
  <1> DEFINE q == H!Other(p)
  <1>0. q \in H!Sides /\ q # p
    BY SidesAre
  <1>1. CASE H!Begin(p) \/ H!Opened(p) \/ H!HearEnd(p) \/ H!Interrupt(p) \/ H!Quit(p)
    BY <1>1 DEF ChatTypes, H!Begin, H!Opened, H!HearEnd, H!Interrupt, H!Quit, H!Clear,
                H!FirstState
  <1>2. CASE H!WritePid(p)
    <2>1. Append(pipe[q], H!Pid) \in Seq(Nat)
      BY <1>0, AppendProperties DEF ChatTypes, H!Pid
    <2> QED
      BY <1>0, <1>2, <2>1 DEF ChatTypes, H!WritePid, H!AfterPid
  <1>3. CASE H!ReadPid(p)
    <2>1. \A n \in 1 .. Len(pipe[p]) : SubSeq(pipe[p], n + 1, Len(pipe[p])) \in Seq(Nat)
      BY DEF ChatTypes
    <2> QED
      BY <1>3, <2>1 DEF ChatTypes, H!ReadPid, H!AfterPid
  <1>4. CASE H!Hear(p)
    <2>1. H!Marked(q, pipe[p]) \in Seq(Text) /\ <<>> \in Seq(Nat)
      <3>1. pipe[p] \in Seq(Nat) /\ <<>> \in Seq(Nat)
        BY DEF ChatTypes
      <3> QED
        BY <1>0, <3>1, MarkedType
    <2>2. shown' \in [H!Sides -> Seq(Text)] /\ handed' \in [H!Sides -> Seq(Text)]
      BY <1>4, <2>1, HandOverTypes DEF H!Hear
    <2> QED
      BY <1>4, <2>1, <2>2 DEF ChatTypes, H!Hear
  <1>5. CASE H!Say(p)
    <2> DEFINE line == typed[p] + 1
    <2>1. line \in Nat /\ Append(pipe[q], line) \in Seq(Nat)
      BY <1>0, AppendProperties DEF ChatTypes
    <2>2. CASE side[q] = "end"
      BY <1>5, <2>2 DEF ChatTypes, H!Say
    <2>3. CASE side[q] # "end"
      <3>1. H!Marked(p, <<line>>) \in Seq(Text)
        <4>1. <<line>> \in Seq(Nat)
          BY <2>1
        <4> QED
          BY <4>1, MarkedType
      <3>2. H!HandOver(p, H!Marked(p, <<line>>))
        BY <1>5, <2>3 DEF H!Say
      <3>3. shown' \in [H!Sides -> Seq(Text)] /\ handed' \in [H!Sides -> Seq(Text)]
        BY <3>1, <3>2, HandOverTypes
      <3> QED
        BY <1>0, <1>5, <2>1, <2>3, <3>3 DEF ChatTypes, H!Say
    <2> QED
      BY <2>2, <2>3
  <1> QED
    BY <1>1, <1>2, <1>3, <1>4, <1>5 DEF H!Program

(* And those of the displays.                                              *)
LEMMA DisplayTypes ==
  ASSUME ChatTypes, H!Displays
  PROVE  ChatTypes'
  <1>1. CASE H!ShowQueue
    <2>1. Append(shown[2], Head(handed[2])) \in Seq(Text) /\ Tail(handed[2]) \in Seq(Text)
      BY <1>1, SidesAre, HeadTailProperties, AppendProperties DEF ChatTypes, H!ShowQueue
    <2> QED
      BY <1>1, <2>1 DEF ChatTypes, H!ShowQueue
  <1>2. CASE H!CopySlot
    BY <1>2, SidesAre DEF ChatTypes, H!CopySlot
  <1>3. CASE H!ShowSlot
    <2>1. shown[1] \o slot \in Seq(Text) /\ <<>> \in Seq(Text)
      BY SidesAre, ConcatProperties DEF ChatTypes
    <2> QED
      BY <1>3, <2>1 DEF ChatTypes, H!ShowSlot
  <1> QED
    BY <1>1, <1>2, <1>3 DEF H!Displays

(* Nothing has changed for p.                                              *)
LEMMA TalksSame ==
  ASSUME NEW p \in H!Sides, Talks(p),
         shown'[p] = shown[p], handed'[p] = handed[p], pipe'[p] = pipe[p],
         typed'[H!Other(p)] = typed[H!Other(p)]
  PROVE  Talks(p)'
  BY DEF Talks, H!Coming

(* The other side has typed a line.                                        *)
LEMMA TalksOn ==
  ASSUME ChatTypes, NEW p \in H!Sides, NEW q, q = H!Other(p), Talks(p),
         shown'[p] = shown[p], handed'[p] = handed[p],
         pipe'[p] = Append(pipe[p], typed[q] + 1), typed'[q] = typed[q] + 1
  PROVE  Talks(p)'
  <1> DEFINE a == shown[p] \o handed[p]
             m == H!Marked(q, pipe[p])
             x == <<q, typed[q] + 1>>
  <1>1. q \in H!Sides /\ typed[q] \in Nat /\ typed[q] + 1 \in Nat /\ pipe[p] \in Seq(Nat)
    BY SidesAre DEF ChatTypes
  <1>2. a \in Seq(Text) /\ m \in Seq(Text)
    BY <1>1, ConcatProperties, MarkedType DEF ChatTypes
  <1>3. x \in Text
    BY <1>1 DEF Text
  <1>4. <<x>> \in Seq(Text)
    BY <1>3
  <1>5. H!Marked(q, pipe'[p]) = m \o <<x>>
    BY <1>1, MarkedFacts
  <1>6. H!Coming(p) = a \o m /\ H!Coming(p)' = a \o (m \o <<x>>)
    BY <1>5 DEF H!Coming
  <1> HIDE DEF a, m, x
  <1>7. H!Coming(p)' = H!Coming(p) \o <<x>> /\ H!Coming(p) \in Seq(Text)
    BY <1>2, <1>4, <1>6, ConcatAssociative, ConcatProperties
  <1>8. H!InOrder(q, H!Coming(p) \o <<x>>, typed[q] + 1)
    BY <1>1, <1>7, OrderNext DEF Talks, x
  <1> QED
    BY <1>7, <1>8 DEF Talks

(* p itself has.                                                           *)
LEMMA TalksOwn ==
  ASSUME ChatTypes, NEW p \in H!Sides, Talks(p), NEW l \in Nat,
         shown'[p] \o handed'[p] = (shown[p] \o handed[p]) \o <<<<p, l>>>>,
         pipe'[p] = pipe[p], typed'[H!Other(p)] = typed[H!Other(p)]
  PROVE  Talks(p)'
  <1> DEFINE q == H!Other(p)
             a == shown[p] \o handed[p]
             m == H!Marked(q, pipe[p])
             x == <<p, l>>
  <1>1. q \in H!Sides /\ q # p /\ pipe[p] \in Seq(Nat)
    BY SidesAre DEF ChatTypes
  <1>2. a \in Seq(Text) /\ m \in Seq(Text)
    BY <1>1, ConcatProperties, MarkedType DEF ChatTypes
  <1>3. x \in Text /\ x[1] # q
    BY <1>1 DEF Text
  <1>4. H!Coming(p) = a \o m /\ H!Coming(p)' = (a \o <<x>>) \o m
    BY DEF H!Coming
  <1>5. H!InOrder(q, a \o m, typed[q])
    BY <1>4 DEF Talks
  <1> HIDE DEF a, m, x, q
  <1>6. H!InOrder(q, (a \o <<x>>) \o m, typed[q])
    BY <1>2, <1>3, <1>5, OrderOther
  <1> QED
    BY <1>4, <1>6 DEF Talks, q

(* Lines have moved on their way to the screen.                            *)
LEMMA TalksMoved ==
  ASSUME NEW p \in H!Sides, Talks(p), H!Coming(p)' = H!Coming(p),
         typed'[H!Other(p)] = typed[H!Other(p)]
  PROVE  Talks(p)'
  BY DEF Talks

(* What is handed over comes after what was there before, unless it goes   *)
(* into the shared memory.                                                 *)
LEMMA HandsOver ==
  ASSUME ChatTypes, NEW p \in H!Sides, NEW s \in Seq(Text), H!HandOver(p, s)
  PROVE  /\ \A r \in H!Sides \ {p} : shown'[r] = shown[r] /\ handed'[r] = handed[r]
         /\ cprog = "pipe" => handed' = handed
         /\ (cprog = "pipe" /\ handed[p] = <<>>) \/ (cprog = "ipc" /\ p = 2) =>
              shown'[p] \o handed'[p] = (shown[p] \o handed[p]) \o s
  <1>1. shown[p] \in Seq(Text) /\ handed[p] \in Seq(Text)
    BY DEF ChatTypes
  <1>2. CASE cprog = "pipe"
    <2>1. shown' = [shown EXCEPT ![p] = shown[p] \o s] /\ handed' = handed
      BY <1>2 DEF H!HandOver
    <2>2. shown'[p] = shown[p] \o s /\ \A r \in H!Sides \ {p} : shown'[r] = shown[r]
      BY <2>1 DEF ChatTypes
    <2>3. handed[p] = <<>> => shown'[p] \o handed'[p] = (shown[p] \o handed[p]) \o s
      <3>1. shown[p] \o <<>> = shown[p] /\ (shown[p] \o s) \o <<>> = shown[p] \o s
        BY <1>1, ConcatEmptySeq, ConcatProperties
      <3> QED
        BY <2>1, <2>2, <3>1
    <2> QED
      BY <1>2, <2>1, <2>2, <2>3
  <1>3. CASE cprog = "ipc"
    <2>1. shown' = shown /\ handed' = [handed EXCEPT ![p] = IF p = 1 THEN s ELSE handed[p] \o s]
      BY <1>3 DEF H!HandOver
    <2>2. /\ \A r \in H!Sides \ {p} : handed'[r] = handed[r]
          /\ p = 2 => handed'[p] = handed[p] \o s
      BY <2>1 DEF ChatTypes
    <2>3. p = 2 => shown'[p] \o handed'[p] = (shown[p] \o handed[p]) \o s
      <3>1. (shown[p] \o handed[p]) \o s = shown[p] \o (handed[p] \o s)
        <4>1. \A a, b, c \in Seq(Text) : (a \o b) \o c = a \o (b \o c)
          BY ConcatAssociative
        <4> QED
          BY <1>1, <4>1
      <3>2. shown'[p] = shown[p]
        BY <2>1
      <3> QED
        BY <2>2, <3>1, <3>2
    <2> QED
      BY <1>3, <2>1, <2>2, <2>3
  <1> QED
    BY <1>2, <1>3, Versions

(* Typing a line, with nobody at the other end.                            *)
LEMMA SayToNobody ==
  ASSUME NEW p \in H!Sides, H!Say(p), side[H!Other(p)] = "end"
  PROVE  side' = [side EXCEPT ![p] = "end"]
         /\ UNCHANGED <<cprog, pipe, typed, handed, shown, slot>>
  BY DEF H!Say

(* With somebody there.                                                    *)
LEMMA SaySomething ==
  ASSUME ChatTypes, NEW p \in H!Sides, NEW q, q = H!Other(p), H!Say(p), side[q] # "end"
  PROVE  /\ side[p] = "loop" /\ UNCHANGED <<cprog, side, slot>>
         /\ typed'[p] = typed[p] + 1 /\ typed'[q] = typed[q]
         /\ pipe'[q] = Append(pipe[q], typed[p] + 1) /\ pipe'[p] = pipe[p]
         /\ shown'[q] = shown[q] /\ handed'[q] = handed[q]
         /\ cprog = "pipe" => handed' = handed
         /\ Talks(q) => Talks(q)'
         /\ Talks(p) /\ ((cprog = "pipe" /\ handed[p] = <<>>) \/ (cprog = "ipc" /\ p = 2)) => Talks(p)'
  <1> DEFINE line == typed[p] + 1
  <1>1. q \in H!Sides /\ q # p /\ p = H!Other(q) /\ line \in Nat
    BY SidesAre DEF ChatTypes
  <1>2. /\ side[p] = "loop" /\ UNCHANGED <<cprog, side, slot>>
        /\ typed' = [typed EXCEPT ![p] = line]
        /\ pipe' = [pipe EXCEPT ![q] = Append(@, line)]
        /\ H!HandOver(p, H!Marked(p, <<line>>))
    BY DEF H!Say
  <1>3. H!Marked(p, <<line>>) = <<<<p, line>>>> /\ H!Marked(p, <<line>>) \in Seq(Text)
    <2>1. <<line>> \in Seq(Nat) /\ <<>> \in Seq(Nat)
      BY <1>1
    <2>2. H!Marked(p, <<line>>) = <<<<p, line>>>>
      BY <1>1, <2>1, MarkedFacts
    <2> QED
      BY <2>1, <2>2, MarkedType
  <1>4. /\ typed'[p] = line /\ typed'[q] = typed[q]
        /\ pipe'[q] = Append(pipe[q], line) /\ pipe'[p] = pipe[p]
    BY <1>1, <1>2 DEF ChatTypes
  <1> HIDE DEF line
  <1>5. /\ shown'[q] = shown[q] /\ handed'[q] = handed[q]
        /\ cprog = "pipe" => handed' = handed
        /\ (cprog = "pipe" /\ handed[p] = <<>>) \/ (cprog = "ipc" /\ p = 2) =>
             shown'[p] \o handed'[p] = (shown[p] \o handed[p]) \o <<<<p, line>>>>
    BY <1>1, <1>2, <1>3, HandsOver
  <1>6. Talks(q) => Talks(q)'
    BY <1>1, <1>4, <1>5, TalksOn DEF line
  <1>7. Talks(p) /\ ((cprog = "pipe" /\ handed[p] = <<>>) \/ (cprog = "ipc" /\ p = 2)) => Talks(p)'
    BY <1>1, <1>4, <1>5, TalksOwn
  <1> QED
    BY <1>2, <1>4, <1>5, <1>6, <1>7 DEF line

(* Reading.                                                                *)
LEMMA HearAll ==
  ASSUME ChatTypes, NEW p \in H!Sides, H!Hear(p)
  PROVE  /\ UNCHANGED <<cprog, side, typed, slot>>
         /\ \A r \in H!Sides \ {p} :
              shown'[r] = shown[r] /\ handed'[r] = handed[r] /\ pipe'[r] = pipe[r]
         /\ cprog = "pipe" => handed' = handed
         /\ Talks(p) /\ ((cprog = "pipe" /\ handed[p] = <<>>) \/ (cprog = "ipc" /\ p = 2)) => Talks(p)'
  <1> DEFINE q == H!Other(p)
             m == H!Marked(q, pipe[p])
  <1>1. /\ UNCHANGED <<cprog, side, typed, slot>>
        /\ pipe' = [pipe EXCEPT ![p] = <<>>] /\ H!HandOver(p, m)
    BY DEF H!Hear
  <1>2. pipe[p] \in Seq(Nat) /\ q \in H!Sides /\ shown[p] \in Seq(Text) /\ handed[p] \in Seq(Text)
    BY SidesAre DEF ChatTypes
  <1>3. m \in Seq(Text)
    BY <1>2, MarkedType
  <1>4. pipe'[p] = <<>> /\ \A r \in H!Sides \ {p} : pipe'[r] = pipe[r]
    BY <1>1 DEF ChatTypes
  <1>5. /\ \A r \in H!Sides \ {p} : shown'[r] = shown[r] /\ handed'[r] = handed[r]
        /\ cprog = "pipe" => handed' = handed
        /\ (cprog = "pipe" /\ handed[p] = <<>>) \/ (cprog = "ipc" /\ p = 2) =>
              shown'[p] \o handed'[p] = (shown[p] \o handed[p]) \o m
    BY <1>1, <1>3, HandsOver
  <1>6. H!Marked(q, <<>>) = <<>>
    <2>1. 0 \in Nat
      OBVIOUS
    <2> QED
      BY <1>2, <2>1, MarkedFacts
  <1>7. ASSUME shown'[p] \o handed'[p] = (shown[p] \o handed[p]) \o m
        PROVE  H!Coming(p)' = H!Coming(p)
    <2>1. H!Coming(p) = (shown[p] \o handed[p]) \o m
      BY DEF H!Coming
    <2>2. H!Coming(p)' = (shown'[p] \o handed'[p]) \o <<>>
      BY <1>4, <1>6 DEF H!Coming
    <2>3. (shown[p] \o handed[p]) \o m \in Seq(Text)
      BY <1>2, <1>3, ConcatProperties
    <2> QED
      BY <1>7, <2>1, <2>2, <2>3, ConcatEmptySeq
  <1> QED
    BY <1>1, <1>4, <1>5, <1>7, TalksMoved

(* The display of the queue.                                               *)
LEMMA ShowOne ==
  ASSUME ChatTypes, H!ShowQueue
  PROVE  UNCHANGED <<cprog, side, typed, slot, pipe>> /\ (Talks(2) => Talks(2)')
  <1> DEFINE h == handed[2]
             x == Head(h)
             m == H!Marked(H!Other(2), pipe[2])
  <1>1. /\ UNCHANGED <<cprog, side, typed, slot, pipe>> /\ h # <<>>
        /\ shown'[2] = Append(shown[2], x) /\ handed'[2] = Tail(h)
    BY SidesAre DEF H!ShowQueue, ChatTypes
  <1>2. h \in Seq(Text) /\ shown[2] \in Seq(Text)
    BY SidesAre DEF ChatTypes
  <1> HIDE DEF h
  <1>3. x \in Text /\ Tail(h) \in Seq(Text)
    BY <1>1, <1>2, HeadTailProperties
  <1>4. <<x>> \in Seq(Text)
    BY <1>3
  <1>5. h = <<x>> \o Tail(h)
    BY <1>1, <1>2
  <1> HIDE DEF x
  <1>6. shown'[2] \o handed'[2] = shown[2] \o h
    <2>1. Append(shown[2], x) = shown[2] \o <<x>>
      BY <1>2, <1>3, AppendIsConcat
    <2>2. (shown[2] \o <<x>>) \o Tail(h) = shown[2] \o (<<x>> \o Tail(h))
      BY <1>2, <1>3, <1>4, ConcatAssociative
    <2> QED
      BY <1>1, <1>5, <2>1, <2>2
  <1>7. H!Coming(2)' = H!Coming(2)
    BY <1>1, <1>6 DEF H!Coming, h
  <1> QED
    BY <1>1, <1>7, SidesAre, TalksMoved

(* A step of the chat of 20190121.                                         *)
LEMMA PipeSide ==
  ASSUME ChatTypes, cprog = "pipe", PipeChat, NEW p \in H!Sides,
         H!Program(p) \/ H!Say(p) \/ H!Interrupt(p) \/ H!Quit(p)
  PROVE  PipeChat'
  <1> DEFINE q == H!Other(p)
  <1>0. q \in H!Sides /\ q # p /\ H!Sides = {p, q}
    BY SidesAre
  <1>1. ASSUME UNCHANGED <<pipe, typed, handed, shown, slot>>,
               NEW l \in {"setup", "open", "loop", "end"}, side' = [side EXCEPT ![p] = l],
               side[p] # "end" \/ l = "end"
        PROVE  PipeChat'
    <2>1. ASSUME NEW r \in H!Sides, side'[r] # "end" PROVE Talks(r)'
      <3>1. Talks(r)
        BY <1>1, <2>1 DEF PipeChat, ChatTypes
      <3> QED
        BY <1>1, <3>1, TalksSame
    <2>2. \A r \in H!Sides : side'[r] \notin {"writePid", "readPid"}
      BY <1>1 DEF PipeChat, ChatTypes
    <2> QED
      BY <1>1, <2>1, <2>2 DEF PipeChat
  <1>2. CASE H!Begin(p)
    BY <1>1, <1>2 DEF H!Begin
  <1>3. CASE H!Opened(p)
    <2>1. side' = [side EXCEPT ![p] = IF begun[p] = 2 THEN "loop" ELSE "setup"]
      BY <1>3 DEF H!Opened, H!FirstState
    <2> QED
      BY <1>1, <1>3, <2>1 DEF H!Opened
  <1>4. CASE H!HearEnd(p) \/ H!Interrupt(p) \/ H!Quit(p)
    BY <1>1, <1>4 DEF H!HearEnd, H!Interrupt, H!Quit, H!Clear
  <1>5. CASE H!WritePid(p) \/ H!ReadPid(p)
    BY <1>5 DEF H!WritePid, H!ReadPid, PipeChat
  <1>6. CASE H!Hear(p)
    <2>1. \A r \in H!Sides \ {p} : Talks(r) => Talks(r)'
      BY <1>6, HearAll, SidesAre, TalksSame
    <2>2. handed[p] = <<>>
      BY DEF PipeChat
    <2>3. UNCHANGED <<cprog, side, typed, slot>> /\ handed' = handed
      BY <1>6, HearAll
    <2>4. Talks(p) => Talks(p)'
      BY <1>6, <2>2, HearAll
    <2> QED
      BY <2>1, <2>3, <2>4 DEF PipeChat
  <1>7. CASE H!Say(p) /\ side[q] = "end"
    BY <1>1, <1>7, SayToNobody
  <1>8. CASE H!Say(p) /\ side[q] # "end"
    <2>1. handed[p] = <<>>
      BY DEF PipeChat
    <2>2. /\ UNCHANGED <<side, slot, handed>>
          /\ Talks(q) => Talks(q)'
      BY <1>8, SaySomething
    <2>3. Talks(p) => Talks(p)'
      BY <1>8, <2>1, SaySomething
    <2> QED
      BY <1>0, <2>2, <2>3 DEF PipeChat
  <1> QED
    BY <1>2, <1>3, <1>4, <1>5, <1>6, <1>7, <1>8 DEF H!Program

(* One of side 1 of the chat of 20190127, which does not write on before   *)
(* it has the answer to its pid.                                           *)
LEMMA IpcFirst ==
  ASSUME ChatTypes, cprog = "ipc", IpcChat,
         H!Program(1) \/ H!Say(1) \/ H!Interrupt(1) \/ H!Quit(1)
  PROVE  IpcChat'
  <1> USE SidesAre
  <1>1. ASSUME UNCHANGED <<pipe, typed, handed, shown>>, NEW l, side' = [side EXCEPT ![1] = l],
               l \in {"setup", "open", "writePid"} => side[1] \in Unwritten,
               l = "loop" => side[2] \in {"loop", "end"},
               l # "end" => side[1] # "end",
               l \in {"setup", "open", "writePid", "readPid", "loop", "end"},
               side[2] = "writePid" => l \in {"readPid", "end"}
        PROVE  IpcChat'
    <2>1. side'[1] = l /\ side'[2] = side[2]
      BY <1>1 DEF ChatTypes
    <2>2. Talks(2) => Talks(2)'
      BY <1>1, TalksSame
    <2> QED
      BY <1>1, <2>1, <2>2 DEF IpcChat, Greeting, Unwritten, ChatTypes
  <1>2. CASE H!Begin(1)
    BY <1>1, <1>2 DEF H!Begin, Unwritten, IpcChat, Greeting
  <1>3. CASE H!Opened(1)
    <2>1. side' = [side EXCEPT ![1] = IF begun[1] = 2 THEN "writePid" ELSE "setup"]
      BY <1>3 DEF H!Opened, H!FirstState
    <2> QED
      BY <1>1, <1>3, <2>1 DEF H!Opened, Unwritten, IpcChat, Greeting
  <1>4. CASE H!HearEnd(1) \/ H!Interrupt(1) \/ H!Quit(1)
    BY <1>1, <1>4 DEF H!HearEnd, H!Interrupt, H!Quit, H!Clear
  <1>5. CASE H!WritePid(1)
    <2>1. CASE side[2] = "end"
      BY <1>1, <1>5, <2>1 DEF H!WritePid
    <2>2. CASE side[2] # "end"
      <3>1. /\ side[1] = "writePid" /\ side' = [side EXCEPT ![1] = "readPid"]
            /\ pipe' = [pipe EXCEPT ![2] = Append(@, H!Pid)]
            /\ UNCHANGED <<typed, handed, shown>>
        BY <1>5, <2>2 DEF H!WritePid, H!AfterPid
      <3>2. side'[1] = "readPid" /\ side'[2] = side[2] /\ pipe'[1] = pipe[1]
            /\ pipe'[2] = Append(pipe[2], H!Pid)
        BY <3>1 DEF ChatTypes
      <3>3. side[2] \notin {"loop", "writePid"} /\ Greeting
        BY <2>2, <3>1 DEF IpcChat, Greeting, Unwritten, ChatTypes
      <3>4. Len(pipe'[2]) = 1
        <4>1. pipe[2] = <<>>
          BY <3>1, <3>3 DEF Greeting, Unwritten
        <4> QED
          BY <3>2, <4>1
      <3> QED
        BY <3>1, <3>2, <3>3, <3>4 DEF IpcChat, Greeting, Unwritten
    <2> QED
      BY <2>1, <2>2
  <1>6. CASE H!ReadPid(1)
    <2>1. /\ side[1] = "readPid" /\ side' = [side EXCEPT ![1] = "loop"]
          /\ UNCHANGED <<typed, handed, shown>>
      BY <1>6 DEF H!ReadPid, H!AfterPid
    <2>2. pipe[1] = <<>> => side[2] = "end"
      BY <1>6 DEF H!ReadPid
    <2>3. side[2] \in {"loop", "end"}
      BY <2>2 DEF IpcChat, Greeting, Unwritten, ChatTypes
    <2>4. side'[1] = "loop" /\ side'[2] = side[2]
      BY <2>1 DEF ChatTypes
    <2>5. pipe'[2] = pipe[2]
      BY <1>6 DEF H!ReadPid, ChatTypes
    <2>6. Talks(2) => Talks(2)'
      BY <2>1, <2>5, TalksSame
    <2> QED
      BY <2>3, <2>4, <2>6 DEF IpcChat, Unwritten
  <1>7. CASE H!Hear(1)
    <2>1. side[1] = "loop" /\ UNCHANGED side /\ (Talks(2) => Talks(2)')
      BY <1>7, HearAll, TalksSame DEF H!Hear
    <2>2. side[2] \in {"loop", "end"}
      BY <2>1 DEF IpcChat, Greeting, Unwritten, ChatTypes
    <2> QED
      BY <2>1, <2>2 DEF IpcChat, Unwritten
  <1>8. CASE H!Say(1) /\ side[2] = "end"
    BY <1>1, <1>8, SayToNobody
  <1>9. CASE H!Say(1) /\ side[2] # "end"
    <2>1. side[1] = "loop" /\ UNCHANGED side /\ (Talks(2) => Talks(2)')
      BY <1>9, SaySomething
    <2>2. side[2] \in {"loop", "end"}
      BY <2>1 DEF IpcChat, Greeting, Unwritten, ChatTypes
    <2> QED
      BY <2>1, <2>2 DEF IpcChat, Unwritten
  <1> QED
    BY <1>2, <1>3, <1>4, <1>5, <1>6, <1>7, <1>8, <1>9 DEF H!Program

(* One of side 2, which begins when it has sent its pid.                   *)
LEMMA IpcSecond ==
  ASSUME ChatTypes, cprog = "ipc", IpcChat,
         H!Program(2) \/ H!Say(2) \/ H!Interrupt(2) \/ H!Quit(2)
  PROVE  IpcChat'
  <1> USE SidesAre
  <1>1. ASSUME UNCHANGED <<pipe, typed, handed, shown>>, NEW l \in {"setup", "open", "readPid"},
               side' = [side EXCEPT ![2] = l], side[2] \in {"setup", "open"}
        PROVE  IpcChat'
    <2>1. side'[2] = l /\ side'[1] = side[1]
      BY <1>1 DEF ChatTypes
    <2> QED
      BY <1>1, <2>1 DEF IpcChat, Greeting, Unwritten
  <1>2. CASE side'[2] = "end"
    BY <1>2 DEF IpcChat, Unwritten
  <1>3. CASE H!Begin(2)
    BY <1>1, <1>3 DEF H!Begin
  <1>4. CASE H!Opened(2)
    <2>1. side' = [side EXCEPT ![2] = IF begun[2] = 2 THEN "readPid" ELSE "setup"]
      BY <1>4 DEF H!Opened, H!FirstState
    <2> QED
      BY <1>1, <1>4, <2>1 DEF H!Opened
  <1>5. CASE H!HearEnd(2) \/ H!Interrupt(2) \/ H!Quit(2)
    BY <1>2, <1>5 DEF H!HearEnd, H!Interrupt, H!Quit, H!Clear, ChatTypes
  <1>6. CASE H!ReadPid(2)
    <2>1. /\ side[2] = "readPid" /\ side' = [side EXCEPT ![2] = "writePid"]
          /\ UNCHANGED <<typed, handed, shown>>
      BY <1>6 DEF H!ReadPid, H!AfterPid
    <2>2. side'[2] = "writePid" /\ side'[1] = side[1]
      BY <2>1 DEF ChatTypes
    <2>3. Greeting
      BY <2>1 DEF IpcChat
    <2>4. pipe'[1] = pipe[1] /\ pipe'[2] = <<>> /\ Len(pipe'[2]) = 0
      <3>1. CASE pipe[2] = <<>>
        BY <1>6, <3>1 DEF H!ReadPid
      <3>2. CASE pipe[2] # <<>>
        <4>1. PICK n \in 1 .. Len(pipe[2]) :
                pipe' = [pipe EXCEPT ![2] = SubSeq(@, n + 1, Len(@))]
          BY <1>6, <3>2 DEF H!ReadPid
        <4>2. Len(pipe[2]) = 1 /\ n = 1
          <5> DEFINE k == Len(pipe[2])
          <5>1. k \in Nat /\ k <= 1
            BY <2>3, LenProperties, SidesAre DEF Greeting, ChatTypes
          <5>2. n \in 1 .. k
            OBVIOUS
          <5> HIDE DEF k
          <5>3. k = 1 /\ n = 1
            BY <5>1, <5>2
          <5> QED
            BY <5>3 DEF k
        <4>3. SubSeq(pipe[2], 2, 1) = <<>>
          BY SubSeqEmpty
        <4> QED
          BY <4>1, <4>2, <4>3 DEF ChatTypes
      <3> QED
        BY <3>1, <3>2
    <2>5. side[1] \in {"readPid", "end"}
      <3>1. CASE pipe[2] = <<>>
        BY <1>6, <3>1 DEF H!ReadPid
      <3>2. CASE pipe[2] # <<>>
        BY <2>3, <3>2 DEF Greeting, Unwritten, ChatTypes
      <3> QED
        BY <3>1, <3>2
    <2> QED
      BY <2>1, <2>2, <2>3, <2>4, <2>5 DEF IpcChat, Greeting, Unwritten
  <1>7. CASE H!WritePid(2)
    <2>1. CASE side[1] = "end"
      BY <1>2, <1>7, <2>1 DEF H!WritePid, ChatTypes
    <2>2. CASE side[1] # "end"
      <3>1. /\ side[2] = "writePid" /\ side' = [side EXCEPT ![2] = "loop"]
            /\ pipe' = [pipe EXCEPT ![1] = Append(@, H!Pid)]
            /\ UNCHANGED <<typed, handed, shown>>
        BY <1>7, <2>2 DEF H!WritePid, H!AfterPid
      <3>2. side'[2] = "loop" /\ side'[1] = side[1] /\ pipe'[2] = pipe[2]
        BY <3>1 DEF ChatTypes
      <3>3. Greeting
        BY <3>1 DEF IpcChat, Unwritten
      <3>4. H!Coming(2) = <<>>
        <4>1. pipe[2] = <<>> /\ shown[2] = <<>> /\ handed[2] = <<>>
          BY <3>1, <3>3 DEF Greeting
        <4>2. <<>> \in Seq(Nat) /\ <<>> \in Seq(Text) /\ 0 \in Nat
          OBVIOUS
        <4>3. H!Marked(1, <<>>) = <<>>
          BY <4>2, MarkedFacts
        <4> QED
          BY <4>1, <4>2, <4>3, ConcatEmptySeq DEF H!Coming
      <3>5. Talks(2)
        BY <3>3, <3>4, OrderNone DEF Talks, Greeting
      <3>6. Talks(2)'
        BY <3>1, <3>2, <3>5, TalksSame
      <3> QED
        BY <3>1, <3>2, <3>3, <3>6 DEF IpcChat, Greeting, Unwritten
    <2> QED
      BY <2>1, <2>2
  <1>8. CASE H!Hear(2)
    <2>1. side[2] = "loop"
      BY <1>8 DEF H!Hear
    <2>2. UNCHANGED side /\ (Talks(2) => Talks(2)')
      BY <1>8, HearAll
    <2> QED
      BY <2>1, <2>2 DEF IpcChat, Unwritten
  <1>9. CASE H!Say(2) /\ side[1] = "end"
    BY <1>2, <1>9, SayToNobody DEF ChatTypes
  <1>10. CASE H!Say(2) /\ side[1] # "end"
    <2>1. side[2] = "loop" /\ UNCHANGED side /\ (Talks(2) => Talks(2)')
      BY <1>10, SaySomething
    <2> QED
      BY <2>1 DEF IpcChat, Unwritten
  <1> QED
    BY <1>3, <1>4, <1>5, <1>6, <1>7, <1>8, <1>9, <1>10 DEF H!Program

(* One of the displays of the chat of 20190127.                            *)
LEMMA IpcDisplays ==
  ASSUME ChatTypes, cprog = "ipc", IpcChat, H!Displays
  PROVE  IpcChat'
  <1> USE SidesAre
  <1>1. CASE H!ShowQueue
    <2>1. side[2] \notin Unwritten \union {"readPid"}
      BY <1>1 DEF H!ShowQueue, IpcChat, Greeting
    <2>2. UNCHANGED side /\ (Talks(2) => Talks(2)')
      BY <1>1, ShowOne
    <2> QED
      BY <2>1, <2>2 DEF IpcChat
  <1>2. CASE H!CopySlot \/ H!ShowSlot
    <2>1. /\ UNCHANGED <<side, pipe, typed>>
          /\ shown'[2] = shown[2] /\ handed'[2] = handed[2]
      BY <1>2 DEF H!CopySlot, H!ShowSlot, ChatTypes
    <2>2. Talks(2) => Talks(2)'
      BY <2>1, TalksSame
    <2> QED
      BY <2>1, <2>2 DEF IpcChat, Greeting
  <1> QED
    BY <1>1, <1>2 DEF H!Displays

(* Every step of the chats.                                                *)
LEMMA ChatNext ==
  ASSUME ChatInv, H!Next \/ UNCHANGED chat
  PROVE  ChatInv'
  <1>1. ChatTypes /\ cprog \in {"pipe", "ipc"}
    BY Versions DEF ChatInv
  <1>2. CASE UNCHANGED chat
    <2>1. \A p \in H!Sides : Talks(p)' = Talks(p)
      BY <1>2 DEF chat, Talks, H!Coming
    <2> QED
      BY <1>2, <2>1, SidesAre
      DEF chat, ChatInv, ChatTypes, PipeChat, IpcChat, Greeting
  <1>3. ASSUME NEW p \in H!Sides, H!Program(p) \/ H!Say(p) \/ H!Interrupt(p) \/ H!Quit(p)
        PROVE  ChatInv'
    <2>1. ChatTypes'
      BY <1>1, <1>3, SideTypes
    <2>2. cprog' = cprog
      BY <1>3 DEF H!Program, H!Begin, H!Opened, H!WritePid, H!ReadPid, H!Hear, H!HearEnd, H!Say,
                  H!Interrupt, H!Quit, H!Clear
    <2>3. cprog = "pipe" => PipeChat'
      BY <1>1, <1>3, PipeSide DEF ChatInv
    <2>4. cprog = "ipc" => IpcChat'
      <3>1. p = 1 \/ p = 2
        BY SidesAre
      <3> QED
        BY <1>1, <1>3, <3>1, IpcFirst, IpcSecond DEF ChatInv
    <2> QED
      BY <2>1, <2>2, <2>3, <2>4 DEF ChatInv
  <1>4. CASE H!Displays
    <2>1. ChatTypes'
      BY <1>1, <1>4, DisplayTypes
    <2>2. cprog' = cprog
      BY <1>4 DEF H!Displays, H!ShowQueue, H!CopySlot, H!ShowSlot
    <2>3. cprog = "ipc" => IpcChat'
      BY <1>1, <1>4, IpcDisplays DEF ChatInv
    <2>4. cprog # "pipe"
      BY <1>4 DEF H!Displays, H!ShowQueue, H!CopySlot, H!ShowSlot, ChatInv, PipeChat
    <2> QED
      BY <2>1, <2>2, <2>3, <2>4 DEF ChatInv
  <1>5. CASE H!Done
    BY <1>2, <1>5 DEF H!Done, H!vars, chat
  <1> QED
    BY <1>2, <1>3, <1>4, <1>5 DEF H!Next

(* A side that chats has all that the other has typed.                     *)
LEMMA ChatComplete == ChatInv => NothingLost
  <1> SUFFICES ASSUME ChatInv, NEW p \in H!Sides, side[p] = "loop", cprog = "ipc" => p = 2
               PROVE  Talks(p)
    BY DEF NothingLost, H!NothingLost, Talks
  <1> QED
    BY Versions DEF ChatInv, PipeChat, IpcChat

-----------------------------------------------------------------------------
(* The programs together.                                                  *)

(* A step of the whole moves one program and leaves the others.            *)
LEMMA ExerciseParts ==
  ASSUME [SumNext]_all
  PROVE  /\ Next \/ UNCHANGED vars
         /\ H!Next \/ UNCHANGED chat
         /\ K!Next \/ UNCHANGED counters
  BY DEF SumNext, Pool, Chat_, Sockets, Counters_, all

(* Whenever more than one of main and the threads are between lock and     *)
(* unlock, the queue is empty, so that nobody pops or inserts beside       *)
(* another.  The exclusion itself fails: cleanFunc unlocks a mutex its     *)
(* thread may not have (20190208/thread_pool/main.c:3-27, 97-109).         *)
THEOREM PoppedAlone == SumSpec => []PopAlone
  <1>1. SumInit => PoolInv
    BY PoolInit DEF SumInit
  <1>2. PoolInv /\ [SumNext]_all => PoolInv'
    BY ExerciseParts, PoolNext
  <1> QED
    BY <1>1, <1>2, PoolAlone, PTL DEF SumSpec

(* Until exit each open connection is with one holder, main, the queue or  *)
(* a thread, so that none is served twice, closed twice or lost, although  *)
(* threads are cancelled in a transfer (20190208/thread_pool/main.c:12-27,  *)
(* 84-119).                                                                *)
THEOREM CancelledPoolHolds == PoolBounds => (SumSpec => []OneHolder)
  <1> SUFFICES ASSUME PoolBounds PROVE SumSpec => []OneHolder
    OBVIOUS
  <1>1. SumInit => PoolInv /\ HeldInv
    BY PoolInit, HeldInit DEF SumInit
  <1>2. PoolInv /\ HeldInv /\ [SumNext]_all => PoolInv' /\ HeldInv'
    BY ExerciseParts, PoolNext, HeldNext
  <1>3. HeldInv => OneHolder
    BY DEF HeldInv
  <1> QED
    BY <1>1, <1>2, <1>3, PTL DEF SumSpec

(* No wake-up is lost: the thread tests the queue once, before it waits,   *)
(* and may wake for nothing (20190208/thread_pool/main.c:13-18, 89-95).    *)
THEOREM CancelledPoolWakes == PoolBounds => (SumSpec => []SignalsArrive)
  <1> SUFFICES ASSUME PoolBounds PROVE SumSpec => []SignalsArrive
    OBVIOUS
  <1>1. SumInit => PoolInv /\ HeldInv /\ SignalsArrive
    <2>1. Init => SignalsArrive
      BY DEF Init, SignalsArrive
    <2> QED
      BY <2>1, PoolInit, HeldInit DEF SumInit
  <1>2. PoolInv /\ HeldInv /\ SignalsArrive /\ [SumNext]_all
          => PoolInv' /\ HeldInv' /\ SignalsArrive'
    BY ExerciseParts, PoolNext, HeldNext, SignalsNext
  <1> QED
    BY <1>1, <1>2, PTL DEF SumSpec

(* A client that has "download success" has all of the file, one that has  *)
(* "Server crash" gets no more of it, and the end of the server, with      *)
(* threads cancelled anywhere, leaves no client waiting                    *)
(* (20190208/thread_pool/main.c:97-119, 20190208/client/client.c:21-69).   *)
THEOREM CancelledPoolTells == PoolBounds => (SumSpec => []Told)
  <1> SUFFICES ASSUME PoolBounds PROVE SumSpec => []Told
    OBVIOUS
  <1>1. SumInit => PoolInv /\ HeldInv /\ Told
    <2>1. Init => Told
      BY DEF Init, Told
    <2> QED
      BY <2>1, PoolInit, HeldInit DEF SumInit
  <1>2. PoolInv /\ HeldInv /\ Told /\ [SumNext]_all => PoolInv' /\ HeldInv' /\ Told'
    BY ExerciseParts, PoolNext, HeldNext, ToldNext
  <1> QED
    BY <1>1, <1>2, PTL DEF SumSpec

(* What one side of a chat types the other sees, all of it and in order,   *)
(* however many lines they type (20190121/homework/chat, 20190127/B.c).    *)
THEOREM ChatsLoseNothing == SumSpec => []NothingLost
  <1>1. SumInit => ChatInv
    BY ChatInit DEF SumInit
  <1>2. ChatInv /\ [SumNext]_all => ChatInv'
    BY ExerciseParts, ChatNext
  <1> QED
    BY <1>1, <1>2, ChatComplete, PTL DEF SumSpec

(* Under a semaphore or a mutex the sum is that of the additions, for any  *)
(* number of them (20190124/homework/realadd, 20190129/homework/sem).      *)
THEOREM SumsAreExact == SumSpec => []Exact
  <1>1. SumInit => CountInv
    BY CountInit DEF SumInit
  <1>2. CountInv /\ [SumNext]_all => CountInv'
    BY ExerciseParts, CountNext
  <1> QED
    BY <1>1, <1>2, CountExact, PTL DEF SumSpec
=============================================================================
