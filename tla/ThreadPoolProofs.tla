-------------------------- MODULE ThreadPoolProofs --------------------------
(***************************************************************************)
(* Proofs about the thread pool of 20190207 and the linked list behind its *)
(* queue, for any number of workers, connections and cells and any         *)
(* capacity.                                                               *)
(*                                                                         *)
(* ThreadPool: no connection is lost, shared or closed twice, no wake-up   *)
(* is lost, and a server that has returned from its joins has closed       *)
(* everything.  IInv is the inductive invariant.  OnePlace counts places;  *)
(* Apart says the same pairwise, which is what the steps preserve.         *)
(*                                                                         *)
(* WorkQueue, as Q: the list is well formed, its nodes have one owner, and *)
(* it implements Fifo.  ListInv is the conjunction of the invariants the   *)
(* runs check: ListShape alone is not inductive, because an insertion      *)
(* keeps the links it does not write only if the inserted cell is not      *)
(* already on the list (OneOwner) and has a NULL link, which FreshNode     *)
(* adds for the cell main has just calloced.                               *)
(*                                                                         *)
(* PoolList, the two together: connections and cells agree (Hands and      *)
(* Spelled), so what is proved of either says something of main.c.         *)
(***************************************************************************)
EXTENDS PoolList, FiniteSetTheorems, TLAPS

Shutdown == {"drain", "drop", "wake", "done"}

(* Where main and the workers are, against what they hold.                 *)
Where ==
    /\ main \in Shutdown <=> state = 0
    /\ newfd # None <=> main \in {"insert", "refuse", "drop"}
    /\ main \in {"wake", "done"} => queue = << >>
    /\ \A w \in Worker : serving[w] # None <=> pc[w] = "serve"
    /\ main = "done" => \A w \in Worker : pc[w] = "exited"

(* Every open connection is somewhere, and no two places hold one.         *)
Open == accepted \ closed
Apart ==
    /\ closed \subseteq accepted
    /\ newfd # None => newfd \in Open
    /\ \A i \in 1..Len(queue) : queue[i] \in Open /\ queue[i] # newfd
    /\ \A i, j \in 1..Len(queue) : queue[i] = queue[j] => i = j
    /\ \A w \in Worker : serving[w] # None =>
          /\ serving[w] \in Open /\ serving[w] # newfd
          /\ \A i \in 1..Len(queue) : queue[i] # serving[w]
    /\ \A v, w \in Worker : serving[v] # None /\ serving[v] = serving[w] => v = w
    /\ \A c \in Open : \/ newfd = c
                       \/ \E i \in 1..Len(queue) : queue[i] = c
                       \/ \E w \in Worker : serving[w] = c

IInv == TypeOK /\ Where /\ Apart /\ NoLostWakeup

-----------------------------------------------------------------------------
(* What quePop takes from the list, and what it leaves there.              *)
LEMMA TailFacts ==
  ASSUME NEW S, NEW q \in Seq(S), q # << >>
  PROVE  /\ Tail(q) \in Seq(S)
         /\ Len(q) \in Nat \ {0}
         /\ Head(q) = q[1] /\ q[1] \in S
         /\ Len(Tail(q)) = Len(q) - 1
         /\ \A i \in 1..(Len(q) - 1) : Tail(q)[i] = q[i + 1]
  OBVIOUS

(* What queInsert adds to it.                                              *)
LEMMA AppendFacts ==
  ASSUME NEW S, NEW q \in Seq(S), NEW x \in S
  PROVE  /\ Append(q, x) \in Seq(S)
         /\ Len(q) \in Nat
         /\ Len(Append(q, x)) = Len(q) + 1
         /\ \A i \in 1..Len(q) : Append(q, x)[i] = q[i]
         /\ Append(q, x)[Len(q) + 1] = x
  OBVIOUS

(* A list without nodes is the empty one.                                  *)
LEMMA EmptyFacts ==
  ASSUME NEW S, NEW q \in Seq(S)
  PROVE  Len(q) \in Nat /\ (Len(q) = 0 <=> q = << >>)
  OBVIOUS

(* Counting workers.                                                       *)
LEMMA CountFacts ==
  /\ IsFiniteSet(OnTheWay) /\ Cardinality(OnTheWay) \in Nat
  /\ IsFiniteSet(OnTheWay') /\ Cardinality(OnTheWay') \in Nat
<1>1. OnTheWay \subseteq Worker /\ OnTheWay' \subseteq Worker
  BY DEF OnTheWay
<1> QED
  BY <1>1, PoolAssumption, FS_Subset, FS_CardinalityType

(* One worker moves, and may thereby come or leave the way to the queue.   *)
LEMMA MoveFacts ==
  ASSUME TypeOK, NEW w \in Worker, NEW l, pc' = [pc EXCEPT ![w] = l]
  PROVE  /\ w \notin OnTheWay /\ l \in {"check", "lock", "woken"}
              => Cardinality(OnTheWay') = Cardinality(OnTheWay) + 1
         /\ w \in OnTheWay /\ l \notin {"check", "lock", "woken"}
              => Cardinality(OnTheWay') = Cardinality(OnTheWay) - 1
         /\ w \in OnTheWay /\ l \in {"check", "lock", "woken"}
              => OnTheWay' = OnTheWay
<1>1. CASE w \notin OnTheWay /\ l \in {"check", "lock", "woken"}
  <2>1. OnTheWay' = OnTheWay \cup {w}
    BY <1>1 DEF TypeOK, OnTheWay
  <2> QED
    BY <1>1, <2>1, CountFacts, FS_AddElement
<1>2. CASE w \in OnTheWay /\ l \notin {"check", "lock", "woken"}
  <2>1. OnTheWay' = OnTheWay \ {w}
    BY <1>2 DEF TypeOK, OnTheWay
  <2> QED
    BY <1>2, <2>1, CountFacts, FS_RemoveElement
<1>3. CASE w \in OnTheWay /\ l \in {"check", "lock", "woken"}
  BY <1>3 DEF TypeOK, OnTheWay
<1> QED
  BY <1>1, <1>2, <1>3

(* A signal wakes one of the workers that wait.                            *)
LEMMA SignalFacts ==
  ASSUME TypeOK, CondSignal
  PROVE  /\ pc' \in [Worker -> {"check", "lock", "wait", "woken", "serve", "exited"}]
         /\ \A w \in Worker : /\ pc'[w] = "serve" <=> pc[w] = "serve"
                              /\ pc'[w] = "exited" <=> pc[w] = "exited"
                              /\ pc'[w] = "wait" => pc[w] = "wait"
         /\ Waiting # {} => Cardinality(OnTheWay') = Cardinality(OnTheWay) + 1
<1>1. CASE Waiting = {}
  BY <1>1 DEF CondSignal, TypeOK
<1>2. ASSUME NEW w \in Waiting, pc' = [pc EXCEPT ![w] = "woken"]
      PROVE  /\ pc' \in [Worker -> {"check", "lock", "wait", "woken", "serve", "exited"}]
             /\ \A v \in Worker : /\ pc'[v] = "serve" <=> pc[v] = "serve"
                                  /\ pc'[v] = "exited" <=> pc[v] = "exited"
                                  /\ pc'[v] = "wait" => pc[v] = "wait"
             /\ Cardinality(OnTheWay') = Cardinality(OnTheWay) + 1
  <2>1. w \in Worker /\ pc[w] = "wait" /\ w \notin OnTheWay
    BY DEF Waiting, OnTheWay
  <2>2. Cardinality(OnTheWay') = Cardinality(OnTheWay) + 1
    BY <1>2, <2>1, MoveFacts
  <2> QED
    BY <1>2, <2>1, <2>2 DEF TypeOK
<1> QED
  BY <1>1, <1>2 DEF CondSignal

-----------------------------------------------------------------------------
(* The server starts in the invariant.                                     *)
LEMMA InitIInv == Init => IInv
<1> SUFFICES ASSUME Init PROVE IInv
  OBVIOUS
<1>1. Cardinality(Worker) \in Nat
  BY PoolAssumption, FS_CardinalityType
<1>2. << >> \in Seq(Client) /\ Len(<< >>) = 0
  OBVIOUS
<1>3. TypeOK
  <2>1. queue \in Seq(Client) /\ Len(queue) <= Capacity
    BY <1>2, PoolAssumption DEF Init
  <2>2. wakeups \in 0..Cardinality(Worker)
    BY <1>1 DEF Init
  <2>3. pc \in [Worker -> {"check", "lock", "wait", "woken", "serve", "exited"}]
    BY DEF Init
  <2>4. serving \in [Worker -> Client \cup {None}]
    BY DEF Init
  <2> QED
    BY <2>1, <2>2, <2>3, <2>4 DEF Init, TypeOK
<1>4. Where /\ Apart
  BY <1>2 DEF Init, Where, Apart, Open, Shutdown
<1>5. NoLostWakeup
  BY DEF Init, NoLostWakeup, Waiting
<1> QED
  BY <1>3, <1>4, <1>5 DEF IInv

(* accept: the connection comes into main's hands.                         *)
LEMMA AcceptStep == ASSUME IInv, NEW c \in Client, Accept(c) PROVE IInv'
<1> USE DEF IInv, Accept, mainVars, workerVars
<1>1. TypeOK'
  BY DEF TypeOK
<1>2. Where'
  BY PoolAssumption DEF Where, Shutdown
<1>3. Apart'
  BY PoolAssumption DEF TypeOK, Where, Apart, Open
<1>4. NoLostWakeup'
  BY DEF NoLostWakeup, Waiting, OnTheWay
<1> QED
  BY <1>1, <1>2, <1>3, <1>4

(* queInsert: the connection goes to the end of the list, or stays with    *)
(* main to be refused.  Main owes a signal now.                            *)
LEMMA InsertStep == ASSUME IInv, Insert PROVE IInv'
<1>1. CASE Len(queue) = Capacity
  <2> USE <1>1 DEF IInv, Insert, workerVars
  <2>1. queue' = queue /\ main' = "refuse" /\ newfd' = newfd
    OBVIOUS
  <2>2. TypeOK' /\ Where' /\ Apart'
    BY <2>1 DEF TypeOK, Where, Shutdown, Apart, Open
  <2>3. NoLostWakeup'
    BY <2>1 DEF NoLostWakeup, Waiting, OnTheWay
  <2> QED
    BY <2>2, <2>3
<1>2. CASE Len(queue) # Capacity
  <2>1. /\ main = "insert" /\ newfd \in Client
        /\ queue' = Append(queue, newfd) /\ main' = "signal" /\ newfd' = None
        /\ UNCHANGED <<state, wakeups, pc, serving, accepted, closed, sigpipe>>
    BY <1>2, PoolAssumption DEF Insert, IInv, TypeOK, Where, workerVars
  <2>2. /\ queue' \in Seq(Client)
        /\ Len(queue) \in Nat /\ Len(queue') = Len(queue) + 1
        /\ \A i \in 1..Len(queue) : queue'[i] = queue[i]
        /\ queue'[Len(queue) + 1] = newfd
    BY <2>1, AppendFacts DEF IInv, TypeOK
  <2>3. TypeOK'
    <3>1. Len(queue') <= Capacity
      BY <1>2, <2>2, PoolAssumption DEF IInv, TypeOK
    <3> QED
      BY <2>1, <2>2, <3>1 DEF IInv, TypeOK
  <2>4. Where'
    BY <2>1 DEF IInv, Where, Shutdown
  <2>5. Apart'
    BY <2>1, <2>2, PoolAssumption DEF IInv, TypeOK, Apart, Open
  <2>6. NoLostWakeup'
    <3>1. Waiting' = Waiting /\ OnTheWay' = OnTheWay
      BY <2>1 DEF Waiting, OnTheWay
    <3> QED
      BY <2>1, <2>2, <3>1, CountFacts DEF IInv, NoLostWakeup
  <2> QED
    BY <2>3, <2>4, <2>5, <2>6 DEF IInv
<1> QED
  BY <1>1, <1>2

(* Main closes the connection it holds: one that did not fit, or one it    *)
(* has drained.                                                            *)
LEMMA CloseStep == ASSUME IInv, Refuse \/ Drop PROVE IInv'
<1>1. /\ newfd \in Client
      /\ closed' = closed \cup {newfd} /\ newfd' = None
      /\ \/ main = "refuse" /\ main' = "signal"
         \/ main = "drop" /\ main' = "drain"
      /\ UNCHANGED <<state, queue, wakeups, pc, serving, accepted, sigpipe>>
  BY DEF Refuse, Drop, IInv, TypeOK, Where, workerVars
<1>2. TypeOK'
  BY <1>1 DEF IInv, TypeOK
<1>3. Where'
  BY <1>1 DEF IInv, Where, Shutdown
<1>4. Apart'
  BY <1>1, PoolAssumption DEF IInv, TypeOK, Apart, Open
<1>5. NoLostWakeup'
  <2>1. Waiting' = Waiting /\ OnTheWay' = OnTheWay
    BY <1>1 DEF Waiting, OnTheWay
  <2> QED
    BY <1>1, <2>1, CountFacts, EmptyFacts DEF IInv, TypeOK, NoLostWakeup
<1> QED
  BY <1>2, <1>3, <1>4, <1>5 DEF IInv

(* The signal that main owes puts one sleeper on the way to the queue.     *)
LEMMA SignalStep == ASSUME IInv, Signal PROVE IInv'
<1>1. /\ main = "signal" /\ main' = "epoll" /\ CondSignal
      /\ UNCHANGED <<state, queue, newfd, wakeups, serving, accepted, closed, sigpipe>>
  BY DEF Signal
<1>2. TypeOK'
  BY <1>1, SignalFacts DEF IInv, TypeOK
<1>3. Where'
  BY <1>1, SignalFacts DEF IInv, Where, Shutdown
<1>4. Apart'
  BY <1>1 DEF IInv, Apart, Open
<1>5. NoLostWakeup'
  <2>1. CASE Waiting = {}
    BY <1>1, <2>1, SignalFacts DEF IInv, NoLostWakeup, Waiting
  <2>2. CASE Waiting # {}
    <3>1. Cardinality(OnTheWay') = Cardinality(OnTheWay) + 1
      BY <1>1, <2>2, SignalFacts DEF IInv
    <3> QED
      BY <1>1, <2>2, <3>1, CountFacts, EmptyFacts DEF IInv, TypeOK, NoLostWakeup
  <2> QED
    BY <2>1, <2>2
<1> QED
  BY <1>2, <1>3, <1>4, <1>5 DEF IInv

(* The signals of the shutdown.                                            *)
LEMMA WakeStep == ASSUME IInv, Wake PROVE IInv'
<1>1. /\ main = "wake" /\ CondSignal /\ wakeups > 0 /\ wakeups' = wakeups - 1
      /\ UNCHANGED <<state, queue, main, newfd, serving, accepted, closed, sigpipe>>
  BY DEF Wake
<1>2. TypeOK'
  <2>1. Cardinality(Worker) \in Nat
    BY PoolAssumption, FS_CardinalityType
  <2>2. wakeups' \in 0..Cardinality(Worker)
    BY <1>1, <2>1 DEF IInv, TypeOK
  <2> QED
    BY <1>1, <2>2, SignalFacts DEF IInv, TypeOK
<1>3. Where'
  BY <1>1, SignalFacts DEF IInv, Where, Shutdown
<1>4. Apart'
  BY <1>1 DEF IInv, Apart, Open
<1>5. NoLostWakeup'
  BY <1>1 DEF IInv, Where, Shutdown, NoLostWakeup
<1> QED
  BY <1>2, <1>3, <1>4, <1>5 DEF IInv

(* SIGUSR1, and the steps of the exit that move no connection.             *)
LEMMA ExitStep ==
  ASSUME IInv, SigFunc \/ StartExit \/ Join PROVE IInv'
<1> USE DEF IInv, mainVars, workerVars
<1>1. CASE SigFunc
  BY <1>1 DEF SigFunc, TypeOK, Where, Shutdown, Apart, Open, NoLostWakeup, Waiting, OnTheWay
<1>2. CASE StartExit
  BY <1>2 DEF StartExit, TypeOK, Where, Shutdown, Apart, Open, NoLostWakeup, Waiting, OnTheWay
<1>3. CASE Join
  BY <1>3 DEF Join, TypeOK, Where, Shutdown, Apart, Open, NoLostWakeup, Waiting, OnTheWay
<1> QED
  BY <1>1, <1>2, <1>3

(* Main pops a connection to drop it, or finds the list empty.             *)
LEMMA DrainStep == ASSUME IInv, Drain PROVE IInv'
<1>1. CASE queue # << >>
  <2>1. /\ main = "drain" /\ main' = "drop" /\ newfd = None
        /\ newfd' = queue[1] /\ queue' = Tail(queue)
        /\ UNCHANGED <<state, wakeups, pc, serving, accepted, closed, sigpipe>>
    BY <1>1, TailFacts DEF Drain, IInv, TypeOK, Where, workerVars
  <2>2. /\ queue' \in Seq(Client)
        /\ Len(queue) \in Nat \ {0} /\ Len(queue') = Len(queue) - 1
        /\ \A i \in 1..Len(queue') : queue'[i] = queue[i + 1]
        /\ queue[1] \in Client
    BY <1>1, <2>1, TailFacts DEF IInv, TypeOK
  <2>3. TypeOK'
    <3>1. Len(queue') <= Capacity
      BY <2>2, PoolAssumption DEF IInv, TypeOK
    <3> QED
      BY <2>1, <2>2, <3>1 DEF IInv, TypeOK
  <2>4. Where'
    BY <2>1, <2>2, PoolAssumption DEF IInv, Where, Shutdown
  <2>5. Apart'
    <3>1. \A i \in 1..Len(queue') : i + 1 \in 1..Len(queue) /\ i + 1 # 1
      BY <2>2
    <3>2. \A i \in 1..Len(queue) : i = 1 \/ (i - 1 \in 1..Len(queue') /\ queue'[i - 1] = queue[i])
      BY <2>2
    <3>3. 1 \in 1..Len(queue)
      BY <2>2
    <3>4. Open' = Open /\ closed' \subseteq accepted'
      BY <2>1 DEF IInv, Apart, Open
    <3>5. newfd' \in Open'
      BY <2>1, <3>3, <3>4 DEF IInv, Apart
    <3>6. \A i \in 1..Len(queue') : queue'[i] \in Open' /\ queue'[i] # newfd'
      BY <2>1, <2>2, <3>1, <3>3, <3>4 DEF IInv, Apart
    <3>7. \A i, j \in 1..Len(queue') : queue'[i] = queue'[j] => i = j
      <4>1. \A i, j \in 1..Len(queue') : i + 1 = j + 1 => i = j
        BY <2>2
      <4> QED
        BY <2>2, <3>1, <4>1 DEF IInv, Apart
    <3>8. \A w \in Worker : serving'[w] # None =>
             /\ serving'[w] \in Open' /\ serving'[w] # newfd'
             /\ \A i \in 1..Len(queue') : queue'[i] # serving'[w]
      BY <2>1, <2>2, <3>1, <3>3, <3>4 DEF IInv, Apart
    <3>9. \A v, w \in Worker :
             serving'[v] # None /\ serving'[v] = serving'[w] => v = w
      BY <2>1 DEF IInv, Apart
    <3>10. \A c \in Open' : \/ newfd' = c
                            \/ \E i \in 1..Len(queue') : queue'[i] = c
                            \/ \E w \in Worker : serving'[w] = c
      <4> SUFFICES ASSUME NEW c \in Open, newfd' # c, NEW i \in 1..Len(queue), queue[i] = c
                   PROVE  \E k \in 1..Len(queue') : queue'[k] = c
        BY <2>1, <3>4, PoolAssumption DEF IInv, TypeOK, Apart, Open
      <4>1. i - 1 \in 1..Len(queue') /\ queue'[i - 1] = c
        BY <2>1, <3>2
      <4> QED
        BY <4>1
    <3> QED
      BY <3>4, <3>5, <3>6, <3>7, <3>8, <3>9, <3>10 DEF Apart
  <2>6. NoLostWakeup'
    BY <2>1 DEF IInv, Where, Shutdown, NoLostWakeup
  <2> QED
    BY <2>3, <2>4, <2>5, <2>6 DEF IInv
<1>2. CASE queue = << >>
  <2>1. /\ main = "drain" /\ main' = "wake" /\ wakeups' = Cardinality(Worker)
        /\ UNCHANGED <<state, queue, newfd, pc, serving, accepted, closed, sigpipe>>
    BY <1>2 DEF Drain, workerVars
  <2>2. TypeOK'
    <3>1. Cardinality(Worker) \in Nat
      BY PoolAssumption, FS_CardinalityType
    <3> QED
      BY <2>1, <3>1 DEF IInv, TypeOK
  <2>3. Where' /\ Apart' /\ NoLostWakeup'
    BY <1>2, <2>1 DEF IInv, Where, Shutdown, Apart, Open, NoLostWakeup
  <2> QED
    BY <2>2, <2>3 DEF IInv
<1> QED
  BY <1>1, <1>2

-----------------------------------------------------------------------------
(* A worker moves without a connection.                                    *)
LEMMA MoveStep ==
  ASSUME IInv, NEW w \in Worker,
         Check(w) \/ Wait(w) \/ SpuriousWakeup(w) \/ (Take(w) /\ queue = << >>)
  PROVE  IInv'
<1>1. PICK l \in {"check", "lock", "wait", "woken", "exited"} :
        /\ pc[w] \in {"check", "lock", "wait", "woken"}
        /\ pc' = [pc EXCEPT ![w] = l]
        /\ l = "exited" => state = 0
        /\ l = "wait" => queue = << >>
        /\ UNCHANGED <<state, queue, main, newfd, wakeups, serving, accepted, closed, sigpipe>>
  BY DEF Check, Wait, SpuriousWakeup, Take, mainVars
<1>2. TypeOK'
  BY <1>1 DEF IInv, TypeOK
<1>3. Where'
  BY <1>1 DEF IInv, TypeOK, Where
<1>4. Apart'
  BY <1>1 DEF IInv, Apart, Open
<1>5. NoLostWakeup'
  <2>1. CASE queue = << >>
    BY <1>1, <2>1, CountFacts DEF IInv, NoLostWakeup
  <2>2. CASE queue # << >> /\ state = 1
    <3>1. l \in {"check", "lock", "woken"}
      BY <1>1, <2>2
    <3>2. Waiting' \subseteq Waiting
      BY <1>1, <3>1 DEF IInv, TypeOK, Waiting
    <3>3. Cardinality(OnTheWay') >= Cardinality(OnTheWay)
      <4>1. Cardinality(OnTheWay') \in {Cardinality(OnTheWay), Cardinality(OnTheWay) + 1}
        <5>1. TypeOK
          BY DEF IInv
        <5>2. CASE w \in OnTheWay
          BY <1>1, <3>1, <5>1, <5>2, MoveFacts, Zenon
        <5>3. CASE w \notin OnTheWay
          BY <1>1, <3>1, <5>1, <5>3, MoveFacts, Zenon
        <5> QED
          BY <5>2, <5>3
      <4> QED
        BY <4>1, CountFacts
    <3>4. SUFFICES ASSUME Waiting' # {}
                   PROVE  Len(queue) <= Cardinality(OnTheWay')
                                         + (IF main = "signal" THEN 1 ELSE 0)
      BY <1>1 DEF NoLostWakeup
    <3>5. Len(queue) <= Cardinality(OnTheWay) + (IF main = "signal" THEN 1 ELSE 0)
      BY <2>2, <3>2, <3>4 DEF IInv, NoLostWakeup
    <3>6. Len(queue) \in Nat
      BY EmptyFacts DEF IInv, TypeOK
    <3> QED
      BY <3>3, <3>5, <3>6, CountFacts
  <2>3. CASE state # 1
    BY <1>1, <2>3 DEF NoLostWakeup
  <2> QED
    BY <2>1, <2>2, <2>3
<1> QED
  BY <1>2, <1>3, <1>4, <1>5 DEF IInv

(* A worker leaves the way to the queue with the first connection of it.   *)
LEMMA TakeStep ==
  ASSUME IInv, NEW w \in Worker, Take(w), queue # << >>
  PROVE  IInv'
<1>1. /\ pc[w] \in {"lock", "woken"} /\ serving[w] = None
      /\ pc' = [pc EXCEPT ![w] = "serve"]
      /\ serving' = [serving EXCEPT ![w] = queue[1]]
      /\ queue' = Tail(queue)
      /\ UNCHANGED <<state, main, newfd, wakeups, accepted, closed, sigpipe>>
  BY TailFacts DEF Take, IInv, TypeOK, Where, mainVars
<1>2. /\ queue' \in Seq(Client)
      /\ Len(queue) \in Nat \ {0} /\ Len(queue') = Len(queue) - 1
      /\ \A i \in 1..Len(queue') : queue'[i] = queue[i + 1]
      /\ queue[1] \in Client
  BY <1>1, TailFacts DEF IInv, TypeOK
<1>3. TypeOK'
  <2>1. Len(queue') <= Capacity
    BY <1>2, PoolAssumption DEF IInv, TypeOK
  <2> QED
    BY <1>1, <1>2, <2>1 DEF IInv, TypeOK
<1>4. Where'
  BY <1>1, <1>2, PoolAssumption DEF IInv, TypeOK, Where
<1>5. Apart'
  <2>1. \A i \in 1..Len(queue') : i + 1 \in 1..Len(queue) /\ i + 1 # 1
    BY <1>2
  <2>2. \A i \in 1..Len(queue) : i = 1 \/ (i - 1 \in 1..Len(queue') /\ queue'[i - 1] = queue[i])
    BY <1>2
  <2>3. 1 \in 1..Len(queue)
    BY <1>2
  <2>4. \A v \in Worker : serving'[v] = IF v = w THEN queue[1] ELSE serving[v]
    BY <1>1 DEF IInv, TypeOK
  <2>5. Open' = Open /\ closed' \subseteq accepted' /\ newfd' = newfd
    BY <1>1 DEF IInv, Apart, Open
  <2>6. \A i \in 1..Len(queue') : queue'[i] \in Open' /\ queue'[i] # newfd'
    BY <1>2, <2>1, <2>5 DEF IInv, Apart
  <2>7. \A i, j \in 1..Len(queue') : queue'[i] = queue'[j] => i = j
    <3>1. \A i, j \in 1..Len(queue') : i + 1 = j + 1 => i = j
      BY <1>2
    <3> QED
      BY <1>2, <2>1, <3>1 DEF IInv, Apart
  <2>8. queue[1] \in Open /\ queue[1] # newfd /\ \A v \in Worker : serving[v] # queue[1]
    BY <1>2, <2>3, PoolAssumption DEF IInv, Apart
  <2>9. \A i \in 1..Len(queue') : queue'[i] # queue[1]
    BY <1>2, <2>1, <2>3 DEF IInv, Apart
  <2>10. \A v \in Worker : serving'[v] # None =>
            /\ serving'[v] \in Open' /\ serving'[v] # newfd'
            /\ \A i \in 1..Len(queue') : queue'[i] # serving'[v]
    BY <1>2, <2>1, <2>4, <2>5, <2>8, <2>9 DEF IInv, Apart
  <2>11. \A v, u \in Worker :
            serving'[v] # None /\ serving'[v] = serving'[u] => v = u
    BY <2>4, <2>8 DEF IInv, Apart
  <2>12. None \notin Open
    BY PoolAssumption DEF IInv, TypeOK, Open
  <2>13. \A c \in Open' : \/ newfd' = c
                          \/ \E i \in 1..Len(queue') : queue'[i] = c
                          \/ \E v \in Worker : serving'[v] = c
    <3> SUFFICES ASSUME NEW c \in Open
                 PROVE  \/ newfd = c
                        \/ \E i \in 1..Len(queue') : queue'[i] = c
                        \/ \E v \in Worker : serving'[v] = c
      BY <2>5
    <3>1. CASE newfd = c
      BY <3>1
    <3>2. ASSUME NEW i \in 1..Len(queue), queue[i] = c
          PROVE  \/ \E k \in 1..Len(queue') : queue'[k] = c
                 \/ \E v \in Worker : serving'[v] = c
      BY <2>2, <2>4, <3>2
    <3>3. ASSUME NEW v \in Worker, serving[v] = c
          PROVE  \E u \in Worker : serving'[u] = c
      <4>1. v # w
        BY <1>1, <2>12, <3>3
      <4> QED
        BY <2>4, <3>3, <4>1
    <3> QED
      BY <3>1, <3>2, <3>3 DEF IInv, Apart
  <2> QED
    BY <2>5, <2>6, <2>7, <2>10, <2>11, <2>13 DEF IInv, Apart
<1>6. NoLostWakeup'
  <2>1. w \in OnTheWay
    BY <1>1 DEF OnTheWay
  <2>2. Cardinality(OnTheWay') = Cardinality(OnTheWay) - 1
    <3>1. "serve" \notin {"check", "lock", "woken"} /\ TypeOK
      BY DEF IInv
    <3> QED
      BY <1>1, <2>1, <3>1, MoveFacts, Zenon
  <2>3. Waiting' \subseteq Waiting
    BY <1>1 DEF IInv, TypeOK, Waiting
  <2> QED
    BY <1>1, <1>2, <2>2, <2>3, CountFacts DEF IInv, NoLostWakeup
<1> QED
  BY <1>3, <1>4, <1>5, <1>6 DEF IInv

(* A worker closes its connection and goes back on the way to the queue.   *)
LEMMA ServeStep ==
  ASSUME IInv, NEW w \in Worker, Serve(w)
  PROVE  IInv'
<1>1. /\ pc[w] = "serve" /\ serving[w] \in Client
      /\ closed' = closed \cup {serving[w]}
      /\ serving' = [serving EXCEPT ![w] = None]
      /\ pc' = [pc EXCEPT ![w] = "check"]
      /\ UNCHANGED <<state, queue, main, newfd, wakeups, accepted, sigpipe>>
  BY DEF Serve, IInv, TypeOK, Where, mainVars
<1>2. TypeOK'
  BY <1>1 DEF IInv, TypeOK
<1>3. Where'
  BY <1>1 DEF IInv, TypeOK, Where
<1>4. Apart'
  <2>1. \A v \in Worker : serving'[v] = IF v = w THEN None ELSE serving[v]
    BY <1>1 DEF IInv, TypeOK
  <2> QED
    BY <1>1, <2>1, PoolAssumption DEF IInv, Apart, Open
<1>5. NoLostWakeup'
  <2>1. w \notin OnTheWay
    BY <1>1 DEF OnTheWay
  <2>2. Cardinality(OnTheWay') = Cardinality(OnTheWay) + 1
    <3>1. "serve" \notin {"check", "lock", "woken"} /\ TypeOK
      BY DEF IInv
    <3> QED
      BY <1>1, <2>1, <3>1, MoveFacts, Zenon
  <2>3. Waiting' \subseteq Waiting
    BY <1>1 DEF IInv, TypeOK, Waiting
  <2> QED
    BY <1>1, <2>2, <2>3, CountFacts, EmptyFacts DEF IInv, TypeOK, NoLostWakeup
<1> QED
  BY <1>2, <1>3, <1>4, <1>5 DEF IInv

-----------------------------------------------------------------------------
(* Every step keeps the invariant.                                         *)
LEMMA NextIInv == IInv /\ [Next]_vars => IInv'
<1> SUFFICES ASSUME IInv, [Next]_vars PROVE IInv'
  OBVIOUS
<1>1. ASSUME NEW c \in Client, Accept(c) PROVE IInv'
  BY <1>1, AcceptStep
<1>2. CASE MainStep
  BY <1>2, InsertStep, CloseStep, SignalStep, WakeStep, ExitStep, DrainStep DEF MainStep
<1>3. CASE SigFunc
  BY <1>3, ExitStep
<1>4. ASSUME NEW w \in Worker, WorkerStep(w) \/ SpuriousWakeup(w) PROVE IInv'
  BY <1>4, MoveStep, TakeStep, ServeStep DEF WorkerStep
<1>5. CASE UNCHANGED vars
  BY <1>5 DEF vars, IInv, TypeOK, Where, Apart, Open, NoLostWakeup, Waiting, OnTheWay
<1> QED
  BY <1>1, <1>2, <1>3, <1>4, <1>5 DEF Next, Terminated

(* The inductive invariant holds in every state the server reaches.        *)
THEOREM ServerInvariant == Spec => []IInv
<1> QED
  BY InitIInv, NextIInv, PTL DEF Spec

(* The shared fields and the threads' places keep their kinds, and the     *)
(* list never holds more than its capacity (queOperate.c:4).               *)
THEOREM ServerTypeCorrect == Spec => []TypeOK
<1>1. IInv => TypeOK
  BY DEF IInv
<1> QED
  BY <1>1, ServerInvariant, PTL

(* A connection's places, when the invariant holds: one if it is open.     *)
LEMMA PlacesFacts ==
  ASSUME IInv, NEW c \in Client
  PROVE  Cardinality(Places(c)) = IF c \in accepted \ closed THEN 1 ELSE 0
<1>1. \A p : p \in Places(c) <=>
        \/ p = <<"main", 0>> /\ newfd = c
        \/ \E i \in 1..Len(queue) : p = <<"queue", i>> /\ queue[i] = c
        \/ \E w \in Worker : p = <<"worker", w>> /\ serving[w] = c
  BY DEF Places
<1>2. c # None
  BY PoolAssumption
<1>3. CASE c \notin Open
  <2>1. Places(c) = {}
    BY <1>1, <1>2, <1>3 DEF IInv, Apart
  <2> QED
    BY <1>3, <2>1, FS_EmptySet DEF Open
<1>4. CASE c \in Open
  <2>1. \E p : Places(c) = {p}
    <3>1. CASE newfd = c
      <4>1. Places(c) = {<<"main", 0>>}
        BY <1>1, <1>2, <3>1 DEF IInv, Apart
      <4> QED
        BY <4>1
    <3>2. ASSUME NEW i \in 1..Len(queue), queue[i] = c
          PROVE  \E p : Places(c) = {p}
      <4>1. Places(c) = {<<"queue", i>>}
        BY <1>1, <1>2, <3>2 DEF IInv, Apart
      <4> QED
        BY <4>1
    <3>3. ASSUME NEW w \in Worker, serving[w] = c
          PROVE  \E p : Places(c) = {p}
      <4>1. Places(c) = {<<"worker", w>>}
        BY <1>1, <1>2, <3>3 DEF IInv, Apart
      <4> QED
        BY <4>1
    <3> QED
      BY <1>4, <3>1, <3>2, <3>3 DEF IInv, Apart
  <2> QED
    BY <1>4, <2>1, FS_Singleton DEF Open
<1> QED
  BY <1>3, <1>4

(* No connection is leaked, served by two workers or closed twice.         *)
THEOREM ConnectionsHaveOnePlace == Spec => []OnePlace
<1>1. IInv => OnePlace
  BY PlacesFacts DEF OnePlace, IInv, Apart
<1> QED
  BY <1>1, ServerInvariant, PTL

(* One test for an empty queue and a signal after the unlock are enough    *)
(* (main.c:12, main.c:97).                                                 *)
THEOREM WakeupsAreNotLost == Spec => []NoLostWakeup
<1>1. IInv => NoLostWakeup
  BY DEF IInv
<1> QED
  BY <1>1, ServerInvariant, PTL

(* A server that has joined its workers has closed all it accepted.        *)
THEOREM ExitsAreClean == Spec => []CleanExit
<1>1. IInv => CleanExit
  <2> SUFFICES ASSUME IInv, main = "done" PROVE closed = accepted /\ queue = << >>
    BY DEF CleanExit
  <2>1. newfd = None /\ queue = << >> /\ \A w \in Worker : serving[w] = None
    BY DEF IInv, Where
  <2>2. Open = {}
    <3>1. Len(queue) = 0 /\ None \notin Open
      BY <2>1, PoolAssumption DEF IInv, TypeOK, Open
    <3> QED
      BY <2>1, <3>1 DEF IInv, Apart
  <2> QED
    BY <2>1, <2>2 DEF IInv, Apart, Open
<1> QED
  BY <1>1, ServerInvariant, PTL

-----------------------------------------------------------------------------
(* The list behind the queue, whoever calls it.                            *)

(* A fresh cell links to nothing.                                          *)
FreshNode == mainNode # NULL => nextNode[mainNode] = NULL

ListInv == Q!TypeOK /\ Q!ListShape /\ Q!OneOwner /\ FreshNode

(* The empty queue satisfies the invariant. *)
LEMMA ListInit == Q!Init => ListInv
  BY PoolAssumption DEF Q!Init, ListInv, Q!TypeOK, Q!ListShape, Q!OneOwner, FreshNode, Q!Thread

(* A cell fresh from calloc belongs to main alone and links to nothing. *)
LEMMA CallocStep ==
    ASSUME ListInv, NEW n \in Node, Q!Calloc(n) PROVE ListInv'
  BY ListAssumption DEF ListInv, Q!TypeOK, Q!ListShape, Q!OneOwner, FreshNode, Q!Calloc

(* Inserting a fresh node that nobody else holds keeps the invariant. *)
LEMMA MainInsertStep ==
    ASSUME ListInv, Q!MainInsert PROVE ListInv'
<1> DEFINE n == mainNode
<1> USE PoolAssumption, ListAssumption
<1>1. /\ n \in Node
      /\ n \in allocated
      /\ nextNode[n] = NULL
      /\ \A i \in 1..Len(order) : order[i] # n
      /\ \A t \in Q!Thread : pnode[t] # n
  BY DEF ListInv, Q!TypeOK, Q!OneOwner, FreshNode, Q!MainInsert
<1>2. CASE Q!QueInsertFull
  BY <1>2, ZenonT(60)
  DEF ListInv, Q!TypeOK, Q!ListShape, Q!OneOwner, FreshNode, Q!MainInsert, Q!QueInsertFull, Q!queVars
<1>3. CASE Q!QueInsert(n)
  <2>1. /\ order' = Append(order, n)
        /\ order' \in Seq(Node)
        /\ Len(order) \in Nat
        /\ Len(order') = Len(order) + 1
        /\ \A i \in 1..Len(order) : order'[i] = order[i]
        /\ order'[Len(order) + 1] = n
    <3>1. order \in Seq(Node)
      BY DEF ListInv, Q!TypeOK
    <3> QED
      BY <1>1, <1>3, <3>1, AppendFacts DEF Q!QueInsert
  <2>2. Q!TypeOK'
    <3>1. currentSize' \in 0..Capacity
      BY <1>3 DEF ListInv, Q!TypeOK, Q!QueInsert
    <3>2. nextNode' \in [Node -> Node \cup {NULL}]
      BY <1>1, <1>3 DEF ListInv, Q!TypeOK, Q!QueInsert
    <3> QED
      BY <1>1, <1>3, <2>1, <3>1, <3>2 DEF ListInv, Q!TypeOK, Q!MainInsert, Q!QueInsert
  <2>3. Q!OneOwner'
    BY <1>1, <1>3, <2>1 DEF ListInv, Q!TypeOK, Q!OneOwner, Q!MainInsert, Q!QueInsert
  <2>4. FreshNode'
    BY DEF FreshNode, Q!MainInsert
  <2>5. Q!ListShape'
    <3>1. CASE order = << >>
      BY <1>1, <1>3, <2>1, <3>1 DEF ListInv, Q!TypeOK, Q!ListShape, Q!QueInsert
    <3>2. CASE order # << >>
      <4>1. /\ Len(order) \in Nat \ {0}
            /\ phead = order[1]
            /\ pTail = order[Len(order)]
            /\ phead # NULL
            /\ pTail \in Node
        BY <2>1, <3>2 DEF ListInv, Q!TypeOK, Q!ListShape
      <4>2. /\ phead' = phead
            /\ nextNode' = [nextNode EXCEPT ![pTail] = n]
            /\ pTail' = n
            /\ currentSize' = currentSize + 1
        BY <1>3, <4>1 DEF Q!QueInsert
      <4>3. nextNode'[n] = NULL
        BY <1>1, <4>1, <4>2 DEF ListInv, Q!TypeOK
      <4>4. ASSUME NEW i \in 1..Len(order') - 1
            PROVE  nextNode'[order'[i]] = order'[i + 1]
        <5>1. CASE i = Len(order)
          BY <2>1, <4>1, <4>2, <5>1 DEF ListInv, Q!TypeOK
        <5>2. CASE i \in 1..Len(order) - 1
          <6>1. /\ order[i] # pTail
                /\ order[i] \in Node
                /\ nextNode[order[i]] = order[i + 1]
            BY <2>1, <4>1, <5>2 DEF ListInv, Q!TypeOK, Q!ListShape, Q!OneOwner
          <6> QED
            BY <2>1, <4>2, <5>2, <6>1 DEF ListInv, Q!TypeOK
        <5> QED
          BY <2>1, <5>1, <5>2
      <4> QED
        BY <2>1, <4>1, <4>2, <4>3, <4>4 DEF ListInv, Q!ListShape
    <3> QED
      BY <3>1, <3>2
  <2> QED
    BY <2>2, <2>3, <2>4, <2>5 DEF ListInv
<1> QED
  BY <1>2, <1>3 DEF Q!MainInsert

(* A pop into the hands of a thread that holds nothing keeps it. *)
LEMMA PopStep ==
    ASSUME ListInv, NEW t \in Q!Thread, pnode[t] = NULL, Q!Pop(t) PROVE ListInv'
<1> USE PoolAssumption, ListAssumption
<1>1. order \in Seq(Node) /\ order # << >>
  BY DEF ListInv, Q!TypeOK, Q!ListShape, Q!Pop, Q!QuePop
<1>2. /\ order' = Tail(order)
      /\ order' \in Seq(Node)
      /\ Len(order) \in Nat \ {0}
      /\ order[1] \in Node
      /\ Len(order') = Len(order) - 1
      /\ \A i \in 1..Len(order) - 1 : order'[i] = order[i + 1]
  BY <1>1, TailFacts DEF Q!Pop, Q!QuePop
<1>3. phead = order[1]
  BY <1>1 DEF ListInv, Q!ListShape
<1>4. Q!TypeOK'
  BY <1>2, <1>3 DEF ListInv, Q!TypeOK, Q!Pop, Q!QuePop
<1>5. Q!OneOwner'
  <2>1. /\ pnode' = [pnode EXCEPT ![t] = order[1]]
        /\ UNCHANGED <<allocated, mainNode>>
    BY <1>3 DEF Q!Pop
  <2>2. /\ pnode \in [Q!Thread -> Node \cup {NULL}]
        /\ order[1] \in allocated
        /\ order[1] # mainNode
        /\ \A u \in Q!Thread : pnode[u] # order[1]
        /\ \A i \in 1..Len(order) - 1 : order[i + 1] # order[1]
    BY <1>2 DEF ListInv, Q!TypeOK, Q!OneOwner
  <2>3. ASSUME NEW i \in 1..Len(order')
        PROVE  /\ order'[i] \in allocated'
               /\ order'[i] # mainNode'
               /\ order'[i] # order[1]
               /\ \A u \in Q!Thread : pnode[u] # order'[i]
               /\ \A j \in 1..Len(order') : order'[i] = order'[j] => i = j
    BY <1>2, <2>1, <2>2 DEF ListInv, Q!TypeOK, Q!OneOwner
  <2>4. ASSUME NEW u \in Q!Thread, pnode'[u] # NULL
        PROVE  /\ pnode'[u] \in allocated'
               /\ pnode'[u] # mainNode'
               /\ \A i \in 1..Len(order') : order'[i] # pnode'[u]
               /\ \A v \in Q!Thread : pnode'[v] = pnode'[u] => v = u
    <3>1. CASE u = t
      BY <1>2, <2>1, <2>2, <2>3, <3>1
    <3>2. CASE u # t
      BY <1>2, <2>1, <2>2, <2>3, <2>4, <3>2 DEF ListInv, Q!OneOwner
    <3> QED
      BY <3>1, <3>2
  <2> QED
    BY <2>1, <2>3, <2>4 DEF ListInv, Q!OneOwner
<1>6. FreshNode'
  BY DEF ListInv, FreshNode, Q!Pop, Q!QuePop
<1>7. Q!ListShape'
  <2>1. /\ phead' = nextNode[order[1]]
        /\ UNCHANGED <<pTail, nextNode>>
        /\ currentSize' = currentSize - 1
    BY <1>3 DEF Q!Pop, Q!QuePop
  <2>2. /\ currentSize = Len(order)
        /\ pTail = order[Len(order)]
        /\ nextNode[pTail] = NULL
        /\ \A i \in 1..Len(order) - 1 : nextNode[order[i]] = order[i + 1]
    BY <1>1 DEF ListInv, Q!ListShape
  <2>3. order' = << >> <=> Len(order') = 0
    BY <1>2, EmptyFacts
  <2> QED
    BY <1>2, <2>1, <2>2, <2>3, SMTT(30) DEF Q!ListShape
<1> QED
  BY <1>4, <1>5, <1>6, <1>7 DEF ListInv

(* Handing a node back, by free or by forgetting it, keeps it. *)
LEMMA ReleaseStep ==
    ASSUME ListInv, NEW t \in Q!Thread, pnode[t] # NULL,
           pnode' = [pnode EXCEPT ![t] = NULL],
           allocated' \in {allocated, allocated \ {pnode[t]}},
           UNCHANGED <<phead, pTail, currentSize, nextNode, mainNode, lister, ret, order>>
    PROVE  ListInv'
<1>1. Q!TypeOK'
  BY DEF ListInv, Q!TypeOK
<1>2. Q!ListShape' /\ FreshNode'
  BY DEF ListInv, Q!ListShape, FreshNode
<1>3. Q!OneOwner'
  BY ListAssumption DEF ListInv, Q!TypeOK, Q!OneOwner
<1> QED
  BY <1>1, <1>2, <1>3 DEF ListInv

(* Every step keeps the invariant. *)
LEMMA ListNext == ListInv /\ [Q!Next]_(Q!vars) => ListInv'
<1> SUFFICES ASSUME ListInv, [Q!Next]_(Q!vars) PROVE ListInv'
  OBVIOUS
<1>1. CASE \E n \in Node : Q!Calloc(n)
  BY <1>1, CallocStep
<1>2. CASE Q!MainInsert
  BY <1>2, MainInsertStep
<1>3. CASE Q!Shutdown
  BY <1>3 DEF ListInv, Q!TypeOK, Q!ListShape, Q!OneOwner, FreshNode, Q!Shutdown, Q!queVars
<1>4. CASE Q!MainDrain
  <2>1. CASE Q!Pop(Main)
    BY <1>4, <2>1, PopStep DEF Q!MainDrain, Q!Thread
  <2>2. CASE Q!QuePopEmpty /\ lister' = "joining" /\ UNCHANGED <<allocated, mainNode, pnode>>
    BY <2>2 DEF ListInv, Q!TypeOK, Q!ListShape, Q!OneOwner, FreshNode, Q!QuePopEmpty, Q!queVars
  <2> QED
    BY <1>4, <2>1, <2>2 DEF Q!MainDrain
<1>5. CASE Q!MainClose
  BY <1>5, ReleaseStep DEF Q!MainClose, Q!Thread, Q!queVars
<1>6. ASSUME NEW w \in Worker, Q!WorkerPop(w) PROVE ListInv'
  <2>1. CASE Q!Pop(w)
    BY <1>6, <2>1, PopStep DEF Q!WorkerPop, Q!Thread
  <2>2. CASE Q!QuePopEmpty /\ UNCHANGED <<allocated, mainNode, pnode, lister>>
    BY <2>2 DEF ListInv, Q!TypeOK, Q!ListShape, Q!OneOwner, FreshNode, Q!QuePopEmpty, Q!queVars
  <2> QED
    BY <1>6, <2>1, <2>2 DEF Q!WorkerPop
<1>7. ASSUME NEW w \in Worker, Q!WorkerFree(w) PROVE ListInv'
  BY <1>7, ReleaseStep DEF Q!WorkerFree, Q!Thread, Q!queVars
<1>8. CASE UNCHANGED Q!vars
  BY <1>8 DEF ListInv, Q!TypeOK, Q!ListShape, Q!OneOwner, FreshNode, Q!vars
<1> QED
  BY <1>1, <1>2, <1>3, <1>4, <1>5, <1>6, <1>7, <1>8 DEF Q!Next

(* The inductive invariant holds in every reachable state. *)
THEOREM ListIsSound == Q!Spec => []ListInv
<1>1. Q!Init => ListInv
  BY ListInit
<1>2. ListInv /\ [Q!Next]_(Q!vars) => ListInv'
  BY ListNext
<1> QED
  BY <1>1, <1>2, PTL DEF Q!Spec

-----------------------------------------------------------------------------
(* A pop of the list is a pop of the FIFO: the cell phead points to is the *)
(* oldest node waiting.                                                    *)
LEMMA PopRefines ==
    ASSUME ListInv, NEW t \in Q!Thread, pnode[t] = NULL, Q!Pop(t)
    PROVE  Q!Queue!Pop(t)
<1>1. order \in Seq(Node) /\ order # << >>
  BY PoolAssumption DEF ListInv, Q!TypeOK, Q!ListShape, Q!Pop, Q!QuePop
<1>2. Head(order) = order[1]
  BY <1>1, TailFacts
<1>3. phead = order[1]
  BY <1>1 DEF ListInv, Q!ListShape
<1> QED
  BY <1>1, <1>2, <1>3 DEF Q!Pop, Q!QuePop, Q!Queue!Pop

(* A pop is refused exactly when nothing waits. *)
LEMMA PopEmptyRefines ==
    ASSUME ListInv, Q!QuePopEmpty, UNCHANGED pnode
    PROVE  Q!Queue!RefuseEmpty
<1>1. order = << >>
  BY EmptyFacts DEF ListInv, Q!TypeOK, Q!ListShape, Q!QuePopEmpty
<1> QED
  BY <1>1 DEF Q!QuePopEmpty, Q!Queue!RefuseEmpty

(* An insertion is refused exactly when Capacity nodes wait, and otherwise *)
(* puts a node that is nowhere else at the end.                            *)
LEMMA InsertRefines ==
    ASSUME ListInv, Q!MainInsert
    PROVE  Q!Queue!Insert(mainNode) \/ Q!Queue!RefuseFull
<1>1. /\ currentSize = Len(order)
      /\ currentSize \in 0..Capacity
      /\ mainNode # NULL
      /\ order \in Seq(Node)
  BY DEF ListInv, Q!TypeOK, Q!ListShape, Q!MainInsert
<1>2. CASE Q!QueInsertFull
  BY <1>1, <1>2 DEF Q!MainInsert, Q!QueInsertFull, Q!Queue!RefuseFull
<1>3. CASE Q!QueInsert(mainNode)
  <2>1. Len(order) < Capacity
    BY <1>1, <1>3, PoolAssumption DEF Q!QueInsert
  <2>2. mainNode \notin Q!Queue!Range(order)
    BY <1>1 DEF ListInv, Q!OneOwner, Q!Queue!Range
  <2>3. \A t \in Q!Thread : pnode[t] # mainNode
    BY <1>1 DEF ListInv, Q!OneOwner
  <2> QED
    BY <1>3, <2>1, <2>2, <2>3 DEF Q!MainInsert, Q!QueInsert, Q!Queue!Insert
<1> QED
  BY <1>2, <1>3 DEF Q!MainInsert

(* Every step of the linked list is a step of the FIFO or a stutter of it. *)
LEMMA StepRefines == ListInv /\ [Q!Next]_(Q!vars) => [Q!Queue!Next]_(Q!Queue!vars)
<1> SUFFICES ASSUME ListInv, [Q!Next]_(Q!vars) PROVE [Q!Queue!Next]_(Q!Queue!vars)
  OBVIOUS
<1> USE DEF Q!Queue!Next, Q!Queue!vars
<1>1. CASE \E n \in Node : Q!Calloc(n)
  BY <1>1 DEF Q!Calloc
<1>2. CASE Q!MainInsert
  <2>1. mainNode \in Node
    BY <1>2 DEF ListInv, Q!TypeOK, Q!MainInsert
  <2> QED
    BY <1>2, <2>1, InsertRefines
<1>3. CASE Q!Shutdown
  BY <1>3 DEF Q!Shutdown
<1>4. CASE Q!MainDrain
  <2>1. Main \in Q!Thread
    BY DEF Q!Thread
  <2> QED
    BY <1>4, <2>1, PopRefines, PopEmptyRefines DEF Q!MainDrain
<1>5. CASE Q!MainClose
  <2>1. Main \in Q!Thread
    BY DEF Q!Thread
  <2> QED
    BY <1>5, <2>1 DEF Q!MainClose, Q!Queue!Finish
<1>6. ASSUME NEW w \in Worker, Q!WorkerPop(w) PROVE [Q!Queue!Next]_(Q!Queue!vars)
  <2>1. w \in Q!Thread
    BY DEF Q!Thread
  <2> QED
    BY <1>6, <2>1, PopRefines, PopEmptyRefines DEF Q!WorkerPop
<1>7. ASSUME NEW w \in Worker, Q!WorkerFree(w) PROVE [Q!Queue!Next]_(Q!Queue!vars)
  <2>1. w \in Q!Thread
    BY DEF Q!Thread
  <2> QED
    BY <1>7, <2>1 DEF Q!WorkerFree, Q!Queue!Finish
<1>8. CASE UNCHANGED Q!vars
  BY <1>8 DEF Q!vars
<1> QED
  BY <1>1, <1>2, <1>3, <1>4, <1>5, <1>6, <1>7, <1>8 DEF Q!Next

(* The linked list implements the bounded first-come-first-served queue,   *)
(* in whatever order its callers come (work_que.h:10).                     *)
THEOREM ListImplementsFifo == Q!Spec => Q!FirstComeFirstServed
<1>1. Q!Init => Q!Queue!Init
  BY DEF Q!Init, Q!Queue!Init
<1>2. ListInv /\ [Q!Next]_(Q!vars) => [Q!Queue!Next]_(Q!Queue!vars)
  BY StepRefines
<1> QED
  BY <1>1, <1>2, ListIsSound, PTL DEF Q!Spec, Q!FirstComeFirstServed, Q!Queue!Spec

-----------------------------------------------------------------------------
(* The server and its list together.                                       *)

(* Where main is, for the server and for the list.                         *)
Lister == IF main \in {"epoll", "insert", "refuse", "signal"} THEN "serving"
          ELSE IF main \in {"drain", "drop"} THEN "draining" ELSE "joining"

(* What the server has as connections the list has as cells.               *)
Hands ==
    /\ newfdOf \in [Node -> Client \cup {None}]
    /\ lister = Lister
    /\ mainNode # NULL <=> main = "insert"
    /\ main = "insert" => newfd = newfdOf[mainNode]
    /\ pnode[Main] # NULL <=> main = "drop"
    /\ main = "drop" => newfd = newfdOf[pnode[Main]]
    /\ \A w \in Worker : serving[w] = Popped(w)

Spelled ==
    /\ Len(queue) = Len(order)
    /\ \A i \in 1..Len(order) : queue[i] = newfdOf[order[i]]

PoolInv == IInv /\ ListInv /\ Hands /\ Spelled

(* The two are of one mind at first.                                       *)
LEMMA PoolInitial == PoolInit => PoolInv
  BY InitIInv, ListInit, PoolAssumption, ListAssumption
  DEF PoolInit, PoolInv, Init, Q!Init, Q!Thread, Hands, Lister, Popped, Spelled

(* A step of the two is a step of each, or none.                           *)
LEMMA PoolParts ==
  ASSUME [PoolNext]_poolVars
  PROVE  [Next]_vars /\ [Q!Next]_(Q!vars)
<1> USE DEF Q!vars, list
<1>1. ASSUME NEW c \in Client, NEW n \in Node, AcceptNode(c, n)
      PROVE  Next /\ Q!Next
  BY <1>1 DEF AcceptNode, Next, Q!Next
<1>2. CASE MainList
  BY <1>2 DEF MainList, Next, MainStep, Q!Next
<1>3. ASSUME NEW w \in Worker, WorkerList(w)
      PROVE  Next /\ [Q!Next]_(Q!vars)
  BY <1>3 DEF WorkerList, Next, WorkerStep, Q!Next
<1>4. CASE Aside
  BY <1>4 DEF Aside, Next, MainStep, WorkerStep
<1>5. CASE UNCHANGED poolVars
  BY <1>5 DEF poolVars
<1> QED
  BY <1>1, <1>2, <1>3, <1>4, <1>5 DEF PoolNext

(* What holds of the kinds of things.                                      *)
LEMMA PoolTypes ==
  ASSUME IInv, ListInv
  PROVE  /\ order \in Seq(Node) /\ Len(order) \in Nat /\ currentSize = Len(order)
         /\ queue \in Seq(Client) /\ Len(queue) \in Nat /\ Capacity \in Nat
         /\ pnode \in [Q!Thread -> Node \cup {NULL}] /\ serving \in [Worker -> Client \cup {None}]
         /\ Main \in Q!Thread /\ Main \notin Worker /\ NULL \notin Node /\ None \notin Client
         /\ \A w \in Worker : w \in Q!Thread
         /\ \A i \in 1..Len(order) : order[i] \in Node
  BY PoolAssumption, ListAssumption DEF IInv, TypeOK, ListInv, Q!TypeOK, Q!ListShape, Q!Thread

(* A cell main writes is nobody else's.                                    *)
LEMMA AcceptTogether ==
  ASSUME PoolInv, NEW c \in Client, NEW n \in Node, AcceptNode(c, n)
  PROVE  Hands' /\ Spelled'
<1>1. /\ newfdOf' = [newfdOf EXCEPT ![n] = c] /\ mainNode' = n /\ newfd' = c
      /\ main = "epoll" /\ main' = "insert" /\ n \notin allocated
      /\ UNCHANGED <<queue, order, pnode, serving, lister>>
  BY DEF AcceptNode, Accept, workerVars, Q!Calloc
<1>2. /\ \A t \in Q!Thread : pnode[t] # n
      /\ \A i \in 1..Len(order) : order[i] # n
  BY <1>1, PoolTypes DEF PoolInv, ListInv, Q!OneOwner
<1>3. Hands'
  BY <1>1, <1>2, PoolTypes DEF PoolInv, Hands, Lister, Popped
<1> QED
  BY <1>1, <1>2, <1>3, PoolTypes DEF PoolInv, Hands, Spelled

(* Main's steps with the list.                                             *)
LEMMA MainTogether ==
  ASSUME PoolInv, MainList
  PROVE  Hands' /\ Spelled'
<1> USE PoolTypes DEF PoolInv, Hands, Lister, Popped
<1>1. CASE Insert /\ Q!MainInsert
  <2>1. CASE Len(queue) = Capacity
    BY <1>1, <2>1 DEF MainList, Insert, workerVars, Q!MainInsert, Q!QueInsert, Q!QueInsertFull,
                      Q!queVars, Spelled
  <2>2. CASE Len(queue) # Capacity
    <3>1. /\ queue' = Append(queue, newfd) /\ main' = "signal" /\ newfd' = None
          /\ order' = Append(order, mainNode) /\ main = "insert" /\ mainNode' = NULL
          /\ UNCHANGED <<pnode, serving, lister, newfdOf>>
      BY <1>1, <2>2 DEF MainList, Insert, workerVars, Q!MainInsert, Q!QueInsert, Q!QueInsertFull, Spelled
    <3>2. mainNode \in Node /\ newfd \in Client \cup {None}
      BY <3>1 DEF ListInv, Q!TypeOK, IInv, TypeOK
    <3>3. Hands'
      BY <3>1
    <3>4. /\ Len(queue') = Len(queue) + 1 /\ Len(order') = Len(order) + 1
          /\ \A i \in 1..Len(order) : order'[i] = order[i]
          /\ \A i \in 1..Len(queue) : queue'[i] = queue[i]
          /\ queue'[Len(queue) + 1] = newfd /\ order'[Len(order) + 1] = mainNode
      <4>1. queue \in Seq(Client \cup {None})
        OBVIOUS
      <4> QED
        BY <3>1, <3>2, <4>1, AppendFacts
    <3> QED
      BY <3>1, <3>3, <3>4 DEF Spelled
  <2> QED
    BY <2>1, <2>2
<1>2. CASE StartExit /\ Q!Shutdown
  BY <1>2 DEF MainList, StartExit, workerVars, Q!Shutdown, Q!queVars, Spelled
<1>3. CASE Drain /\ Q!MainDrain
  <2>1. CASE queue = << >>
    <3>1. Q!QuePopEmpty /\ lister' = "joining" /\ UNCHANGED <<allocated, mainNode, pnode>>
      BY <1>3, <2>1 DEF Q!MainDrain, Q!Pop, Q!QuePop, Spelled
    <3> QED
      BY <1>3, <2>1, <3>1 DEF MainList, Drain, workerVars, Q!QuePopEmpty, Q!queVars, Spelled
  <2>2. CASE queue # << >>
    <3>1. /\ newfd' = Head(queue) /\ queue' = Tail(queue) /\ main = "drain" /\ main' = "drop"
          /\ serving' = serving
      BY <1>3, <2>2 DEF Drain, workerVars
    <3>2. Q!Pop(Main)
      BY <1>3, <2>2, EmptyFacts DEF Q!MainDrain, Q!QuePopEmpty, Spelled
    <3>3. order # << >> /\ phead = order[1]
      BY <3>2 DEF Q!Pop, Q!QuePop, ListInv, Q!ListShape
    <3>4. /\ pnode' = [pnode EXCEPT ![Main] = order[1]] /\ order' = Tail(order)
          /\ UNCHANGED <<mainNode, lister, newfdOf>>
      BY <1>3, <3>2, <3>3 DEF Q!Pop, Q!QuePop, MainList
    <3>5. /\ Len(order') = Len(order) - 1 /\ Len(queue') = Len(queue) - 1 /\ 1 \in 1..Len(order)
          /\ \A i \in 1..(Len(order) - 1) : order'[i] = order[i + 1]
          /\ \A i \in 1..(Len(queue) - 1) : queue'[i] = queue[i + 1]
          /\ newfd' = queue[1]
      BY <2>2, <3>1, <3>3, <3>4, TailFacts
    <3>6. newfd' = newfdOf[order[1]] /\ order[1] \in Node
      BY <3>5 DEF Spelled
    <3>7. Hands'
      BY <3>1, <3>4, <3>6
    <3> QED
      BY <3>1, <3>4, <3>5, <3>7 DEF Spelled
  <2> QED
    BY <2>1, <2>2
<1>4. CASE Drop /\ Q!MainClose
  BY <1>4 DEF MainList, Drop, workerVars, Q!MainClose, Q!queVars, Spelled
<1> QED
  BY <1>1, <1>2, <1>3, <1>4 DEF MainList

(* A worker's.                                                             *)
LEMMA WorkerTogether ==
  ASSUME PoolInv, NEW w \in Worker, WorkerList(w)
  PROVE  Hands' /\ Spelled'
<1> USE PoolTypes DEF PoolInv, Hands, Lister, Popped
<1>1. CASE Take(w) /\ Q!WorkerPop(w)
  <2>1. CASE queue = << >>
    <3>1. Q!QuePopEmpty /\ UNCHANGED <<allocated, mainNode, pnode, lister>>
      BY <1>1, <2>1 DEF Q!WorkerPop, Q!Pop, Q!QuePop, Spelled
    <3> QED
      BY <1>1, <2>1, <3>1 DEF WorkerList, Take, mainVars, Q!QuePopEmpty, Q!queVars, Spelled
  <2>2. CASE queue # << >>
    <3>1. /\ serving' = [serving EXCEPT ![w] = Head(queue)] /\ queue' = Tail(queue)
          /\ UNCHANGED <<main, newfd>>
      BY <1>1, <2>2 DEF Take, mainVars
    <3>2. Q!Pop(w)
      BY <1>1, <2>2, EmptyFacts DEF Q!WorkerPop, Q!QuePopEmpty, Spelled
    <3>3. order # << >> /\ phead = order[1]
      BY <3>2 DEF Q!Pop, Q!QuePop, ListInv, Q!ListShape
    <3>4. /\ pnode' = [pnode EXCEPT ![w] = order[1]] /\ order' = Tail(order)
          /\ UNCHANGED <<mainNode, lister, newfdOf>>
      BY <1>1, <3>2, <3>3 DEF Q!Pop, Q!QuePop, WorkerList
    <3>5. /\ Len(order') = Len(order) - 1 /\ Len(queue') = Len(queue) - 1 /\ 1 \in 1..Len(order)
          /\ \A i \in 1..(Len(order) - 1) : order'[i] = order[i + 1]
          /\ \A i \in 1..(Len(queue) - 1) : queue'[i] = queue[i + 1]
          /\ Head(queue) = queue[1]
      BY <2>2, <3>1, <3>3, <3>4, TailFacts
    <3>6. queue[1] = newfdOf[order[1]] /\ order[1] \in Node
      BY <3>5 DEF Spelled
    <3>7. Hands'
      BY <3>1, <3>4, <3>5, <3>6
    <3> QED
      BY <3>1, <3>4, <3>5, <3>7 DEF Spelled
  <2> QED
    BY <2>1, <2>2
<1>2. CASE Serve(w) /\ Q!WorkerFree(w)
  BY <1>2 DEF WorkerList, Serve, mainVars, Q!WorkerFree, Q!queVars, Spelled
<1>3. CASE Wait(w) /\ UNCHANGED list
  BY <1>3 DEF WorkerList, Wait, mainVars, list, Spelled
<1> QED
  BY <1>1, <1>2, <1>3 DEF WorkerList

(* Every step of both keeps the two of one mind.                           *)
LEMMA PoolKeeps ==
  ASSUME PoolInv, [PoolNext]_poolVars
  PROVE  PoolInv'
<1>1. IInv' /\ ListInv'
  BY PoolParts, NextIInv, ListNext DEF PoolInv
<1>2. CASE UNCHANGED <<main, newfd, serving, queue, list, newfdOf>>
  BY <1>1, <1>2 DEF PoolInv, Hands, Lister, Popped, Spelled, list
<1>3. CASE Aside
  <2>1. ASSUME NEW w \in Worker, Check(w) \/ SpuriousWakeup(w) PROVE PoolInv'
    BY <1>2, <1>3, <2>1 DEF Check, SpuriousWakeup, mainVars, Aside
  <2>2. CASE SigFunc \/ Terminated
    BY <1>2, <1>3, <2>2 DEF SigFunc, Terminated, workerVars, vars, Aside
  <2>3. CASE Refuse \/ Signal \/ Wake \/ Join
    BY <1>1, <1>3, <2>3
    DEF Refuse, Signal, Wake, Join, workerVars, Aside, PoolInv, Hands, Lister, Popped, Spelled, list
  <2> QED
    BY <1>3, <2>1, <2>2, <2>3 DEF Aside
<1> QED
  BY <1>1, <1>2, <1>3, AcceptTogether, MainTogether, WorkerTogether
  DEF PoolNext, PoolInv, poolVars, vars

(* The server with its list is the server, and its calls are calls of the  *)
(* list: every theorem above about either holds of the two together.       *)
THEOREM PoolImplementsBoth == PoolSpec => Q!Spec /\ Init /\ [][Next]_vars
<1>1. PoolInit => Init /\ Q!Init
  BY DEF PoolInit
<1>2. [PoolNext]_poolVars => [Next]_vars /\ [Q!Next]_(Q!vars)
  BY PoolParts
<1> QED
  BY <1>1, <1>2, PTL DEF PoolSpec, Q!Spec

(* The inductive invariant of the two together.                            *)
THEOREM PoolIsSound == PoolSpec => []PoolInv
<1>1. PoolInv /\ [PoolNext]_poolVars => PoolInv'
  BY PoolKeeps
<1> QED
  BY <1>1, PoolInitial, PTL DEF PoolSpec

(* Type correctness of the list and its callers: in particular currentSize *)
(* never passes Capacity (queOperate.c:4).                                 *)
THEOREM TypeCorrect == PoolSpec => []Q!TypeOK
<1>1. PoolInv => Q!TypeOK
  BY DEF PoolInv, ListInv
<1> QED
  BY <1>1, PoolIsSound, PTL

(* The linked list always spells out the connections queued, in order, and *)
(* ends in NULL (queOperate.c:3-27, main.c:90-92).                         *)
THEOREM ListIsWellFormed == PoolSpec => []ListShape
<1>1. PoolInv => ListShape
  <2> SUFFICES ASSUME PoolInv PROVE queue = [i \in 1..Len(order) |-> newfdOf[order[i]]]
    BY DEF ListShape, PoolInv, ListInv
  <2>1. queue = [i \in 1..Len(queue) |-> queue[i]]
    BY PoolTypes DEF PoolInv
  <2> QED
    BY <2>1 DEF PoolInv, Spelled
<1> QED
  BY <1>1, PoolIsSound, PTL

(* No cell is in two threads' hands, none that can be reached has been     *)
(* freed, and a worker serves the connection in the cell it popped: the    *)
(* free at main.c:24 is never a double free, and main.c:19-23 read what    *)
(* main wrote at main.c:90.                                                *)
THEOREM NodesHaveOneOwner == PoolSpec => []OneOwner
<1>1. PoolInv => OneOwner
  BY DEF OneOwner, PoolInv, ListInv, Hands
<1> QED
  BY <1>1, PoolIsSound, PTL

(* What the code asks the list, whether currentSize is 0 or Capacity       *)
(* (main.c:12, queOperate.c:4, 20), is what ThreadPool asks its queue: the *)
(* list never says another thing than the FIFO would.                      *)
THEOREM ListAnswersAsFifo ==
  PoolSpec => [](/\ currentSize = 0 <=> queue = << >>
                 /\ currentSize = Capacity <=> Len(queue) = Capacity)
<1>1. PoolInv => /\ currentSize = 0 <=> queue = << >>
                 /\ currentSize = Capacity <=> Len(queue) = Capacity
  BY PoolTypes, EmptyFacts DEF PoolInv, Spelled
<1> QED
  BY <1>1, PoolIsSound, PTL

(* Connections leave the list in the order they came, an insertion fails   *)
(* only on a full queue and a pop only on an empty one (work_que.h:10).    *)
THEOREM ImplementsFifo == PoolSpec => FirstComeFirstServed
<1>1. FirstComeFirstServed <=> Q!FirstComeFirstServed
  BY DEF FirstComeFirstServed
<1> QED
  BY <1>1, PoolImplementsBoth, ListImplementsFifo, PTL
=============================================================================
