------------------------- MODULE FirstVersionProofs -------------------------
(***************************************************************************)
(* The first version of FileServer for every number of workers, clients,   *)
(* sessions and people, every ring and queue, and every set of names.      *)
(*                                                                         *)
(* Three inductive invariants, one for each part of the program.           *)
(*                                                                         *)
(* Connections (ServerInv).  A number is given out again, so that a        *)
(* connection is known by its client: it has one number at a time          *)
(* (OneNumber), and a client that has been silent for k scans is in the    *)
(* slot the pointer reaches after the others (InRing).                     *)
(*                                                                         *)
(* Logins (LoginInv).  The buffers keep what earlier clients left; what a  *)
(* worker compares is sound because the salt it has sent is that of a row  *)
(* of the name the client has typed (Salted).                              *)
(*                                                                         *)
(* Commands (CommandInv, DirectoryInv).  The stream of a session takes the *)
(* worker from where it is to where the client will need it (Dialogue); a  *)
(* directory stays because it is removed only when it is empty, and what a *)
(* session has asked to remove is not on the way to where another is or    *)
(* goes (Apart, Rooted).                                                   *)
(***************************************************************************)
EXTENDS MCFirstVersion, SequenceTheorems, FiniteSetTheorems, NaturalsInduction,
        WellFoundedInduction, TLAPS
-----------------------------------------------------------------------------
(* Connections.                                                            *)

(* A worker has a number just when it is with a client.                    *)
IdleWorkers ==
  \A w \in Workers : IF pc[w] = "pop" THEN newfd[w] = None /\ own[w] = None
                     ELSE newfd[w] \in Fds

(* Who has not come is nowhere.                                            *)
NewAreUnknown ==
  \A c \in Conns : client[c] = "new" =>
     (\A d \in Fds : table[d] # c) /\ (\A w \in Workers : own[w] # c)

(* The number of c, for the kernel and for workers.                        *)
Numbered(c, d) == table[d] = c \/ \E w \in Workers : own[w] = c /\ newfd[w] = d

(* A connection never has two numbers, although a number has many          *)
(* connections one after the other.                                        *)
OneNumber == \A c \in Conns : \A d, e \in Fds : Numbered(c, d) /\ Numbered(c, e) => d = e

(* The slot k scans behind the next one.                                   *)
Back(k) == IF k < fdPointer THEN fdPointer - 1 - k ELSE fdPointer + TimeOut - k

(* Nobody else holds w's number.                                           *)
Alone(w) == \A v \in Workers \ {w} : newfd[v] # newfd[w]

(* A client in service that has been silent for k scans is in the slot k   *)
(* behind, and its worker knows the slot.                                  *)
InRing(w) ==
  Serving(w) /\ Has(w, newfd[w]) /\ Alone(w) =>
     /\ silent[own[w]] \in Slots
     /\ setPos[w] = Back(silent[own[w]])
     /\ newfd[w] \in ring[setPos[w]]

ServerInv == /\ TypeOK /\ silent \in [Conns -> Nat]
             /\ IdleWorkers /\ NewAreUnknown /\ OneNumber /\ NobodyForgotten
             /\ \A w \in Workers : InRing(w)

LEMMA ServerInit == Init => ServerInv
  <1> SUFFICES ASSUME Init PROVE ServerInv
    OBVIOUS
  <1> USE BoundsAssumption DEF Init
  <1>1. TypeOK
    <2>1. 0 \in Slots /\ <<>> \in Seq(Fds) /\ Len(<<>>) = 0
      BY DEF Slots
    <2> QED
      BY <2>1 DEF TypeOK
  <1>2. silent \in [Conns -> Nat]
    OBVIOUS
  <1>3. IdleWorkers /\ NewAreUnknown
    BY DEF IdleWorkers, NewAreUnknown
  <1>4. OneNumber
    BY DEF OneNumber, Numbered
  <1>5. NobodyForgotten
    BY DEF NobodyForgotten
  <1>6. \A w \in Workers : InRing(w)
    BY DEF InRing, Serving
  <1> QED
    BY <1>1, <1>2, <1>3, <1>4, <1>5, <1>6 DEF ServerInv

(* Every set of numbers that is not empty has a lowest one.                *)
LEMMA LowestFree ==
  ASSUME NEW S \in SUBSET Fds, S # {}
  PROVE  Lowest(S) \in S
  <1>1. S \subseteq Nat
    BY BoundsAssumption DEF Fds
  <1> DEFINE Less == {p \in Nat \X Nat : p[1] < p[2]}
  <1>2. PICK d \in S : \A e \in S : ~ (<<e, d>> \in Less)
    <2>1. IsWellFoundedOn(Less, Nat)
      BY NatLessThanWellFounded DEF OpToRel
    <2> HIDE DEF Less
    <2> QED
      BY <1>1, <2>1, WFMin
  <1>3. ASSUME NEW e \in S PROVE d <= e
    <2>1. e \in Nat /\ d \in Nat /\ <<e, d>> \in Nat \X Nat
      BY <1>1
    <2>2. e < d => <<e, d>> \in Less
      BY <2>1
    <2> QED
      BY <2>1, <2>2, <1>2
  <1> QED
    BY <1>3 DEF Lowest
(* What a step that closes and opens nothing keeps: dialogues, and clients *)
(* that go on.                                                             *)
LEMMA QuietKeeps ==
  ASSUME ServerInv,
         UNCHANGED <<table, queue, node, ring, fdPointer, silent>>,
         client' \in [Conns -> {"new", "idle", "asked", "left"}],
         \A c \in Conns : client'[c] = "new" => client[c] = "new",
         pc' \in [Workers -> {"pop", "login", "loginRecv", "register", "enter", "call", "recv",
                             "update", "leave"}],
         \A w \in Workers : (pc'[w] = "pop" <=> pc[w] = "pop") /\ (Serving(w)' => Serving(w)),
         sock' \in [Workers -> Conns \union {None}],
         \A w \in Workers : pc'[w] \in {"recv", "loginRecv"} => sock'[w] # None
  PROVE  ServerInv'
  <1> USE DEF node
  <1>1. TypeOK' /\ (silent \in [Conns -> Nat])'
    BY DEF ServerInv, TypeOK
  <1>2. IdleWorkers' /\ NewAreUnknown'
    BY DEF ServerInv, IdleWorkers, NewAreUnknown
  <1>3. OneNumber'
    BY DEF ServerInv, OneNumber, Numbered
  <1>4. NobodyForgotten'
    BY DEF ServerInv, NobodyForgotten, Contains, Has
  <1>5. ASSUME NEW w \in Workers PROVE InRing(w)'
    <2>1. InRing(w) /\ (Serving(w)' => Serving(w))
      BY DEF ServerInv
    <2>2. Back(silent[own[w]])' = Back(silent[own[w]])
      BY DEF Back
    <2> QED
      BY <2>1, <2>2 DEF InRing, Has, Alone
  <1> QED
    BY <1>1, <1>2, <1>3, <1>4, <1>5 DEF ServerInv

(* recv, and the client's answer.                                          *)
LEMMA TalkKeeps ==
  ASSUME ServerInv, NEW w \in Workers,
         \/ Call(w, "login", "loginRecv") \/ Login(w) \/ Register(w)
         \/ Call(w, "call", "recv") \/ Recv(w)
  PROVE  ServerInv'
  <1> DEFINE Places == {"pop", "login", "loginRecv", "register", "enter", "call", "recv",
                        "update", "leave"}
  <1>0. /\ pc \in [Workers -> Places] /\ sock \in [Workers -> Conns \union {None}]
        /\ client \in [Conns -> {"new", "idle", "asked", "left"}]
        /\ table \in [Fds -> Conns \union {None}]
        /\ newfd \in [Workers -> Fds \union {None}]
        /\ \A v \in Workers : pc[v] \in {"recv", "loginRecv"} => sock[v] # None
    BY DEF ServerInv, TypeOK
  <1>1. CASE Call(w, "login", "loginRecv") \/ Call(w, "call", "recv")
    <2>1. PICK c \in Conns \union {None}, l \in Places :
            /\ pc[w] \in {"login", "call"}
            /\ l # "pop" /\ (l \in {"loginRecv", "recv"} => c # None)
            /\ l \in {"call", "recv", "update"} => pc[w] = "call"
            /\ sock' = [sock EXCEPT ![w] = c] /\ pc' = [pc EXCEPT ![w] = l]
            /\ UNCHANGED <<table, client, queue, node, ring, fdPointer, silent>>
      <3> DEFINE c == IF newfd[w] = None THEN None ELSE table[newfd[w]]
      <3>1. c \in Conns \union {None}
        BY <1>0
      <3>2. sock' = [sock EXCEPT ![w] = c]
        BY <1>1 DEF Call
      <3>3. UNCHANGED <<table, client, queue, node, ring, fdPointer, silent>>
        BY <1>1 DEF Call
      <3> HIDE DEF c
      <3>4. CASE Call(w, "login", "loginRecv")
        <4>1. /\ pc[w] = "login"
              /\ \E l \in {"loginRecv"} \union AfterFailure :
                    (l = "loginRecv" => c # None) /\ pc' = [pc EXCEPT ![w] = l]
          BY <3>4 DEF Call, Goto, AfterFailure, c
        <4> QED
          BY <3>1, <3>2, <3>3, <4>1 DEF AfterFailure
      <3>5. CASE Call(w, "call", "recv")
        <4>1. pc[w] = "call" /\ pc' = [pc EXCEPT ![w] = IF c # None THEN "recv" ELSE "leave"]
          BY <3>5 DEF Call, Goto, c
        <4> QED
          BY <3>1, <3>2, <3>3, <4>1
      <3> QED
        BY <1>1, <3>4, <3>5
    <2> QED
      BY <1>0, <2>1, QuietKeeps DEF Serving
  <1>2. CASE Login(w) \/ Recv(w)
    <2>1. PICK l \in Places \ {"pop", "loginRecv", "recv"} :
            /\ pc[w] \in {"loginRecv", "recv"} /\ pc' = [pc EXCEPT ![w] = l]
            /\ l \in {"call", "update"} => pc[w] = "recv"
            /\ sock' = [sock EXCEPT ![w] = None]
            /\ client' = client \/ client' = [client EXCEPT ![sock[w]] = "idle"]
            /\ UNCHANGED <<table, queue, node, ring, fdPointer, silent>>
      BY <1>2 DEF Login, Recv, Goto, AfterFailure
    <2> QED
      BY <1>0, <2>1, QuietKeeps DEF Serving
  <1>3. CASE Register(w)
    <2>1. PICK c \in Conns :
            /\ pc[w] = "register" /\ pc' = [pc EXCEPT ![w] = "loginRecv"]
            /\ sock' = [sock EXCEPT ![w] = c]
            /\ UNCHANGED <<table, client, queue, node, ring, fdPointer, silent>>
      BY <1>0, <1>3 DEF Register, Goto, ServerInv, IdleWorkers
    <2> QED
      BY <1>0, <2>1, QuietKeeps, BoundsAssumption DEF Serving
  <1> QED
    BY <1>1, <1>2, <1>3

(* The clients.                                                            *)
LEMMA ClientsKeep ==
  ASSUME ServerInv, NEW c \in Conns, Ask(c) \/ HangUp(c)
  PROVE  ServerInv'
  BY QuietKeeps DEF ServerInv, TypeOK, Ask, HangUp, Serving, node

(* Nothing.                                                                *)
LEMMA ServerStutter ==
  ASSUME ServerInv, UNCHANGED vars
  PROVE  ServerInv'
  BY QuietKeeps DEF ServerInv, TypeOK, vars, Serving, node

(* Main takes a connection that nobody has heard of.                       *)
LEMMA AcceptKeeps ==
  ASSUME ServerInv, NEW c \in Conns, Accept(c)
  PROVE  ServerInv'
  <1>0. PICK d \in Fds : d = Lowest(Free) /\ table[d] = None
    BY LowestFree DEF Accept, Free
  <1>1. CASE Len(queue) < Capacity
    <2>1. /\ client[c] = "new"
          /\ table' = [table EXCEPT ![d] = c]
          /\ queue' = Append(queue, d)
          /\ client' = [client EXCEPT ![c] = "idle"]
          /\ UNCHANGED <<pc, newfd, setPos, own, sock, ring, fdPointer, silent>>
      BY <1>0, <1>1 DEF Accept, node
    <2>2. /\ queue \in Seq(Fds) /\ queue' \in Seq(Fds) /\ Len(queue') = Len(queue) + 1
          /\ \A i \in 1..Len(queue) : queue'[i] = queue[i]
          /\ queue'[Len(queue) + 1] = d
      BY <2>1, AppendProperties DEF ServerInv, TypeOK
    <2>3. TypeOK' /\ (silent \in [Conns -> Nat])'
      <3>1. Len(queue') <= Capacity
        BY <1>1, <2>2, LenProperties, BoundsAssumption
      <3> QED
        BY <2>1, <2>2, <3>1 DEF ServerInv, TypeOK
    <2>4. IdleWorkers'
      BY <2>1 DEF ServerInv, IdleWorkers
    <2>5. NewAreUnknown'
      BY <2>1 DEF ServerInv, TypeOK, NewAreUnknown
    <2>6. OneNumber'
      <3>1. \A e \in Fds : ~Numbered(c, e)
        BY <2>1 DEF ServerInv, NewAreUnknown, Numbered
      <3>2. \A e \in Fds : Numbered(c, e)' => e = d
        BY <2>1, <3>1 DEF ServerInv, TypeOK, Numbered
      <3>3. \A b \in Conns \ {c} : \A e \in Fds : Numbered(b, e)' => Numbered(b, e)
        BY <2>1 DEF ServerInv, TypeOK, Numbered
      <3> QED
        BY <3>2, <3>3 DEF ServerInv, OneNumber
    <2>7. NobodyForgotten'
      <3>1. ASSUME NEW e \in Fds, table'[e] # None
            PROVE  Contains(queue', e) \/ \E w \in Workers : Has(w, e)'
        <4>1. CASE e = d
          BY <2>2, <4>1, LenProperties DEF Contains
        <4>2. CASE e # d
          <5>1. table'[e] = table[e]
            BY <2>1, <4>2 DEF ServerInv, TypeOK
          <5>2. CASE Contains(queue, e)
            BY <2>2, <5>2, LenProperties DEF Contains
          <5>3. CASE \E w \in Workers : Has(w, e)
            BY <2>1, <5>1, <5>3 DEF Has
          <5> QED
            BY <3>1, <5>1, <5>2, <5>3 DEF ServerInv, NobodyForgotten
        <4> QED
          BY <4>1, <4>2
      <3> QED
        BY <3>1 DEF NobodyForgotten
    <2>8. ASSUME NEW w \in Workers PROVE InRing(w)'
      <3>1. Has(w, newfd[w])' => Has(w, newfd[w])
        BY <2>1 DEF ServerInv, TypeOK, IdleWorkers, NewAreUnknown, Has
      <3>2. Back(silent[own[w]])' = Back(silent[own[w]])
        BY <2>1 DEF Back
      <3> QED
        BY <2>1, <3>1, <3>2 DEF ServerInv, InRing, Serving, Alone
    <2> QED
      BY <2>3, <2>4, <2>5, <2>6, <2>7, <2>8 DEF ServerInv
  <1>2. CASE ~(Len(queue) < Capacity)
    BY <1>2, QuietKeeps DEF Accept, ServerInv, TypeOK, Serving, node
  <1> QED
    BY <1>1, <1>2

(* A worker takes the first number of the queue, and whoever has it now.   *)
LEMMA PopServerKeeps ==
  ASSUME ServerInv, NEW w \in Workers, Pop(w)
  PROVE  ServerInv'
  <1>0. /\ queue \in Seq(Fds) /\ queue # <<>>
        /\ table \in [Fds -> Conns \union {None}]
        /\ pc[w] = "pop" /\ newfd[w] = None /\ own[w] = None
    BY DEF Pop, ServerInv, TypeOK, IdleWorkers
  <1>1. PICK d \in Fds :
          /\ d = Head(queue) /\ d = queue[1]
          /\ newfd' = [newfd EXCEPT ![w] = d]
          /\ own' = [own EXCEPT ![w] = table[d]]
    <2>1. Head(queue) = queue[1] /\ Head(queue) \in Fds
      BY <1>0
    <2> QED
      BY <2>1 DEF Pop
  <1>2. /\ queue' = Tail(queue) /\ pc' = [pc EXCEPT ![w] = "login"]
        /\ UNCHANGED <<table, client, setPos, sock, ring, fdPointer, silent>>
    BY DEF Pop, Goto
  <1>3. /\ queue' \in Seq(Fds) /\ Len(queue') = Len(queue) - 1 /\ Len(queue) \in Nat
        /\ \A i \in 1..Len(queue) - 1 : queue'[i] = queue[i + 1]
    BY <1>0, <1>2
  <1>4. TypeOK' /\ (silent \in [Conns -> Nat])'
    <2>1. Len(queue') <= Capacity
      BY <1>3, BoundsAssumption DEF ServerInv, TypeOK
    <2>2. table[d] \in Conns \union {None}
      BY <1>0
    <2> QED
      BY <1>1, <1>2, <1>3, <2>1, <2>2 DEF ServerInv, TypeOK
  <1>5. IdleWorkers'
    BY <1>1, <1>2 DEF ServerInv, TypeOK, IdleWorkers
  <1>6. NewAreUnknown'
    BY <1>1, <1>2 DEF ServerInv, TypeOK, NewAreUnknown
  <1>7. OneNumber'
    <2>1. ASSUME NEW c \in Conns, NEW e \in Fds, Numbered(c, e)' PROVE Numbered(c, e)
      BY <1>1, <1>2, <2>1 DEF ServerInv, TypeOK, Numbered
    <2> QED
      BY <2>1 DEF ServerInv, OneNumber
  <1>8. NobodyForgotten'
    <2>1. ASSUME NEW e \in Fds, table[e] # None
          PROVE  Contains(queue', e) \/ \E v \in Workers : Has(v, e)'
      <3>1. CASE e = d
        BY <1>1, <1>2, <2>1, <3>1 DEF ServerInv, TypeOK, Has
      <3>2. CASE e # d /\ Contains(queue, e)
        <4>1. PICK i \in 1..Len(queue) : queue[i] = e
          BY <3>2 DEF Contains
        <4>2. i # 1 /\ i - 1 \in 1..Len(queue')
          BY <1>1, <1>3, <3>2, <4>1
        <4>3. queue'[i - 1] = e
          BY <1>3, <4>1, <4>2
        <4> QED
          BY <4>2, <4>3 DEF Contains
      <3>3. CASE \E v \in Workers : Has(v, e)
        <4>1. PICK v \in Workers : Has(v, e)
          BY <3>3
        <4>2. v # w
          BY <1>0, <4>1, BoundsAssumption DEF Has, Fds
        <4>3. Has(v, e)'
          BY <1>1, <1>2, <4>1, <4>2 DEF ServerInv, TypeOK, Has
        <4> QED
          BY <4>3
      <3> QED
        BY <2>1, <3>1, <3>2, <3>3 DEF ServerInv, NobodyForgotten
    <2> QED
      BY <1>2, <2>1 DEF NobodyForgotten
  <1>9. ASSUME NEW v \in Workers PROVE InRing(v)'
    <2>1. CASE v = w
      BY <1>2, <2>1 DEF ServerInv, TypeOK, InRing, Serving
    <2>2. CASE v # w
      <3>1. /\ own'[v] = own[v] /\ newfd'[v] = newfd[v] /\ pc'[v] = pc[v]
            /\ setPos' = setPos /\ ring' = ring /\ silent' = silent /\ fdPointer' = fdPointer
        BY <1>1, <1>2, <2>2 DEF ServerInv, TypeOK
      <3>2. Alone(v)' /\ Serving(v)' => Alone(v)
        <4>1. CASE Serving(v)
          BY <1>0, <1>1, <2>2, <4>1, BoundsAssumption DEF ServerInv, TypeOK, IdleWorkers, Serving, Alone, Fds
        <4>2. CASE ~Serving(v)
          BY <3>1, <4>2 DEF Serving
        <4> QED
          BY <4>1, <4>2
      <3>3. Back(silent[own[v]])' = Back(silent[own[v]])
        BY <3>1 DEF Back
      <3> QED
        BY <1>2, <3>1, <3>2, <3>3 DEF ServerInv, InRing, Serving, Has
    <2> QED
      BY <2>1, <2>2
  <1> QED
    BY <1>4, <1>5, <1>6, <1>7, <1>8, <1>9 DEF ServerInv
(* The slot the supervisor will come to last.                              *)
LEMMA RingFacts ==
  ASSUME TypeOK
  PROVE  /\ Before(fdPointer) \in Slots /\ Before(fdPointer) = Back(0) /\ 0 \in Slots
         /\ \A k \in Slots : Back(k) \in Slots
  BY BoundsAssumption DEF TypeOK, Slots, Before, Back

(* Into the ring for the first time, or moved on in it.                    *)
LEMMA PutKeeps ==
  ASSUME ServerInv, NEW w \in Workers, Enter(w) \/ Update(w)
  PROVE  ServerInv'
  <1> DEFINE p == Before(fdPointer)
  <1>0. /\ pc[w] \in {"enter", "update"} /\ newfd[w] \in Fds
        /\ pc' = [pc EXCEPT ![w] = "call"]
        /\ setPos' = [setPos EXCEPT ![w] = p]
        /\ silent' = [silent EXCEPT ![own[w]] = 0]
        /\ UNCHANGED <<table, client, queue, newfd, own, sock, fdPointer>>
    BY DEF ServerInv, IdleWorkers, Enter, Update, Put, Goto
  <1>1. p \in Slots /\ p = Back(0) /\ 0 \in Slots
    BY RingFacts DEF ServerInv
  <1>2. /\ ring' \in [Slots -> SUBSET Fds]
        /\ newfd[w] \in ring'[p]
        /\ \A i \in Slots : \A d \in Fds \ {newfd[w]} : d \in ring[i] => d \in ring'[i]
    <2>1. PICK old : ring' = [i \in Slots |-> (ring[i] \ (IF i = old THEN {newfd[w]} ELSE {}))
                                    \union (IF i = p THEN {newfd[w]} ELSE {})]
      BY DEF Enter, Update, Put
    <2> HIDE DEF p
    <2>2. ring \in [Slots -> SUBSET Fds]
      BY DEF ServerInv, TypeOK
    <2>3. newfd[w] \in ring'[p]
      BY <1>1, <2>1
    <2>4. ring' \in [Slots -> SUBSET Fds]
      BY <1>0, <2>1, <2>2
    <2>5. \A i \in Slots : \A d \in Fds \ {newfd[w]} : d \in ring[i] => d \in ring'[i]
      BY <1>0, <2>1, <2>2
    <2> QED
      BY <2>3, <2>4, <2>5
  <1> HIDE DEF p
  <1>3. TypeOK' /\ (silent \in [Conns -> Nat])'
    BY <1>0, <1>1, <1>2 DEF ServerInv, TypeOK
  <1>4. IdleWorkers' /\ NewAreUnknown'
    BY <1>0 DEF ServerInv, TypeOK, IdleWorkers, NewAreUnknown
  <1>5. OneNumber'
    BY <1>0 DEF ServerInv, OneNumber, Numbered
  <1>6. NobodyForgotten'
    BY <1>0 DEF ServerInv, NobodyForgotten, Contains, Has
  <1>7. ASSUME NEW v \in Workers PROVE InRing(v)'
    <2>1. CASE v = w
      <3> SUFFICES ASSUME Has(w, newfd[w])'
                   PROVE  /\ silent'[own[w]] \in Slots
                          /\ setPos'[w] = Back(silent[own[w]])'
                          /\ newfd[w] \in ring'[setPos'[w]]
        BY <1>0, <2>1 DEF InRing
      <3>1. own[w] \in Conns
        BY <1>0 DEF Has, ServerInv, TypeOK
      <3>2. silent'[own[w]] = 0 /\ setPos'[w] = p
        BY <1>0, <3>1 DEF ServerInv, TypeOK
      <3>3. Back(silent[own[w]])' = Back(0)
        BY <1>0, <3>2 DEF Back
      <3> QED
        BY <1>1, <1>2, <3>2, <3>3
    <2>2. CASE v # w
      <3> SUFFICES ASSUME Serving(v)', Has(v, newfd[v])', Alone(v)'
                   PROVE  /\ silent'[own[v]] \in Slots
                          /\ setPos'[v] = Back(silent[own[v]])'
                          /\ newfd[v] \in ring'[setPos'[v]]
        BY <1>0 DEF InRing
      <3>1. Serving(v) /\ Has(v, newfd[v]) /\ Alone(v)
        BY <1>0, <2>2 DEF Serving, Has, Alone, ServerInv, TypeOK
      <3>2. own[v] \in Conns /\ newfd[v] \in Fds /\ newfd[v] # newfd[w] /\ setPos[v] \in Slots
        BY <2>2, <3>1 DEF Alone, Serving, Has, ServerInv, TypeOK, IdleWorkers
      <3>3. own[v] # own[w]
        BY <1>0, <3>2 DEF ServerInv, OneNumber, Numbered
      <3>4. silent'[own[v]] = silent[own[v]] /\ setPos'[v] = setPos[v]
        BY <1>0, <2>2, <3>3 DEF ServerInv, TypeOK
      <3>5. Back(silent[own[v]])' = Back(silent[own[v]])
        BY <1>0, <3>4 DEF Back
      <3>6. /\ silent[own[v]] \in Slots /\ setPos[v] = Back(silent[own[v]])
            /\ newfd[v] \in ring[setPos[v]]
        BY <3>1 DEF ServerInv, InRing
      <3>7. newfd[v] \in ring'[setPos[v]]
        BY <1>2, <3>2, <3>6
      <3> QED
        BY <3>4, <3>5, <3>6, <3>7
    <2> QED
      BY <2>1, <2>2
  <1> QED
    BY <1>3, <1>4, <1>5, <1>6, <1>7 DEF ServerInv

(* A worker closes its number, whoever has it: nobody else who holds the   *)
(* number has a client then.                                               *)
LEMMA LeaveServerKeeps ==
  ASSUME ServerInv, NEW w \in Workers, Leave(w)
  PROVE  ServerInv'
  <1>0. /\ pc[w] = "leave" /\ newfd[w] \in Fds
        /\ table' = [table EXCEPT ![newfd[w]] = None]
        /\ newfd' = [newfd EXCEPT ![w] = None] /\ own' = [own EXCEPT ![w] = None]
        /\ pc' = [pc EXCEPT ![w] = "pop"]
        /\ UNCHANGED <<client, queue, setPos, sock, ring, fdPointer, silent>>
    BY DEF ServerInv, IdleWorkers, Leave, Goto
  <1>1. TypeOK' /\ (silent \in [Conns -> Nat])'
    BY <1>0 DEF ServerInv, TypeOK
  <1>2. IdleWorkers' /\ NewAreUnknown'
    BY <1>0, BoundsAssumption DEF ServerInv, TypeOK, IdleWorkers, NewAreUnknown
  <1>3. OneNumber'
    <2>1. ASSUME NEW c \in Conns, NEW e \in Fds, Numbered(c, e)' PROVE Numbered(c, e)
      BY <1>0, <2>1, BoundsAssumption DEF ServerInv, TypeOK, Numbered
    <2> QED
      BY <2>1 DEF ServerInv, OneNumber
  <1>4. NobodyForgotten'
    <2>1. ASSUME NEW e \in Fds, table'[e] # None
          PROVE  Contains(queue, e) \/ \E v \in Workers : Has(v, e)'
      <3>1. e # newfd[w] /\ table'[e] = table[e]
        BY <1>0, <2>1 DEF ServerInv, TypeOK
      <3>2. CASE Contains(queue, e)
        BY <3>2
      <3>3. CASE \E v \in Workers : Has(v, e)
        <4>1. PICK v \in Workers : Has(v, e)
          BY <3>3
        <4>2. v # w
          BY <3>1, <4>1 DEF Has
        <4>3. Has(v, e)'
          BY <1>0, <3>1, <4>1, <4>2 DEF ServerInv, TypeOK, Has
        <4> QED
          BY <4>3
      <3> QED
        BY <2>1, <3>1, <3>2, <3>3 DEF ServerInv, NobodyForgotten
    <2> QED
      BY <1>0, <2>1 DEF NobodyForgotten
  <1>5. ASSUME NEW v \in Workers PROVE InRing(v)'
    <2>1. CASE v = w
      BY <1>0, <2>1 DEF ServerInv, TypeOK, InRing, Serving
    <2>2. CASE v # w /\ newfd[v] = newfd[w]
      BY <1>0, <2>2 DEF ServerInv, TypeOK, InRing, Has
    <2>3. CASE v # w /\ newfd[v] # newfd[w]
      <3>1. /\ own'[v] = own[v] /\ newfd'[v] = newfd[v] /\ pc'[v] = pc[v]
            /\ setPos' = setPos /\ ring' = ring /\ silent' = silent /\ fdPointer' = fdPointer
        BY <1>0, <2>3 DEF ServerInv, TypeOK
      <3>2. Alone(v)' => Alone(v)
        BY <1>0, <2>3 DEF ServerInv, TypeOK, Alone
      <3>3. Back(silent[own[v]])' = Back(silent[own[v]])
        BY <3>1 DEF Back
      <3>4. Has(v, newfd[v])' => Has(v, newfd[v])
        BY <1>0, <3>1 DEF Has, ServerInv, TypeOK
      <3> QED
        BY <3>1, <3>2, <3>3, <3>4 DEF ServerInv, InRing, Serving
    <2> QED
      BY <2>1, <2>2, <2>3
  <1> QED
    BY <1>1, <1>2, <1>3, <1>4, <1>5 DEF ServerInv

(* The slot after p, across the end of the ring.                           *)
LEMMA NextSlot ==
  ASSUME NEW p \in Slots
  PROVE  (p + 1) % (TimeOut + 1) = IF p = TimeOut THEN 0 ELSE p + 1
  <1>0. TimeOut \in Nat
    BY BoundsAssumption
  <1>1. CASE p = TimeOut
    BY <1>0, <1>1
  <1>2. CASE p # TimeOut
    <2>1. p + 1 \in 0..TimeOut /\ TimeOut + 1 \in Nat \ {0}
      BY <1>0, <1>2 DEF Slots
    <2> QED
      BY <2>1, <1>2, <1>0
  <1> QED
    BY <1>1, <1>2

(* The supervisor closes what is in its slot, and everyone else comes one  *)
(* slot nearer.                                                            *)
LEMMA SuperviseKeeps ==
  ASSUME ServerInv, Supervise
  PROVE  ServerInv'
  <1>0. /\ table' = [d \in Fds |-> IF d \in ring[fdPointer] THEN None ELSE table[d]]
        /\ ring' = [ring EXCEPT ![fdPointer] = {}]
        /\ fdPointer' = (IF fdPointer = TimeOut THEN 0 ELSE fdPointer + 1)
        /\ silent' = [c \in Conns |-> IF silent[c] < TimeOut + 2 THEN silent[c] + 1 ELSE silent[c]]
        /\ UNCHANGED <<client, queue, pc, newfd, setPos, own, sock>>
        /\ fdPointer \in Slots /\ TimeOut \in Nat
    BY NextSlot, BoundsAssumption DEF Supervise, node, ServerInv, TypeOK
  <1>1. TypeOK' /\ (silent \in [Conns -> Nat])'
    <2>1. fdPointer' \in Slots /\ ring' \in [Slots -> SUBSET Fds]
      BY <1>0 DEF ServerInv, TypeOK, Slots
    <2>2. table' \in [Fds -> Conns \union {None}] /\ silent' \in [Conns -> Nat]
      BY <1>0 DEF ServerInv, TypeOK
    <2> QED
      BY <1>0, <2>1, <2>2 DEF ServerInv, TypeOK
  <1>2. IdleWorkers' /\ NewAreUnknown'
    BY <1>0, BoundsAssumption DEF ServerInv, TypeOK, IdleWorkers, NewAreUnknown
  <1>3. OneNumber'
    <2>1. ASSUME NEW c \in Conns, NEW e \in Fds, Numbered(c, e)' PROVE Numbered(c, e)
      BY <1>0, <2>1, BoundsAssumption DEF ServerInv, TypeOK, Numbered
    <2> QED
      BY <2>1 DEF ServerInv, OneNumber
  <1>4. NobodyForgotten'
    BY <1>0 DEF ServerInv, NobodyForgotten, Contains, Has
  <1>5. ASSUME NEW w \in Workers PROVE InRing(w)'
    <2> SUFFICES ASSUME Serving(w)', Has(w, newfd[w])', Alone(w)'
                 PROVE  /\ silent'[own[w]] \in Slots
                        /\ setPos[w] = Back(silent[own[w]])'
                        /\ newfd[w] \in ring'[setPos[w]]
      BY <1>0 DEF InRing
    <2>1. Serving(w) /\ Alone(w)
      BY <1>0 DEF Serving, Alone
    <2>2. newfd[w] \in Fds /\ setPos[w] \in Slots
      BY <2>1 DEF Serving, ServerInv, TypeOK, IdleWorkers
    <2>3. newfd[w] \notin ring[fdPointer] /\ Has(w, newfd[w]) /\ own[w] \in Conns
      BY <1>0, <2>2 DEF Has, ServerInv, TypeOK
    <2>4. PICK k \in Slots : /\ k = silent[own[w]] /\ setPos[w] = Back(k)
                             /\ newfd[w] \in ring[setPos[w]]
      BY <2>1, <2>3 DEF ServerInv, InRing
    <2>5. Back(k) # fdPointer
      BY <2>3, <2>4
    <2>6. k # TimeOut
      BY <1>0, <2>5 DEF Back, Slots
    <2>7. silent'[own[w]] = k + 1 /\ k + 1 \in Slots
      BY <1>0, <2>3, <2>4, <2>6 DEF Slots
    <2>8. Back(silent[own[w]])' = Back(k)
      <3>1. Back(silent[own[w]])' = IF k + 1 < fdPointer' THEN fdPointer' - 1 - (k + 1)
                                    ELSE fdPointer' + TimeOut - (k + 1)
        BY <1>0, <2>7 DEF Back
      <3> QED
        BY <1>0, <2>6, <3>1 DEF Back, Slots
    <2>9. ring'[setPos[w]] = ring[setPos[w]]
      BY <1>0, <2>2, <2>4, <2>5 DEF ServerInv, TypeOK
    <2> QED
      BY <2>4, <2>7, <2>8, <2>9
  <1> QED
    BY <1>1, <1>2, <1>3, <1>4, <1>5 DEF ServerInv

(* Every step of the server and its clients keeps it.                      *)
LEMMA ServerNext ==
  ASSUME ServerInv, Next
  PROVE  ServerInv'
  BY AcceptKeeps, ClientsKeep, PopServerKeeps, TalkKeeps, PutKeeps, LeaveServerKeeps,
     SuperviseKeeps DEF Next, WorkerStep
-----------------------------------------------------------------------------
(* Logins.                                                                 *)

(* People log in with registered names and do not leave while they         *)
(* register (Known); no name is empty, and nobody's salt is the one        *)
(* threadFunc makes up for a row without salt.                             *)
PlainPeople == Known /\ "" \notin UserNames /\ {"", L!Default} \cap People = {}

(* The places of threadFunc.                                               *)
LoginPlace == {"pop", "choose", "name", "password", "again", "served",
               "newName", "otherName", "newPassword", "home"}

(* What crypt makes of a person's password and salt.                       *)
Hashes == {L!Crypt(p, p) : p \in People}

(* A row is some person's.                                                 *)
RowsOK == L!TypeOK /\ \A r \in rows : r[3] \in Hashes

(* What the client has typed is a name and a password, or nothing.         *)
Typed == (UserNames \union {""}) \X (People \union {L!Wrong, ""})

(* The worker's variables. What is in buf1 is nothing or the hash of some  *)
(* row, perhaps of an earlier client's.                                    *)
BuffersOK ==
  /\ lpc \in [Logins -> LoginPlace]
  /\ userName \in [Logins -> UserNames \union {L!Garbled, ""}]
  /\ salt \in [Logins -> People \union {L!Default, ""}]
  /\ buf1 \in [Logins -> Hashes \union {L!Empty}]
  /\ DOMAIN buf = Logins
  /\ typed \in [Logins -> Typed]

(* Between the choice and a password the client is there, and between a    *)
(* name and the home it is the name registered.                            *)
Present(w) ==
  /\ lpc[w] \in {"name", "newName", "otherName", "newPassword", "home"} => who[w] \in People
  /\ lpc[w] \in {"newPassword", "home"} => userName[w] \in UserNames \union {L!Garbled}

(* Past the name, the salt the client has been sent is that of a row of    *)
(* the name it has typed, or made up.                                      *)
Salted(w) ==
  lpc[w] \in {"password", "again", "served"} =>
     /\ typed[w][1] = userName[w]
     /\ salt[w] = L!Default \/ \E r \in L!RowsOf(userName[w]) : r[2] = salt[w]

(* Authenticated for one worker.                                           *)
Proved(w) ==
  lpc[w] = "served" /\ who[w] # "" =>
     \E r \in L!RowsOf(userName[w]) : r[3] = L!Crypt(typed[w][2], r[2])

LoginInv == RowsOK /\ BuffersOK /\ \A w \in Logins : Present(w) /\ Salted(w) /\ Proved(w)

LEMMA LoginInit == L!Init => LoginInv
  <1> SUFFICES ASSUME L!Init PROVE LoginInv
    OBVIOUS
  <1>1. RowsOK
    BY DEF L!Init, RowsOK, L!TypeOK, L!Nobody
  <1>2. BuffersOK
    BY DEF L!Init, BuffersOK, LoginPlace, Typed
  <1>3. \A w \in Logins : Present(w) /\ Salted(w) /\ Proved(w)
    BY DEF L!Init, Present, Salted, Proved
  <1> QED
    BY <1>1, <1>2, <1>3 DEF LoginInv

(* A step of w that adds rows at most leaves the others as they are.       *)
LEMMA OthersKeep ==
  ASSUME NEW w \in Logins, rows \subseteq rows',
         \A v \in Logins \ {w} :
           /\ lpc'[v] = lpc[v] /\ who'[v] = who[v] /\ userName'[v] = userName[v]
           /\ salt'[v] = salt[v] /\ typed'[v] = typed[v],
         LoginInv, RowsOK', BuffersOK', 
         Present(w)', Salted(w)', Proved(w)'
  PROVE  LoginInv'
  <1>1. ASSUME NEW v \in Logins \ {w} PROVE Present(v)' /\ Salted(v)' /\ Proved(v)'
    <2>1. Present(v) /\ Salted(v) /\ Proved(v)
      BY DEF LoginInv
    <2>2. \A n : L!RowsOf(n) \subseteq L!RowsOf(n)'
      BY DEF L!RowsOf
    <2>3. L!RowsOf(userName[v]) \subseteq L!RowsOf(userName[v])'
      BY DEF L!RowsOf
    <2> QED
      BY <2>1, <2>3 DEF Present, Salted, Proved
  <1> QED
    BY <1>1 DEF LoginInv

LEMMA PopKeeps ==
  ASSUME LoginInv, NEW w \in Logins, L!Pop(w)
  PROVE LoginInv'
  <1> USE DEF LoginInv, L!Pop, L!Goto, L!data, L!locals
  <1>1. RowsOK'
    BY DEF RowsOK, L!TypeOK, L!Nobody
  <1>2. BuffersOK'
    <2>1. <<"", "">> \in Typed /\ "choose" \in LoginPlace
      BY DEF Typed, LoginPlace
    <2> QED
      BY <2>1, ZenonT(60) DEF BuffersOK
  <1>3. Present(w)' /\ Salted(w)' /\ Proved(w)'
    BY DEF BuffersOK, Present, Salted, Proved
  <1>4. /\ rows \subseteq rows'
        /\ \A v \in Logins \ {w} :
           /\ lpc'[v] = lpc[v] /\ who'[v] = who[v] /\ userName'[v] = userName[v]
           /\ salt'[v] = salt[v] /\ typed'[v] = typed[v]
    BY DEF RowsOK, BuffersOK, L!TypeOK
  <1> HIDE DEF LoginInv, L!Pop
  <1> QED
    BY <1>1, <1>2, <1>3, <1>4, OthersKeep
(* The client leaves, or chooses.                                          *)
LEMMA LeaveKeeps ==
  ASSUME LoginInv, NEW w \in Logins, L!Leave(w)
  PROVE LoginInv'
  <1> USE DEF LoginInv, L!Leave, L!Goto, L!data, L!locals
  <1>1. RowsOK'
    BY DEF RowsOK, L!TypeOK, L!Nobody
  <1>2. BuffersOK'
    BY DEF BuffersOK, LoginPlace, Typed
  <1>3. Present(w)' /\ Salted(w)' /\ Proved(w)'
    BY DEF BuffersOK, Present, Salted, Proved
  <1>4. /\ rows \subseteq rows'
        /\ \A v \in Logins \ {w} :
           /\ lpc'[v] = lpc[v] /\ who'[v] = who[v] /\ userName'[v] = userName[v]
           /\ salt'[v] = salt[v] /\ typed'[v] = typed[v]
    BY DEF RowsOK, BuffersOK, L!TypeOK
  <1> HIDE DEF LoginInv, L!Leave
  <1> QED
    BY <1>1, <1>2, <1>3, <1>4, OthersKeep

LEMMA ChooseKeeps ==
  ASSUME LoginInv, NEW w \in Logins, L!Choose(w)
  PROVE LoginInv'
  <1> USE DEF LoginInv, L!Choose, L!Goto, L!data, L!locals
  <1>1. RowsOK'
    BY DEF RowsOK, L!TypeOK
  <1>2. BuffersOK'
    BY DEF BuffersOK, LoginPlace, Typed
  <1>3. Present(w)' /\ Salted(w)' /\ Proved(w)'
    BY DEF RowsOK, L!TypeOK, BuffersOK, Present, Salted, Proved
  <1>4. /\ rows \subseteq rows'
        /\ \A v \in Logins \ {w} :
           /\ lpc'[v] = lpc[v] /\ who'[v] = who[v] /\ userName'[v] = userName[v]
           /\ salt'[v] = salt[v] /\ typed'[v] = typed[v]
    BY DEF RowsOK, BuffersOK, L!TypeOK
  <1> HIDE DEF LoginInv, L!Choose
  <1> QED
    BY <1>1, <1>2, <1>3, <1>4, OthersKeep

(* A name that is registered: the salt is that of one of its rows, or made *)
(* up when the statement fails.                                            *)
LEMMA LoginNameKeeps ==
  ASSUME PlainPeople, LoginInv, NEW w \in Logins, L!LoginName(w)
  PROVE LoginInv'
  <1>1. PICK n : /\ n \in L!Input(w, {r[1] : r \in rows} \intersect UserNames)
                 /\ L!LoginNameAs(w, n)
    BY DEF L!LoginName, PlainPeople
  <1>2. lpc[w] = "name" /\ who[w] \in People /\ n \in UserNames /\ n # "" /\ L!RowsOf(n) # {}
    <2>1. lpc[w] = "name" /\ who[w] \in People
      BY <1>1 DEF L!LoginNameAs, LoginInv, Present
    <2> QED
      BY <1>1, <2>1 DEF PlainPeople, L!Input, L!RowsOf, L!Nobody
  <1>3. PICK s \in People \union {L!Default} :
           /\ salt' = [salt EXCEPT ![w] = s]
           /\ s = L!Default \/ \E r \in L!RowsOf(n) : r[2] = s
    <2>1. PICK x : x \in L!SingleSelect(n, 2, "") /\ salt' = [salt EXCEPT ![w] = IF x = "" THEN L!Default ELSE x]
      BY <1>1, <1>2 DEF L!LoginNameAs, L!ReadsNull
    <2>2. x = "" \/ \E r \in L!RowsOf(n) : r[2] = x
      BY <2>1 DEF L!SingleSelect
    <2>3. \A r \in L!RowsOf(n) : r[2] \in People
      BY DEF LoginInv, RowsOK, L!TypeOK, L!RowsOf
    <2>4. CASE x = ""
      BY <2>1, <2>4
    <2>5. CASE x # ""
      BY <2>1, <2>2, <2>3, <2>5
    <2> QED
      BY <2>4, <2>5
  <1>4. /\ lpc' = [lpc EXCEPT ![w] = "password"] /\ who' = who
        /\ userName' = [userName EXCEPT ![w] = n]
        /\ typed' = [typed EXCEPT ![w] = <<n, @[2]>>]
        /\ UNCHANGED <<rows, homes, buf, buf1, lfault>>
    <2>1. who' = [who EXCEPT ![w] = who[w]]
      BY <1>1, <1>2 DEF L!LoginNameAs, L!Stays
    <2>2. who' = who
      BY <2>1 DEF LoginInv, RowsOK, L!TypeOK
    <2> QED
      BY <1>1, <1>2, <2>2 DEF L!LoginNameAs, L!ReadsNull, L!Goto, L!data
  <1>5. RowsOK'
    BY <1>4 DEF LoginInv, RowsOK, L!TypeOK
  <1>6. <<n, typed[w][2]>> \in Typed
    BY <1>2 DEF LoginInv, BuffersOK, Typed
  <1>7. BuffersOK'
    BY <1>2, <1>3, <1>4, <1>6 DEF LoginInv, BuffersOK, LoginPlace
  <1>8. Present(w)' /\ Salted(w)' /\ Proved(w)'
    <2>1. /\ lpc'[w] = "password" /\ userName'[w] = n /\ typed'[w][1] = n /\ salt'[w] = s
          /\ L!RowsOf(n)' = L!RowsOf(n)
      BY <1>3, <1>4 DEF LoginInv, BuffersOK, L!RowsOf
    <2>2. \E r \in L!RowsOf(n)' : s = L!Default \/ r[2] = s
      BY <1>2, <1>3, <2>1
    <2> QED
      BY <1>3, <2>1 DEF Present, Salted, Proved, L!RowsOf
  <1>9. /\ rows \subseteq rows'
        /\ \A v \in Logins \ {w} :
           /\ lpc'[v] = lpc[v] /\ who'[v] = who[v] /\ userName'[v] = userName[v]
           /\ salt'[v] = salt[v] /\ typed'[v] = typed[v]
    BY <1>3, <1>4 DEF LoginInv, RowsOK, BuffersOK, L!TypeOK
  <1> QED
    BY <1>5, <1>7, <1>8, <1>9, OthersKeep

(* A password that is compared with a row's hash, whosever it is, is the   *)
(* password of a row of the name: its salt is in both.                     *)
LEMMA HashProves ==
  ASSUME PlainPeople, LoginInv, NEW w \in Logins, lpc[w] \in {"password", "again"},
         NEW password, password # "",
         L!Secret(w, password) \in Hashes \union {L!Empty}
  PROVE  \E r \in L!RowsOf(userName[w]) : r[3] = L!Crypt(password, r[2])
  <1>1. L!Secret(w, password) = <<password, salt[w]>>
    BY DEF L!Secret, L!Crypt
  <1>2. PICK p \in People : <<password, salt[w]>> = <<p, p>>
    <2>1. <<password, salt[w]>> # <<>>
      OBVIOUS
    <2> QED
      BY <1>1, <2>1 DEF Hashes, L!Crypt, L!Empty
  <1>3. password = p /\ salt[w] = p
    BY <1>2
  <1>4. PICK r \in L!RowsOf(userName[w]) : r[2] = p
    BY <1>3 DEF PlainPeople, LoginInv, Salted
  <1>5. r[3] = L!Crypt(r[2], r[2])
    BY DEF LoginInv, RowsOK, L!TypeOK, L!RowsOf
  <1> QED
    BY <1>3, <1>4, <1>5
(* The client's secret, with the stored one in buf1.                       *)
LEMMA SecretKeeps ==
  ASSUME PlainPeople, LoginInv, NEW w \in Logins, lpc[w] \in {"password", "again"},
         NEW password \in People \union {L!Wrong, ""}, NEW stored \in Hashes \union {L!Empty},
         NEW l \in LoginPlace \ {"name", "newName", "otherName", "newPassword", "home"},
         lpc' = [lpc EXCEPT ![w] = l],
         l = "served" => L!Secret(w, password) = stored,
         \/ who' = [who EXCEPT ![w] = IF password = "" THEN "" ELSE @]
         \/ l = "pop" /\ who' = [who EXCEPT ![w] = ""],
         buf' = [buf EXCEPT ![w] = L!Secret(w, password)],
         buf1' = [buf1 EXCEPT ![w] = stored],
         typed' = [typed EXCEPT ![w] = <<@[1], password>>],
         UNCHANGED <<rows, homes, userName, salt, lfault>>
  PROVE  LoginInv'
  <1>1. RowsOK'
    BY DEF LoginInv, RowsOK, L!TypeOK, L!Nobody
  <1>2. <<typed[w][1], password>> \in Typed
    BY DEF LoginInv, BuffersOK, Typed
  <1>3. BuffersOK'
    BY <1>2 DEF LoginInv, BuffersOK
  <1>4. /\ lpc'[w] = l /\ typed'[w][1] = typed[w][1] /\ typed'[w][2] = password
        /\ who'[w] # "" => password # "" \/ l = "pop"
    BY DEF LoginInv, BuffersOK, RowsOK, L!TypeOK
  <1>5. \A n : L!RowsOf(n)' = L!RowsOf(n)
    BY DEF L!RowsOf
  <1>6. L!RowsOf(userName[w])' = L!RowsOf(userName[w])
    BY DEF L!RowsOf
  <1>7. Present(w)' /\ Salted(w)'
    BY <1>4, <1>6, ZenonT(60) DEF LoginInv, Present, Salted
  <1>8. Proved(w)'
    <2>1. CASE l = "served" /\ password # ""
      <3>1. \E r \in L!RowsOf(userName[w]) : r[3] = L!Crypt(password, r[2])
        BY <2>1, HashProves, ZenonT(60)
      <3> QED
        BY <1>4, <1>6, <3>1 DEF Proved
    <2> QED
      BY <1>4, <2>1 DEF Proved
  <1>9. /\ rows \subseteq rows'
        /\ \A v \in Logins \ {w} :
           /\ lpc'[v] = lpc[v] /\ who'[v] = who[v] /\ userName'[v] = userName[v]
           /\ salt'[v] = salt[v] /\ typed'[v] = typed[v]
    BY DEF LoginInv, RowsOK, BuffersOK, L!TypeOK
  <1> QED
    BY <1>1, <1>3, <1>7, <1>8, <1>9, OthersKeep

(* What people type for a password.                                        *)
LEMMA PasswordType ==
  ASSUME LoginInv, NEW w \in Logins
  PROVE  L!Passwords(w) \subseteq People \union {L!Wrong, ""}
  BY DEF L!Passwords, LoginInv, RowsOK, L!TypeOK, L!Nobody

(* The first password.                                                     *)
LEMMA LoginPasswordKeeps ==
  ASSUME PlainPeople, LoginInv, NEW w \in Logins, L!LoginPassword(w)
  PROVE LoginInv'
  <1>1. PICK password \in L!Passwords(w), stored \in L!SingleSelect(userName[w], 3, buf1[w]) :
          /\ lpc[w] = "password"
          /\ who' = [who EXCEPT ![w] = IF password = "" THEN "" ELSE @]
          /\ buf' = [buf EXCEPT ![w] = L!Secret(w, password)]
          /\ buf1' = [buf1 EXCEPT ![w] = stored]
          /\ typed' = [typed EXCEPT ![w] = <<@[1], password>>]
          /\ IF buf'[w] = stored THEN lpc' = [lpc EXCEPT ![w] = "served"]
             ELSE lpc' = [lpc EXCEPT ![w] = "again"]
          /\ UNCHANGED <<rows, homes, userName, salt, lfault>>
    BY DEF L!LoginPassword, L!Stays, L!Nobody, L!LoggedIn, L!Goto, L!data
  <1>2. stored \in Hashes \union {L!Empty}
    <2>1. L!RowsOf(userName[w]) \subseteq rows
      BY DEF L!RowsOf
    <2> QED
      BY <1>1, <2>1, ZenonT(60) DEF L!SingleSelect, LoginInv, RowsOK, BuffersOK
  <1>3. password \in People \union {L!Wrong, ""} /\ buf'[w] = L!Secret(w, password)
    BY <1>1, PasswordType DEF LoginInv, BuffersOK
  <1>4. CASE buf'[w] = stored
    BY <1>1, <1>2, <1>3, <1>4, SecretKeeps DEF LoginPlace
  <1>5. CASE buf'[w] # stored
    BY <1>1, <1>2, <1>3, <1>5, SecretKeeps DEF LoginPlace
  <1> QED
    BY <1>4, <1>5

(* The second.                                                             *)
LEMMA AgainKeeps ==
  ASSUME PlainPeople, LoginInv, NEW w \in Logins, L!Again(w)
  PROVE LoginInv'
  <1>1. PICK password \in L!Passwords(w) :
          /\ lpc[w] = "again"
          /\ buf' = [buf EXCEPT ![w] = L!Secret(w, password)]
          /\ typed' = [typed EXCEPT ![w] = <<@[1], password>>]
          /\ IF buf'[w] = buf1[w]
             THEN /\ lpc' = [lpc EXCEPT ![w] = "served"]
                  /\ who' = [who EXCEPT ![w] = IF password = "" THEN "" ELSE @]
             ELSE lpc' = [lpc EXCEPT ![w] = "pop"] /\ who' = [who EXCEPT ![w] = ""]
          /\ UNCHANGED <<rows, homes, userName, salt, buf1, lfault>>
    BY DEF L!Again, L!Stays, L!Nobody, L!LoggedIn, L!Goto, L!data
  <1>2. /\ buf1[w] \in Hashes \union {L!Empty} /\ buf1' = [buf1 EXCEPT ![w] = buf1[w]]
        /\ password \in People \union {L!Wrong, ""} /\ buf'[w] = L!Secret(w, password)
    BY <1>1, PasswordType DEF LoginInv, BuffersOK
  <1>3. CASE buf'[w] = buf1[w]
    <2>1. /\ L!Secret(w, password) = buf1[w]
          /\ lpc' = [lpc EXCEPT ![w] = "served"]
          /\ who' = [who EXCEPT ![w] = IF password = "" THEN "" ELSE @]
      BY <1>1, <1>2, <1>3
    <2>2. "served" \in LoginPlace \ {"name", "newName", "otherName", "newPassword", "home"}
      BY DEF LoginPlace
    <2> QED
      BY <1>1, <1>2, <2>1, <2>2, SecretKeeps
  <1>4. CASE buf'[w] # buf1[w]
    BY <1>1, <1>2, <1>4, SecretKeeps DEF LoginPlace
  <1> QED
    BY <1>3, <1>4

(* A new name.                                                             *)
LEMMA NewNameKeeps ==
  ASSUME PlainPeople, LoginInv, NEW w \in Logins, L!NewName(w)
  PROVE LoginInv'
  <1>1. PICK n \in L!Input(w, UserNames) :
          LET name == L!Received(w, n)
          IN /\ lpc[w] \in {"newName", "otherName"}
             /\ L!Stays(w, n)
             /\ buf' = [buf EXCEPT ![w] = L!Text(name)]
             /\ typed' = [typed EXCEPT ![w] = <<n, @[2]>>]
             /\ \/ /\ L!Goto(w, "otherName")
                   /\ UNCHANGED <<userName, lfault>>
                \/ /\ userName' = [userName EXCEPT ![w] = name]
                   /\ L!Goto(w, "newPassword")
                   /\ lfault' \in {lfault, "overflow"}
             /\ UNCHANGED <<rows, homes, salt, buf1>>
    BY DEF L!NewName, L!data
  <1>2. who[w] \in People /\ n \in UserNames /\ n # "" /\ L!Received(w, n) \in UserNames \union {L!Garbled}
    <2>1. who[w] \in People
      BY <1>1 DEF LoginInv, Present
    <2> QED
      BY <1>1, <2>1 DEF PlainPeople, L!Input, L!Nobody, L!Received
  <1>3. who' = who
    BY <1>1, <1>2 DEF L!Stays, LoginInv, RowsOK, L!TypeOK
  <1>4. RowsOK'
    BY <1>1, <1>3 DEF LoginInv, RowsOK, L!TypeOK
  <1>5. <<n, typed[w][2]>> \in Typed
    BY <1>2 DEF LoginInv, BuffersOK, Typed
  <1>6. PICK name \in UserNames \union {L!Garbled} : name = L!Received(w, n)
    BY <1>2
  <1>7. CASE L!Goto(w, "otherName") /\ UNCHANGED <<userName, lfault>>
    <2>1. BuffersOK'
      BY <1>1, <1>5, <1>7 DEF LoginInv, BuffersOK, LoginPlace, L!Goto
    <2>2. Present(w)' /\ Salted(w)' /\ Proved(w)'
      BY <1>2, <1>3, <1>7 DEF LoginInv, BuffersOK, L!Goto, Present, Salted, Proved
    <2>3. /\ rows \subseteq rows'
          /\ \A v \in Logins \ {w} :
             /\ lpc'[v] = lpc[v] /\ who'[v] = who[v] /\ userName'[v] = userName[v]
             /\ salt'[v] = salt[v] /\ typed'[v] = typed[v]
      BY <1>1, <1>3, <1>7 DEF LoginInv, RowsOK, BuffersOK, L!TypeOK, L!Goto
    <2> QED
      BY <1>4, <2>1, <2>2, <2>3, OthersKeep
  <1>8. CASE userName' = [userName EXCEPT ![w] = name] /\ L!Goto(w, "newPassword")
    <2>1. BuffersOK'
      BY <1>1, <1>5, <1>8 DEF LoginInv, BuffersOK, LoginPlace, L!Goto
    <2>2. Present(w)' /\ Salted(w)' /\ Proved(w)'
      BY <1>2, <1>3, <1>8 DEF LoginInv, BuffersOK, L!Goto, Present, Salted, Proved
    <2>3. /\ rows \subseteq rows'
          /\ \A v \in Logins \ {w} :
             /\ lpc'[v] = lpc[v] /\ who'[v] = who[v] /\ userName'[v] = userName[v]
             /\ salt'[v] = salt[v] /\ typed'[v] = typed[v]
      BY <1>1, <1>3, <1>8 DEF LoginInv, RowsOK, BuffersOK, L!TypeOK, L!Goto
    <2> QED
      BY <1>4, <2>1, <2>2, <2>3, OthersKeep
  <1> QED
    BY <1>1, <1>6, <1>7, <1>8

(* A new row, or none.                                                     *)
LEMMA NewPasswordKeeps ==
  ASSUME PlainPeople, LoginInv, NEW w \in Logins, L!NewPassword(w)
  PROVE LoginInv'
  <1>1. who[w] \in People /\ userName[w] \in UserNames \union {L!Garbled} /\ who[w] # L!Nobody
    BY DEF LoginInv, Present, L!NewPassword, PlainPeople, L!Nobody
  <1>2. PICK p \in People : p = who[w]
    BY <1>1
  <1>3. /\ salt' = [salt EXCEPT ![w] = p]
        /\ rows' \in {rows, rows \union {<<userName[w], p, L!Crypt(p, p)>>}}
        /\ lpc[w] = "newPassword" /\ lpc' = [lpc EXCEPT ![w] = "home"]
        /\ UNCHANGED <<homes, who, userName, buf, buf1, typed, lfault>>
    BY <1>1, <1>2 DEF L!NewPassword, L!Goto
  <1>4. RowsOK'
    <2>1. L!TypeOK'
      BY <1>1, <1>3 DEF LoginInv, RowsOK, L!TypeOK
    <2>2. L!Crypt(p, p) \in Hashes
      BY DEF Hashes
    <2>3. ASSUME NEW r \in rows' PROVE r[3] \in Hashes
      BY <1>3, <2>2, <2>3 DEF LoginInv, RowsOK
    <2> QED
      BY <2>1, <2>3 DEF RowsOK
  <1>5. BuffersOK'
    BY <1>3 DEF LoginInv, BuffersOK, LoginPlace
  <1>6. Present(w)' /\ Salted(w)' /\ Proved(w)'
    BY <1>1, <1>3 DEF LoginInv, BuffersOK, Present, Salted, Proved
  <1>7. /\ rows \subseteq rows'
        /\ \A v \in Logins \ {w} :
           /\ lpc'[v] = lpc[v] /\ who'[v] = who[v] /\ userName'[v] = userName[v]
           /\ salt'[v] = salt[v] /\ typed'[v] = typed[v]
    BY <1>3 DEF LoginInv, RowsOK, BuffersOK, L!TypeOK
  <1> QED
    BY <1>4, <1>5, <1>6, <1>7, OthersKeep

(* The directory.                                                          *)
LEMMA MakeHomeKeeps ==
  ASSUME LoginInv, NEW w \in Logins, L!MakeHome(w)
  PROVE LoginInv'
  <1> USE DEF LoginInv, L!MakeHome, L!Goto
  <1>1. RowsOK'
    BY DEF RowsOK, L!TypeOK, Present
  <1>2. BuffersOK'
    BY DEF BuffersOK, LoginPlace
  <1>3. Present(w)' /\ Salted(w)' /\ Proved(w)'
    BY DEF BuffersOK, Present, Salted, Proved
  <1>4. /\ rows \subseteq rows'
        /\ \A v \in Logins \ {w} :
           /\ lpc'[v] = lpc[v] /\ who'[v] = who[v] /\ userName'[v] = userName[v]
           /\ salt'[v] = salt[v] /\ typed'[v] = typed[v]
    BY DEF RowsOK, BuffersOK, L!TypeOK
  <1> HIDE DEF LoginInv, L!MakeHome
  <1> QED
    BY <1>1, <1>2, <1>3, <1>4, OthersKeep

(* Every step of the dialogues keeps it.                                   *)
LEMMA LoginNext ==
  ASSUME PlainPeople, LoginInv, L!Next
  PROVE LoginInv'
  <1>1. PICK w \in Logins :
             \/ L!Pop(w) \/ L!Choose(w) \/ L!Leave(w)
             \/ L!LoginName(w) \/ L!LoginPassword(w) \/ L!Again(w)
             \/ L!NewName(w) \/ L!NewPassword(w) \/ L!MakeHome(w)
    BY DEF L!Next
  <1> QED
    BY <1>1, PopKeeps, ChooseKeeps, LeaveKeeps, LoginNameKeeps, LoginPasswordKeeps,
       AgainKeeps, NewNameKeeps, NewPasswordKeeps, MakeHomeKeeps

(* What is in hand.                                                        *)
LEMMA LoginStutter ==
  ASSUME LoginInv, UNCHANGED lvars
  PROVE LoginInv'
  BY ZenonT(60)
  DEF lvars, LoginInv, RowsOK, L!TypeOK, L!Nobody, BuffersOK, Present, Salted, Proved, L!RowsOf

-----------------------------------------------------------------------------
(* Commands: who speaks with whom.                                         *)

(* No file has the name of a command or of the directory itself, and the   *)
(* stat buffer never holds what is neither file nor directory.             *)
PlainNames == Names \cap (C!Ops \union {".", ".."}) = {} /\ "other" \notin Garbage /\ ~Large
              /\ Depth \in Nat \ {0}

(* The words of a command, and what else a client sends.                   *)
Command == ((C!Ops \ {"cd"}) \X Names) \union ({"cd"} \X (Names \union {".", ".."}))
           \union ({"cd"} \X Names \X {"/"})
Word == Command \union {<<n>> : n \in Names \union {"hash"}}
Sent == {C!Str(x) : x \in Word} \union {C!Number(i) : i \in {-1, 0, 1}}
        \union {C!Long, C!File}

(* What a worker sends.                                                    *)
Reply == {C!Str(x) : x \in Seq(Names)} \union {C!Number(i) : i \in {-1, 0, 1, 2}}
         \union {C!Byte(b) : b \in {0, 1}} \union {C!Long, C!File}

(* The places of the worker and of the client, and the places one of them  *)
(* is at for the other: "sent" and "asks" are those of a client that will  *)
(* send when it hears the answer under way, "mkdirRead" is that of a       *)
(* worker at mkdir whose next word is the operand.                         *)
WorkerPlace == C!Ops \union
  {"recv", "gone", "lsEntry", "putsName", "putsHash", "putsCheck", "link", "recvFile",
   "getsHere", "getsSize", "transFile", "rmdir", "rmfile", "rmlink", "makeDir"}
ClientPlace == C!Ops \union {"prompt", "gone", "lsName", "lsSize", "putsSize", "getsFile"}
Spot == WorkerPlace \union ClientPlace \union {"sent", "asks", "mkdirRead", "nowhere"}

(* The worker at m reads x and is at n.                                    *)
Takes(m, x, n) ==
  \/ m = "recv" /\ x[1] = "str" /\ x[2][1] \in C!Ops /\ n = x[2][1]
  \/ m = "recv" /\ x[1] = "str" /\ x[2][1] \notin C!Ops /\ n = "recv"
  \/ m = "puts" /\ x[1] = "int" /\ n = IF x[2] = -1 THEN "recv" ELSE "putsName"
  \/ m = "putsName" /\ x[1] = "str" /\ n = "putsHash"
  \/ m = "putsHash" /\ x[1] = "str" /\ n = "putsCheck"
  \/ m = "recvFile" /\ x = C!File /\ n = "recv"
  \/ m = "getsHere" /\ x[1] = "int" /\ n = IF x[2] = 1 THEN "getsSize" ELSE "transFile"
  \/ m = "getsSize" /\ x[1] = "long" /\ n = "transFile"
  \/ m = "mkdir" /\ x[1] = "str" /\ x[2][1] \notin C!Ops /\ n = "mkdirRead"

(* The client at m reads x and is at n.                                    *)
Hears(m, x, n) ==
  \/ m \in {"cd", "remove", "mkdir"} /\ x[1] = "int" /\ n = "prompt"
  \/ m = "pwd" /\ x[1] = "str" /\ n = "prompt"
  \/ m = "ls" /\ x[1] = "byte" /\ n = IF x[2] = 0 THEN "prompt" ELSE "lsName"
  \/ m = "lsName" /\ x[1] = "str" /\ n = "lsSize"
  \/ m = "lsSize" /\ x[1] = "long" /\ n = "ls"
  \/ m = "puts" /\ x[1] = "int"
     /\ n = IF x[2] = 1 THEN "putsSize" ELSE IF x[2] = 0 THEN "sent" ELSE "prompt"
  \/ m = "putsSize" /\ x[1] = "long" /\ n = "sent"
  \/ m = "gets" /\ x[1] = "int" /\ n = IF x[2] = 1 THEN "asks" ELSE "prompt"
  \/ m = "getsFile" /\ x[1] = "file" /\ n = "prompt"

Taking == {t \in Spot \X Sent \X Spot : Takes(t[1], t[2], t[3])}
Hearing == {t \in Spot \X Reply \X Spot : Hears(t[1], t[2], t[3])}

(* Who is at m is at e when it has read the items of s.                    *)
Walk(T, m, s, e) ==
  \E q \in [1 .. Len(s) + 1 -> Spot] :
    /\ q[1] = m
    /\ q[Len(s) + 1] = e
    /\ \A i \in 1 .. Len(s) : <<q[i], s[i], q[i + 1]>> \in T

(* Where a worker at l reads next.                                         *)
Reads(l) ==
  IF l \in {"gone", "link", "makeDir", "rmdir", "rmfile", "rmlink"} THEN "recv"
  ELSE IF l = "lsEntry" THEN "ls" ELSE l

(* Where a client at c needs the worker to be.                             *)
Want(c) ==
  CASE c = "prompt" -> "recv"
    [] c \in {"cd", "remove", "pwd", "ls", "gets"} -> c
    [] c = "mkdir" -> "mkdirRead"
    [] c = "puts" -> "putsCheck"
    [] c = "getsFile" -> "transFile"
    [] c = "sent" -> "recvFile"
    [] c = "asks" -> "getsHere"
    [] OTHER -> "nowhere"

(* A client at c and a worker at l, with u and d between them, understand  *)
(* each other: when both have read everything the worker is where the      *)
(* client needs it.                                                        *)
Talk(c, l, u, d) ==
  IF c = "gone" THEN \E e \in Spot : Walk(Taking, Reads(l), u, e)
  ELSE \E e \in Spot : Walk(Hearing, c, d, e) /\ Walk(Taking, Reads(l), u, Want(e))

Dialogue(s) == Talk(cpc[s], wpc[s], up[s], down[s])

(* The directories stay within the bound, also that which a cd under way   *)
(* names; readdir gives names.                                             *)
Below(s, word) == word[1] = "cd" /\ word[2] \in Names => Len(cur[s]) + 2 <= Depth
Bounded(s) ==
  /\ Len(cur[s]) < Depth
  /\ wpc[s] \notin {"recv", "gone"} => wcmd[s] \in Command
  /\ wpc[s] \in C!Ops => wpc[s] = wcmd[s][1]
  /\ wpc[s] = "cd" => Below(s, wcmd[s])
  /\ \A i \in 1 .. Len(up[s]) : up[s][i][1] = "str" => Below(s, up[s][i][2])

CommandTypes ==
  /\ tree \in [C!Paths -> {"none", "file", "dir"}]
  /\ cur \in [Sessions -> C!Paths]
  /\ cpc \in [Sessions -> ClientPlace] /\ wpc \in [Sessions -> WorkerPlace]
  /\ DOMAIN wcmd = Sessions /\ entries \in [Sessions -> SUBSET Names]
  /\ up \in [Sessions -> Seq(Sent)] /\ down \in [Sessions -> Seq(Reply)]
  /\ fault \in {"no", "crash"}

CommandInv == CommandTypes /\ \A s \in Sessions : Bounded(s) /\ Dialogue(s)

(* A stream is empty just when its length is 0.                            *)
LEMMA Void ==
  ASSUME NEW S, NEW s \in Seq(S)
  PROVE  s = <<>> <=> Len(s) = 0
  OBVIOUS

(* Nothing to read leaves the reader where it is.                          *)
LEMMA WalkEmpty ==
  ASSUME NEW T, NEW m \in Spot
  PROVE  /\ Walk(T, m, <<>>, m)
         /\ \A e \in Spot : Walk(T, m, <<>>, e) => e = m
  <1>1. Len(<<>>) = 0
    OBVIOUS
  <1>2. Walk(T, m, <<>>, m)
    <2> DEFINE q == [i \in 1 .. 1 |-> m]
    <2>1. q \in [1 .. 1 -> Spot] /\ q[1] = m
      OBVIOUS
    <2> HIDE DEF q
    <2>2. \A i \in 1 .. 0 : <<q[i], <<>>[i], q[i + 1]>> \in T
      OBVIOUS
    <2> QED
      BY <1>1, <2>1, <2>2 DEF Walk
  <1>3. ASSUME NEW e \in Spot, Walk(T, m, <<>>, e) PROVE e = m
    BY <1>1, <1>3 DEF Walk
  <1> QED
    BY <1>2, <1>3

(* The reader reads the first item.                                        *)
LEMMA WalkTail ==
  ASSUME NEW T, NEW S, NEW s \in Seq(S), s # <<>>, NEW m \in Spot, NEW e \in Spot,
         Walk(T, m, s, e)
  PROVE  \E n \in Spot : <<m, Head(s), n>> \in T /\ Walk(T, n, Tail(s), e)
  <1>1. PICK q \in [1 .. Len(s) + 1 -> Spot] :
          /\ q[1] = m
          /\ q[Len(s) + 1] = e
          /\ \A i \in 1 .. Len(s) : <<q[i], s[i], q[i + 1]>> \in T
    BY DEF Walk
  <1>2. /\ Len(s) \in Nat /\ Len(s) >= 1 /\ Head(s) = s[1]
        /\ Len(Tail(s)) = Len(s) - 1
        /\ \A i \in 1 .. Len(s) - 1 : Tail(s)[i] = s[i + 1]
    OBVIOUS
  <1>3. <<m, Head(s), q[2]>> \in T /\ q[2] \in Spot
    BY <1>1, <1>2
  <1> DEFINE r == [i \in 1 .. Len(s) |-> q[i + 1]]
  <1>4. /\ r \in [1 .. Len(Tail(s)) + 1 -> Spot]
        /\ r[1] = q[2] /\ r[Len(Tail(s)) + 1] = e
    BY <1>1, <1>2
  <1>5. ASSUME NEW i \in 1 .. Len(Tail(s))
        PROVE  <<r[i], Tail(s)[i], r[i + 1]>> \in T
    <2>1. i + 1 \in 1 .. Len(s) /\ i \in 1 .. Len(s)
      BY <1>2
    <2>2. <<q[i + 1], s[i + 1], q[(i + 1) + 1]>> \in T
      BY <1>1, <2>1
    <2>3. r[i] = q[i + 1] /\ r[i + 1] = q[(i + 1) + 1] /\ Tail(s)[i] = s[i + 1]
      BY <1>2, <2>1
    <2> QED
      BY <2>2, <2>3
  <1> HIDE DEF r
  <1>6. Walk(T, q[2], Tail(s), e)
    BY <1>4, <1>5 DEF Walk
  <1> QED
    BY <1>3, <1>6

(* What arrives of a stream that is broken off.                            *)
LEMMA WalkPrefix ==
  ASSUME NEW T, NEW S, NEW s \in Seq(S), NEW m \in Spot, NEW e \in Spot,
         Walk(T, m, s, e), NEW k \in 0 .. Len(s)
  PROVE  /\ SubSeq(s, 1, k) \in Seq(S) /\ Len(SubSeq(s, 1, k)) = k
         /\ \A i \in 1 .. k : SubSeq(s, 1, k)[i] = s[i]
         /\ \E n \in Spot : Walk(T, m, SubSeq(s, 1, k), n)
  <1>1. PICK q \in [1 .. Len(s) + 1 -> Spot] :
          /\ q[1] = m
          /\ \A i \in 1 .. Len(s) : <<q[i], s[i], q[i + 1]>> \in T
    BY DEF Walk
  <1> DEFINE t == SubSeq(s, 1, k)
  <1>2. Len(s) \in Nat /\ k \in Nat /\ k <= Len(s)
    BY LenProperties
  <1>3. \A i \in 1 .. k : s[i] \in S
    BY <1>2, ElementOfSeq
  <1>4. t \in Seq(S) /\ Len(t) = k /\ \A i \in 1 .. k : t[i] = s[i]
    BY <1>2, <1>3, SubSeqProperties
  <1> HIDE DEF t
  <1> DEFINE r == [i \in 1 .. k + 1 |-> q[i]]
  <1>5. r \in [1 .. Len(t) + 1 -> Spot] /\ r[1] = m /\ r[Len(t) + 1] \in Spot
    BY <1>1, <1>2, <1>4
  <1>6. ASSUME NEW i \in 1 .. Len(t) PROVE <<r[i], t[i], r[i + 1]>> \in T
    <2>1. <<q[i], s[i], q[i + 1]>> \in T
      BY <1>1, <1>2, <1>4
    <2>2. r[i] = q[i] /\ r[i + 1] = q[i + 1] /\ t[i] = s[i]
      BY <1>2, <1>4
    <2> QED
      BY <2>1, <2>2
  <1> HIDE DEF r
  <1>7. Walk(T, m, t, r[Len(t) + 1])
    BY <1>5, <1>6 DEF Walk
  <1> QED
    BY <1>4, <1>5, <1>7 DEF t

(* More is sent.                                                           *)
LEMMA WalkConcat ==
  ASSUME NEW T, NEW S, NEW s \in Seq(S), NEW t \in Seq(S),
         NEW m \in Spot, NEW n \in Spot, NEW e \in Spot,
         Walk(T, m, s, n), Walk(T, n, t, e)
  PROVE  s \o t \in Seq(S) /\ Walk(T, m, s \o t, e)
  <1>1. PICK q \in [1 .. Len(s) + 1 -> Spot] :
          /\ q[1] = m
          /\ q[Len(s) + 1] = n
          /\ \A i \in 1 .. Len(s) : <<q[i], s[i], q[i + 1]>> \in T
    BY DEF Walk
  <1>2. PICK r \in [1 .. Len(t) + 1 -> Spot] :
          /\ r[1] = n
          /\ r[Len(t) + 1] = e
          /\ \A i \in 1 .. Len(t) : <<r[i], t[i], r[i + 1]>> \in T
    BY DEF Walk
  <1> DEFINE a == Len(s)
             b == Len(t)
             u == s \o t
  <1>3. a \in Nat /\ b \in Nat
    BY LenProperties
  <1>4. /\ u \in Seq(S) /\ Len(u) = a + b
        /\ \A i \in 1 .. a : u[i] = s[i]
        /\ \A i \in 1 .. b : u[a + i] = t[i]
    <2>1. /\ u \in Seq(S) /\ Len(u) = a + b
          /\ \A i \in 1 .. a + b : u[i] = IF i <= a THEN s[i] ELSE t[i - a]
      BY ConcatProperties
    <2> HIDE DEF u
    <2>2. \A i \in 1 .. b : a + i \in 1 .. a + b /\ ~ (a + i <= a) /\ (a + i) - a = i
      BY <1>3
    <2>3. \A i \in 1 .. a : i \in 1 .. a + b /\ i <= a
      BY <1>3
    <2> QED
      BY <2>1, <2>2, <2>3
  <1> DEFINE p == [i \in 1 .. a + b + 1 |-> IF i <= a + 1 THEN q[i] ELSE r[i - a]]
  <1> HIDE DEF u
  <1>5. /\ p \in [1 .. Len(u) + 1 -> Spot]
        /\ p[1] = m
        /\ p[Len(u) + 1] = e
    BY <1>1, <1>2, <1>3, <1>4
  <1>6. ASSUME NEW i \in 1 .. a PROVE <<p[i], u[i], p[i + 1]>> \in T
    <2>1. <<q[i], s[i], q[i + 1]>> \in T
      BY <1>1
    <2>2. p[i] = q[i] /\ p[i + 1] = q[i + 1] /\ u[i] = s[i]
      BY <1>3, <1>4
    <2> QED
      BY <2>1, <2>2
  <1>7. ASSUME NEW i \in 1 .. b PROVE <<p[a + i], u[a + i], p[a + i + 1]>> \in T
    <2>1. <<r[i], t[i], r[i + 1]>> \in T
      BY <1>2
    <2>2. p[a + i] = r[i] /\ p[a + i + 1] = r[i + 1] /\ u[a + i] = t[i]
      BY <1>1, <1>2, <1>3, <1>4, SMTT(30)
    <2> QED
      BY <2>1, <2>2
  <1>8. ASSUME NEW i \in 1 .. Len(u) PROVE <<p[i], u[i], p[i + 1]>> \in T
    <2> HIDE DEF p
    <2>1. i \in 1 .. a + b
      BY <1>4
    <2>2. CASE i <= a
      <3>1. i \in 1 .. a
        BY <1>3, <2>1, <2>2
      <3> QED
        BY <1>6, <3>1
    <2>3. CASE i > a
      <3>1. i - a \in 1 .. b /\ a + (i - a) = i /\ a + (i - a) + 1 = i + 1
        BY <1>3, <2>1, <2>3
      <3>2. <<p[a + (i - a)], u[a + (i - a)], p[a + (i - a) + 1]>> \in T
        BY <1>7, <3>1
      <3> QED
        BY <3>1, <3>2
    <2> QED
      BY <1>3, <2>1, <2>2, <2>3
  <1> HIDE DEF p
  <1>9. Walk(T, m, u, e)
    BY <1>5, <1>8 DEF Walk
  <1> QED
    BY <1>4, <1>9 DEF u

(* One item.                                                               *)
LEMMA WalkOne ==
  ASSUME NEW T, NEW m \in Spot, NEW x, NEW e \in Spot, <<m, x, e>> \in T
  PROVE  Walk(T, m, <<x>>, e)
  <1> DEFINE q == [i \in 1 .. 2 |-> IF i = 1 THEN m ELSE e]
  <1>1. q \in [1 .. 2 -> Spot] /\ q[1] = m /\ q[2] = e
    OBVIOUS
  <1> HIDE DEF q
  <1>2. Len(<<x>>) = 1 /\ <<x>>[1] = x
    OBVIOUS
  <1>3. ASSUME NEW i \in 1 .. 1 PROVE <<q[i], <<x>>[i], q[i + 1]>> \in T
    <2>1. i = 1 /\ i + 1 = 2
      BY <1>3
    <2> QED
      BY <1>1, <1>2, <2>1
  <1> QED
    BY <1>1, <1>2, <1>3 DEF Walk

(* Two items.                                                              *)
LEMMA WalkTwo ==
  ASSUME NEW T, NEW m \in Spot, NEW x, NEW n \in Spot, <<m, x, n>> \in T,
         NEW y, NEW e \in Spot, <<n, y, e>> \in T
  PROVE  Walk(T, m, <<x, y>>, e)
  <1> DEFINE q == [i \in 1 .. 3 |-> IF i = 1 THEN m ELSE IF i = 2 THEN n ELSE e]
  <1>1. q \in [1 .. 3 -> Spot] /\ q[1] = m /\ q[2] = n /\ q[3] = e
    OBVIOUS
  <1> HIDE DEF q
  <1>2. Len(<<x, y>>) = 2 /\ <<x, y>>[1] = x /\ <<x, y>>[2] = y
    OBVIOUS
  <1>3. ASSUME NEW i \in 1 .. 2 PROVE <<q[i], <<x, y>>[i], q[i + 1]>> \in T
    <2>1. (i = 1 /\ i + 1 = 2) \/ (i = 2 /\ i + 1 = 3)
      BY <1>3
    <2> QED
      BY <1>1, <1>2, <2>1
  <1> QED
    BY <1>1, <1>2, <1>3 DEF Walk

(* Three items.                                                            *)
LEMMA WalkThree ==
  ASSUME NEW T, NEW m \in Spot, NEW x, NEW n \in Spot, <<m, x, n>> \in T,
         NEW y, NEW o \in Spot, <<n, y, o>> \in T,
         NEW z, NEW e \in Spot, <<o, z, e>> \in T
  PROVE  Walk(T, m, <<x, y, z>>, e)
  <1> DEFINE q == [i \in 1 .. 4 |-> IF i = 1 THEN m ELSE IF i = 2 THEN n
                                    ELSE IF i = 3 THEN o ELSE e]
  <1>1. q \in [1 .. 4 -> Spot] /\ q[1] = m /\ q[2] = n /\ q[3] = o /\ q[4] = e
    OBVIOUS
  <1> HIDE DEF q
  <1>2. /\ Len(<<x, y, z>>) = 3 /\ <<x, y, z>>[1] = x
        /\ <<x, y, z>>[2] = y /\ <<x, y, z>>[3] = z
    OBVIOUS
  <1>3. ASSUME NEW i \in 1 .. 3 PROVE <<q[i], <<x, y, z>>[i], q[i + 1]>> \in T
    <2>1. (i = 1 /\ i + 1 = 2) \/ (i = 2 /\ i + 1 = 3) \/ (i = 3 /\ i + 1 = 4)
      BY <1>3
    <2> QED
      BY <1>1, <1>2, <2>1
  <1> QED
    BY <1>1, <1>2, <1>3 DEF Walk

(* Who is at m has nothing to read when no item leads on from m.           *)
LEMMA WalkStuck ==
  ASSUME NEW T, NEW S, NEW s \in Seq(S), NEW m \in Spot, NEW e \in Spot, Walk(T, m, s, e),
         \A x \in S, n \in Spot : <<m, x, n>> \notin T
  PROVE  s = <<>> /\ e = m
  <1>1. s = <<>>
    <2> SUFFICES ASSUME s # <<>> PROVE FALSE
      OBVIOUS
    <2>1. Head(s) \in S
      BY HeadTailProperties
    <2> QED
      BY <2>1, WalkTail
  <1> QED
    BY <1>1, WalkEmpty

-----------------------------------------------------------------------------
(* The steps of a dialogue.                                                *)

(* The relations, item by item.                                            *)
LEMMA TakingIs ==
  ASSUME NEW m \in Spot, NEW x \in Sent, NEW n \in Spot
  PROVE  <<m, x, n>> \in Taking <=> Takes(m, x, n)
  BY DEF Taking

(* The client's.                                                           *)
LEMMA HearingIs ==
  ASSUME NEW m \in Spot, NEW x \in Reply, NEW n \in Spot
  PROVE  <<m, x, n>> \in Hearing <=> Hears(m, x, n)
  BY DEF Hearing

(* Places are places.                                                      *)
LEMMA SpotFacts ==
  /\ \A l \in WorkerPlace : l \in Spot /\ Reads(l) \in Spot
  /\ \A c \in Spot : Want(c) \in Spot
  /\ \A c \in ClientPlace : c \in Spot
  /\ {"sent", "asks", "mkdirRead"} \subseteq Spot
  <1>1. \A l \in WorkerPlace : l \in Spot /\ Reads(l) \in Spot
    BY DEF WorkerPlace, Spot, Reads, C!Ops
  <1>2. ASSUME NEW c \in Spot PROVE Want(c) \in Spot
    <2>1. {"recv", "cd", "remove", "pwd", "ls", "gets", "mkdirRead", "putsCheck",
           "transFile", "recvFile", "getsHere", "nowhere"} \subseteq Spot
      BY DEF Spot, WorkerPlace, C!Ops
    <2>2. Want(c) \in {"recv", "cd", "remove", "pwd", "ls", "gets", "mkdirRead", "putsCheck",
           "transFile", "recvFile", "getsHere", "nowhere"}
      BY DEF Want
    <2> QED
      BY <2>1, <2>2
  <1> QED
    BY <1>1, <1>2 DEF ClientPlace, Spot

(* The worker takes an item.                                               *)
LEMMA TalkTakes ==
  ASSUME NEW c \in ClientPlace, NEW l \in WorkerPlace, NEW u \in Seq(Sent), NEW d,
         Talk(c, l, u, d), u # <<>>
  PROVE  /\ Head(u) \in Sent /\ Tail(u) \in Seq(Sent)
         /\ \E n \in Spot : Takes(Reads(l), Head(u), n)
         /\ \A k \in WorkerPlace :
              (\A n \in Spot : Takes(Reads(l), Head(u), n) => n = Reads(k))
                => Talk(c, k, Tail(u), d)
  <1>1. Head(u) \in Sent /\ Tail(u) \in Seq(Sent)
    BY HeadTailProperties
  <1>2. Reads(l) \in Spot
    BY SpotFacts
  <1>3. ASSUME NEW e \in Spot, Walk(Taking, Reads(l), u, e)
        PROVE  \E n \in Spot : Takes(Reads(l), Head(u), n) /\ Walk(Taking, n, Tail(u), e)
    BY <1>1, <1>2, <1>3, WalkTail, TakingIs
  <1>4. CASE c = "gone"
    BY <1>1, <1>3, <1>4 DEF Talk
  <1>5. CASE c # "gone"
    <2>1. PICK e \in Spot : Walk(Hearing, c, d, e) /\ Walk(Taking, Reads(l), u, Want(e))
      BY <1>5 DEF Talk
    <2>2. PICK n \in Spot : Takes(Reads(l), Head(u), n) /\ Walk(Taking, n, Tail(u), Want(e))
      BY <1>3, <2>1, SpotFacts
    <2> QED
      BY <1>1, <1>5, <2>1, <2>2 DEF Talk
  <1> QED
    BY <1>4, <1>5

(* The places of a worker that owes an answer.                             *)
Owed == {"cd", "remove", "pwd", "ls", "gets", "putsCheck", "transFile"}

(* Then nothing more has been sent, and the client waits for that answer.  *)
LEMMA TalkOwed ==
  ASSUME NEW c \in ClientPlace, NEW l \in WorkerPlace, NEW u \in Seq(Sent), NEW d,
         Talk(c, l, u, d), Reads(l) \in Owed
  PROVE  /\ u = <<>>
         /\ c # "gone" => \E e \in Spot : Walk(Hearing, c, d, e) /\ Want(e) = Reads(l)
  <1>1. \A x \in Sent, n \in Spot : <<Reads(l), x, n>> \notin Taking
    BY TakingIs, SpotFacts DEF Takes, Owed
  <1>2. Reads(l) \in Spot
    BY SpotFacts
  <1>3. ASSUME NEW e \in Spot, Walk(Taking, Reads(l), u, e)
        PROVE  u = <<>> /\ e = Reads(l)
    BY <1>1, <1>2, <1>3, WalkStuck
  <1> QED
    BY <1>3, SpotFacts DEF Talk

(* What a worker's sends leave in the stream.                              *)
Arrived(c, d, items) == IF c = "gone" THEN d ELSE d \o items

(* The worker answers.                                                     *)
LEMMA TalkAnswers ==
  ASSUME NEW c \in ClientPlace, NEW l \in WorkerPlace, NEW u \in Seq(Sent),
         NEW d \in Seq(Reply), Talk(c, l, u, d), Reads(l) \in Owed,
         NEW items \in Seq(Reply), NEW k \in WorkerPlace, NEW b \in Spot, NEW e \in Spot,
         \A a \in Spot : Want(a) = Reads(l) => a = b,
         Walk(Hearing, b, items, e), Want(e) = Reads(k)
  PROVE  Arrived(c, d, items) \in Seq(Reply) /\ Talk(c, k, u, Arrived(c, d, items))
  <1>1. u = <<>>
    BY TalkOwed
  <1>2. Reads(k) \in Spot /\ c \in Spot
    BY SpotFacts
  <1>3. Walk(Taking, Reads(k), u, Reads(k))
    BY <1>1, <1>2, WalkEmpty
  <1>4. CASE c = "gone"
    BY <1>2, <1>3, <1>4 DEF Talk, Arrived
  <1>5. CASE c # "gone"
    <2>1. Walk(Hearing, c, d, b)
      BY <1>5, TalkOwed
    <2>2. d \o items \in Seq(Reply) /\ Walk(Hearing, c, d \o items, e)
      BY <1>2, <2>1, WalkConcat
    <2> QED
      BY <1>3, <1>5, <2>2 DEF Talk, Arrived
  <1> QED
    BY <1>4, <1>5

(* The answer to mkdir, whose operand may be still to be read.             *)
LEMMA TalkMkdir ==
  ASSUME NEW c \in ClientPlace, NEW u \in Seq(Sent), NEW d \in Seq(Reply),
         Talk(c, "mkdir", u, d), NEW x \in Reply, x[1] = "int",
         NEW k \in WorkerPlace, Reads(k) = "recv"
  PROVE  Arrived(c, d, <<x>>) \in Seq(Reply) /\ Talk(c, k, u, Arrived(c, d, <<x>>))
  <1>1. /\ {"mkdir", "recv", "prompt", "mkdirRead"} \subseteq Spot /\ "mkdir" \in WorkerPlace
        /\ c \in Spot
    BY SpotFacts DEF Spot, WorkerPlace, C!Ops, ClientPlace
  <1>2. Reads("mkdir") = "mkdir"
    BY DEF Reads
  <1>3. ASSUME NEW e \in Spot, Walk(Taking, "mkdir", u, e)
        PROVE  Walk(Taking, "recv", u, "recv") /\ (e = "mkdir" \/ e = "mkdirRead")
    <2>1. CASE u = <<>>
      BY <1>1, <1>3, <2>1, WalkEmpty
    <2>2. CASE u # <<>>
      <3>1. Head(u) \in Sent /\ Tail(u) \in Seq(Sent) /\ u = <<Head(u)>> \o Tail(u)
        BY <2>2, HeadTailProperties
      <3>2. PICK n \in Spot : <<"mkdir", Head(u), n>> \in Taking /\ Walk(Taking, n, Tail(u), e)
        BY <1>1, <1>3, <2>2, WalkTail
      <3>3. Takes("mkdir", Head(u), n)
        BY <1>1, <3>1, <3>2, TakingIs
      <3>4. n = "mkdirRead" /\ Takes("recv", Head(u), "recv")
        BY <3>3 DEF Takes
      <3>5. \A y \in Sent, o \in Spot : <<"mkdirRead", y, o>> \notin Taking
        BY <1>1, TakingIs DEF Takes
      <3>6. Tail(u) = <<>> /\ e = "mkdirRead"
        BY <1>1, <3>1, <3>2, <3>4, <3>5, WalkStuck
      <3>7. u = <<Head(u)>>
        <4>1. Len(Tail(u)) = Len(u) - 1 /\ Len(u) \in Nat /\ Len(Tail(u)) = 0
          BY <2>2, <3>6, HeadTailProperties, LenProperties
        <4>2. Len(u) = 1 /\ u[1] = Head(u)
          BY <4>1
        <4>3. <<Head(u)>> \in Seq(Sent) /\ Len(<<Head(u)>>) = 1 /\ <<Head(u)>>[1] = Head(u)
          BY <3>1
        <4> QED
          BY <4>2, <4>3, SeqEqual
      <3>8. Walk(Taking, "recv", <<Head(u)>>, "recv")
        BY <1>1, <3>1, <3>4, TakingIs, WalkOne
      <3> QED
        BY <3>6, <3>7, <3>8
    <2> QED
      BY <2>1, <2>2
  <1>4. CASE c = "gone"
    BY <1>1, <1>2, <1>3, <1>4 DEF Talk, Arrived
  <1>5. CASE c # "gone"
    <2>1. PICK e \in Spot : Walk(Hearing, c, d, e) /\ Walk(Taking, "mkdir", u, Want(e))
      BY <1>2, <1>5 DEF Talk
    <2>2. Want(e) = "mkdir" \/ Want(e) = "mkdirRead"
      BY <1>3, <2>1, SpotFacts
    <2>3. e = "mkdir"
      BY <2>2 DEF Want
    <2>4. Walk(Hearing, "mkdir", <<x>>, "prompt")
      <3>1. Hears("mkdir", x, "prompt")
        BY DEF Hears
      <3> QED
        BY <1>1, <3>1, HearingIs, WalkOne
    <2>5. <<x>> \in Seq(Reply)
      OBVIOUS
    <2>6. d \o <<x>> \in Seq(Reply) /\ Walk(Hearing, c, d \o <<x>>, "prompt")
      BY <1>1, <2>1, <2>3, <2>4, <2>5, WalkConcat
    <2>7. Walk(Taking, "recv", u, "recv") /\ Want("prompt") = "recv"
      BY <1>3, <2>1, SpotFacts DEF Want
    <2> QED
      BY <1>1, <1>5, <2>6, <2>7 DEF Talk, Arrived
  <1> QED
    BY <1>4, <1>5

(* The client hears.                                                       *)
LEMMA TalkHears ==
  ASSUME NEW c \in ClientPlace \ {"gone"}, NEW l \in WorkerPlace, NEW u \in Seq(Sent),
         NEW d \in Seq(Reply), Talk(c, l, u, d), d # <<>>
  PROVE  /\ Head(d) \in Reply /\ Tail(d) \in Seq(Reply)
         /\ \E n \in Spot : Hears(c, Head(d), n)
         /\ \A k \in ClientPlace \ {"gone"} :
              (\A n \in Spot : Hears(c, Head(d), n) => n = k) => Talk(k, l, u, Tail(d))
         /\ \A w \in {"sent", "asks"} :
              (\A n \in Spot : Hears(c, Head(d), n) => n = w)
                 => Tail(d) = <<>> /\ Walk(Taking, Reads(l), u, Want(w))
  <1>1. Head(d) \in Reply /\ Tail(d) \in Seq(Reply)
    BY HeadTailProperties
  <1>2. PICK e \in Spot : Walk(Hearing, c, d, e) /\ Walk(Taking, Reads(l), u, Want(e))
    BY DEF Talk
  <1>3. PICK n \in Spot : Hears(c, Head(d), n) /\ Walk(Hearing, n, Tail(d), e)
    BY <1>1, <1>2, WalkTail, HearingIs, SpotFacts
  <1>4. ASSUME NEW w \in {"sent", "asks"}, n = w
        PROVE  Tail(d) = <<>> /\ Walk(Taking, Reads(l), u, Want(w))
    <2>1. w \in Spot
      BY SpotFacts
    <2>2. \A x \in Reply, o \in Spot : <<w, x, o>> \notin Hearing
      BY <2>1, HearingIs DEF Hears
    <2>3. Tail(d) = <<>> /\ e = w
      BY <1>1, <1>3, <1>4, <2>1, <2>2, WalkStuck
    <2> QED
      BY <1>2, <2>3
  <1> QED
    BY <1>1, <1>2, <1>3, <1>4 DEF Talk

(* A client that sends without waiting, after an answer or at the prompt.  *)
LEMMA TalkSends ==
  ASSUME NEW l \in WorkerPlace, NEW u \in Seq(Sent), NEW m \in Spot,
         Walk(Taking, Reads(l), u, m),
         NEW items \in Seq(Sent), NEW k \in ClientPlace \ {"gone"},
         Walk(Taking, m, items, Want(k))
  PROVE  u \o items \in Seq(Sent) /\ Talk(k, l, u \o items, <<>>)
  <1>1. Reads(l) \in Spot /\ Want(k) \in Spot /\ k \in Spot
    BY SpotFacts
  <1>2. u \o items \in Seq(Sent) /\ Walk(Taking, Reads(l), u \o items, Want(k))
    BY <1>1, WalkConcat
  <1>3. Walk(Hearing, k, <<>>, k)
    BY <1>1, WalkEmpty
  <1> QED
    BY <1>1, <1>2, <1>3 DEF Talk

(* At the prompt nothing is left over.                                     *)
LEMMA TalkPrompt ==
  ASSUME NEW l \in WorkerPlace, NEW u \in Seq(Sent), NEW d \in Seq(Reply),
         Talk("prompt", l, u, d)
  PROVE  d = <<>> /\ Walk(Taking, Reads(l), u, "recv")
  <1>1. PICK e \in Spot : Walk(Hearing, "prompt", d, e) /\ Walk(Taking, Reads(l), u, Want(e))
    BY DEF Talk
  <1>2. "prompt" \in Spot
    BY DEF Spot, ClientPlace
  <1>3. \A x \in Reply, o \in Spot : <<"prompt", x, o>> \notin Hearing
    BY <1>2, HearingIs DEF Hears
  <1>4. d = <<>> /\ e = "prompt"
    BY <1>1, <1>2, <1>3, WalkStuck
  <1> QED
    BY <1>1, <1>4 DEF Want

(* The client leaves.                                                      *)
LEMMA TalkHangsUp ==
  ASSUME NEW c \in ClientPlace, NEW l \in WorkerPlace, NEW u \in Seq(Sent), NEW d,
         Talk(c, l, u, d), NEW k \in 0 .. Len(u), NEW f
  PROVE  /\ SubSeq(u, 1, k) \in Seq(Sent) /\ Len(SubSeq(u, 1, k)) = k
         /\ \A i \in 1 .. k : SubSeq(u, 1, k)[i] = u[i]
         /\ Talk("gone", l, SubSeq(u, 1, k), f)
  <1>1. Reads(l) \in Spot
    BY SpotFacts
  <1>2. PICK e \in Spot : Walk(Taking, Reads(l), u, e)
    BY SpotFacts DEF Talk
  <1>3. /\ SubSeq(u, 1, k) \in Seq(Sent) /\ Len(SubSeq(u, 1, k)) = k
        /\ \A i \in 1 .. k : SubSeq(u, 1, k)[i] = u[i]
        /\ \E n \in Spot : Walk(Taking, Reads(l), SubSeq(u, 1, k), n)
    BY <1>1, <1>2, WalkPrefix
  <1> QED
    BY <1>3 DEF Talk

(* A worker at the head of the loop finds what is not a word only behind   *)
(* the word puts.                                                          *)
LEMMA TalkAtHead ==
  ASSUME NEW c \in ClientPlace, NEW u \in Seq(Sent), NEW d, Talk(c, "recv", u, d),
         NEW i \in 1 .. Len(u), u[i][1] # "str"
  PROVE  \E j \in 1 .. (i - 1) : u[j][1] = "str" /\ u[j][2][1] = "puts"
  <1>1. PICK e \in Spot : Walk(Taking, "recv", u, e)
    BY SpotFacts DEF Talk, Reads
  <1>2. PICK q \in [1 .. Len(u) + 1 -> Spot] :
          /\ q[1] = "recv"
          /\ \A j \in 1 .. Len(u) : <<q[j], u[j], q[j + 1]>> \in Taking
    BY <1>1 DEF Walk
  <1>3. Len(u) \in Nat
    BY LenProperties
  <1>4. ASSUME NEW j \in 1 .. Len(u) PROVE Takes(q[j], u[j], q[j + 1])
    <2>1. q[j] \in Spot /\ q[j + 1] \in Spot /\ u[j] \in Sent
      BY <1>3
    <2> QED
      BY <1>2, <2>1, TakingIs
  <1>5. ASSUME NEW j \in 2 .. Len(u)
        PROVE  /\ q[j] \notin {"recvFile", "getsHere"}
               /\ q[j] = "puts" => u[j - 1][1] = "str" /\ u[j - 1][2][1] = "puts"
               /\ q[j] = "getsSize" => q[j - 1] = "getsHere"
    <2>1. j - 1 \in 1 .. Len(u) /\ (j - 1) + 1 = j
      BY <1>3
    <2>2. Takes(q[j - 1], u[j - 1], q[j])
      BY <1>4, <2>1
    <2> QED
      BY <2>2 DEF Takes, C!Ops
  <1>6. Takes(q[i], u[i], q[i + 1])
    BY <1>4
  <1>7. q[i] \in {"puts", "recvFile", "getsHere", "getsSize"}
    BY <1>6 DEF Takes, C!File
  <1>8. i \in 2 .. Len(u)
    BY <1>2, <1>3, <1>7
  <1>9. CASE q[i] = "puts"
    BY <1>5, <1>8, <1>9
  <1>10. CASE q[i] = "getsSize"
    <2>1. q[i - 1] = "getsHere"
      BY <1>5, <1>8, <1>10
    <2>2. i - 1 \in 2 .. Len(u)
      BY <1>2, <1>3, <1>8, <2>1
    <2> QED
      BY <1>5, <2>1, <2>2
  <1> QED
    BY <1>5, <1>7, <1>8, <1>9, <1>10

-----------------------------------------------------------------------------
(* The steps of the worker.                                                *)

(* The user's directory has a path.                                        *)
LEMMA TopIsPath ==
  ASSUME PlainNames
  PROVE  <<>> \in C!Paths
  <1>1. 0 \in 0 .. Depth /\ <<>> \in [1 .. 0 -> Names]
    BY DEF PlainNames
  <1> QED
    BY <1>1 DEF C!Paths

(* Initially nobody has said anything.                                     *)
LEMMA CommandInit ==
  ASSUME PlainNames, C!Init
  PROVE  CommandInv
  <1> USE DEF C!Init
  <1>1. <<>> \in C!Paths
    BY TopIsPath
  <1>2. CommandTypes
    <2>1. <<>> \in Seq(Sent) /\ <<>> \in Seq(Reply)
      OBVIOUS
    <2> QED
      BY <1>1, <2>1 DEF CommandTypes, ClientPlace, WorkerPlace
  <1>3. ASSUME NEW s \in Sessions PROVE Bounded(s) /\ Dialogue(s)
    <2>1. Len(<<>>) = 0 /\ wpc[s] = "recv" /\ cur[s] = <<>> /\ up[s] = <<>>
          /\ cpc[s] = "prompt" /\ down[s] = <<>>
      OBVIOUS
    <2>2. Bounded(s)
      BY <2>1 DEF Bounded, PlainNames, C!Ops
    <2>3. {"recv", "prompt"} \subseteq Spot /\ Reads("recv") = "recv" /\ Want("prompt") = "recv"
      BY DEF Spot, WorkerPlace, ClientPlace, Reads, Want
    <2>4. Walk(Taking, "recv", <<>>, "recv") /\ Walk(Hearing, "prompt", <<>>, "prompt")
      BY <2>3, WalkEmpty
    <2> QED
      BY <2>1, <2>2, <2>3, <2>4 DEF Dialogue, Talk
  <1> QED
    BY <1>2, <1>3 DEF CommandInv

(* A step of one session leaves what is s's to the others.                 *)
Others(s) ==
  \A t \in Sessions \ {s} :
    /\ cur'[t] = cur[t] /\ cpc'[t] = cpc[t] /\ wpc'[t] = wpc[t] /\ wcmd'[t] = wcmd[t]
    /\ up'[t] = up[t] /\ down'[t] = down[t]

(* So the invariant is kept when the session that moves keeps it.          *)
LEMMA OneSession ==
  ASSUME CommandInv, NEW s \in Sessions, CommandTypes', Others(s), Bounded(s)', Dialogue(s)'
  PROVE  CommandInv'
  <1>1. ASSUME NEW t \in Sessions \ {s} PROVE Bounded(t)' /\ Dialogue(t)'
    <2>1. Bounded(t) /\ Dialogue(t)
      BY DEF CommandInv
    <2>2. /\ cur'[t] = cur[t] /\ cpc'[t] = cpc[t] /\ wpc'[t] = wpc[t] /\ wcmd'[t] = wcmd[t]
          /\ up'[t] = up[t] /\ down'[t] = down[t]
      BY DEF Others
    <2>3. Bounded(t)'
      BY <2>1, <2>2 DEF Bounded, Below
    <2> QED
      BY <2>1, <2>2, <2>3 DEF Dialogue
  <1> QED
    BY <1>1 DEF CommandInv

(* The bounds of a session that goes on with its command or is done.       *)
LEMMA BoundedStays ==
  ASSUME CommandInv, NEW s \in Sessions, NEW k \in WorkerPlace, k \notin C!Ops,
         C!Goto(s, k), k \in {"recv", "gone"} \/ wpc[s] \notin {"recv", "gone"},
         cur'[s] = cur[s],
         \A i \in 1 .. Len(up'[s]) : \E j \in 1 .. Len(up[s]) : up'[s][i] = up[s][j]
  PROVE  Bounded(s)'
  <1>1. Bounded(s) /\ wpc'[s] = k /\ (k \notin {"recv", "gone"} => wcmd'[s] = wcmd[s])
    BY DEF CommandInv, CommandTypes, C!Goto
  <1>2. k # "cd"
    BY DEF C!Ops
  <1>3. ASSUME NEW i \in 1 .. Len(up'[s]), up'[s][i][1] = "str"
        PROVE  Below(s, up[s][i][2])'
    <2>1. PICK j \in 1 .. Len(up[s]) : up'[s][i] = up[s][j]
      OBVIOUS
    <2>2. Below(s, up[s][j][2])
      BY <1>1, <1>3, <2>1 DEF Bounded
    <2> QED
      BY <2>1, <2>2 DEF Below
  <1> QED
    BY <1>1, <1>2, <1>3 DEF Bounded

(* A worker's step types.                                                  *)
LEMMA WorkerTypes ==
  ASSUME CommandInv, NEW s \in Sessions, NEW k \in WorkerPlace, C!Goto(s, k)
  PROVE  /\ wpc' \in [Sessions -> WorkerPlace] /\ DOMAIN wcmd' = Sessions /\ wpc'[s] = k
         /\ \A t \in Sessions \ {s} : wpc'[t] = wpc[t] /\ wcmd'[t] = wcmd[t]
  BY DEF CommandInv, CommandTypes, C!Goto

(* What a worker sends arrives.                                            *)
LEMMA Sending ==
  ASSUME CommandInv, NEW s \in Sessions, NEW items, C!Sends(s, items),
         Arrived(cpc[s], down[s], items) \in Seq(Reply)
  PROVE  /\ down' \in [Sessions -> Seq(Reply)]
         /\ down'[s] = Arrived(cpc[s], down[s], items)
         /\ \A t \in Sessions \ {s} : down'[t] = down[t]
  BY DEF CommandInv, CommandTypes, C!Sends, Arrived

(* A worker that answers.                                                  *)
LEMMA AnswerKeeps ==
  ASSUME CommandInv, NEW s \in Sessions, NEW items, NEW k \in WorkerPlace,
         C!Sends(s, items), C!Goto(s, k), UNCHANGED <<tree, cpc, up, fault>>,
         cur' \in [Sessions -> C!Paths], \A t \in Sessions \ {s} : cur'[t] = cur[t],
         entries' \in [Sessions -> SUBSET Names],
         Arrived(cpc[s], down[s], items) \in Seq(Reply),
         Talk(cpc[s], k, up[s], Arrived(cpc[s], down[s], items)), Bounded(s)'
  PROVE  CommandInv'
  <1>1. CommandTypes'
    BY WorkerTypes, Sending DEF CommandInv, CommandTypes
  <1>2. Others(s)
    BY WorkerTypes, Sending DEF Others
  <1>3. Dialogue(s)'
    BY WorkerTypes, Sending DEF Dialogue
  <1> QED
    BY <1>1, <1>2, <1>3, OneSession

(* A worker that answers with one item and has not moved to another        *)
(* directory.                                                              *)
LEMMA AnswersOne ==
  ASSUME CommandInv, NEW s \in Sessions, NEW x \in Reply, NEW k \in WorkerPlace,
         C!Sends(s, <<x>>), C!Goto(s, k), UNCHANGED <<tree, cur, entries, cpc, up, fault>>,
         wpc[s] \in Owed \union {"lsEntry"}, k \notin C!Ops, NEW b \in Spot, NEW e \in Spot,
         \A a \in Spot : Want(a) = Reads(wpc[s]) => a = b,
         Hears(b, x, e), Want(e) = Reads(k)
  PROVE  CommandInv'
  <1>1. /\ cpc[s] \in ClientPlace /\ wpc[s] \in WorkerPlace /\ up[s] \in Seq(Sent)
        /\ down[s] \in Seq(Reply) /\ Talk(cpc[s], wpc[s], up[s], down[s])
    BY DEF CommandInv, CommandTypes, Dialogue
  <1>2. Reads(wpc[s]) \in Owed
    BY DEF Owed, Reads
  <1>3. Walk(Hearing, b, <<x>>, e)
    BY HearingIs, WalkOne
  <1>4. <<x>> \in Seq(Reply)
    OBVIOUS
  <1>5. /\ Arrived(cpc[s], down[s], <<x>>) \in Seq(Reply)
        /\ Talk(cpc[s], k, up[s], Arrived(cpc[s], down[s], <<x>>))
    BY <1>1, <1>2, <1>3, <1>4, TalkAnswers
  <1>6. Bounded(s)'
    BY BoundedStays DEF Owed
  <1>7. cur' \in [Sessions -> C!Paths] /\ entries' \in [Sessions -> SUBSET Names]
    BY DEF CommandInv, CommandTypes
  <1> QED
    BY <1>5, <1>6, <1>7, AnswerKeeps

(* A worker that reads an item.                                            *)
LEMMA ReadingKeeps ==
  ASSUME CommandInv, NEW s \in Sessions, NEW k \in WorkerPlace, k \notin C!Ops,
         up[s] # <<>>, up' = [up EXCEPT ![s] = Tail(@)], C!Goto(s, k),
         tree' \in [C!Paths -> {"none", "file", "dir"}],
         UNCHANGED <<cur, entries, cpc, down, fault>>,
         \A n \in Spot : Takes(Reads(wpc[s]), Head(up[s]), n) => n = Reads(k),
         k = "recv" \/ wpc[s] \notin {"recv", "gone"}
  PROVE  CommandInv'
  <1>1. /\ cpc[s] \in ClientPlace /\ wpc[s] \in WorkerPlace /\ up[s] \in Seq(Sent)
        /\ Talk(cpc[s], wpc[s], up[s], down[s])
    BY DEF CommandInv, CommandTypes, Dialogue
  <1>2. Tail(up[s]) \in Seq(Sent) /\ Talk(cpc[s], k, Tail(up[s]), down[s])
    BY <1>1, TalkTakes
  <1>3. CommandTypes'
    BY <1>2, WorkerTypes DEF CommandInv, CommandTypes
  <1>4. Others(s)
    BY WorkerTypes DEF CommandInv, CommandTypes, Others
  <1>5. up'[s] = Tail(up[s])
    BY DEF CommandInv, CommandTypes
  <1>6. ASSUME NEW i \in 1 .. Len(up'[s]) PROVE \E j \in 1 .. Len(up[s]) : up'[s][i] = up[s][j]
    <2>0. /\ Len(up[s]) \in Nat /\ Len(Tail(up[s])) = Len(up[s]) - 1
          /\ \A j \in 1 .. Len(Tail(up[s])) : Tail(up[s])[j] = up[s][j + 1]
      BY <1>1, HeadTailProperties, LenProperties
    <2>1. i \in 1 .. Len(Tail(up[s]))
      BY <1>5
    <2>2. i + 1 \in 1 .. Len(up[s])
      BY <2>0, <2>1
    <2>3. up'[s][i] = up[s][i + 1]
      BY <1>5, <2>0, <2>1
    <2> QED
      BY <2>2, <2>3
  <1>7. Bounded(s)'
    BY <1>6, BoundedStays
  <1>8. Dialogue(s)'
    BY <1>2, <1>5, WorkerTypes DEF Dialogue
  <1> QED
    BY <1>3, <1>4, <1>7, <1>8, OneSession

(* A worker that finds the end of the stream.                              *)
LEMMA EofKeeps ==
  ASSUME CommandInv, NEW s \in Sessions, C!Eof(s), NEW k \in {"recv", "gone"}, C!Goto(s, k),
         tree' \in [C!Paths -> {"none", "file", "dir"}],
         UNCHANGED <<cur, entries, cpc, up, down, fault>>
  PROVE  CommandInv'
  <1>1. k \in WorkerPlace /\ k \notin C!Ops /\ Reads(k) = "recv" /\ "recv" \in Spot
    BY DEF WorkerPlace, C!Ops, Reads, Spot
  <1>2. Talk(cpc[s], k, up[s], down[s])
    BY <1>1, WalkEmpty DEF C!Eof, Talk
  <1>3. CommandTypes' /\ Others(s)
    BY <1>1, WorkerTypes DEF CommandInv, CommandTypes, Others
  <1>4. Bounded(s)'
    BY <1>1, BoundedStays
  <1>5. Dialogue(s)'
    BY <1>1, <1>2, WorkerTypes DEF Dialogue
  <1> QED
    BY <1>3, <1>4, <1>5, OneSession

(* A step the client does not see.                                         *)
LEMMA SilentKeeps ==
  ASSUME CommandInv, NEW s \in Sessions, NEW k \in WorkerPlace, k \notin C!Ops, C!Goto(s, k),
         Reads(k) = Reads(wpc[s]), wpc[s] \notin {"recv", "gone"},
         tree' \in [C!Paths -> {"none", "file", "dir"}],
         entries' \in [Sessions -> SUBSET Names], UNCHANGED <<cur, cpc, up, down, fault>>
  PROVE  CommandInv'
  <1>1. CommandTypes' /\ Others(s)
    BY WorkerTypes DEF CommandInv, CommandTypes, Others
  <1>2. Bounded(s)'
    BY BoundedStays
  <1>3. Dialogue(s)
    BY DEF CommandInv
  <1>4. Dialogue(s)'
    BY <1>3, WorkerTypes DEF Dialogue, Talk
  <1> QED
    BY <1>1, <1>2, <1>4, OneSession

(* Words are as clients make them.                                         *)
LEMMA WordFacts ==
  ASSUME PlainNames
  PROVE  /\ \A x \in Sent : x[1] = "str" => x[2] \in Word
         /\ \A x \in Word : x[1] \in C!Ops => x \in Command
         /\ \A x \in Command : x[1] \in C!Ops /\ Len(x) # 1
         /\ \A x \in Command : x[2] \in Names \union {".", ".."}
  <1>1. \A x \in Sent : x[1] = "str" => x[2] \in Word
    BY DEF Sent, C!Str, C!Number, C!Long, C!File
  <1>2. \A n \in Names \union {"hash"} : <<n>>[1] \notin C!Ops
    BY DEF PlainNames, C!Ops
  <1>3. \A x \in Word : x[1] \in C!Ops => x \in Command
    BY <1>2 DEF Word
  <1>4. \A x \in (C!Ops \ {"cd"}) \X Names :
          x[1] \in C!Ops /\ Len(x) # 1 /\ x[2] \in Names
    OBVIOUS
  <1>5. \A x \in {"cd"} \X (Names \union {".", ".."}) :
          x[1] \in C!Ops /\ Len(x) # 1 /\ x[2] \in Names \union {".", ".."}
    BY DEF C!Ops
  <1>6. \A x \in {"cd"} \X Names \X {"/"} :
          x[1] \in C!Ops /\ Len(x) # 1 /\ x[2] \in Names
    BY DEF C!Ops
  <1> QED
    BY <1>1, <1>3, <1>4, <1>5, <1>6 DEF Command

(* splitChar and the operation.                                            *)
LEMMA RecvCommandKeeps ==
  ASSUME PlainNames, CommandInv, NEW s \in Sessions, C!RecvCommand(s)
  PROVE  CommandInv'
  <1>1. /\ cpc[s] \in ClientPlace /\ wpc[s] = "recv" /\ up[s] \in Seq(Sent) /\ up[s] # <<>>
        /\ Talk(cpc[s], "recv", up[s], down[s]) /\ "recv" \in WorkerPlace
        /\ Reads("recv") = "recv" /\ Bounded(s)
    BY DEF CommandInv, CommandTypes, Dialogue, C!RecvCommand, WorkerPlace, Reads
  <1> DEFINE x == Head(up[s])
  <1>2. /\ x \in Sent /\ Tail(up[s]) \in Seq(Sent)
        /\ \E n \in Spot : Takes("recv", x, n)
        /\ \A k \in WorkerPlace :
             (\A n \in Spot : Takes("recv", x, n) => n = Reads(k))
               => Talk(cpc[s], k, Tail(up[s]), down[s])
    <2>1. /\ x \in Sent /\ Tail(up[s]) \in Seq(Sent)
          /\ \E n \in Spot : Takes(Reads("recv"), x, n)
          /\ \A k \in WorkerPlace :
               (\A n \in Spot : Takes(Reads("recv"), x, n) => n = Reads(k))
                 => Talk(cpc[s], k, Tail(up[s]), down[s])
      BY <1>1, TalkTakes
    <2> QED
      BY <1>1, <2>1
  <1>3. x = up[s][1] /\ 1 \in 1 .. Len(up[s])
    <2>1. Len(up[s]) \in Nat /\ Len(up[s]) # 0
      BY <1>1, LenProperties, Void
    <2> QED
      BY <1>1, <2>1
  <1>4. /\ Len(up[s]) \in Nat /\ Len(Tail(up[s])) = Len(up[s]) - 1
        /\ \A j \in 1 .. Len(Tail(up[s])) : Tail(up[s])[j] = up[s][j + 1]
    BY <1>1, HeadTailProperties, LenProperties
  <1> HIDE DEF x
  <1>5. x[1] = "str" /\ x[2] \in Word
    BY <1>2, WordFacts DEF Takes
  <1>6. up' = [up EXCEPT ![s] = Tail(@)] /\ UNCHANGED <<tree, cur, entries, cpc, down, fault>>
    BY <1>5 DEF C!RecvCommand, C!files, C!locals, x
  <1>7. up'[s] = Tail(up[s])
    BY <1>6 DEF CommandInv, CommandTypes
  <1>8. ASSUME NEW i \in 1 .. Len(up'[s])
        PROVE  i + 1 \in 1 .. Len(up[s]) /\ up'[s][i] = up[s][i + 1]
    <2>1. i \in 1 .. Len(Tail(up[s]))
      BY <1>7
    <2>2. i + 1 \in 1 .. Len(up[s])
      BY <1>4, <2>1
    <2> QED
      BY <1>4, <1>7, <2>1, <2>2
  <1>9. \A i \in 1 .. Len(up'[s]) : up'[s][i][1] = "str" => Below(s, up[s][i + 1][2])
    BY <1>1, <1>8 DEF Bounded
  <1>10. \A w : Below(s, w)' <=> Below(s, w)
    BY <1>6 DEF Below
  <1>11. CASE x[2][1] \in C!Ops
    <2> DEFINE k == x[2][1]
    <2>1. x[2] \in Command /\ Len(x[2]) # 1
      BY <1>5, <1>11, WordFacts
    <2>2. wcmd' = [wcmd EXCEPT ![s] = x[2]] /\ wpc' = [wpc EXCEPT ![s] = k]
      BY <1>5, <1>11, <2>1 DEF C!RecvCommand, x
    <2>3. k \in WorkerPlace /\ Reads(k) = k
      BY <1>11 DEF WorkerPlace, Reads, C!Ops
    <2>4. \A n \in Spot : Takes("recv", x, n) => n = Reads(k)
      BY <1>11, <2>3 DEF Takes
    <2>5. Talk(cpc[s], k, Tail(up[s]), down[s])
      BY <1>2, <2>3, <2>4
    <2>6. CommandTypes'
      BY <1>2, <1>6, <2>2, <2>3 DEF CommandInv, CommandTypes
    <2>7. Others(s) /\ wpc'[s] = k /\ wcmd'[s] = x[2]
      BY <1>6, <2>2 DEF CommandInv, CommandTypes, Others
    <2>8. Dialogue(s)'
      BY <1>6, <1>7, <2>5, <2>7 DEF Dialogue
    <2>9. Below(s, x[2])
      BY <1>1, <1>3, <1>5 DEF Bounded
    <2>10. Bounded(s)'
      <3>1. \A i \in 1 .. Len(up'[s]) : up'[s][i][1] = "str" => Below(s, up[s][i][2])'
        BY <1>8, <1>9, <1>10
      <3> QED
        BY <1>1, <1>6, <1>10, <2>1, <2>7, <2>9, <3>1 DEF Bounded
    <2> QED
      BY <2>6, <2>7, <2>8, <2>10, OneSession
  <1>12. CASE x[2][1] \notin C!Ops
    <2>2. UNCHANGED <<wcmd, wpc>>
      BY <1>5, <1>12 DEF C!RecvCommand, x
    <2>4. \A n \in Spot : Takes("recv", x, n) => n = Reads("recv")
      BY <1>1, <1>12 DEF Takes
    <2>5. Talk(cpc[s], "recv", Tail(up[s]), down[s])
      BY <1>1, <1>2, <2>4
    <2>6. CommandTypes'
      BY <1>2, <1>6, <2>2 DEF CommandInv, CommandTypes
    <2>7. Others(s)
      BY <1>6, <2>2 DEF CommandInv, CommandTypes, Others
    <2>8. Dialogue(s)'
      BY <1>1, <1>6, <1>7, <2>2, <2>5 DEF Dialogue
    <2>10. Bounded(s)'
      <3>1. \A i \in 1 .. Len(up'[s]) : up'[s][i][1] = "str" => Below(s, up[s][i][2])'
        BY <1>8, <1>9, <1>10
      <3>2. wpc[s] \notin C!Ops
        BY <1>1 DEF C!Ops
      <3> QED
        BY <1>1, <1>6, <2>2, <3>1, <3>2 DEF Bounded
    <2> QED
      BY <2>6, <2>7, <2>8, <2>10, OneSession
  <1> QED
    BY <1>11, <1>12

(* recv_n of an item in the midst of a command.                            *)
LEMMA ReceivesKeeps ==
  ASSUME CommandInv, NEW s \in Sessions,
         NEW l \in {"puts", "putsName", "putsHash", "getsHere", "getsSize"}, NEW kind, NEW k,
         C!Receives(s, l, kind, k),
         \A x \in Sent, n \in Spot : up[s] # <<>> /\ x = Head(up[s]) /\ Takes(l, x, n) =>
            x[1] = kind /\ n = k /\ k \in WorkerPlace \ C!Ops /\ Reads(k) = k
  PROVE  CommandInv'
  <1>1. /\ cpc[s] \in ClientPlace /\ wpc[s] = l /\ up[s] \in Seq(Sent)
        /\ Talk(cpc[s], l, up[s], down[s]) /\ l \in WorkerPlace /\ Reads(l) = l
        /\ tree \in [C!Paths -> {"none", "file", "dir"}]
    BY DEF CommandInv, CommandTypes, Dialogue, C!Receives, WorkerPlace, Reads, C!Ops
  <1>2. UNCHANGED <<tree, cur, entries, cpc, down>>
    BY DEF C!Receives, C!files, C!locals
  <1>3. CASE up[s] = <<>>
    <2>1. C!Eof(s) /\ C!Goto(s, "recv") /\ UNCHANGED <<up, fault>>
      BY <1>3 DEF C!Receives
    <2> QED
      BY <1>1, <1>2, <2>1, EofKeeps
  <1>4. CASE up[s] # <<>>
    <2>1. PICK n \in Spot : Head(up[s]) \in Sent /\ Takes(l, Head(up[s]), n)
      BY <1>1, <1>4, TalkTakes
    <2>2. Head(up[s])[1] = kind /\ k \in WorkerPlace \ C!Ops /\ Reads(k) = k
      BY <1>4, <2>1
    <2>3. up' = [up EXCEPT ![s] = Tail(@)] /\ C!Goto(s, k) /\ UNCHANGED fault
      BY <1>4, <2>2 DEF C!Receives
    <2>4. \A o \in Spot : Takes(Reads(wpc[s]), Head(up[s]), o) => o = Reads(k)
      BY <1>1, <1>4, <2>1, <2>2
    <2>5. wpc[s] \notin {"recv", "gone"}
      BY <1>1
    <2> QED
      BY <1>1, <1>2, <1>4, <2>2, <2>3, <2>4, <2>5, ReadingKeeps
  <1> QED
    BY <1>3, <1>4

(* What puts and gets read.                                                *)
LEMMA ReadsKeep ==
  ASSUME CommandInv, NEW s \in Sessions,
         \/ C!Puts(s) \/ C!PutsName(s) \/ C!PutsHash(s) \/ C!GetsHere(s) \/ C!GetsSize(s)
  PROVE  CommandInv'
  <1> DEFINE Kept(l, kind, k) ==
        \A x \in Sent, n \in Spot : up[s] # <<>> /\ x = Head(up[s]) /\ Takes(l, x, n) =>
            x[1] = kind /\ n = k /\ k \in WorkerPlace \ C!Ops /\ Reads(k) = k
  <1>1. CASE C!Puts(s)
    <2> DEFINE k == IF up[s] # <<>> /\ Head(up[s])[2] = -1 THEN "recv" ELSE "putsName"
    <2>1. Kept("puts", "int", k)
      BY DEF Takes, WorkerPlace, Reads, C!Ops
    <2>2. C!Receives(s, "puts", "int", k)
      BY <1>1 DEF C!Puts
    <2> HIDE DEF k
    <2> QED
      BY <2>1, <2>2, ReceivesKeeps
  <1>2. CASE C!PutsName(s)
    <2>1. Kept("putsName", "str", "putsHash")
      BY DEF Takes, WorkerPlace, Reads, C!Ops
    <2> QED
      BY <1>2, <2>1, ReceivesKeeps DEF C!PutsName
  <1>3. CASE C!PutsHash(s)
    <2>1. Kept("putsHash", "str", "putsCheck")
      BY DEF Takes, WorkerPlace, Reads, C!Ops
    <2> QED
      BY <1>3, <2>1, ReceivesKeeps DEF C!PutsHash
  <1>4. CASE C!GetsHere(s)
    <2> DEFINE k == IF up[s] # <<>> /\ Head(up[s])[2] = 1 THEN "getsSize" ELSE "transFile"
    <2>1. Kept("getsHere", "int", k)
      BY DEF Takes, WorkerPlace, Reads, C!Ops
    <2>2. C!Receives(s, "getsHere", "int", k)
      BY <1>4 DEF C!GetsHere
    <2> HIDE DEF k
    <2> QED
      BY <2>1, <2>2, ReceivesKeeps
  <1>5. CASE C!GetsSize(s)
    <2>1. Kept("getsSize", "long", "transFile")
      BY DEF Takes, WorkerPlace, Reads, C!Ops
    <2> QED
      BY <1>5, <2>1, ReceivesKeeps DEF C!GetsSize
  <1> QED
    BY <1>1, <1>2, <1>3, <1>4, <1>5

(* The end of the session.                                                 *)
LEMMA ReturnKeeps ==
  ASSUME CommandInv, NEW s \in Sessions, C!Return(s)
  PROVE  CommandInv'
  <1>1. tree' \in [C!Paths -> {"none", "file", "dir"}]
    BY DEF CommandInv, CommandTypes, C!Return, C!files
  <1> QED
    BY <1>1, EofKeeps DEF C!Return, C!files, C!locals

(* The steps on the tree keep its type.                                    *)
LEMMA TreeTypes ==
  ASSUME CommandInv, NEW s \in Sessions, NEW type \in {"file", "dir"},
         C!Creates(s, type) \/ C!Removes(s) \/ UNCHANGED tree
  PROVE  tree' \in [C!Paths -> {"none", "file", "dir"}]
  <1>1. CASE C!Creates(s, type)
    BY <1>1 DEF CommandInv, CommandTypes, C!Creates
  <1>2. CASE C!Removes(s)
    BY <1>2 DEF CommandInv, CommandTypes, C!Removes
  <1> QED
    BY <1>1, <1>2 DEF CommandInv, CommandTypes

(* What the client does not see: the listing's opendir, the links, the     *)
(* removal and the making of directories.                                  *)
LEMMA SilentStepsKeep ==
  ASSUME CommandInv, NEW s \in Sessions,
         \/ C!MakeDir(s) \/ C!Link(s) \/ C!RemoveDir(s) \/ C!RemoveRow(s)
         \/ C!RemoveFile(s)
  PROVE  CommandInv'
  <1>1. PICK k \in {"recv", "rmlink"} :
          /\ C!Goto(s, k)
          /\ wpc[s] \in {"makeDir", "link", "rmdir", "rmfile", "rmlink"}
    BY DEF C!MakeDir, C!Link, C!RemoveDir, C!RemoveRow, C!RemoveFile
  <1>2. UNCHANGED <<cur, entries, cpc, up, down, fault>>
    BY DEF C!MakeDir, C!Link, C!RemoveDir, C!RemoveRow, C!RemoveFile, C!locals
  <1>3. tree' \in [C!Paths -> {"none", "file", "dir"}]
    BY TreeTypes DEF C!MakeDir, C!Link, C!RemoveDir, C!RemoveRow, C!RemoveFile
  <1>4. /\ k \in WorkerPlace /\ k \notin C!Ops /\ Reads(k) = Reads(wpc[s])
        /\ wpc[s] \notin {"recv", "gone"}
    BY <1>1 DEF WorkerPlace, C!Ops, Reads
  <1>5. entries' \in [Sessions -> SUBSET Names]
    BY <1>2 DEF CommandInv, CommandTypes
  <1> QED
    BY <1>1, <1>2, <1>3, <1>4, <1>5, SilentKeeps

(* A path is a sequence of names.                                          *)
LEMMA PathFacts ==
  ASSUME PlainNames
  PROVE  /\ \A p \in C!Paths : p \in Seq(Names) /\ Len(p) \in 0 .. Depth
         /\ \A p \in Seq(Names) : Len(p) <= Depth => p \in C!Paths
  <1>1. ASSUME NEW p \in C!Paths PROVE p \in Seq(Names) /\ Len(p) \in 0 .. Depth
    <2>1. PICK k \in 0 .. Depth : p \in [1 .. k -> Names]
      BY DEF C!Paths
    <2>2. k \in Nat
      BY DEF PlainNames
    <2> QED
      BY <2>1, <2>2
  <1>2. ASSUME NEW p \in Seq(Names), Len(p) <= Depth PROVE p \in C!Paths
    <2>1. Len(p) \in 0 .. Depth /\ p \in [1 .. Len(p) -> Names]
      BY <1>2, LenProperties DEF PlainNames
    <2> QED
      BY <2>1 DEF C!Paths
  <1> QED
    BY <1>1, <1>2

(* One name more, one name less.                                           *)
LEMMA PathSteps ==
  ASSUME PlainNames, NEW p \in C!Paths
  PROVE  /\ \A n \in Names : Len(p) < Depth =>
              Append(p, n) \in C!Paths /\ Len(Append(p, n)) = Len(p) + 1
         /\ p # <<>> => C!Front(p) \in C!Paths /\ Len(C!Front(p)) = Len(p) - 1
                        /\ C!Last(p) \in Names
  <1>1. p \in Seq(Names) /\ Len(p) \in 0 .. Depth /\ Depth \in Nat
    BY PathFacts DEF PlainNames
  <1>2. ASSUME NEW n \in Names, Len(p) < Depth
        PROVE  Append(p, n) \in C!Paths /\ Len(Append(p, n)) = Len(p) + 1
    <2>1. Append(p, n) \in Seq(Names) /\ Len(Append(p, n)) = Len(p) + 1
      BY <1>1, AppendProperties
    <2>2. Len(Append(p, n)) <= Depth
      BY <1>1, <1>2, <2>1
    <2> QED
      BY <2>1, <2>2, PathFacts
  <1>3. ASSUME p # <<>>
        PROVE C!Front(p) \in C!Paths /\ Len(C!Front(p)) = Len(p) - 1 /\ C!Last(p) \in Names
    <2>1. Len(p) \in Nat /\ Len(p) >= 1
      BY <1>1, <1>3, LenProperties, Void
    <2>2. PICK k \in Nat : k = Len(p) - 1
      BY <2>1
    <2>3. SubSeq(p, 1, k) \in Seq(Names) /\ Len(SubSeq(p, 1, k)) = k
      <3>1. \A i \in 1 .. k : p[i] \in Names
        BY <1>1, <2>1, <2>2, ElementOfSeq
      <3> QED
        BY <2>2, <3>1, SubSeqProperties
    <2>4. Len(SubSeq(p, 1, k)) <= Depth
      BY <1>1, <2>1, <2>2, <2>3
    <2>5. p[Len(p)] \in Names
      BY <1>1, <2>1, ElementOfSeq
    <2> QED
      BY <2>2, <2>3, <2>4, <2>5, PathFacts DEF C!Front, C!Last
  <1> QED
    BY <1>2, <1>3

(* Who waits for what a worker owes.                                       *)
LEMMA Waiting ==
  /\ {"cd", "remove", "pwd", "ls", "gets", "puts", "getsFile", "prompt", "sent", "asks",
      "lsName", "lsSize", "putsSize"} \subseteq Spot
  /\ {"recv", "getsHere", "recvFile", "link", "rmdir", "rmfile", "makeDir", "lsEntry"}
        \subseteq WorkerPlace \ C!Ops
  /\ \A m \in {"cd", "remove", "pwd", "ls", "gets"} : \A a \in Spot : Want(a) = m => a = m
  /\ \A a \in Spot : Want(a) = "putsCheck" => a = "puts"
  /\ \A a \in Spot : Want(a) = "transFile" => a = "getsFile"
  /\ Want("prompt") = "recv" /\ Want("sent") = "recvFile" /\ Want("asks") = "getsHere"
  /\ Want("ls") = "ls"
  <1>1. ASSUME NEW m \in {"cd", "remove", "pwd", "ls", "gets"}, NEW a \in Spot, Want(a) = m
        PROVE  a = m
    BY <1>1 DEF Want
  <1>2. ASSUME NEW a \in Spot
        PROVE  /\ Want(a) = "putsCheck" => a = "puts"
               /\ Want(a) = "transFile" => a = "getsFile"
    BY DEF Want
  <1>3. {"cd", "remove", "pwd", "ls", "gets", "puts", "getsFile", "prompt", "sent", "asks",
         "lsName", "lsSize", "putsSize"} \subseteq Spot
    BY DEF Spot, ClientPlace, C!Ops
  <1>4. {"recv", "getsHere", "recvFile", "link", "rmdir", "rmfile", "makeDir", "lsEntry"}
        \subseteq WorkerPlace \ C!Ops
    BY DEF WorkerPlace, C!Ops
  <1> QED
    BY <1>1, <1>2, <1>3, <1>4 DEF Want

(* The answers of one number.                                              *)
LEMMA NumbersKeep ==
  ASSUME PlainNames, CommandInv, NEW s \in Sessions,
         C!Gets(s) \/ C!RemoveCheck(s) \/ C!TransFile(s) \/ C!Pwd(s)
  PROVE  CommandInv'
  <1>1. CASE C!Gets(s)
    <2>1. /\ wpc[s] = "gets" /\ UNCHANGED <<tree, cur, entries, cpc, up, fault>>
          /\ \/ C!Sends(s, <<C!Number(1)>>) /\ C!Goto(s, "getsHere")
             \/ C!Sends(s, <<C!Number(-1)>>) /\ C!Goto(s, "recv")
      BY <1>1 DEF C!Gets, C!files, C!locals
    <2>2. C!Number(1) \in Reply /\ C!Number(-1) \in Reply
      BY DEF Reply
    <2>3. Hears("gets", C!Number(1), "asks") /\ Hears("gets", C!Number(-1), "prompt")
      BY DEF Hears, C!Number
    <2>4. /\ wpc[s] \in Owed \union {"lsEntry"} /\ Reads(wpc[s]) = "gets"
          /\ Reads("getsHere") = "getsHere" /\ Reads("recv") = "recv"
      BY <2>1 DEF Owed, Reads
    <2>5. CASE C!Sends(s, <<C!Number(1)>>) /\ C!Goto(s, "getsHere")
      BY <2>1, <2>2, <2>3, <2>4, <2>5, Waiting, AnswersOne
    <2>6. CASE C!Sends(s, <<C!Number(-1)>>) /\ C!Goto(s, "recv")
      BY <2>1, <2>2, <2>3, <2>4, <2>6, Waiting, AnswersOne
    <2> QED
      BY <2>1, <2>5, <2>6
  <1>2. CASE C!RemoveCheck(s)
    <2>1. PICK i \in {-1, 1}, k \in {"recv", "rmdir", "rmfile"} :
             C!Sends(s, <<C!Number(i)>>) /\ C!Goto(s, k)
      BY <1>2 DEF C!RemoveCheck
    <2>2. wpc[s] = "remove" /\ UNCHANGED <<tree, cur, entries, cpc, up, fault>>
      BY <1>2 DEF C!RemoveCheck, C!files, C!locals
    <2>3. C!Number(i) \in Reply /\ Hears("remove", C!Number(i), "prompt")
      BY DEF Reply, Hears, C!Number
    <2>4. wpc[s] \in Owed \union {"lsEntry"} /\ Reads(wpc[s]) = "remove" /\ Reads(k) = "recv"
      BY <2>2 DEF Owed, Reads
    <2> QED
      BY <2>1, <2>2, <2>3, <2>4, Waiting, AnswersOne
  <1>3. CASE C!TransFile(s)
    <2>1. /\ wpc[s] = "transFile" /\ UNCHANGED <<tree, cur, entries, cpc, up, fault>>
          /\ C!Sends(s, <<C!File>>) /\ C!Goto(s, "recv")
      BY <1>3 DEF C!TransFile, C!files, C!locals
    <2>2. C!File \in Reply /\ Hears("getsFile", C!File, "prompt")
      BY DEF Reply, Hears, C!File
    <2>3. wpc[s] \in Owed \union {"lsEntry"} /\ Reads(wpc[s]) = "transFile" /\ Reads("recv") = "recv"
      BY <2>1 DEF Owed, Reads
    <2> QED
      BY <2>1, <2>2, <2>3, Waiting, AnswersOne
  <1>4. CASE C!Pwd(s)
    <2>1. /\ wpc[s] = "pwd" /\ UNCHANGED <<tree, cur, entries, cpc, up, fault>>
          /\ C!Sends(s, <<C!Str(cur[s])>>) /\ C!Goto(s, "recv")
      BY <1>4 DEF C!Pwd, C!files, C!locals
    <2>2. C!Str(cur[s]) \in Reply
      BY PathFacts DEF Reply, CommandInv, CommandTypes
    <2>3. Hears("pwd", C!Str(cur[s]), "prompt")
      BY DEF Hears, C!Str
    <2>4. wpc[s] \in Owed \union {"lsEntry"} /\ Reads(wpc[s]) = "pwd" /\ Reads("recv") = "recv"
      BY <2>1 DEF Owed, Reads
    <2> QED
      BY <2>1, <2>2, <2>3, <2>4, Waiting, AnswersOne
  <1> QED
    BY <1>1, <1>2, <1>3, <1>4

(* mkdir, with its operand read or not.                                    *)
LEMMA MkdirKeeps ==
  ASSUME CommandInv, NEW s \in Sessions, C!Mkdir(s)
  PROVE  CommandInv'
  <1>1. PICK i \in {-1, 0}, k \in {"recv", "makeDir"} :
           C!Sends(s, <<C!Number(i)>>) /\ C!Goto(s, k)
    BY DEF C!Mkdir
  <1>2. wpc[s] = "mkdir" /\ UNCHANGED <<tree, cur, entries, cpc, up, fault>>
    BY DEF C!Mkdir, C!files, C!locals
  <1>3. C!Number(i) \in Reply /\ C!Number(i)[1] = "int"
    BY DEF Reply, C!Number
  <1>4. /\ cpc[s] \in ClientPlace /\ up[s] \in Seq(Sent) /\ down[s] \in Seq(Reply)
        /\ Talk(cpc[s], "mkdir", up[s], down[s])
        /\ cur' \in [Sessions -> C!Paths] /\ entries' \in [Sessions -> SUBSET Names]
    BY <1>2 DEF CommandInv, CommandTypes, Dialogue
  <1>5. k \in WorkerPlace /\ k \notin C!Ops /\ Reads(k) = "recv"
    BY DEF WorkerPlace, C!Ops, Reads
  <1>6. /\ Arrived(cpc[s], down[s], <<C!Number(i)>>) \in Seq(Reply)
        /\ Talk(cpc[s], k, up[s], Arrived(cpc[s], down[s], <<C!Number(i)>>))
    BY <1>3, <1>4, <1>5, TalkMkdir
  <1>7. Bounded(s)'
    BY <1>1, <1>2, <1>5, BoundedStays
  <1> QED
    BY <1>1, <1>2, <1>4, <1>5, <1>6, <1>7, AnswerKeeps

(* The answer to puts.                                                     *)
LEMMA PutsCheckKeeps ==
  ASSUME CommandInv, NEW s \in Sessions, C!PutsCheck(s)
  PROVE  CommandInv'
  <1>1. wpc[s] = "putsCheck" /\ UNCHANGED <<tree, cur, entries, cpc, up, fault>>
    BY DEF C!PutsCheck, C!files
  <1>2. /\ wpc[s] \in Owed \union {"lsEntry"} /\ Reads(wpc[s]) = "putsCheck"
        /\ Reads(wpc[s]) \in Owed
        /\ Reads("link") = "recv" /\ Reads("recv") = "recv" /\ Reads("recvFile") = "recvFile"
    BY <1>1 DEF Owed, Reads
  <1>3. /\ C!Number(2) \in Reply /\ C!Number(-1) \in Reply /\ C!Number(0) \in Reply
        /\ C!Number(1) \in Reply /\ C!Long \in Reply
    BY DEF Reply
  <1>4. /\ Hears("puts", C!Number(2), "prompt") /\ Hears("puts", C!Number(-1), "prompt")
        /\ Hears("puts", C!Number(0), "sent") /\ Hears("puts", C!Number(1), "putsSize")
        /\ Hears("putsSize", C!Long, "sent")
    BY DEF Hears, C!Number, C!Long
  <1>5. CASE C!Sends(s, <<C!Number(2)>>) /\ C!Goto(s, "link")
    BY <1>1, <1>2, <1>3, <1>4, <1>5, Waiting, AnswersOne
  <1>6. CASE C!Sends(s, <<C!Number(-1)>>) /\ C!Goto(s, "recv")
    BY <1>1, <1>2, <1>3, <1>4, <1>6, Waiting, AnswersOne
  <1>7. CASE C!Sends(s, <<C!Number(0)>>) /\ C!Goto(s, "recvFile")
    BY <1>1, <1>2, <1>3, <1>4, <1>7, Waiting, AnswersOne
  <1>8. CASE C!Sends(s, <<C!Number(1), C!Long>>) /\ C!Goto(s, "recvFile")
    <2> DEFINE items == <<C!Number(1), C!Long>>
    <2>1. items \in Seq(Reply)
      BY <1>3
    <2>2. Walk(Hearing, "puts", items, "sent")
      <3>1. /\ <<"puts", C!Number(1), "putsSize">> \in Hearing
            /\ <<"putsSize", C!Long, "sent">> \in Hearing
        BY <1>3, <1>4, Waiting, HearingIs
      <3> QED
        BY <3>1, Waiting, WalkTwo
    <2> HIDE DEF items
    <2>3. /\ cpc[s] \in ClientPlace /\ wpc[s] \in WorkerPlace /\ up[s] \in Seq(Sent)
          /\ down[s] \in Seq(Reply) /\ Talk(cpc[s], wpc[s], up[s], down[s])
          /\ cur' \in [Sessions -> C!Paths] /\ entries' \in [Sessions -> SUBSET Names]
      BY <1>1 DEF CommandInv, CommandTypes, Dialogue
    <2>4. /\ Arrived(cpc[s], down[s], items) \in Seq(Reply)
          /\ Talk(cpc[s], "recvFile", up[s], Arrived(cpc[s], down[s], items))
      BY <1>2, <2>1, <2>2, <2>3, Waiting, TalkAnswers
    <2>5. Bounded(s)'
      BY <1>1, <1>8, Waiting, BoundedStays
    <2>6. C!Sends(s, items)
      BY <1>8 DEF items
    <2> QED
      BY <1>1, <1>8, <2>3, <2>4, <2>5, <2>6, Waiting, AnswerKeeps
  <1> QED
    BY <1>5, <1>6, <1>7, <1>8 DEF C!PutsCheck

(* recvFile.                                                               *)
LEMMA RecvFileKeeps ==
  ASSUME PlainNames, CommandInv, NEW s \in Sessions, C!RecvFile(s)
  PROVE  CommandInv'
  <1>1. /\ cpc[s] \in ClientPlace /\ wpc[s] = "recvFile" /\ up[s] \in Seq(Sent)
        /\ Talk(cpc[s], "recvFile", up[s], down[s]) /\ "recvFile" \in WorkerPlace
        /\ Reads("recvFile") = "recvFile" /\ Reads("recv") = "recv" /\ "recv" \in WorkerPlace
        /\ "recv" \notin C!Ops
    BY DEF CommandInv, CommandTypes, Dialogue, C!RecvFile, WorkerPlace, Reads, C!Ops
  <1>2. UNCHANGED <<cur, entries, cpc, down>> /\ C!Goto(s, "recv")
    BY DEF C!RecvFile, C!locals
  <1>3. CASE up[s] = <<>>
    <2>1. C!Eof(s) /\ UNCHANGED <<up, fault>> /\ (C!Creates(s, "file") \/ UNCHANGED tree)
      BY <1>3 DEF C!RecvFile
    <2>2. tree' \in [C!Paths -> {"none", "file", "dir"}]
      BY <2>1, TreeTypes
    <2> QED
      BY <1>2, <2>1, <2>2, EofKeeps
  <1>4. CASE up[s] # <<>>
    <2>1. PICK n \in Spot : Takes(Reads("recvFile"), Head(up[s]), n)
      BY <1>1, <1>4, TalkTakes
    <2>2. Head(up[s]) = C!File
      BY <1>1, <2>1 DEF Takes
    <2>3. up' = [up EXCEPT ![s] = Tail(@)] /\ UNCHANGED fault /\ C!Creates(s, "file")
      BY <1>4, <2>2 DEF C!RecvFile, C!Rests, PlainNames
    <2>4. tree' \in [C!Paths -> {"none", "file", "dir"}]
      BY <2>3, TreeTypes
    <2>5. \A o \in Spot : Takes(Reads(wpc[s]), Head(up[s]), o) => o = Reads("recv")
      BY <1>1 DEF Takes
    <2> QED
      BY <1>1, <1>2, <1>4, <2>3, <2>4, <2>5, ReadingKeeps
  <1> QED
    BY <1>3, <1>4

(* cd answers, and stays within the bound.                                 *)
LEMMA CdKeeps ==
  ASSUME PlainNames, CommandInv, NEW s \in Sessions, C!Cd(s)
  PROVE  CommandInv'
  <1> DEFINE n == wcmd[s][2]
  <1>1. PICK i \in {0, 1} : C!Sends(s, <<C!Number(i)>>)
    BY DEF C!Cd
  <1>2. wpc[s] = "cd" /\ C!Goto(s, "recv") /\ UNCHANGED <<tree, entries, cpc, up, fault>>
    BY DEF C!Cd, C!files
  <1>3. PICK p : /\ cur' = [cur EXCEPT ![s] = p]
                 /\ \/ p = cur[s]
                    \/ n = ".." /\ cur[s] # <<>> /\ p = C!Front(cur[s])
                    \/ n \in Names /\ p = Append(cur[s], n)
    BY DEF C!Cd, C!Path, CommandInv, CommandTypes
  <1>4. /\ cpc[s] \in ClientPlace /\ wpc[s] \in WorkerPlace /\ up[s] \in Seq(Sent)
        /\ down[s] \in Seq(Reply) /\ Talk(cpc[s], wpc[s], up[s], down[s])
        /\ cur \in [Sessions -> C!Paths] /\ cur[s] \in C!Paths /\ Bounded(s)
        /\ entries' \in [Sessions -> SUBSET Names]
    BY <1>2 DEF CommandInv, CommandTypes, Dialogue
  <1>5. Len(cur[s]) \in Nat /\ Len(cur[s]) < Depth /\ Depth \in Nat
    BY <1>4, PathFacts DEF Bounded, PlainNames
  <1>6. n \in Names => Len(cur[s]) + 2 <= Depth
    <2>1. wcmd[s][1] = "cd"
      BY <1>2, <1>4 DEF Bounded, C!Ops
    <2> QED
      BY <1>2, <1>4, <2>1 DEF Bounded, Below
  <1> HIDE DEF n
  <1>7. p \in C!Paths /\ Len(p) \in Nat /\ Len(p) < Depth
    <2>1. CASE p = cur[s]
      BY <1>4, <1>5, <2>1
    <2>2. CASE cur[s] # <<>> /\ p = C!Front(cur[s])
      <3>1. p \in C!Paths /\ Len(p) = Len(cur[s]) - 1
        BY <1>4, <2>2, PathSteps
      <3>2. Len(p) \in 0 .. Depth
        BY <3>1, PathFacts
      <3> QED
        BY <1>5, <3>1, <3>2
    <2>3. CASE n \in Names /\ p = Append(cur[s], n)
      <3>1. p \in C!Paths /\ Len(p) = Len(cur[s]) + 1
        BY <1>4, <1>5, <2>3, PathSteps
      <3> QED
        BY <1>5, <1>6, <2>3, <3>1
    <2> QED
      BY <1>3, <2>1, <2>2, <2>3
  <1>8. Reads(wpc[s]) = "cd" /\ Reads(wpc[s]) \in Owed /\ Reads("recv") = "recv"
        /\ "recv" \in WorkerPlace /\ "recv" \notin C!Ops
    BY <1>2 DEF Owed, Reads, WorkerPlace, C!Ops
  <1>9. C!Number(i) \in Reply /\ Hears("cd", C!Number(i), "prompt")
    BY DEF Reply, Hears, C!Number
  <1>10. <<C!Number(i)>> \in Seq(Reply) /\ Walk(Hearing, "cd", <<C!Number(i)>>, "prompt")
    <2>1. "cd" \in Spot /\ "prompt" \in Spot
      BY Waiting
    <2>2. <<"cd", C!Number(i), "prompt">> \in Hearing
      BY <1>9, <2>1, HearingIs
    <2>3. Walk(Hearing, "cd", <<C!Number(i)>>, "prompt")
      BY <2>1, <2>2, WalkOne
    <2> QED
      BY <1>9, <2>3
  <1>11. /\ Arrived(cpc[s], down[s], <<C!Number(i)>>) \in Seq(Reply)
         /\ Talk(cpc[s], "recv", up[s], Arrived(cpc[s], down[s], <<C!Number(i)>>))
    <2>1. /\ "cd" \in Spot /\ "prompt" \in Spot /\ Want("prompt") = Reads("recv")
          /\ \A a \in Spot : Want(a) = Reads(wpc[s]) => a = "cd"
      BY <1>8, Waiting
    <2> DEFINE items == <<C!Number(i)>>
    <2>2. items \in Seq(Reply) /\ Walk(Hearing, "cd", items, "prompt")
      BY <1>10
    <2> HIDE DEF items
    <2>3. /\ Arrived(cpc[s], down[s], items) \in Seq(Reply)
          /\ Talk(cpc[s], "recv", up[s], Arrived(cpc[s], down[s], items))
      BY <1>4, <1>8, <2>1, <2>2, TalkAnswers
    <2> QED
      BY <2>3 DEF items
  <1>12. up[s] = <<>>
    BY <1>4, <1>8, TalkOwed
  <1>13. Bounded(s)'
    <2>1. cur'[s] = p /\ wpc'[s] = "recv" /\ up'[s] = <<>>
      BY <1>2, <1>3, <1>4, <1>12 DEF CommandInv, CommandTypes, C!Goto
    <2>2. Len(<<>>) = 0 /\ ~ ("recv" = "cd")
      OBVIOUS
    <2> QED
      BY <1>7, <1>8, <2>1, <2>2 DEF Bounded
  <1>14. cur' \in [Sessions -> C!Paths] /\ \A t \in Sessions \ {s} : cur'[t] = cur[t]
    BY <1>3, <1>4, <1>7
  <1> QED
    BY <1>1, <1>2, <1>4, <1>8, <1>11, <1>13, <1>14, AnswerKeeps

(* opendir, and the end of the list.                                       *)
LEMMA ListKeeps ==
  ASSUME PlainNames, CommandInv, NEW s \in Sessions, C!Ls(s) \/ C!LsEnd(s)
  PROVE  CommandInv'
  <1>1. CASE C!Ls(s)
    <2>1. /\ wpc[s] = "ls" /\ C!Goto(s, "lsEntry")
          /\ entries' = [entries EXCEPT ![s] = {C!Last(p) : p \in C!Inside(cur[s])}]
          /\ UNCHANGED <<tree, cur, cpc, up, down, fault>>
      BY <1>1 DEF C!Ls, C!files
    <2>2. ASSUME NEW p \in C!Inside(cur[s]) PROVE C!Last(p) \in Names
      <3>1. p \in C!Paths /\ Len(p) = Len(cur[s]) + 1 /\ cur[s] \in C!Paths
        BY DEF C!Inside, CommandInv, CommandTypes
      <3>2. Len(cur[s]) \in Nat
        BY <3>1, PathFacts
      <3>3. p # <<>>
        BY <3>1, <3>2
      <3> QED
        BY <3>1, <3>3, PathSteps
    <2>3. /\ entries' \in [Sessions -> SUBSET Names]
          /\ tree' \in [C!Paths -> {"none", "file", "dir"}]
      BY <2>1, <2>2 DEF CommandInv, CommandTypes
    <2>4. Reads("lsEntry") = Reads(wpc[s]) /\ wpc[s] \notin {"recv", "gone"}
      BY <2>1 DEF Reads
    <2> QED
      BY <2>1, <2>3, <2>4, Waiting, SilentKeeps
  <1>2. CASE C!LsEnd(s)
    <2>1. /\ wpc[s] = "lsEntry" /\ C!Goto(s, "recv") /\ C!Sends(s, <<C!Byte(0)>>)
          /\ UNCHANGED <<tree, cur, entries, cpc, up, fault>>
      BY <1>2 DEF C!LsEnd, C!files, C!locals
    <2>2. C!Byte(0) \in Reply /\ Hears("ls", C!Byte(0), "prompt")
      BY DEF Reply, Hears, C!Byte
    <2>3. Reads(wpc[s]) = "ls" /\ Reads("recv") = "recv"
      BY <2>1 DEF Reads
    <2> QED
      BY <2>1, <2>2, <2>3, Waiting, AnswersOne
  <1> QED
    BY <1>1, <1>2

(* An entry of the list: what readdir has given has a type, because it is  *)
(* in the directory, or the buffer has the type of another.                *)
LEMMA LsEntryKeeps ==
  ASSUME PlainNames, CommandInv, NEW s \in Sessions, C!LsEntry(s)
  PROVE  CommandInv'
  <1>1. PICK n \in entries[s] :
          \E type \in IF tree[Append(cur[s], n)] = "none" THEN Garbage
                      ELSE {tree[Append(cur[s], n)]} :
            /\ entries' = [entries EXCEPT ![s] = @ \ {n}]
            /\ C!Sends(s, (IF type = "other" THEN <<>> ELSE <<C!Byte(1)>>)
                          \o <<C!Str(<<n>>), C!Long>>)
    BY DEF C!LsEntry
  <1>2. wpc[s] = "lsEntry" /\ UNCHANGED <<tree, cur, wpc, wcmd, cpc, up, fault>>
    BY DEF C!LsEntry, C!files
  <1>3. n \in Names /\ cur[s] \in C!Paths /\ Len(cur[s]) < Depth
    BY DEF CommandInv, CommandTypes, Bounded
  <1>4. Append(cur[s], n) \in C!Paths
    BY <1>3, PathSteps
  <1>5. tree[Append(cur[s], n)] \in {"none", "file", "dir"}
    BY <1>4 DEF CommandInv, CommandTypes
  <1> DEFINE a == <<C!Byte(1)>>
             b == <<C!Str(<<n>>), C!Long>>
  <1>6. C!Sends(s, a \o b) /\ entries' = [entries EXCEPT ![s] = @ \ {n}]
    BY <1>1, <1>5 DEF PlainNames
  <1>7. C!Byte(1) \in Reply /\ C!Str(<<n>>) \in Reply /\ C!Long \in Reply
    <2>1. <<n>> \in Seq(Names)
      BY <1>3
    <2> QED
      BY <2>1 DEF Reply
  <1>8. /\ Hears("ls", C!Byte(1), "lsName") /\ Hears("lsName", C!Str(<<n>>), "lsSize")
        /\ Hears("lsSize", C!Long, "ls")
    BY DEF Hears, C!Byte, C!Str, C!Long
  <1>9. Walk(Hearing, "ls", a, "lsName") /\ Walk(Hearing, "lsName", b, "ls")
    <2>1. /\ <<"ls", C!Byte(1), "lsName">> \in Hearing
          /\ <<"lsName", C!Str(<<n>>), "lsSize">> \in Hearing
          /\ <<"lsSize", C!Long, "ls">> \in Hearing
      BY <1>7, <1>8, Waiting, HearingIs
    <2> QED
      BY <2>1, Waiting, WalkOne, WalkTwo
  <1>10. a \in Seq(Reply) /\ b \in Seq(Reply)
    BY <1>7
  <1> HIDE DEF a, b
  <1>11. a \o b \in Seq(Reply) /\ Walk(Hearing, "ls", a \o b, "ls")
    BY <1>9, <1>10, Waiting, WalkConcat
  <1>12. /\ cpc[s] \in ClientPlace /\ wpc[s] \in WorkerPlace /\ up[s] \in Seq(Sent)
         /\ down[s] \in Seq(Reply) /\ Talk(cpc[s], wpc[s], up[s], down[s])
    BY DEF CommandInv, CommandTypes, Dialogue
  <1>13. Reads(wpc[s]) = "ls" /\ Reads(wpc[s]) \in Owed
    BY <1>2 DEF Reads, Owed
  <1>14. /\ Arrived(cpc[s], down[s], a \o b) \in Seq(Reply)
         /\ Talk(cpc[s], wpc[s], up[s], Arrived(cpc[s], down[s], a \o b))
    BY <1>11, <1>12, <1>13, Waiting, TalkAnswers
  <1>15. CommandTypes'
    BY <1>2, <1>6, <1>14, Sending DEF CommandInv, CommandTypes
  <1>16. Others(s)
    BY <1>2, <1>6, <1>14, Sending DEF Others
  <1>17. Dialogue(s)'
    BY <1>2, <1>6, <1>14, Sending DEF Dialogue
  <1>18. Bounded(s)'
    BY <1>2 DEF CommandInv, Bounded, Below
  <1> QED
    BY <1>15, <1>16, <1>17, <1>18, OneSession

-----------------------------------------------------------------------------
(* The steps of the client.                                                *)

(* No word of u leads below the bound.                                     *)
AllBelow(s, u) == \A i \in 1 .. Len(u) : u[i][1] = "str" => Below(s, u[i][2])

(* What is in two streams is in one of them.                               *)
LEMMA ConcatItems ==
  ASSUME NEW S, NEW T, NEW u \in Seq(S), NEW v \in Seq(T), NEW i \in 1 .. Len(u \o v)
  PROVE  \/ \E j \in 1 .. Len(u) : (u \o v)[i] = u[j]
         \/ \E j \in 1 .. Len(v) : (u \o v)[i] = v[j]
  <1>1. Len(u) \in Nat /\ Len(v) \in Nat
    BY LenProperties
  <1> DEFINE w == u \o v
             R == S \union T
  <1>2. /\ Len(w) = Len(u) + Len(v)
        /\ \A j \in 1 .. Len(u) + Len(v) : w[j] = IF j <= Len(u) THEN u[j] ELSE v[j - Len(u)]
    <2>1. u \in Seq(R) /\ v \in Seq(R)
      OBVIOUS
    <2> HIDE DEF R
    <2> QED
      BY <2>1, ConcatProperties
  <1> HIDE DEF w, R
  <1>3. i \in 1 .. Len(u) + Len(v)
    BY <1>2 DEF w
  <1>4. CASE i <= Len(u)
    <2>1. i \in 1 .. Len(u) /\ w[i] = u[i]
      BY <1>1, <1>2, <1>3, <1>4
    <2> QED
      BY <2>1 DEF w
  <1>5. CASE ~ (i <= Len(u))
    <2>1. i - Len(u) \in 1 .. Len(v) /\ w[i] = v[i - Len(u)]
      BY <1>1, <1>2, <1>3, <1>5
    <2> QED
      BY <2>1 DEF w
  <1> QED
    BY <1>4, <1>5

(* No word of two streams leads below the bound when none of each does.    *)
LEMMA BelowConcat ==
  ASSUME NEW s \in Sessions, NEW S, NEW u \in Seq(S), NEW v \in Seq(S),
         AllBelow(s, u), AllBelow(s, v)
  PROVE  AllBelow(s, u \o v)
  <1>1. ASSUME NEW i \in 1 .. Len(u \o v), (u \o v)[i][1] = "str" PROVE Below(s, (u \o v)[i][2])
    <2>1. CASE \E j \in 1 .. Len(u) : (u \o v)[i] = u[j]
      BY <1>1, <2>1 DEF AllBelow
    <2>2. CASE \E j \in 1 .. Len(v) : (u \o v)[i] = v[j]
      BY <1>1, <2>2 DEF AllBelow
    <2> QED
      BY <2>1, <2>2, ConcatItems
  <1> QED
    BY <1>1 DEF AllBelow

(* A step of a client.                                                     *)
LEMMA ClientKeeps ==
  ASSUME CommandInv, NEW s \in Sessions, NEW k \in ClientPlace,
         NEW u \in Seq(Sent), NEW d \in Seq(Reply),
         cpc' = [cpc EXCEPT ![s] = k], up' = [up EXCEPT ![s] = u],
         down' = [down EXCEPT ![s] = d],
         UNCHANGED <<tree, cur, entries, wpc, wcmd, fault>>,
         Talk(k, wpc[s], u, d), AllBelow(s, u)
  PROVE  CommandInv'
  <1>1. CommandTypes'
    BY DEF CommandInv, CommandTypes
  <1>2. Others(s) /\ cpc'[s] = k /\ up'[s] = u /\ down'[s] = d
    BY DEF CommandInv, CommandTypes, Others
  <1>3. Dialogue(s)'
    BY <1>2 DEF Dialogue
  <1>4. Bounded(s)'
    BY <1>2 DEF CommandInv, Bounded, Below, AllBelow
  <1> QED
    BY <1>1, <1>2, <1>3, <1>4, OneSession

(* What a session has.                                                     *)
LEMMA SessionFacts ==
  ASSUME CommandInv, NEW s \in Sessions
  PROVE  /\ cpc[s] \in ClientPlace /\ wpc[s] \in WorkerPlace /\ up[s] \in Seq(Sent)
         /\ down[s] \in Seq(Reply) /\ Talk(cpc[s], wpc[s], up[s], down[s])
         /\ AllBelow(s, up[s])
  BY DEF CommandInv, CommandTypes, Dialogue, Bounded, AllBelow

(* The user leaves.                                                        *)
LEMMA HangUpKeeps ==
  ASSUME CommandInv, NEW s \in Sessions, C!HangUp(s)
  PROVE  CommandInv'
  <1>1. PICK k \in 0 .. Len(up[s]) : up' = [up EXCEPT ![s] = SubSeq(@, 1, k)]
    BY DEF C!HangUp
  <1>2. /\ cpc' = [cpc EXCEPT ![s] = "gone"] /\ down' = [down EXCEPT ![s] = <<>>]
        /\ UNCHANGED <<tree, cur, entries, wpc, wcmd, fault>>
    BY DEF C!HangUp, C!files, C!locals
  <1> DEFINE u == SubSeq(up[s], 1, k)
  <1>3. /\ u \in Seq(Sent) /\ Len(u) = k /\ (\A i \in 1 .. k : u[i] = up[s][i])
        /\ Talk("gone", wpc[s], u, <<>>)
    BY SessionFacts, TalkHangsUp
  <1>4. up' = [up EXCEPT ![s] = u]
    BY <1>1 DEF CommandInv, CommandTypes
  <1> HIDE DEF u
  <1>5. AllBelow(s, u)
    <2>1. k \in Nat /\ Len(up[s]) \in Nat /\ k <= Len(up[s])
      BY SessionFacts, LenProperties
    <2>2. \A i \in 1 .. k : i \in 1 .. Len(up[s])
      BY <2>1
    <2> QED
      BY <1>3, <2>2, SessionFacts DEF AllBelow
  <1>6. "gone" \in ClientPlace /\ <<>> \in Seq(Reply)
    BY DEF ClientPlace
  <1> QED
    BY <1>2, <1>3, <1>4, <1>5, <1>6, ClientKeeps

(* A client that reads the next item, which is of the kind it expects, and *)
(* perhaps sends.                                                          *)
LEMMA HearsKeeps ==
  ASSUME PlainNames, CommandInv, NEW s \in Sessions, NEW kind, NEW k, NEW items,
         C!Hears(s, kind, k, items),
         k \in ClientPlace \ {"gone"}, items \in Seq(Sent), AllBelow(s, items),
         Head(down[s])[1] = kind,
         Talk(k, wpc[s], up[s] \o items, Tail(down[s]))
  PROVE  CommandInv'
  <1>1. down[s] # <<>> /\ down' = [down EXCEPT ![s] = Tail(@)]
    BY DEF C!Hears, C!Rests, PlainNames
  <1>2. /\ cpc' = [cpc EXCEPT ![s] = k] /\ up' = [up EXCEPT ![s] = @ \o items]
        /\ UNCHANGED <<tree, cur, entries, wpc, wcmd, fault>>
    BY DEF C!Hears, C!files, C!locals
  <1> DEFINE u == up[s] \o items
             d == Tail(down[s])
  <1>3. u \in Seq(Sent) /\ AllBelow(s, u)
    BY SessionFacts, BelowConcat, ConcatProperties
  <1>4. d \in Seq(Reply)
    BY <1>1, SessionFacts, HeadTailProperties
  <1>5. up' = [up EXCEPT ![s] = u] /\ down' = [down EXCEPT ![s] = d]
    BY <1>1, <1>2 DEF CommandInv, CommandTypes
  <1>6. Talk(k, wpc[s], u, d)
    OBVIOUS
  <1> HIDE DEF u, d
  <1> QED
    BY <1>2, <1>3, <1>4, <1>5, <1>6, ClientKeeps

(* What a client in the midst of a command reads is what the worker means. *)
LEMMA HearKeeps ==
  ASSUME PlainNames, CommandInv, NEW s \in Sessions, C!Hear(s)
  PROVE  CommandInv'
  <1> DEFINE v == Head(down[s])[2]
             l == wpc[s]
             u == up[s]
             d == down[s]
             c == cpc[s]
  <1>1. d # <<>>
    BY DEF C!Hear, C!Hears
  <1>2. c # "gone"
    BY DEF C!Hear
  <1>3. /\ c \in ClientPlace /\ l \in WorkerPlace /\ u \in Seq(Sent)
        /\ d \in Seq(Reply) /\ Talk(c, l, u, d)
    BY SessionFacts
  <1>4. /\ \E n \in Spot : Hears(c, Head(d), n)
        /\ \A k \in ClientPlace \ {"gone"} :
             (\A n \in Spot : Hears(c, Head(d), n) => n = k) => Talk(k, l, u, Tail(d))
        /\ \A w \in {"sent", "asks"} :
             (\A n \in Spot : Hears(c, Head(d), n) => n = w)
                => Tail(d) = <<>> /\ Walk(Taking, Reads(l), u, Want(w))
    <2> HIDE DEF c, l, u, d
    <2> QED
      BY <1>1, <1>2, <1>3, TalkHears
  <1>5. u \o <<>> = u /\ <<>> \in Seq(Sent) /\ AllBelow(s, <<>>)
    <2>1. Len(<<>>) = 0 /\ \A i \in 1 .. 0 : FALSE
      OBVIOUS
    <2> QED
      BY <1>3, <2>1, ConcatEmptySeq DEF AllBelow
  <1>6. ASSUME NEW kind, NEW k \in ClientPlace \ {"gone"}, C!Hears(s, kind, k, <<>>),
               Head(d)[1] = kind, \A n \in Spot : Hears(c, Head(d), n) => n = k
        PROVE  CommandInv'
    <2>1. Talk(k, l, u \o <<>>, Tail(d))
      BY <1>4, <1>5, <1>6
    <2> QED
      BY <1>5, <1>6, <2>1, HearsKeeps
  <1>7. ASSUME NEW kind, NEW k \in ClientPlace \ {"gone"}, NEW items \in Seq(Sent),
               C!Hears(s, kind, k, items), Head(d)[1] = kind, NEW w \in {"sent", "asks"},
               \A n \in Spot : Hears(c, Head(d), n) => n = w,
               Walk(Taking, Want(w), items, Want(k)), \A i \in 1 .. Len(items) : items[i][1] # "str"
        PROVE  CommandInv'
    <2>1. Tail(d) = <<>> /\ Walk(Taking, Reads(l), u, Want(w)) /\ Want(w) \in Spot
      BY <1>4, <1>7, SpotFacts
    <2>2. Talk(k, l, u \o items, <<>>)
      BY <1>3, <1>7, <2>1, TalkSends
    <2>3. AllBelow(s, items)
      BY <1>7 DEF AllBelow
    <2> QED
      BY <1>7, <2>1, <2>2, <2>3, HearsKeeps
  <1>8. PICK n \in Spot : Hears(c, Head(d), n)
    BY <1>4
  <1> DEFINE x == Head(d)
  <1>9. CASE c \in {"cd", "remove", "mkdir"}
    <2>1. C!Hears(s, "int", "prompt", <<>>)
      BY <1>9 DEF C!Hear
    <2>2. x[1] = "int" /\ \A o \in Spot : Hears(c, x, o) => o = "prompt"
      BY <1>8, <1>9 DEF Hears
    <2> QED
      BY <1>6, <2>1, <2>2 DEF ClientPlace
  <1>10. CASE c = "pwd"
    <2>1. C!Hears(s, "str", "prompt", <<>>)
      BY <1>10 DEF C!Hear
    <2>2. x[1] = "str" /\ \A o \in Spot : Hears(c, x, o) => o = "prompt"
      BY <1>8, <1>10 DEF Hears
    <2> QED
      BY <1>6, <2>1, <2>2 DEF ClientPlace
  <1>11. CASE c = "ls"
    <2> DEFINE k == IF x[2] = 0 THEN "prompt" ELSE "lsName"
    <2>1. C!Hears(s, "byte", k, <<>>)
      BY <1>11 DEF C!Hear
    <2>2. x[1] = "byte" /\ \A o \in Spot : Hears(c, x, o) => o = k
      BY <1>8, <1>11 DEF Hears
    <2>3. k \in ClientPlace \ {"gone"}
      BY DEF ClientPlace
    <2> HIDE DEF k
    <2> QED
      BY <1>6, <2>1, <2>2, <2>3
  <1>12. CASE c = "lsName"
    <2>1. C!Hears(s, "str", "lsSize", <<>>)
      BY <1>12 DEF C!Hear
    <2>2. x[1] = "str" /\ \A o \in Spot : Hears(c, x, o) => o = "lsSize"
      BY <1>8, <1>12 DEF Hears
    <2> QED
      BY <1>6, <2>1, <2>2 DEF ClientPlace
  <1>13. CASE c = "lsSize"
    <2>1. C!Hears(s, "long", "ls", <<>>)
      BY <1>13 DEF C!Hear
    <2>2. x[1] = "long" /\ \A o \in Spot : Hears(c, x, o) => o = "ls"
      BY <1>8, <1>13 DEF Hears
    <2> QED
      BY <1>6, <2>1, <2>2 DEF ClientPlace, C!Ops
  <1>14. CASE c = "getsFile"
    <2>1. C!Hears(s, "file", "prompt", <<>>)
      BY <1>14 DEF C!Hear
    <2>2. x[1] = "file" /\ \A o \in Spot : Hears(c, x, o) => o = "prompt"
      BY <1>8, <1>14 DEF Hears
    <2> QED
      BY <1>6, <2>1, <2>2 DEF ClientPlace
  <1>15. /\ "recvFile" \in Spot /\ "recv" \in Spot /\ "getsHere" \in Spot
         /\ "getsSize" \in Spot /\ "transFile" \in Spot
         /\ Want("sent") = "recvFile" /\ Want("asks") = "getsHere" /\ Want("prompt") = "recv"
         /\ Want("getsFile") = "transFile"
    BY DEF Spot, WorkerPlace, Want
  <1>16. /\ <<C!File>> \in Seq(Sent) /\ Walk(Taking, "recvFile", <<C!File>>, "recv")
         /\ \A i \in 1 .. Len(<<C!File>>) : <<C!File>>[i][1] # "str"
    <2>1. C!File \in Sent /\ Takes("recvFile", C!File, "recv") /\ C!File[1] # "str"
      BY DEF Sent, Takes, C!File
    <2>2. Walk(Taking, "recvFile", <<C!File>>, "recv")
      BY <1>15, <2>1, TakingIs, WalkOne
    <2>3. <<C!File>> \in Seq(Sent) /\ Len(<<C!File>>) = 1 /\ <<C!File>>[1] = C!File
      BY <2>1
    <2> HIDE DEF C!File
    <2>4. \A i \in 1 .. 1 : i = 1
      OBVIOUS
    <2> QED
      BY <2>1, <2>2, <2>3, <2>4
  <1>17. CASE c = "puts"
    <2> DEFINE k == IF x[2] = 1 THEN "putsSize" ELSE "prompt"
    <2>1. x[1] = "int"
      BY <1>8, <1>17 DEF Hears
    <2>2. CASE x[2] = 0
      <3>1. C!Hears(s, "int", "prompt", <<C!File>>)
        BY <1>17, <2>2 DEF C!Hear
      <3>2. \A o \in Spot : Hears(c, x, o) => o = "sent"
        BY <1>17, <2>2 DEF Hears
      <3>3. "prompt" \in ClientPlace \ {"gone"}
        BY DEF ClientPlace
      <3> QED
        BY <1>7, <1>15, <1>16, <2>1, <3>1, <3>2, <3>3
    <2>3. CASE x[2] # 0
      <3>1. C!Hears(s, "int", k, <<>>)
        BY <1>17, <2>3 DEF C!Hear
      <3>2. \A o \in Spot : Hears(c, x, o) => o = k
        BY <1>17, <2>3 DEF Hears
      <3>3. k \in ClientPlace \ {"gone"}
        BY DEF ClientPlace
      <3> HIDE DEF k
      <3> QED
        BY <1>6, <2>1, <3>1, <3>2, <3>3
    <2> QED
      BY <2>2, <2>3
  <1>18. CASE c = "putsSize"
    <2>1. C!Hears(s, "long", "prompt", <<C!File>>)
      BY <1>18 DEF C!Hear
    <2>2. x[1] = "long" /\ \A o \in Spot : Hears(c, x, o) => o = "sent"
      BY <1>8, <1>18 DEF Hears
    <2>3. "prompt" \in ClientPlace \ {"gone"}
      BY DEF ClientPlace
    <2> QED
      BY <1>7, <1>15, <1>16, <2>1, <2>2, <2>3
  <1>19. CASE c = "gets"
    <2>1. x[1] = "int"
      BY <1>8, <1>19 DEF Hears
    <2>2. CASE x[2] # 1
      <3>1. C!Hears(s, "int", "prompt", <<>>)
        BY <1>19, <2>2 DEF C!Hear
      <3>2. \A o \in Spot : Hears(c, x, o) => o = "prompt"
        BY <1>19, <2>2 DEF Hears
      <3> QED
        BY <1>6, <2>1, <3>1, <3>2 DEF ClientPlace
    <2>3. CASE x[2] = 1
      <3>1. \A o \in Spot : Hears(c, x, o) => o = "asks"
        BY <1>19, <2>3 DEF Hears
      <3>2. "getsFile" \in ClientPlace \ {"gone"}
        BY DEF ClientPlace
      <3>3. /\ C!Number(0) \in Sent /\ C!Number(1) \in Sent /\ C!Long \in Sent
            /\ C!Number(0)[1] # "str" /\ C!Number(1)[1] # "str" /\ C!Long[1] # "str"
        BY DEF Sent, C!Number, C!Long
      <3>4. /\ Takes("getsHere", C!Number(0), "transFile")
            /\ Takes("getsHere", C!Number(1), "getsSize")
            /\ Takes("getsSize", C!Long, "transFile")
        BY DEF Takes, C!Number, C!Long
      <3>5. CASE C!Hears(s, "int", "getsFile", <<C!Number(0)>>)
        <4> DEFINE items == <<C!Number(0)>>
        <4>1. Walk(Taking, "getsHere", items, "transFile")
          BY <1>15, <3>3, <3>4, TakingIs, WalkOne
        <4>2. items \in Seq(Sent) /\ Len(items) = 1 /\ items[1] = C!Number(0)
          BY <3>3
        <4> HIDE DEF items
        <4>3. \A i \in 1 .. Len(items) : items[i][1] # "str"
          BY <3>3, <4>2
        <4>4. C!Hears(s, "int", "getsFile", items)
          BY <3>5 DEF items
        <4> QED
          BY <1>7, <1>15, <2>1, <3>1, <3>2, <4>1, <4>2, <4>3, <4>4
      <3>6. CASE C!Hears(s, "int", "getsFile", <<C!Number(1), C!Long>>)
        <4> DEFINE items == <<C!Number(1), C!Long>>
        <4>1. Walk(Taking, "getsHere", items, "transFile")
          BY <1>15, <3>3, <3>4, TakingIs, WalkTwo
        <4>2. /\ items \in Seq(Sent) /\ Len(items) = 2 /\ items[1] = C!Number(1)
              /\ items[2] = C!Long
          BY <3>3
        <4> HIDE DEF items
        <4>3. \A i \in 1 .. Len(items) : items[i][1] # "str"
          <5>1. \A i \in 1 .. 2 : i = 1 \/ i = 2
            OBVIOUS
          <5> QED
            BY <3>3, <4>2, <5>1
        <4>4. C!Hears(s, "int", "getsFile", items)
          BY <3>6 DEF items
        <4> QED
          BY <1>7, <1>15, <2>1, <3>1, <3>2, <4>1, <4>2, <4>3, <4>4
      <3> QED
        BY <1>19, <2>3, <3>5, <3>6 DEF C!Hear
    <2> QED
      BY <2>2, <2>3
  <1> QED
    BY <1>9, <1>10, <1>11, <1>12, <1>13, <1>14, <1>17, <1>18, <1>19 DEF C!Hear

(* A client at its prompt that sends a word and what follows it.           *)
LEMMA SpeaksKeeps ==
  ASSUME PlainNames, CommandInv, NEW s \in Sessions, cpc[s] = "prompt",
         NEW word \in Command, Below(s, word), NEW rest \in Seq(Sent), AllBelow(s, rest),
         NEW k \in ClientPlace \ {"gone"}, Walk(Taking, word[1], rest, Want(k)),
         up' = [up EXCEPT ![s] = @ \o <<C!Str(word)>> \o rest],
         cpc' = [cpc EXCEPT ![s] = k],
         UNCHANGED <<tree, cur, entries, wpc, wcmd, down, fault>>
  PROVE  CommandInv'
  <1> DEFINE first == <<C!Str(word)>>
             u == up[s] \o first \o rest
  <1>1. word \in Word /\ word[1] \in C!Ops /\ word[1] \in Spot /\ "recv" \in Spot
    BY WordFacts DEF Word, Spot, WorkerPlace
  <1>2. /\ C!Str(word) \in Sent /\ C!Str(word)[1] = "str" /\ C!Str(word)[2] = word
        /\ Takes("recv", C!Str(word), word[1])
    BY <1>1 DEF Sent, C!Str, Takes
  <1>3. Walk(Taking, "recv", first, word[1])
    BY <1>1, <1>2, TakingIs, WalkOne
  <1>4. first \in Seq(Sent) /\ Len(first) = 1 /\ first[1] = C!Str(word)
    BY <1>2
  <1> HIDE DEF first
  <1>5. AllBelow(s, first)
    <2>1. \A i \in 1 .. 1 : i = 1
      OBVIOUS
    <2> QED
      BY <1>2, <1>4, <2>1 DEF AllBelow
  <1>6. down[s] = <<>> /\ Walk(Taking, Reads(wpc[s]), up[s], "recv")
    BY SessionFacts, TalkPrompt
  <1>7. /\ up[s] \in Seq(Sent) /\ wpc[s] \in WorkerPlace /\ Reads(wpc[s]) \in Spot
        /\ AllBelow(s, up[s])
    BY SessionFacts, SpotFacts
  <1>8. up[s] \o first \in Seq(Sent) /\ Walk(Taking, Reads(wpc[s]), up[s] \o first, word[1])
    BY <1>1, <1>3, <1>4, <1>6, <1>7, WalkConcat
  <1>9. u \in Seq(Sent) /\ Talk(k, wpc[s], u, <<>>)
    BY <1>1, <1>7, <1>8, TalkSends
  <1>10. AllBelow(s, u)
    <2>1. AllBelow(s, up[s] \o first)
      BY <1>4, <1>5, <1>7, BelowConcat
    <2> QED
      BY <1>8, <2>1, BelowConcat
  <1>11. up' = [up EXCEPT ![s] = u]
    BY DEF first, CommandInv, CommandTypes
  <1> HIDE DEF u
  <1>12. down' = [down EXCEPT ![s] = <<>>] /\ <<>> \in Seq(Reply)
    BY <1>6 DEF CommandInv, CommandTypes
  <1> QED
    BY <1>9, <1>10, <1>11, <1>12, ClientKeeps

(* What a user can type.                                                   *)
LEMMA WordsTyped ==
  ASSUME PlainNames, NEW s \in Sessions, NEW op \in C!Ops, NEW n \in C!Operands(s, op),
         NEW word \in IF op = "cd" THEN C!CdWord(n) ELSE {<<op, n>>}
  PROVE  /\ word \in Command /\ word[1] = op /\ Below(s, word)
         /\ op # "cd" => n \in Names
         /\ Orderly => Len(word) = 2
  <1>1. CASE op = "cd"
    <2>1. n \in {"..", "."} \/ (n \in Names /\ Len(cur[s]) + 2 <= Depth)
      BY <1>1 DEF C!Operands
    <2>2. word = <<"cd", n>> \/ (n \in Names /\ word = <<"cd", n, "/">>)
      BY <1>1 DEF C!CdWord
    <2>3. word[1] = "cd" /\ word[2] = n
      BY <2>2
    <2>4. word \in Command
      BY <2>1, <2>2 DEF Command
    <2>5. Below(s, word)
      BY <2>1, <2>3 DEF Below, PlainNames
    <2>6. Orderly => word = <<"cd", n>>
      BY <1>1 DEF C!CdWord
    <2>7. Len(<<"cd", n>>) = 2
      OBVIOUS
    <2> QED
      BY <1>1, <2>3, <2>4, <2>5, <2>6, <2>7
  <1>2. CASE op # "cd"
    <2>1. word = <<op, n>> /\ n \in Names
      BY <1>2 DEF C!Operands
    <2>2. Len(<<op, n>>) = 2 /\ <<op, n>>[1] = op
      OBVIOUS
    <2> QED
      BY <1>2, <2>1, <2>2 DEF Command, Below
  <1> QED
    BY <1>1, <1>2

(* What a client sends for a command.                                      *)
Speaks(s, op, n, exists, word) ==
  /\ C!Allowed(s, op, n)
  /\ exists => op = "puts"
  /\ up' = [up EXCEPT ![s] = @ \o <<C!Str(word)>> \o
          (CASE op = "mkdir" -> <<C!Str(<<n>>)>>
             [] op = "puts" /\ exists -> <<C!Number(1), C!Str(<<n>>), C!Str(<<"hash">>)>>
             [] op = "puts" /\ ~exists -> <<C!Number(-1)>>
             [] OTHER -> <<>>)]
  /\ cpc' = [cpc EXCEPT ![s] = IF op = "puts" /\ ~exists THEN "prompt" ELSE op]

(* What a user can type after op.                                          *)
Typing(op, n) == IF op = "cd" THEN C!CdWord(n) ELSE {<<op, n>>}

(* Asking is that.                                                         *)
LEMMA AskIs ==
  ASSUME NEW s \in Sessions, C!Ask(s)
  PROVE  \E op \in C!Ops : \E n \in C!Operands(s, op) : \E exists \in BOOLEAN :
           \E word \in Typing(op, n) : Speaks(s, op, n, exists, word)
  <1>1. \E op \in C!OpsOf(s) : \E n \in C!Operands(s, op) : \E exists \in BOOLEAN :
          \E word \in Typing(op, n) : Speaks(s, op, n, exists, word)
    BY ZenonT(60) DEF C!Ask, Typing, Speaks
  <1>2. C!OpsOf(s) \subseteq C!Ops
    BY DEF C!OpsOf, C!Ops
  <1> QED
    BY <1>1, <1>2

(* The next command.                                                       *)
LEMMA AskKeeps ==
  ASSUME PlainNames, CommandInv, NEW s \in Sessions, C!Ask(s)
  PROVE  CommandInv'
  <1>0. PICK op \in C!Ops : \E n \in C!Operands(s, op) : \E exists \in BOOLEAN :
          \E word \in Typing(op, n) : Speaks(s, op, n, exists, word)
    BY AskIs
  <1>0a. PICK n \in C!Operands(s, op), exists \in BOOLEAN :
           \E word \in Typing(op, n) : Speaks(s, op, n, exists, word)
    BY <1>0
  <1>1. PICK word \in Typing(op, n) : Speaks(s, op, n, exists, word)
    BY <1>0a
  <1>2. cpc[s] = "prompt" /\ UNCHANGED <<tree, cur, entries, wpc, wcmd, down, fault>>
    BY DEF C!Ask, C!files, C!locals
  <1>3. word \in Command /\ word[1] = op /\ Below(s, word) /\ (op # "cd" => n \in Names)
    BY WordsTyped DEF Typing
  <1>4. /\ op \in ClientPlace \ {"gone"} /\ "prompt" \in ClientPlace \ {"gone"} /\ op \in Spot
        /\ {"recv", "mkdirRead", "putsName", "putsHash", "putsCheck"} \subseteq Spot
    BY DEF ClientPlace, Spot, WorkerPlace, C!Ops
  <1>5. ASSUME NEW rest \in Seq(Sent), NEW k \in {op, "prompt"},
               up' = [up EXCEPT ![s] = @ \o <<C!Str(word)>> \o rest],
               cpc' = [cpc EXCEPT ![s] = k], Walk(Taking, op, rest, Want(k)),
               AllBelow(s, rest)
        PROVE  CommandInv'
    BY <1>2, <1>3, <1>4, <1>5, SpeaksKeeps
  <1>6. ASSUME n \in Names
        PROVE  /\ C!Str(<<n>>) \in Sent /\ C!Str(<<n>>)[1] = "str"
               /\ C!Str(<<n>>)[2][1] = n /\ n \notin C!Ops /\ Below(s, C!Str(<<n>>)[2])
    BY <1>6 DEF Sent, Word, C!Str, PlainNames, Below, C!Ops
  <1>7. CASE op = "mkdir"
    <2> DEFINE x == C!Str(<<n>>)
               rest == <<x>>
    <2>1. x \in Sent /\ Takes("mkdir", x, "mkdirRead") /\ Below(s, x[2])
      BY <1>3, <1>6, <1>7 DEF Takes
    <2> HIDE DEF x
    <2>2. Walk(Taking, "mkdir", rest, "mkdirRead")
      BY <1>4, <1>7, <2>1, TakingIs, WalkOne
    <2>3. rest \in Seq(Sent) /\ Len(rest) = 1 /\ rest[1] = x
      BY <2>1
    <2>4. up' = [up EXCEPT ![s] = @ \o <<C!Str(word)>> \o rest]
      BY <1>1, <1>7 DEF x, Speaks
    <2> HIDE DEF rest
    <2>5. AllBelow(s, rest)
      <3>1. \A i \in 1 .. 1 : i = 1
        OBVIOUS
      <3> QED
        BY <2>1, <2>3, <3>1 DEF AllBelow
    <2>6. Want(op) = "mkdirRead" /\ cpc' = [cpc EXCEPT ![s] = op]
      BY <1>1, <1>7 DEF Want, Speaks
    <2> QED
      BY <1>5, <1>7, <2>2, <2>3, <2>4, <2>5, <2>6
  <1>8. CASE op = "puts" /\ exists
    <2> DEFINE x == C!Number(1)
               y == C!Str(<<n>>)
               z == C!Str(<<"hash">>)
               rest == <<x, y, z>>
    <2>1. /\ x \in Sent /\ x[1] # "str" /\ Takes("puts", x, "putsName")
      BY DEF Sent, C!Number, Takes
    <2>2. y \in Sent /\ Takes("putsName", y, "putsHash") /\ Below(s, y[2])
      BY <1>3, <1>6, <1>8 DEF Takes
    <2>3. z \in Sent /\ Takes("putsHash", z, "putsCheck") /\ Below(s, z[2])
      BY DEF Sent, Word, C!Str, Takes, Below
    <2>4. up' = [up EXCEPT ![s] = @ \o <<C!Str(word)>> \o rest]
      BY <1>1, <1>8 DEF Speaks
    <2> HIDE DEF x, y, z
    <2>5. Walk(Taking, "puts", rest, "putsCheck")
      BY <1>4, <1>8, <2>1, <2>2, <2>3, TakingIs, WalkThree
    <2>6. rest \in Seq(Sent) /\ Len(rest) = 3 /\ rest[1] = x /\ rest[2] = y /\ rest[3] = z
      BY <2>1, <2>2, <2>3
    <2> HIDE DEF rest
    <2>7. AllBelow(s, rest)
      <3>1. \A i \in 1 .. 3 : i = 1 \/ i = 2 \/ i = 3
        OBVIOUS
      <3> QED
        BY <2>1, <2>2, <2>3, <2>6, <3>1 DEF AllBelow
    <2>8. Want(op) = "putsCheck" /\ cpc' = [cpc EXCEPT ![s] = op]
      BY <1>1, <1>8 DEF Want, Speaks
    <2> QED
      BY <1>5, <1>8, <2>4, <2>5, <2>6, <2>7, <2>8
  <1>9. CASE op = "puts" /\ ~exists
    <2> DEFINE x == C!Number(-1)
               rest == <<x>>
    <2>1. x \in Sent /\ x[1] # "str" /\ Takes("puts", x, "recv")
      BY DEF Sent, C!Number, Takes
    <2>2. up' = [up EXCEPT ![s] = @ \o <<C!Str(word)>> \o rest]
      BY <1>1, <1>9 DEF Speaks
    <2> HIDE DEF x
    <2>3. Walk(Taking, "puts", rest, "recv")
      BY <1>4, <1>9, <2>1, TakingIs, WalkOne
    <2>4. rest \in Seq(Sent) /\ Len(rest) = 1 /\ rest[1] = x
      BY <2>1
    <2> HIDE DEF rest
    <2>5. AllBelow(s, rest)
      <3>1. \A i \in 1 .. 1 : i = 1
        OBVIOUS
      <3> QED
        BY <2>1, <2>4, <3>1 DEF AllBelow
    <2>6. Want("prompt") = "recv" /\ cpc' = [cpc EXCEPT ![s] = "prompt"]
      BY <1>1, <1>9 DEF Want, Speaks
    <2> QED
      BY <1>5, <1>9, <2>2, <2>3, <2>4, <2>5, <2>6
  <1>10. CASE op \notin {"mkdir", "puts"}
    <2>1. /\ up' = [up EXCEPT ![s] = @ \o <<C!Str(word)>> \o <<>>]
          /\ cpc' = [cpc EXCEPT ![s] = op]
      BY <1>1, <1>10 DEF Speaks
    <2>2. Want(op) = op
      BY <1>10 DEF Want, C!Ops
    <2>3. Walk(Taking, op, <<>>, op)
      BY <1>4, WalkEmpty
    <2>4. <<>> \in Seq(Sent) /\ AllBelow(s, <<>>)
      <3>1. Len(<<>>) = 0 /\ \A i \in 1 .. 0 : FALSE
        OBVIOUS
      <3> QED
        BY <3>1 DEF AllBelow
    <2> QED
      BY <1>5, <2>1, <2>2, <2>3, <2>4
  <1> QED
    BY <1>7, <1>8, <1>9, <1>10

-----------------------------------------------------------------------------
(* The whole.                                                              *)

(* Every step of the sessions keeps it.                                    *)
LEMMA CommandNext ==
  ASSUME PlainNames, CommandInv, C!Next
  PROVE  CommandInv'
  <1>1. PICK s \in Sessions :
          C!Ask(s) \/ C!Hear(s) \/ C!HangUp(s) \/ C!Crash(s) \/ C!Step(s)
    BY DEF C!Next, C!ServerClient
  <1>2. CASE C!Crash(s)
    <2>1. CommandTypes'
      BY <1>2 DEF CommandInv, CommandTypes, C!Crash, C!files, C!locals
    <2>2. UNCHANGED <<cur, cpc, wpc, wcmd, up, down>>
      BY <1>2 DEF C!Crash, C!files, C!locals
    <2>3. \A t \in Sessions : Bounded(t)' /\ Dialogue(t)'
      BY <2>2 DEF CommandInv, Bounded, Below, Dialogue
    <2> QED
      BY <2>1, <2>3 DEF CommandInv
  <1>3. CASE C!Step(s)
    BY <1>3, RecvCommandKeeps, ReturnKeeps, CdKeeps, ListKeeps, LsEntryKeeps, NumbersKeep,
       MkdirKeeps, SilentStepsKeep, ReadsKeep, PutsCheckKeeps, RecvFileKeeps DEF C!Step
  <1> QED
    BY <1>1, <1>2, <1>3, AskKeeps, HearKeeps, HangUpKeeps

(* So do the other parts.                                                  *)
LEMMA CommandStutter ==
  ASSUME CommandInv, UNCHANGED cvars
  PROVE  CommandInv'
  <1>1. UNCHANGED <<tree, cur, cpc, wpc, wcmd, entries, up, down, fault>>
    BY DEF cvars
  <1>2. CommandTypes'
    BY <1>1 DEF CommandInv, CommandTypes
  <1>3. \A t \in Sessions : Bounded(t)' /\ Dialogue(t)'
    BY <1>1 DEF CommandInv, Bounded, Below, Dialogue
  <1> QED
    BY <1>2, <1>3 DEF CommandInv

(* Who understand each other are aligned.                                  *)
LEMMA CommandsUnderstood ==
  ASSUME CommandInv
  PROVE  C!Aligned
  <1>1. fault # "misread"
    BY DEF CommandInv, CommandTypes
  <1>2. ASSUME NEW s \in Sessions, cpc[s] = "prompt" PROVE down[s] = <<>>
    BY <1>2, SessionFacts, TalkPrompt
  <1>3. ASSUME NEW s \in Sessions, wpc[s] = "recv", NEW i \in DOMAIN up[s], up[s][i][1] # "str"
        PROVE  \E j \in 1 .. (i - 1) : up[s][j][1] = "str" /\ up[s][j][2][1] = "puts"
    <2>1. i \in 1 .. Len(up[s])
      BY SessionFacts
    <2> QED
      BY <1>3, <2>1, SessionFacts, TalkAtHead
  <1> QED
    BY <1>1, <1>2, <1>3 DEF C!Aligned

-----------------------------------------------------------------------------
(* Directories.                                                            *)

(* The steps of a removal.                                                 *)
Removal == {"remove", "rmdir", "rmfile", "rmlink"}

(* The user's directory is there, and what is there is in a directory.     *)
Rooted ==
  /\ C!IsDir(<<>>)
  /\ \A p \in C!Paths : p # <<>> /\ tree[p] # "none" => C!IsDir(C!Front(p))

(* A session is somewhere.                                                 *)
Home(s) == wpc[s] # "gone" => C!IsDir(cur[s])

(* What is typed after a command, and a command that s has still to finish. *)
Operand == Names \union {".", ".."}
Asked(s, op, n) ==
  \/ wcmd[s] = <<op, n>>
  \/ \E i \in 1 .. Len(up[s]) : up[s][i][1] = "str" /\ up[s][i][2] = <<op, n>>

(* What s removes is neither above t's directory nor above where t goes.   *)
Apart(s, t) ==
  \A n \in Operand : wpc[t] # "gone" /\ Asked(s, "remove", n) =>
    /\ ~ C!IsPrefix(Append(cur[s], n), cur[t])
    /\ \A m \in Operand : Asked(t, "cd", m) =>
          ~ C!IsPrefix(Append(cur[s], n), Append(cur[t], m))

(* Nobody has typed cd /x, and who removes has been told to.               *)
Relative(s) ==
  /\ wpc[s] # "recv" => Len(wcmd[s]) # 3
  /\ wpc[s] \in Removal => wcmd[s][1] = "remove"
  /\ \A i \in 1 .. Len(up[s]) : up[s][i][1] = "str" => Len(up[s][i][2]) # 3

DirectoryInv ==
  /\ Rooted /\ fault = "no"
  /\ \A s \in Sessions : /\ Home(s) /\ Relative(s)
                         /\ \A t \in Sessions \ {s} : Apart(s, t)

(* What a prefix is, item by item.                                         *)
LEMMA PrefixIs ==
  ASSUME NEW S, NEW p \in Seq(S), NEW q \in Seq(S)
  PROVE  /\ Len(p) \in Nat /\ Len(q) \in Nat
         /\ C!IsPrefix(p, q) <=> Len(p) <= Len(q) /\ \A i \in 1 .. Len(p) : p[i] = q[i]
  <1>1. Len(p) \in Nat /\ Len(q) \in Nat
    BY LenProperties
  <1>2. ASSUME Len(p) <= Len(q)
        PROVE  SubSeq(p, 1, Len(p)) = SubSeq(q, 1, Len(p)) <=> \A i \in 1 .. Len(p) : p[i] = q[i]
    <2>1. \A i \in 1 .. Len(p) : p[i] \in S /\ q[i] \in S
      BY <1>1, <1>2, ElementOfSeq
    <2>2. /\ SubSeq(p, 1, Len(p)) \in Seq(S) /\ Len(SubSeq(p, 1, Len(p))) = Len(p)
          /\ \A i \in 1 .. Len(p) : SubSeq(p, 1, Len(p))[i] = p[i]
      BY <1>1, <2>1, SubSeqProperties
    <2>3. /\ SubSeq(q, 1, Len(p)) \in Seq(S) /\ Len(SubSeq(q, 1, Len(p))) = Len(p)
          /\ \A i \in 1 .. Len(p) : SubSeq(q, 1, Len(p))[i] = q[i]
      BY <1>1, <2>1, SubSeqProperties
    <2> QED
      BY <2>2, <2>3, SeqEqual
  <1> QED
    BY <1>1, <1>2 DEF C!IsPrefix

(* Prefixes of a directory, of what is in it and of what it is in.         *)
LEMMA PrefixFacts ==
  ASSUME NEW S, NEW p \in Seq(S), NEW c \in Seq(S)
  PROVE  /\ C!IsPrefix(c, c)
         /\ \A n \in S : C!IsPrefix(p, Append(c, n)) => p = Append(c, n) \/ C!IsPrefix(p, c)
         /\ c # <<>> /\ C!IsPrefix(p, C!Front(c)) => C!IsPrefix(p, c)
  <1>1. C!IsPrefix(c, c)
    BY PrefixIs
  <1>2. ASSUME NEW n \in S, C!IsPrefix(p, Append(c, n)), ~ C!IsPrefix(p, c)
        PROVE  p = Append(c, n)
    <2> DEFINE q == Append(c, n)
    <2>1. /\ q \in Seq(S) /\ Len(q) = Len(c) + 1 /\ Len(c) \in Nat
          /\ \A i \in 1 .. Len(c) : q[i] = c[i]
      BY AppendProperties, LenProperties
    <2> HIDE DEF q
    <2>2. Len(p) \in Nat /\ Len(p) <= Len(q) /\ \A i \in 1 .. Len(p) : p[i] = q[i]
      BY <1>2, <2>1, PrefixIs DEF q
    <2>3. Len(p) = Len(q)
      <3> SUFFICES ASSUME Len(p) <= Len(c) PROVE FALSE
        BY <2>1, <2>2
      <3>1. \A i \in 1 .. Len(p) : p[i] = c[i]
        BY <2>1, <2>2
      <3> QED
        BY <1>2, <3>1, PrefixIs
    <2>4. p = q
      BY <2>1, <2>2, <2>3, SeqEqual
    <2> QED
      BY <2>4 DEF q
  <1>3. ASSUME c # <<>>, C!IsPrefix(p, C!Front(c)) PROVE C!IsPrefix(p, c)
    <2>1. PICK k \in Nat : k = Len(c) - 1 /\ Len(c) \in Nat
      <3>1. Len(c) \in Nat /\ Len(c) # 0
        BY <1>3, LenProperties, Void
      <3> QED
        BY <3>1
    <2>2. \A i \in 1 .. k : c[i] \in S
      BY <2>1, ElementOfSeq
    <2>3. /\ SubSeq(c, 1, k) \in Seq(S) /\ Len(SubSeq(c, 1, k)) = k
          /\ \A i \in 1 .. k : SubSeq(c, 1, k)[i] = c[i]
      BY <2>2, SubSeqProperties
    <2>4. C!Front(c) = SubSeq(c, 1, k)
      BY <2>1 DEF C!Front
    <2>5. Len(p) \in Nat /\ Len(p) <= k /\ \A i \in 1 .. Len(p) : p[i] = SubSeq(c, 1, k)[i]
      <3> DEFINE f == SubSeq(c, 1, k)
      <3>1. f \in Seq(S) /\ Len(f) = k /\ C!IsPrefix(p, f)
        BY <1>3, <2>3, <2>4
      <3> HIDE DEF f
      <3>2. Len(p) \in Nat /\ Len(p) <= Len(f) /\ \A i \in 1 .. Len(p) : p[i] = f[i]
        BY <3>1, PrefixIs
      <3> QED
        BY <3>1, <3>2 DEF f
    <2>6. Len(p) <= Len(c) /\ \A i \in 1 .. Len(p) : p[i] = c[i]
      <3>1. \A i \in 1 .. Len(p) : i \in 1 .. k
        BY <2>5
      <3>2. \A i \in 1 .. Len(p) : p[i] = c[i]
        BY <2>3, <2>5, <3>1
      <3> QED
        BY <2>1, <2>5, <3>2
    <2> QED
      BY <2>6, PrefixIs
  <1> QED
    BY <1>1, <1>2, <1>3

(* Directories and what may be in them are sequences of operands.          *)
LEMMA PathsAreSeqs ==
  ASSUME PlainNames, CommandInv, NEW s \in Sessions
  PROVE  cur[s] \in Seq(Operand) /\ \A n \in Operand : Append(cur[s], n) \in Seq(Operand)
  <1>1. cur[s] \in Seq(Names)
    BY PathFacts DEF CommandInv, CommandTypes
  <1>2. cur[s] \in Seq(Operand)
    BY <1>1 DEF Operand
  <1> QED
    BY <1>2, AppendProperties

(* The words of two parts.                                                 *)
LEMMA PairFacts ==
  /\ \A op, n : Len(<<op, n>>) = 2 /\ <<op, n>>[1] = op /\ <<op, n>>[2] = n /\ <<op, n>> # <<>>
  /\ \A x \in Command : Len(x) # 3 => x = <<x[1], x[2]>>
  <1>1. \A x \in Names : TRUE
    OBVIOUS
  <1>2. \A x \in (C!Ops \ {"cd"}) \X Names : x = <<x[1], x[2]>>
    OBVIOUS
  <1>3. \A x \in {"cd"} \X (Names \union {".", ".."}) : x = <<x[1], x[2]>>
    OBVIOUS
  <1>4. \A x \in {"cd"} \X Names \X {"/"} : Len(x) = 3
    OBVIOUS
  <1> QED
    BY <1>2, <1>3, <1>4 DEF Command

(* Initially the directory is empty.                                       *)
LEMMA DirectoryInit ==
  ASSUME PlainNames, C!Init
  PROVE  DirectoryInv
  <1> USE DEF C!Init
  <1>1. <<>> \in C!Paths
    BY TopIsPath
  <1>2. Rooted
    BY <1>1 DEF Rooted, C!IsDir
  <1>3. ASSUME NEW s \in Sessions
        PROVE  Home(s) /\ Relative(s) /\ \A t \in Sessions \ {s} : Apart(s, t)
    <2>1. /\ Len(<<>>) = 0 /\ up[s] = <<>> /\ wpc[s] = "recv" /\ wcmd[s] = <<>> /\ cur[s] = <<>>
          /\ tree[<<>>] = "dir" /\ \A i \in 1 .. 0 : FALSE
      BY <1>1
    <2>2. \A op, n : ~ Asked(s, op, n)
      BY <2>1, PairFacts DEF Asked
    <2> QED
      BY <2>1, <2>2 DEF Home, Apart, Removal, Relative, C!IsDir
  <1> QED
    BY <1>2, <1>3 DEF DirectoryInv

(* A step of s keeps it when it keeps what is s's, and the directories     *)
(* that others are in.                                                     *)
LEMMA OneDirectory ==
  ASSUME DirectoryInv, NEW s \in Sessions, Others(s), Rooted', fault' = "no",
         \A t \in Sessions \ {s} : wpc[t] # "gone" => tree'[cur[t]] = "dir",
         Home(s)', Relative(s)', \A t \in Sessions \ {s} : Apart(s, t)' /\ Apart(t, s)'
  PROVE  DirectoryInv'
  <1>1. ASSUME NEW t \in Sessions \ {s}
        PROVE  Home(t)' /\ Relative(t)' /\ \A r \in Sessions \ {t} : Apart(t, r)'
    <2>1. /\ cur'[t] = cur[t] /\ wpc'[t] = wpc[t] /\ wcmd'[t] = wcmd[t] /\ up'[t] = up[t]
          /\ Home(t) /\ Relative(t)
      BY DEF Others, DirectoryInv
    <2>2. Home(t)'
      BY <2>1 DEF Home, C!IsDir
    <2>3. Relative(t)'
      BY <2>1 DEF Relative
    <2>4. ASSUME NEW r \in Sessions \ {t}, r # s PROVE Apart(t, r)'
      <3>1. /\ cur'[r] = cur[r] /\ wpc'[r] = wpc[r] /\ wcmd'[r] = wcmd[r] /\ up'[r] = up[r]
            /\ Apart(t, r)
        BY <2>4 DEF Others, DirectoryInv
      <3> QED
        BY <2>1, <3>1 DEF Apart, Asked
    <2> QED
      BY <2>2, <2>3, <2>4
  <1> QED
    BY <1>1 DEF DirectoryInv

(* Who asks for nothing and stays is as far from the others as before.     *)
LEMMA ApartStays ==
  ASSUME DirectoryInv, NEW s \in Sessions, Others(s), cur'[s] = cur[s],
         wpc[s] = "gone" => wpc'[s] = "gone",
         \A op \in {"remove", "cd"} : \A n \in Operand : Asked(s, op, n)' => Asked(s, op, n)
  PROVE  \A t \in Sessions \ {s} : Apart(s, t)' /\ Apart(t, s)'
  <1> SUFFICES ASSUME NEW t \in Sessions \ {s} PROVE Apart(s, t)' /\ Apart(t, s)'
    OBVIOUS
  <1>1. /\ cur'[t] = cur[t] /\ wpc'[t] = wpc[t] /\ Apart(s, t) /\ Apart(t, s)
        /\ \A op, n : Asked(t, op, n)' <=> Asked(t, op, n)
    BY DEF Others, DirectoryInv, Asked
  <1> QED
    BY <1>1 DEF Apart

(* A step of the worker that starts no command and moves nowhere.          *)
GoesOn(s) ==
  \E k \in WorkerPlace :
    /\ C!Goto(s, k) /\ wpc[s] # "gone" /\ (k \in {"recv", "gone"} \/ wpc[s] # "recv")
    /\ k \in Removal => wpc[s] \in Removal
    /\ UNCHANGED <<cur, cpc, fault>>
    /\ up' = up \/ (up[s] # <<>> /\ up' = [up EXCEPT ![s] = Tail(@)])
    /\ \A t \in Sessions \ {s} : down'[t] = down[t]

(* What is received has been there.                                        *)
LEMMA StillThere ==
  ASSUME CommandInv, NEW s \in Sessions,
         up' = up \/ (up[s] # <<>> /\ up' = [up EXCEPT ![s] = Tail(@)])
  PROVE  /\ \A i \in 1 .. Len(up'[s]) : \E j \in 1 .. Len(up[s]) : up'[s][i] = up[s][j]
         /\ \A t \in Sessions \ {s} : up'[t] = up[t]
  <1>1. CASE up' = up
    BY <1>1
  <1>2. CASE up[s] # <<>> /\ up' = [up EXCEPT ![s] = Tail(@)]
    <2>1. up'[s] = Tail(up[s]) /\ \A t \in Sessions \ {s} : up'[t] = up[t]
      BY <1>2 DEF CommandInv, CommandTypes
    <2>2. /\ Len(up[s]) \in Nat /\ Len(Tail(up[s])) = Len(up[s]) - 1
          /\ \A j \in 1 .. Len(Tail(up[s])) : Tail(up[s])[j] = up[s][j + 1]
      BY <1>2, SessionFacts, HeadTailProperties, LenProperties
    <2>3. ASSUME NEW i \in 1 .. Len(Tail(up[s]))
          PROVE  i + 1 \in 1 .. Len(up[s]) /\ Tail(up[s])[i] = up[s][i + 1]
      BY <2>2
    <2> QED
      BY <2>1, <2>3
  <1> QED
    BY <1>1, <1>2

(* Such a step keeps it when the directories stay.                         *)
LEMMA GoesOnKeeps ==
  ASSUME CommandInv, DirectoryInv, NEW s \in Sessions, GoesOn(s), Rooted',
         \A t \in Sessions \ {s} : wpc[t] # "gone" => tree'[cur[t]] = "dir",
         tree'[cur[s]] = "dir"
  PROVE  DirectoryInv'
  <1>1. PICK k \in WorkerPlace :
    /\ C!Goto(s, k) /\ wpc[s] # "gone" /\ (k \in {"recv", "gone"} \/ wpc[s] # "recv")
    /\ k \in Removal => wpc[s] \in Removal
    /\ UNCHANGED <<cur, cpc, fault>>
    /\ up' = up \/ (up[s] # <<>> /\ up' = [up EXCEPT ![s] = Tail(@)])
    /\ \A t \in Sessions \ {s} : down'[t] = down[t]
    BY DEF GoesOn
  <1>2. /\ wpc'[s] = k
        /\ \A t \in Sessions \ {s} : wpc'[t] = wpc[t] /\ wcmd'[t] = wcmd[t]
    BY <1>1, WorkerTypes
  <1>3. /\ \A i \in 1 .. Len(up'[s]) : \E j \in 1 .. Len(up[s]) : up'[s][i] = up[s][j]
        /\ \A t \in Sessions \ {s} : up'[t] = up[t]
    BY <1>1, StillThere
  <1>4. Others(s)
    BY <1>1, <1>2, <1>3 DEF Others
  <1>5. wcmd'[s] = IF k \in {"recv", "gone"} THEN <<>> ELSE wcmd[s]
    BY <1>1 DEF C!Goto, CommandInv, CommandTypes
  <1>6. Relative(s)'
    <2>1. Len(<<>>) # 3
      OBVIOUS
    <2>2. k # "recv" => Len(wcmd'[s]) # 3
      BY <1>1, <1>5, <2>1 DEF DirectoryInv, Relative
    <2>3. k \in Removal => wcmd'[s][1] = "remove"
      BY <1>1, <1>5 DEF DirectoryInv, Relative, Removal
    <2> QED
      BY <1>2, <1>3, <2>2, <2>3 DEF DirectoryInv, Relative
  <1>7. Home(s)'
    BY <1>1 DEF Home, C!IsDir
  <1>8. \A op, n : Asked(s, op, n)' => Asked(s, op, n)
    BY <1>3, <1>5, PairFacts DEF Asked
  <1>9. \A t \in Sessions \ {s} : Apart(s, t)' /\ Apart(t, s)'
    BY <1>1, <1>4, <1>8, ApartStays
  <1> QED
    BY <1>1, <1>4, <1>6, <1>7, <1>9, OneDirectory DEF DirectoryInv

(* Where an operand names.                                                 *)
LEMMA PathIs ==
  ASSUME PlainNames, CommandInv, NEW s \in Sessions, wpc[s] \notin {"recv", "gone"}
  PROVE  /\ cur[s] \in C!Paths /\ C!Path(s) # <<>>
         /\ Len(C!Path(s)) = Len(cur[s]) + 1 /\ Len(cur[s]) \in Nat
         /\ C!Front(C!Path(s)) = cur[s]
  <1> DEFINE n == wcmd[s][2]
             S == Names \union {".", ".."}
  <1>1. cur[s] \in C!Paths /\ n \in S
    BY WordFacts DEF CommandInv, CommandTypes, Bounded
  <1>2. cur[s] \in Seq(S) /\ Len(cur[s]) \in Nat
    <2>1. cur[s] \in Seq(Names) /\ Len(cur[s]) \in Nat
      BY <1>1, PathFacts
    <2> QED
      BY <2>1
  <1> DEFINE p == Append(cur[s], n)
  <1> HIDE DEF n, S
  <1>3. /\ p \in Seq(S) /\ Len(p) = Len(cur[s]) + 1
        /\ \A i \in 1 .. Len(cur[s]) : p[i] = cur[s][i]
    BY <1>1, <1>2, AppendProperties
  <1>4. p = C!Path(s)
    BY DEF C!Path, n
  <1> HIDE DEF p
  <1>5. p # <<>>
    BY <1>2, <1>3
  <1>6. C!Front(p) = cur[s]
    <2>1. PICK k \in Nat : k = Len(cur[s]) /\ k = Len(p) - 1
      BY <1>2, <1>3
    <2>2. \A i \in 1 .. k : p[i] \in S
      BY <1>2, <1>3, <2>1, ElementOfSeq
    <2>3. /\ SubSeq(p, 1, k) \in Seq(S) /\ Len(SubSeq(p, 1, k)) = k
          /\ \A i \in 1 .. k : SubSeq(p, 1, k)[i] = p[i]
      BY <2>2, SubSeqProperties
    <2>4. \A i \in 1 .. k : SubSeq(p, 1, k)[i] = cur[s][i]
      BY <1>3, <2>1, <2>3
    <2>5. SubSeq(p, 1, k) = cur[s]
      BY <1>2, <2>1, <2>3, <2>4, SeqEqual
    <2> QED
      BY <2>1, <2>5 DEF C!Front
  <1> QED
    BY <1>1, <1>2, <1>3, <1>4, <1>5, <1>6

(* What is made is made in a directory.                                    *)
LEMMA CreatesRooted ==
  ASSUME PlainNames, CommandInv, DirectoryInv, NEW s \in Sessions,
         wpc[s] \notin {"recv", "gone"}, NEW type, C!Creates(s, type) \/ UNCHANGED tree
  PROVE  Rooted' /\ \A p \in C!Paths : tree[p] = "dir" => tree'[p] = "dir"
  <1>1. CASE UNCHANGED tree
    BY <1>1 DEF DirectoryInv, Rooted, C!IsDir
  <1>2. CASE tree' = tree
    BY <1>1, <1>2
  <1>3. CASE /\ C!At(s) = "none" /\ C!IsDir(cur[s])
             /\ tree' = [tree EXCEPT ![C!Path(s)] = type]
    <2>1. tree[C!Path(s)] = "none" /\ tree[cur[s]] = "dir"
      BY <1>3 DEF C!At, C!IsDir
    <2>2. \A p \in C!Paths : p # C!Path(s) => tree'[p] = tree[p]
      BY <1>3 DEF CommandInv, CommandTypes
    <2>3. \A p \in C!Paths : tree[p] = "dir" => tree'[p] = "dir"
      BY <2>1, <2>2
    <2>4. <<>> \in C!Paths
      BY TopIsPath
    <2>5. ASSUME NEW p \in C!Paths, p # <<>>, tree'[p] # "none"
          PROVE  tree'[C!Front(p)] = "dir"
      <3>1. C!Front(p) \in C!Paths
        BY <2>5, PathSteps
      <3>2. CASE p = C!Path(s)
        BY <2>1, <2>3, <3>2, PathIs
      <3>3. CASE p # C!Path(s)
        <4>1. tree[p] # "none"
          BY <2>2, <2>5, <3>3
        <4> QED
          BY <2>3, <2>5, <3>1, <4>1 DEF DirectoryInv, Rooted, C!IsDir
      <3> QED
        BY <3>2, <3>3
    <2> QED
      BY <2>3, <2>4, <2>5 DEF DirectoryInv, Rooted, C!IsDir
  <1> QED
    BY <1>1, <1>2, <1>3 DEF C!Creates

(* What is removed is not the session's directory, and has nothing in it.  *)
LEMMA RemovesRooted ==
  ASSUME PlainNames, CommandInv, DirectoryInv, NEW s \in Sessions,
         wpc[s] \notin {"recv", "gone"}, C!Removes(s)
  PROVE  Rooted' /\ tree'[cur[s]] = "dir"
  <1>1. tree[cur[s]] = "dir"
    BY DEF DirectoryInv, Home, C!IsDir
  <1>2. /\ cur[s] \in C!Paths /\ C!Path(s) # <<>> /\ C!Path(s) # cur[s]
    BY PathIs
  <1>3. CASE tree' = tree
    BY <1>1, <1>3 DEF DirectoryInv, Rooted, C!IsDir
  <1>4. CASE C!Inside(C!Path(s)) = {} /\ tree' = [tree EXCEPT ![C!Path(s)] = "none"]
    <2>1. \A p \in C!Paths : p # C!Path(s) => tree'[p] = tree[p]
      BY <1>4 DEF CommandInv, CommandTypes
    <2>2. C!Path(s) \in C!Paths => tree'[C!Path(s)] = "none"
      BY <1>4 DEF CommandInv, CommandTypes
    <2>3. <<>> \in C!Paths
      BY TopIsPath
    <2>4. ASSUME NEW p \in C!Paths, p # <<>>, tree'[p] # "none"
          PROVE  tree'[C!Front(p)] = "dir"
      <3>1. C!Front(p) \in C!Paths /\ Len(C!Front(p)) = Len(p) - 1 /\ Len(p) \in Nat
        BY <2>4, PathSteps, PathFacts
      <3>2. p # C!Path(s) /\ tree[p] # "none"
        BY <2>1, <2>2, <2>4
      <3>3. tree[C!Front(p)] = "dir"
        BY <2>4, <3>2 DEF DirectoryInv, Rooted, C!IsDir
      <3>4. C!Front(p) # C!Path(s)
        <4> SUFFICES ASSUME C!Front(p) = C!Path(s) PROVE FALSE
          OBVIOUS
        <4>1. Len(p) = Len(C!Path(s)) + 1
          BY <3>1
        <4>2. SubSeq(p, 1, Len(C!Path(s))) = C!Path(s)
          BY <3>1, <4>1 DEF C!Front
        <4> QED
          BY <1>4, <3>2, <4>1, <4>2 DEF C!Inside
      <3> QED
        BY <2>1, <3>1, <3>3, <3>4
    <2> QED
      BY <1>1, <1>2, <2>1, <2>3, <2>4 DEF DirectoryInv, Rooted, C!IsDir
  <1> QED
    BY <1>3, <1>4 DEF C!Removes

(* The steps that go on.                                                   *)
LEMMA StepsGoOn ==
  ASSUME PlainNames, CommandInv, CommandInv', NEW s \in Sessions,
         \/ C!Return(s) \/ C!Ls(s) \/ C!LsEnd(s) \/ C!Pwd(s) \/ C!Mkdir(s) \/ C!MakeDir(s)
         \/ C!Puts(s) \/ C!PutsName(s) \/ C!PutsHash(s) \/ C!PutsCheck(s) \/ C!Link(s)
         \/ C!RecvFile(s) \/ C!Gets(s) \/ C!GetsHere(s) \/ C!GetsSize(s) \/ C!TransFile(s)
         \/ C!RemoveCheck(s) \/ C!RemoveDir(s) \/ C!RemoveRow(s) \/ C!RemoveFile(s)
  PROVE  GoesOn(s)
  <1>1. fault' # "misread"
    BY DEF CommandInv, CommandTypes
  <1>2. \A t \in Sessions \ {s} : \A items : C!Sends(s, items) => down'[t] = down[t]
    BY DEF CommandInv, CommandTypes, C!Sends
  <1>3. ASSUME NEW k \in {"recv", "gone", "lsEntry", "makeDir", "recvFile", "link", "getsHere",
                          "putsName", "putsHash", "putsCheck", "getsSize", "transFile",
                          "rmdir", "rmfile", "rmlink"},
               C!Goto(s, k), wpc[s] # "gone", k \in {"recv", "gone"} \/ wpc[s] # "recv",
               k \in Removal => wpc[s] \in Removal,
               UNCHANGED <<cur, cpc, fault>>,
               up' = up \/ (up[s] # <<>> /\ up' = [up EXCEPT ![s] = Tail(@)]),
               down' = down \/ \E items : C!Sends(s, items)
        PROVE  GoesOn(s)
    <2>1. k \in WorkerPlace
      BY DEF WorkerPlace
    <2>2. \A t \in Sessions \ {s} : down'[t] = down[t]
      BY <1>2, <1>3
    <2> QED
      BY <1>3, <2>1, <2>2 DEF GoesOn
  <1>4. ASSUME NEW l \in {"puts", "putsName", "putsHash", "getsHere", "getsSize"},
               NEW kind, NEW k \in {"recv", "putsName", "putsHash", "putsCheck", "getsSize",
                                    "transFile"},
               C!Receives(s, l, kind, k)
        PROVE  GoesOn(s)
    <2>1. wpc[s] = l /\ l \notin {"recv", "gone"} /\ UNCHANGED <<cur, cpc, down>>
      BY <1>4 DEF C!Receives, C!locals
    <2>2. \/ C!Goto(s, k) /\ UNCHANGED fault /\ up[s] # <<>> /\ up' = [up EXCEPT ![s] = Tail(@)]
          \/ C!Goto(s, "recv") /\ UNCHANGED fault /\ up' = up
      BY <1>1, <1>4 DEF C!Receives
    <2>3. k \notin Removal /\ "recv" \notin Removal
      BY DEF Removal
    <2> QED
      BY <1>3, <2>1, <2>2, <2>3
  <1>5. CASE C!Puts(s) \/ C!PutsName(s) \/ C!PutsHash(s) \/ C!GetsHere(s) \/ C!GetsSize(s)
    BY <1>4, <1>5 DEF C!Puts, C!PutsName, C!PutsHash, C!GetsHere, C!GetsSize
  <1>6. CASE C!Return(s) \/ C!Ls(s) \/ C!LsEnd(s) \/ C!Pwd(s)
    BY <1>3, <1>6 DEF C!Return, C!Ls, C!LsEnd, C!Pwd, C!locals, Removal
  <1>7. CASE C!Mkdir(s) \/ C!MakeDir(s) \/ C!Link(s)
    BY <1>3, <1>7 DEF C!Mkdir, C!MakeDir, C!Link, C!locals, Removal
  <1>8. CASE C!PutsCheck(s) \/ C!Gets(s) \/ C!TransFile(s)
    BY <1>3, <1>8 DEF C!PutsCheck, C!Gets, C!TransFile, C!locals, Removal
  <1>9. CASE C!RecvFile(s)
    <2>1. \/ up[s] # <<>> /\ up' = [up EXCEPT ![s] = Tail(@)] /\ UNCHANGED fault
          \/ up' = up /\ UNCHANGED fault
      BY <1>1, <1>9 DEF C!RecvFile, C!Rests, PlainNames
    <2> QED
      BY <1>3, <1>9, <2>1 DEF C!RecvFile, C!locals, Removal
  <1>10. CASE C!RemoveCheck(s) \/ C!RemoveDir(s) \/ C!RemoveRow(s) \/ C!RemoveFile(s)
    BY <1>3, <1>10 DEF C!RemoveCheck, C!RemoveDir, C!RemoveRow, C!RemoveFile, C!locals, Removal
  <1> QED
    BY <1>5, <1>6, <1>7, <1>8, <1>9, <1>10

(* The other steps of the worker.                                          *)
LEMMA GoingOnKeeps ==
  ASSUME PlainNames, CommandInv, CommandInv', DirectoryInv, NEW s \in Sessions,
         \/ C!Return(s) \/ C!Ls(s) \/ C!LsEnd(s) \/ C!Pwd(s) \/ C!Mkdir(s) \/ C!MakeDir(s)
         \/ C!Puts(s) \/ C!PutsName(s) \/ C!PutsHash(s) \/ C!PutsCheck(s) \/ C!Link(s)
         \/ C!RecvFile(s) \/ C!Gets(s) \/ C!GetsHere(s) \/ C!GetsSize(s) \/ C!TransFile(s)
         \/ C!RemoveCheck(s) \/ C!RemoveDir(s) \/ C!RemoveRow(s) \/ C!RemoveFile(s)
  PROVE  DirectoryInv'
  <1>1. GoesOn(s)
    BY StepsGoOn
  <1>2. wpc[s] # "gone"
    BY <1>1 DEF GoesOn
  <1>3. \A t \in Sessions : wpc[t] # "gone" => tree[cur[t]] = "dir" /\ cur[t] \in C!Paths
    BY DEF CommandInv, CommandTypes, DirectoryInv, Home, C!IsDir
  <1>4. CASE C!RemoveDir(s) \/ C!RemoveFile(s)
    <2>1. C!Removes(s) /\ wpc[s] \in Removal
      BY <1>4 DEF C!RemoveDir, C!RemoveFile, Removal
    <2>2. Rooted' /\ tree'[cur[s]] = "dir"
      BY <1>2, <2>1, RemovesRooted DEF Removal
    <2>3. PICK n \in Operand : wcmd[s] = <<"remove", n>> /\ C!Path(s) = Append(cur[s], n)
      <3>1. wcmd[s] \in Command /\ Len(wcmd[s]) # 3 /\ wcmd[s][1] = "remove"
        BY <2>1 DEF CommandInv, Bounded, DirectoryInv, Relative, Removal
      <3>2. wcmd[s][2] \in Operand
        BY <3>1, WordFacts DEF Operand
      <3> QED
        BY <3>1, <3>2, PairFacts DEF C!Path
    <2>4. ASSUME NEW t \in Sessions \ {s}, wpc[t] # "gone" PROVE tree'[cur[t]] = "dir"
      <3>1. ~ C!IsPrefix(C!Path(s), cur[t])
        BY <2>3, <2>4 DEF DirectoryInv, Apart, Asked
      <3>2. C!Path(s) # cur[t]
        BY <3>1, PathsAreSeqs, PrefixFacts
      <3> QED
        BY <1>3, <2>1, <2>4, <3>2 DEF C!Removes, CommandInv, CommandTypes
    <2> QED
      BY <1>1, <2>2, <2>4, GoesOnKeeps
  <1>5. CASE ~ (C!RemoveDir(s) \/ C!RemoveFile(s))
    <2>1. \/ UNCHANGED tree
          \/ /\ wpc[s] \notin {"recv", "gone"}
             /\ \E type \in {"file", "dir"} : C!Creates(s, type) \/ UNCHANGED tree
      <3>1. CASE C!MakeDir(s) \/ C!Link(s)
        BY <3>1 DEF C!MakeDir, C!Link
      <3>2. CASE C!RecvFile(s)
        BY <3>2 DEF C!RecvFile, C!files
      <3>3. CASE C!Puts(s) \/ C!PutsName(s) \/ C!PutsHash(s) \/ C!GetsHere(s) \/ C!GetsSize(s)
        BY <3>3 DEF C!Puts, C!PutsName, C!PutsHash, C!GetsHere, C!GetsSize, C!Receives, C!files
      <3>4. CASE C!Return(s) \/ C!Ls(s) \/ C!LsEnd(s) \/ C!Pwd(s) \/ C!Mkdir(s)
        BY <3>4 DEF C!Return, C!Ls, C!LsEnd, C!Pwd, C!Mkdir, C!files
      <3>5. CASE \/ C!PutsCheck(s) \/ C!Gets(s) \/ C!TransFile(s) \/ C!RemoveCheck(s)
                 \/ C!RemoveRow(s)
        BY <3>5 DEF C!PutsCheck, C!Gets, C!TransFile, C!RemoveCheck, C!RemoveRow, C!files
      <3> QED
        BY <1>5, <3>1, <3>2, <3>3, <3>4, <3>5
    <2>2. Rooted' /\ \A p \in C!Paths : tree[p] = "dir" => tree'[p] = "dir"
      <3>1. CASE UNCHANGED tree
        BY <3>1 DEF DirectoryInv, Rooted, C!IsDir
      <3> QED
        BY <2>1, <3>1, CreatesRooted
    <2> QED
      BY <1>1, <1>2, <1>3, <2>2, GoesOnKeeps
  <1> QED
    BY <1>4, <1>5

(* A step that touches neither the tree nor what is s's directory.         *)
LEMMA StaysKeeps ==
  ASSUME CommandInv, DirectoryInv, NEW s \in Sessions, Others(s),
         UNCHANGED <<tree, fault>>, cur'[s] = cur[s],
         wpc[s] = "gone" <=> wpc'[s] = "gone", Relative(s)',
         \A t \in Sessions \ {s} : Apart(s, t)' /\ Apart(t, s)'
  PROVE  DirectoryInv'
  <1>1. Rooted' /\ fault' = "no"
    BY DEF DirectoryInv, Rooted, C!IsDir
  <1>2. \A t \in Sessions : wpc[t] # "gone" => tree'[cur[t]] = "dir"
    BY DEF DirectoryInv, Home, C!IsDir
  <1>3. Home(s)'
    BY <1>2 DEF Home, C!IsDir
  <1> QED
    BY <1>1, <1>2, <1>3, OneDirectory

(* cd goes to a directory that is there.                                   *)
LEMMA CdHome ==
  ASSUME PlainNames, CommandInv, CommandInv', DirectoryInv, NEW s \in Sessions, C!Cd(s)
  PROVE  DirectoryInv'
  <1> DEFINE n == wcmd[s][2]
  <1>1. wpc[s] = "cd" /\ C!Goto(s, "recv") /\ UNCHANGED <<tree, cpc, up, fault>>
    BY DEF C!Cd, C!files
  <1>2. \E items : C!Sends(s, items)
    BY DEF C!Cd
  <1>3. Len(wcmd[s]) # 3 /\ tree[cur[s]] = "dir" /\ cur[s] \in C!Paths
    BY <1>1 DEF DirectoryInv, Relative, Home, C!IsDir, CommandInv, CommandTypes
  <1>4. PICK p : /\ cur' = [cur EXCEPT ![s] = p]
                 /\ \/ p = cur[s]
                    \/ cur[s] # <<>> /\ p = C!Front(cur[s])
                    \/ n \in Names /\ p = Append(cur[s], n) /\ tree[p] = "dir"
    BY <1>3 DEF C!Cd, C!Path, C!At, CommandInv, CommandTypes, PlainNames
  <1>5. tree[p] = "dir"
    BY <1>3, <1>4 DEF DirectoryInv, Rooted, C!IsDir
  <1>6. /\ wpc'[s] = "recv" /\ cur'[s] = p
        /\ \A t \in Sessions \ {s} : wpc'[t] = wpc[t] /\ wcmd'[t] = wcmd[t] /\ cur'[t] = cur[t]
    BY <1>1, <1>4 DEF CommandInv, CommandTypes, C!Goto
  <1>7. \A t \in Sessions \ {s} : down'[t] = down[t]
    BY <1>2 DEF CommandInv, CommandTypes, C!Sends
  <1>8. Others(s)
    BY <1>1, <1>6, <1>7 DEF Others
  <1>9. Rooted' /\ fault' = "no"
    BY <1>1 DEF DirectoryInv, Rooted, C!IsDir
  <1>10. Home(s)'
    BY <1>1, <1>5, <1>6 DEF Home, C!IsDir
  <1>11. Relative(s)'
    BY <1>1, <1>6 DEF DirectoryInv, Relative, Removal
  <1>12. \A t \in Sessions \ {s} : wpc[t] # "gone" => tree'[cur[t]] = "dir"
    BY <1>1 DEF DirectoryInv, Home, C!IsDir
  <1>13. \A op, m : ~ Asked(s, op, m)'
    <2>1. up[s] = <<>>
      BY <1>1, SessionFacts, TalkOwed DEF Owed, Reads
    <2>2. up'[s] = <<>> /\ wcmd'[s] = <<>> /\ Len(<<>>) = 0 /\ \A i \in 1 .. 0 : FALSE
      BY <1>1, <2>1 DEF C!Goto, CommandInv, CommandTypes
    <2> QED
      BY <2>2, PairFacts DEF Asked
  <1>14. ASSUME NEW t \in Sessions \ {s} PROVE Apart(s, t)' /\ Apart(t, s)'
    <2>1. Apart(s, t)'
      BY <1>13 DEF Apart
    <2>2. /\ cur'[t] = cur[t] /\ Apart(t, s) /\ \A op, m : Asked(t, op, m)' <=> Asked(t, op, m)
      BY <1>8 DEF Others, DirectoryInv, Asked
    <2>3. ASSUME NEW m \in Operand, Asked(t, "remove", m)
          PROVE  ~ C!IsPrefix(Append(cur[t], m), p)
      <3>1. ~ C!IsPrefix(Append(cur[t], m), cur[s])
        BY <1>1, <2>2, <2>3 DEF Apart
      <3>2. Append(cur[t], m) \in Seq(Operand) /\ cur[s] \in Seq(Operand)
        BY PathsAreSeqs
      <3>3. CASE cur[s] # <<>> /\ p = C!Front(cur[s])
        BY <3>1, <3>2, <3>3, PrefixFacts
      <3>4. CASE n \in Names /\ p = Append(cur[s], n)
        <4>1. Asked(s, "cd", n)
          <5>1. wcmd[s] \in Command /\ wcmd[s][1] = "cd"
            BY <1>1 DEF CommandInv, Bounded, C!Ops
          <5> QED
            BY <1>3, <5>1, PairFacts DEF Asked
        <4> QED
          BY <1>1, <2>2, <2>3, <3>4, <4>1 DEF Apart, Operand
      <3> QED
        BY <1>4, <3>1, <3>3, <3>4
    <2> QED
      BY <1>6, <1>13, <2>1, <2>2, <2>3 DEF Apart
  <1> QED
    BY <1>8, <1>9, <1>10, <1>11, <1>12, <1>14, OneDirectory

(* A command is what the client has asked for.                             *)
LEMMA RecvCommandHome ==
  ASSUME PlainNames, CommandInv, CommandInv', DirectoryInv, NEW s \in Sessions,
         C!RecvCommand(s)
  PROVE  DirectoryInv'
  <1> DEFINE x == Head(up[s])
  <1>1. /\ wpc[s] = "recv" /\ up[s] # <<>> /\ up' = [up EXCEPT ![s] = Tail(@)]
        /\ UNCHANGED <<tree, cur, cpc, down>>
    BY DEF C!RecvCommand, C!files, C!locals
  <1>2. x = up[s][1] /\ 1 \in 1 .. Len(up[s]) /\ x \in Sent
    <2>1. Len(up[s]) \in Nat /\ Len(up[s]) # 0 /\ up[s] \in Seq(Sent)
      BY <1>1, SessionFacts, LenProperties, Void
    <2> QED
      BY <1>1, <2>1
  <1> HIDE DEF x
  <1>3. fault' # "misread"
    BY DEF CommandInv, CommandTypes
  <1>4. x[1] = "str" /\ UNCHANGED fault
    BY <1>3 DEF C!RecvCommand, x
  <1>5. /\ \A i \in 1 .. Len(up'[s]) : \E j \in 1 .. Len(up[s]) : up'[s][i] = up[s][j]
        /\ \A t \in Sessions \ {s} : up'[t] = up[t]
    BY <1>1, StillThere
  <1>6. \/ UNCHANGED <<wpc, wcmd>>
        \/ /\ wpc' = [wpc EXCEPT ![s] = x[2][1]] /\ wcmd' = [wcmd EXCEPT ![s] = x[2]]
           /\ x[2][1] \in C!Ops
    <2>1. x[2][1] \in C!Ops => Len(x[2]) # 1
      BY <1>2, <1>4, WordFacts
    <2> QED
      BY <1>4, <2>1 DEF C!RecvCommand, x
  <1>7. Others(s)
    BY <1>1, <1>5, <1>6 DEF Others, CommandInv, CommandTypes
  <1>8. \/ wpc'[s] = wpc[s] /\ wcmd'[s] = wcmd[s]
        \/ wpc'[s] = x[2][1] /\ wcmd'[s] = x[2] /\ x[2][1] \in C!Ops
    BY <1>6 DEF CommandInv, CommandTypes
  <1>9. wpc'[s] # "gone" /\ wpc[s] # "gone"
    BY <1>1, <1>8 DEF C!Ops
  <1>10. \A op, n : Asked(s, op, n)' => Asked(s, op, n)
    BY <1>2, <1>4, <1>5, <1>8 DEF Asked
  <1>11. Relative(s)'
    <2>1. Len(x[2]) # 3
      BY <1>2, <1>4 DEF DirectoryInv, Relative
    <2>2. wpc'[s] \in Removal => wcmd'[s][1] = "remove"
      BY <1>1, <1>8 DEF Removal, C!Ops
    <2> QED
      BY <1>1, <1>5, <1>8, <2>1, <2>2 DEF DirectoryInv, Relative
  <1>12. \A t \in Sessions \ {s} : Apart(s, t)' /\ Apart(t, s)'
    BY <1>1, <1>7, <1>9, <1>10, ApartStays
  <1> QED
    BY <1>1, <1>4, <1>7, <1>9, <1>11, <1>12, StaysKeeps

(* A listing looks only.                                                   *)
LEMMA LsEntryHome ==
  ASSUME PlainNames, CommandInv, DirectoryInv, NEW s \in Sessions, C!LsEntry(s)
  PROVE  DirectoryInv'
  <1>1. /\ UNCHANGED <<tree, cur, wpc, wcmd, cpc, up, fault>> /\ \E items : C!Sends(s, items)
    BY DEF C!LsEntry, C!files
  <1>2. Others(s)
    BY <1>1 DEF Others, CommandInv, CommandTypes, C!Sends
  <1>3. Relative(s)' /\ \A op, n : Asked(s, op, n)' => Asked(s, op, n)
    BY <1>1 DEF DirectoryInv, Relative, Asked
  <1>4. \A t \in Sessions \ {s} : Apart(s, t)' /\ Apart(t, s)'
    BY <1>1, <1>2, <1>3, ApartStays
  <1> QED
    BY <1>1, <1>2, <1>3, <1>4, StaysKeeps

(* The words of a stream are in W.                                         *)
AllWords(u, W) == \A i \in 1 .. Len(u) : u[i][1] = "str" => u[i][2] \in W

(* So are those of two.                                                    *)
LEMMA WordsConcat ==
  ASSUME NEW S, NEW T, NEW u \in Seq(S), NEW v \in Seq(T), NEW W,
         AllWords(u, W), AllWords(v, W)
  PROVE  AllWords(u \o v, W)
  <1>1. ASSUME NEW i \in 1 .. Len(u \o v), (u \o v)[i][1] = "str" PROVE (u \o v)[i][2] \in W
    <2>1. CASE \E j \in 1 .. Len(u) : (u \o v)[i] = u[j]
      BY <1>1, <2>1 DEF AllWords
    <2>2. CASE \E j \in 1 .. Len(v) : (u \o v)[i] = v[j]
      BY <1>1, <2>2 DEF AllWords
    <2> QED
      BY <2>1, <2>2, ConcatItems
  <1> QED
    BY <1>1 DEF AllWords

(* A step of the client moves no directory, and asks for a removal only    *)
(* when it may.                                                            *)
LEMMA ClientHome ==
  ASSUME CommandInv, DirectoryInv, NEW s \in Sessions, Others(s),
         UNCHANGED <<tree, cur, wpc, wcmd, fault>>,
         NEW W, AllWords(up'[s], W), \A x \in W : Len(x) # 3,
         \A t \in Sessions \ {s} : Apart(s, t)' /\ Apart(t, s)'
  PROVE  DirectoryInv'
  <1>1. Relative(s)'
    BY DEF DirectoryInv, Relative, AllWords
  <1> QED
    BY <1>1, StaysKeeps

(* The words of s that are on their way, and those of no command.          *)
Old(s) ==
  {x \in Word : \/ Len(x) = 1
               \/ /\ Len(x) # 3
                  /\ \E i \in 1 .. Len(up[s]) : up[s][i][1] = "str" /\ up[s][i][2] = x}

(* There are no others.                                                    *)
LEMMA WordsAre ==
  ASSUME PlainNames, CommandInv, DirectoryInv, NEW s \in Sessions
  PROVE  /\ AllWords(up[s], Old(s)) /\ up[s] \in Seq(Sent)
         /\ \A op, n : <<op, n>> \in Old(s) => Asked(s, op, n)
  <1>1. up[s] \in Seq(Sent) /\ \A i \in 1 .. Len(up[s]) : up[s][i] \in Sent
    BY SessionFacts, ElementOfSeq
  <1>2. \A i \in 1 .. Len(up[s]) : up[s][i][1] = "str" => up[s][i][2] \in Word
    BY <1>1, WordFacts
  <1>3. AllWords(up[s], Old(s))
    BY <1>2 DEF DirectoryInv, Relative, AllWords, Old
  <1>4. \A op, n : <<op, n>> \in Old(s) => Asked(s, op, n)
    BY PairFacts DEF Old, Asked
  <1> QED
    BY <1>1, <1>3, <1>4

(* What an orderly user asks for keeps the sessions apart: a removal is not *)
(* above what another uses, and where a session goes is not what another    *)
(* removes, nor, as it is in the directory already, below that.             *)
LEMMA AllowedKeeps ==
  ASSUME PlainNames, Orderly, CommandInv, DirectoryInv, NEW s \in Sessions, Others(s),
         UNCHANGED <<cur, wpc, wcmd>>, NEW op, NEW n \in Operand, C!Allowed(s, op, n),
         \A o, m : Asked(s, o, m)' => Asked(s, o, m) \/ (o = op /\ m = n)
  PROVE  \A t \in Sessions \ {s} : Apart(s, t)' /\ Apart(t, s)'
  <1> SUFFICES ASSUME NEW t \in Sessions \ {s} PROVE Apart(s, t)' /\ Apart(t, s)'
    OBVIOUS
  <1>1. /\ Apart(s, t) /\ Apart(t, s)
        /\ \A o, m : Asked(t, o, m)' <=> Asked(t, o, m)
    BY DEF Others, DirectoryInv, Asked
  <1>2. \A o, m : Asked(t, o, m) => <<o, m>> \in C!Pending(t)
    <2>1. DOMAIN up[t] = 1 .. Len(up[t])
      BY SessionFacts
    <2> QED
      BY <2>1 DEF Asked, C!Pending
  <1>3. \A o, m, ops : Asked(t, o, m) /\ o \in ops => Append(cur[t], m) \in C!Aims(t, ops)
    BY <1>2, PairFacts DEF C!Aims
  <1>4. Apart(s, t)'
    <2> SUFFICES ASSUME NEW k \in Operand, wpc[t] # "gone", Asked(s, "remove", k)'
                 PROVE  /\ ~ C!IsPrefix(Append(cur[s], k), cur[t])
                        /\ \A m \in Operand : Asked(t, "cd", m) =>
                              ~ C!IsPrefix(Append(cur[s], k), Append(cur[t], m))
      BY <1>1 DEF Apart
    <2>1. CASE Asked(s, "remove", k)
      BY <1>1, <2>1 DEF Apart
    <2>2. CASE op = "remove" /\ k = n
      <3>1. \A q \in C!Uses(t) : ~ C!IsPrefix(Append(cur[s], n), q)
        BY <2>2 DEF C!Allowed
      <3>2. cur[t] \in C!Uses(t)
        BY DEF C!Uses
      <3>3. \A m \in Operand : Asked(t, "cd", m) => Append(cur[t], m) \in C!Uses(t)
        BY <1>3 DEF C!Uses
      <3> QED
        BY <2>2, <3>1, <3>2, <3>3
    <2> QED
      BY <2>1, <2>2
  <1>5. Apart(t, s)'
    <2> SUFFICES ASSUME NEW k \in Operand, wpc[s] # "gone", Asked(t, "remove", k)
                 PROVE  /\ ~ C!IsPrefix(Append(cur[t], k), cur[s])
                        /\ \A m \in Operand : Asked(s, "cd", m)' =>
                              ~ C!IsPrefix(Append(cur[t], k), Append(cur[s], m))
      BY <1>1 DEF Apart
    <2>1. ~ C!IsPrefix(Append(cur[t], k), cur[s])
      BY <1>1 DEF Apart
    <2>2. ASSUME NEW m \in Operand, Asked(s, "cd", m)
          PROVE  ~ C!IsPrefix(Append(cur[t], k), Append(cur[s], m))
      BY <1>1, <2>2 DEF Apart
    <2>3. ASSUME op = "cd" PROVE ~ C!IsPrefix(Append(cur[t], k), Append(cur[s], n))
      <3>1. Append(cur[t], k) # Append(cur[s], n)
        BY <1>3, <2>3 DEF C!Allowed
      <3>2. Append(cur[t], k) \in Seq(Operand) /\ cur[s] \in Seq(Operand)
        BY PathsAreSeqs
      <3> DEFINE p == Append(cur[t], k)
                 c == cur[s]
      <3> HIDE DEF p, c
      <3>3. C!IsPrefix(p, Append(c, n)) => p = Append(c, n) \/ C!IsPrefix(p, c)
        BY <3>2, PrefixFacts DEF p, c
      <3> QED
        BY <2>1, <3>1, <3>3 DEF p, c
    <2> QED
      BY <2>1, <2>2, <2>3
  <1> QED
    BY <1>4, <1>5

(* Leaving, hearing and asking.                                            *)
LEMMA ClientStepsHome ==
  ASSUME PlainNames, Orderly, CommandInv, CommandInv', DirectoryInv, NEW s \in Sessions,
         C!Ask(s) \/ C!Hear(s) \/ C!HangUp(s)
  PROVE  DirectoryInv'
  <1>1. fault' # "misread"
    BY DEF CommandInv, CommandTypes
  <1>2. /\ AllWords(up[s], Old(s)) /\ up[s] \in Seq(Sent)
        /\ \A op, n : <<op, n>> \in Old(s) => Asked(s, op, n)
    BY WordsAre
  <1>3. ASSUME AllWords(up'[s], Old(s)), Others(s), UNCHANGED <<tree, cur, wpc, wcmd, fault>>
        PROVE  DirectoryInv'
    <2>1. \A op, n : Asked(s, op, n)' => Asked(s, op, n)
      BY <1>2, <1>3 DEF Asked, AllWords
    <2>2. \A t \in Sessions \ {s} : Apart(s, t)' /\ Apart(t, s)'
      BY <1>3, <2>1, ApartStays
    <2>3. \A x \in Old(s) : Len(x) # 3
      BY DEF Old
    <2> QED
      BY <1>3, <2>2, <2>3, ClientHome
  <1>4. CASE C!HangUp(s)
    <2>1. PICK k \in 0 .. Len(up[s]) : up' = [up EXCEPT ![s] = SubSeq(@, 1, k)]
      BY <1>4 DEF C!HangUp
    <2>2. UNCHANGED <<tree, cur, wpc, wcmd, fault>> /\ Others(s)
      BY <1>4 DEF C!HangUp, C!files, C!locals, Others, CommandInv, CommandTypes
    <2>3. /\ \A i \in 1 .. k : SubSeq(up[s], 1, k)[i] = up[s][i]
          /\ Len(SubSeq(up[s], 1, k)) = k
      BY SessionFacts, TalkHangsUp
    <2>4. \A i \in 1 .. k : i \in 1 .. Len(up[s])
      BY <1>2, LenProperties
    <2>5. up'[s] = SubSeq(up[s], 1, k)
      BY <2>1 DEF CommandInv, CommandTypes
    <2>6. AllWords(up'[s], Old(s))
      BY <1>2, <2>3, <2>4, <2>5 DEF AllWords
    <2> QED
      BY <1>3, <2>2, <2>6
  <1>5. CASE C!Hear(s)
    <2> DEFINE N == {C!File, C!Long, C!Number(0), C!Number(1)}
    <2>1. PICK kind, k, items : C!Hears(s, kind, k, items) /\ items \in Seq(N)
      <3>1. /\ <<>> \in Seq(N) /\ <<C!File>> \in Seq(N) /\ <<C!Number(0)>> \in Seq(N)
            /\ <<C!Number(1), C!Long>> \in Seq(N)
        OBVIOUS
      <3> HIDE DEF N
      <3> QED
        BY <1>5, <3>1 DEF C!Hear
    <2>2. \A x \in N : x[1] # "str"
      BY DEF C!File, C!Long, C!Number
    <2> HIDE DEF N
    <2>3. /\ up' = [up EXCEPT ![s] = @ \o items]
          /\ UNCHANGED <<tree, cur, wpc, wcmd, fault>> /\ Others(s)
      BY <1>1, <2>1 DEF C!Hears, C!files, C!locals, Others, CommandInv, CommandTypes
    <2>4. up'[s] = up[s] \o items
      BY <2>3 DEF CommandInv, CommandTypes
    <2>5. AllWords(items, Old(s))
      BY <2>1, <2>2, ElementOfSeq DEF AllWords
    <2>6. AllWords(up'[s], Old(s))
      BY <1>2, <2>1, <2>4, <2>5, WordsConcat
    <2> QED
      BY <1>3, <2>3, <2>6
  <1>6. CASE C!Ask(s)
    <2>1. UNCHANGED <<tree, cur, wpc, wcmd, fault>> /\ Others(s)
      BY <1>6, ZenonT(60) DEF C!Ask, C!files, C!locals, Others, CommandInv, CommandTypes
    <2>2. PICK op \in C!Ops : \E n \in C!Operands(s, op) : \E exists \in BOOLEAN :
            \E word \in Typing(op, n) : Speaks(s, op, n, exists, word)
      BY <1>6, AskIs
    <2>3. PICK n \in C!Operands(s, op), exists \in BOOLEAN :
             \E word \in Typing(op, n) : Speaks(s, op, n, exists, word)
      BY <2>2
    <2> DEFINE N == {C!Number(-1), C!Number(1), C!Str(<<n>>), C!Str(<<"hash">>)}
    <2>4. PICK word \in Typing(op, n), rest \in Seq(N) :
              /\ up' = [up EXCEPT ![s] = @ \o <<C!Str(word)>> \o rest]
              /\ (\E i \in 1 .. Len(rest) : rest[i][1] = "str") => op # "cd"
              /\ C!Allowed(s, op, n)
      <3>1. /\ <<>> \in Seq(N) /\ <<C!Str(<<n>>)>> \in Seq(N) /\ <<C!Number(-1)>> \in Seq(N)
            /\ <<C!Number(1), C!Str(<<n>>), C!Str(<<"hash">>)>> \in Seq(N)
            /\ Len(<<>>) = 0 /\ \A i \in 1 .. 0 : FALSE
        OBVIOUS
      <3> HIDE DEF N
      <3> QED
        BY <2>3, <3>1 DEF Speaks
    <2>5. word \in Command /\ word[1] = op /\ (op # "cd" => n \in Names) /\ Len(word) = 2
      BY WordsTyped DEF Typing
    <2> DEFINE W == Old(s) \union {word}
    <2>6. word \in W /\ word = <<op, n>> /\ n \in Operand /\ Len(word) # 3
      <3>0. Len(word) # 3
        BY <2>5
      <3>1. word = <<word[1], word[2]>>
        BY <2>5, <3>0, PairFacts
      <3>2. word[2] = n /\ n \in Operand
        BY <2>4, <2>5 DEF Typing, C!CdWord, C!Operands, Operand
      <3> QED
        BY <2>5, <3>0, <3>1, <3>2
    <2>7. op # "cd" => \A x \in N : x[1] = "str" => x[2] \in W
      <3>1. op # "cd" => <<n>> \in W
        BY <2>5 DEF Old, Word
      <3>2. <<"hash">> \in W
        BY DEF Old, Word
      <3> QED
        BY <3>1, <3>2 DEF C!Number, C!Str
    <2> DEFINE first == <<C!Str(word)>>
    <2>8. first \in Seq({C!Str(word)}) /\ Len(first) = 1 /\ first[1] = C!Str(word)
          /\ C!Str(word)[2] = word
      BY DEF C!Str
    <2>9. up'[s] = up[s] \o first \o rest
      BY <2>4 DEF CommandInv, CommandTypes
    <2>9a. AllWords(up[s], W)
      BY <1>2 DEF AllWords
    <2> HIDE DEF N, first, W
    <2>10. AllWords(first, W)
      <3>1. \A i \in 1 .. 1 : i = 1
        OBVIOUS
      <3> QED
        BY <2>6, <2>8, <3>1 DEF AllWords
    <2>11. AllWords(rest, W)
      BY <2>4, <2>7, ElementOfSeq DEF AllWords
    <2>12. /\ AllWords(up[s] \o first, W)
           /\ up[s] \o first \in Seq(Sent \union {C!Str(word)})
      <3>1. AllWords(up[s] \o first, W)
        BY <1>2, <2>8, <2>9a, <2>10, WordsConcat
      <3>2. up[s] \in Seq(Sent \union {C!Str(word)}) /\ first \in Seq(Sent \union {C!Str(word)})
        BY <1>2, <2>8
      <3> QED
        BY <3>1, <3>2, ConcatProperties
    <2>13. AllWords(up'[s], W)
      BY <2>4, <2>9, <2>11, <2>12, WordsConcat
    <2>14. \A o, m : Asked(s, o, m)' => Asked(s, o, m) \/ (o = op /\ m = n)
      <3>1. \A o, m : <<o, m>> \in W => Asked(s, o, m) \/ (o = op /\ m = n)
        BY <1>2, <2>6, PairFacts DEF W
      <3> QED
        BY <2>1, <2>13, <3>1 DEF Asked, AllWords
    <2>15. \A t \in Sessions \ {s} : Apart(s, t)' /\ Apart(t, s)'
      BY <2>1, <2>4, <2>6, <2>14, AllowedKeeps
    <2>16. \A x \in W : Len(x) # 3
      <3>1. \A x \in Old(s) : Len(x) # 3
        BY DEF Old
      <3> QED
        BY <2>6, <3>1 DEF W
    <2> QED
      BY <2>1, <2>13, <2>15, <2>16, ClientHome
  <1> QED
    BY <1>4, <1>5, <1>6

(* Every step of the sessions keeps it: opendir never fails.               *)
LEMMA DirectoryNext ==
  ASSUME PlainNames, Orderly, CommandInv, DirectoryInv, C!Next
  PROVE  DirectoryInv'
  <1>1. CommandInv'
    BY CommandNext
  <1>2. PICK s \in Sessions : C!Ask(s) \/ C!Hear(s) \/ C!HangUp(s) \/ C!ServerClient(s)
    BY DEF C!Next
  <1>3. ~ C!ReadsNull(s)
    BY DEF C!ReadsNull, DirectoryInv, Home
  <1>4. C!ServerClient(s) => C!Step(s)
    BY <1>3 DEF C!ServerClient
  <1>5. CASE C!Step(s)
    BY <1>1, <1>5, GoingOnKeeps, CdHome, RecvCommandHome, LsEntryHome DEF C!Step
  <1> QED
    BY <1>1, <1>2, <1>4, <1>5, ClientStepsHome

(* So do the other parts.                                                  *)
LEMMA DirectoryStutter ==
  ASSUME DirectoryInv, UNCHANGED cvars
  PROVE  DirectoryInv'
  <1>1. UNCHANGED <<tree, cur, cpc, wpc, wcmd, entries, up, down, fault>>
    BY DEF cvars
  <1>2. Rooted' /\ fault' = "no"
    BY <1>1 DEF DirectoryInv, Rooted, C!IsDir
  <1>3. \A t \in Sessions : /\ Home(t)' /\ Relative(t)'
                           /\ \A r \in Sessions \ {t} : Apart(t, r)'
    BY <1>1 DEF DirectoryInv, Home, Apart, Asked, Relative, C!IsDir
  <1> QED
    BY <1>2, <1>3 DEF DirectoryInv

-----------------------------------------------------------------------------
(* Whom the supervisor comes to.                                           *)

(* A step that gives nobody a number, and takes nobody out of the ring.    *)
LEMMA ServedStay ==
  ASSUME ServedInRing,
         \A w \in Workers : \A d \in Fds :
           (Serving(w) /\ Has(w, d))' =>
              (Serving(w) /\ Has(w, d)) \/ \E i \in Slots : d \in ring'[i],
         \A w \in Workers : \A d \in Fds : \A i \in Slots :
           (Serving(w) /\ Has(w, d))' /\ d \in ring[i] => \E j \in Slots : d \in ring'[j]
  PROVE  ServedInRing'
  <1> SUFFICES ASSUME NEW w \in Workers, NEW d \in Fds, (Serving(w) /\ Has(w, d))'
               PROVE  \E i \in Slots : d \in ring'[i]
    BY DEF ServedInRing
  <1>1. CASE Serving(w) /\ Has(w, d)
    <2>1. PICK i \in Slots : d \in ring[i]
      BY <1>1 DEF ServedInRing
    <2> QED
      BY <2>1
  <1> QED
    BY <1>1

(* A worker puts its number in the slot before the supervisor's, and takes *)
(* no other number out, whoever that of its client is now.                 *)
LEMMA PutServes ==
  ASSUME ServerInv, ServedInRing, NEW w \in Workers, Enter(w) \/ Update(w)
  PROVE  ServedInRing'
  <1>1. /\ pc \in [Workers -> {"pop", "login", "loginRecv", "register", "enter", "call",
                               "recv", "update", "leave"}]
        /\ fdPointer \in Slots /\ newfd[w] \in Fds
        /\ pc' = [pc EXCEPT ![w] = "call"] /\ UNCHANGED <<table, newfd, own>>
    BY DEF ServerInv, TypeOK, IdleWorkers, Enter, Update, Goto
  <1>2. PICK p, old : p \in Slots /\ p = Before(fdPointer)
          /\ ring' = [i \in Slots |-> (ring[i] \ (IF i = old THEN {newfd[w]} ELSE {}))
                                        \union (IF i = p THEN {newfd[w]} ELSE {})]
    <2>1. Before(fdPointer) \in Slots
      BY <1>1, BoundsAssumption DEF Before, Slots
    <2>2. \A old : Put(w, old) =>
            ring' = [i \in Slots |-> (ring[i] \ (IF i = old THEN {newfd[w]} ELSE {}))
                      \union (IF i = Before(fdPointer) THEN {newfd[w]} ELSE {})]
      BY DEF Put
    <2>3. \E old : Put(w, old)
      BY DEF Enter, Update
    <2> QED
      BY <2>1, <2>2, <2>3
  <1>3. /\ newfd[w] \in ring'[p]
        /\ \A d \in Fds : \A i \in Slots : d \in ring[i] /\ d # newfd[w] => d \in ring'[i]
    BY <1>2
  <1>4. \A v \in Workers : \A d \in Fds :
          (Serving(v) /\ Has(v, d))' => (Serving(v) /\ Has(v, d)) \/ d = newfd[w]
    BY <1>1 DEF Serving, Has
  <1>5. \A d \in Fds : \A i \in Slots : d \in ring[i] => \E j \in Slots : d \in ring'[j]
    BY <1>2, <1>3
  <1> QED
    BY <1>2, <1>3, <1>4, <1>5, ServedStay

(* Every step.                                                             *)
LEMMA ServedNext ==
  ASSUME ServerInv, ServedInRing, Next \/ UNCHANGED vars
  PROVE  ServedInRing'
  <1>0. /\ table \in [Fds -> Conns \union {None}]
        /\ pc \in [Workers -> {"pop", "login", "loginRecv", "register", "enter", "call",
                               "recv", "update", "leave"}]
        /\ newfd \in [Workers -> Fds \union {None}] /\ own \in [Workers -> Conns \union {None}]
        /\ ring \in [Slots -> SUBSET Fds] /\ fdPointer \in Slots
        /\ NewAreUnknown /\ IdleWorkers
    BY DEF ServerInv, TypeOK
  <1>1. ASSUME UNCHANGED ring,
               \A w \in Workers : \A d \in Fds :
                 (Serving(w) /\ Has(w, d))' => Serving(w) /\ Has(w, d)
        PROVE  ServedInRing'
    BY <1>1 DEF ServedInRing
  <1>2. CASE UNCHANGED vars
    BY <1>1, <1>2 DEF vars, node, Serving, Has
  <1>3. ASSUME NEW c \in Conns, Ask(c) \/ HangUp(c) PROVE ServedInRing'
    BY <1>1, <1>3 DEF Ask, HangUp, node, Serving, Has
  <1>4. ASSUME NEW c \in Conns, Accept(c) PROVE ServedInRing'
    <2>1. /\ client[c] = "new" /\ UNCHANGED <<pc, newfd, own, ring>>
          /\ UNCHANGED table \/ table' = [table EXCEPT ![Lowest(Free)] = c]
      BY <1>4 DEF Accept, node
    <2>2. \A w \in Workers : own[w] # c
      BY <1>0, <2>1 DEF NewAreUnknown
    <2>3. \A d \in Fds : table'[d] = table[d] \/ table'[d] = c
      BY <1>0, <2>1
    <2> QED
      BY <1>1, <2>1, <2>2, <2>3 DEF Serving, Has
  <1>5. ASSUME NEW w \in Workers, Pop(w) PROVE ServedInRing'
    <2>1. /\ pc' = [pc EXCEPT ![w] = "login"] /\ UNCHANGED <<table, ring>>
          /\ newfd' = [newfd EXCEPT ![w] = Head(queue)]
          /\ own' = [own EXCEPT ![w] = table[Head(queue)]]
      BY <1>5 DEF Pop, Goto
    <2> QED
      BY <1>0, <1>1, <2>1 DEF Serving, Has
  <1>6. ASSUME NEW w \in Workers, Call(w, "login", "loginRecv") \/ Call(w, "call", "recv")
        PROVE  ServedInRing'
    <2>1. /\ UNCHANGED <<table, newfd, own, ring>> /\ pc[w] \in {"login", "call"}
          /\ \E l : /\ pc' = [pc EXCEPT ![w] = l]
                    /\ l \in {"recv", "loginRecv", "register", "enter", "leave"}
                    /\ pc[w] = "login" => l # "recv"
      <3>1. UNCHANGED <<table, newfd, own, ring>>
        BY <1>6 DEF Call, node
      <3>2. CASE Call(w, "login", "loginRecv")
        <4>1. /\ pc[w] = "login"
              /\ \E l \in {"loginRecv"} \union AfterFailure : pc' = [pc EXCEPT ![w] = l]
          BY <3>2 DEF Call, Goto, AfterFailure
        <4> QED
          BY <3>1, <4>1 DEF AfterFailure
      <3>3. CASE Call(w, "call", "recv")
        <4>1. /\ pc[w] = "call"
              /\ \E l \in {"recv", "leave"} : pc' = [pc EXCEPT ![w] = l]
          BY <3>3 DEF Call, Goto
        <4> QED
          BY <3>1, <4>1
      <3> QED
        BY <1>6, <3>2, <3>3
    <2> QED
      BY <1>0, <1>1, <2>1 DEF Serving, Has
  <1>7. ASSUME NEW w \in Workers, Login(w) \/ Register(w) \/ Recv(w) PROVE ServedInRing'
    <2>1. /\ UNCHANGED <<table, newfd, own, ring>>
          /\ \E l : /\ pc' = [pc EXCEPT ![w] = l]
                    /\ \/ l = "update" /\ pc[w] = "recv"
                       \/ l \in {"enter", "login", "loginRecv", "register", "leave"}
      BY <1>7 DEF Login, Register, Recv, Goto, AfterFailure, node
    <2> QED
      BY <1>0, <1>1, <2>1 DEF Serving, Has
  <1>8. ASSUME NEW w \in Workers, Leave(w) PROVE ServedInRing'
    <2>1. /\ pc' = [pc EXCEPT ![w] = "pop"] /\ newfd' = [newfd EXCEPT ![w] = None]
          /\ own' = [own EXCEPT ![w] = None] /\ UNCHANGED ring
          /\ table' = [table EXCEPT ![newfd[w]] = None]
      BY <1>8 DEF Leave, Goto
    <2>2. \A d \in Fds : table'[d] = table[d] \/ table'[d] = None
      BY <1>0, <2>1
    <2> QED
      BY <1>0, <1>1, <2>1, <2>2 DEF Serving, Has
  <1>9. CASE Supervise
    <2>1. /\ UNCHANGED <<pc, newfd, own>>
          /\ \A d \in Fds : table'[d] = IF d \in ring[fdPointer] THEN None ELSE table[d]
          /\ \A i \in Slots : i # fdPointer => ring'[i] = ring[i]
      BY <1>0, <1>9 DEF Supervise, node
    <2>2. \A w \in Workers : \A d \in Fds :
            (Serving(w) /\ Has(w, d))' => Serving(w) /\ Has(w, d) /\ d \notin ring[fdPointer]
      BY <2>1 DEF Serving, Has
    <2> QED
      BY <2>1, <2>2, ServedStay
  <1> QED
    BY <1>2, <1>3, <1>4, <1>5, <1>6, <1>7, <1>8, <1>9, PutServes DEF Next, WorkerStep

-----------------------------------------------------------------------------
(* The program.                                                            *)

(* A step of the whole moves one part and leaves the others.               *)
LEMMA Parts ==
  ASSUME [SumNext]_all
  PROVE  /\ Next \/ UNCHANGED vars
         /\ C!Next \/ UNCHANGED cvars
         /\ L!Next \/ UNCHANGED lvars
  BY DEF SumNext, Server, Commands, Login_, all

(* The state of the connections is sound in every behaviour.               *)
THEOREM ConnectionsAreSound == SumSpec => []ServerInv
  <1>1. SumInit => ServerInv
    BY ServerInit DEF SumInit
  <1>2. ServerInv /\ [SumNext]_all => ServerInv'
    BY Parts, ServerNext, ServerStutter
  <1> QED
    BY <1>1, <1>2, PTL DEF SumSpec

(* No connection the server has accepted is forgotten: it has a number, or *)
(* a worker has it (main.cpp:60-110, 225-247).                             *)
THEOREM NoConnectionIsForgotten == SumSpec => []NobodyForgotten
  <1>1. ServerInv => NobodyForgotten
    BY DEF ServerInv
  <1> QED
    BY <1>1, ConnectionsAreSound, PTL

(* Nobody is left silent for longer than the ring turns.                   *)
THEOREM IdleConnectionsAreClosed == SumSpec => []IdleIsClosed
  <1>1. ServerInv => IdleIsClosed
    BY BoundsAssumption DEF ServerInv, IdleIsClosed, InRing, Alone, Slots, TypeOK, Has, Serving
  <1> QED
    BY <1>1, ConnectionsAreSound, PTL

(* Every client in service is in the ring until it is closed, also one     *)
(* whose number other workers still move about and close                   *)
(* (main.cpp:97-111, 245-267): there is a slot at which the supervisor     *)
(* comes to it.                                                            *)
THEOREM ServedAreWatched == SumSpec => []ServedInRing
  <1>1. SumInit => ServerInv /\ ServedInRing
    <2>1. Init => ServedInRing
      BY DEF Init, ServedInRing, Serving
    <2> QED
      BY <2>1, ServerInit DEF SumInit
  <1>2. ServerInv /\ ServedInRing /\ [SumNext]_all => ServerInv' /\ ServedInRing'
    BY Parts, ServerNext, ServerStutter, ServedNext
  <1> QED
    BY <1>1, <1>2, PTL DEF SumSpec

(* Whoever is served has typed a password of the row it named.             *)
THEOREM LoginsAreAuthenticated == PlainPeople => (SumSpec => []Authenticated)
  <1> SUFFICES ASSUME PlainPeople PROVE SumSpec => []Authenticated
    OBVIOUS
  <1>1. SumInit => LoginInv
    BY LoginInit DEF SumInit
  <1>2. LoginInv /\ [SumNext]_all => LoginInv'
    BY Parts, LoginNext, LoginStutter
  <1>3. LoginInv => Authenticated
    BY DEF LoginInv, Salted, Proved, Authenticated, L!Authenticated, L!Nobody
  <1> QED
    BY <1>1, <1>2, <1>3, PTL DEF SumSpec

(* Both ends of every session know where the other is.                     *)
THEOREM SessionsAreDialogues == PlainNames => (SumSpec => []CommandInv)
  <1> SUFFICES ASSUME PlainNames PROVE SumSpec => []CommandInv
    OBVIOUS
  <1>1. SumInit => CommandInv
    BY CommandInit DEF SumInit
  <1>2. CommandInv /\ [SumNext]_all => CommandInv'
    BY Parts, CommandNext, CommandStutter
  <1> QED
    BY <1>1, <1>2, PTL DEF SumSpec

(* Client and worker never take one item of the stream for another         *)
(* (main.cpp:252-531, client.cpp:140-278), also when users are not orderly *)
(* and the server ends in a crash.                                         *)
THEOREM CommandsAreAligned == PlainNames => (SumSpec => []Aligned)
  <1> SUFFICES ASSUME PlainNames PROVE SumSpec => []Aligned
    OBVIOUS
  <1>1. CommandInv => Aligned
    BY CommandsUnderstood DEF Aligned
  <1>2. SumSpec => []CommandInv
    BY SessionsAreDialogues
  <1> QED
    BY <1>1, <1>2, PTL

(* While users are orderly a session's curPath is a directory that exists, *)
(* and no opendir of the server fails (main.cpp:294, 316).                 *)
THEOREM DirectoriesExist == PlainNames /\ Orderly => (SumSpec => []PathsExist)
  <1> SUFFICES ASSUME PlainNames, Orderly PROVE SumSpec => []PathsExist
    OBVIOUS
  <1>1. SumInit => CommandInv /\ DirectoryInv
    BY CommandInit, DirectoryInit DEF SumInit
  <1>2. CommandInv /\ DirectoryInv /\ [SumNext]_all => CommandInv' /\ DirectoryInv'
    BY Parts, CommandNext, CommandStutter, DirectoryNext, DirectoryStutter
  <1>3. CommandInv /\ DirectoryInv => PathsExist
    BY DEF DirectoryInv, Home, PathsExist, C!PathsExist
  <1> QED
    BY <1>1, <1>2, <1>3, PTL DEF SumSpec
-----------------------------------------------------------------------------
(* Nobody waits for the other.                                             *)

(* Where a worker is inside a recv_n.                                      *)
Receiving == {"recv", "puts", "putsName", "putsHash", "recvFile", "getsHere", "getsSize"}

(* A worker that has nothing to read waits for the next command of a       *)
(* client at its prompt, or the client has an answer still to read; and a  *)
(* worker leaves after its client.                                         *)
OneHasTheTurn ==
  \A s \in Sessions :
    /\ wpc[s] = "gone" => cpc[s] = "gone"
    /\ wpc[s] \in Receiving /\ up[s] = <<>> /\ cpc[s] # "gone" =>
         IF down[s] = <<>> THEN wpc[s] = "recv" /\ cpc[s] = "prompt" ELSE cpc[s] # "prompt"

(* The first part, which is not in what is under way.                      *)
WorkersStay == \A s \in Sessions : wpc[s] = "gone" => cpc[s] = "gone"

(* A worker goes only when its client has; every other step of it leads to *)
(* another place.                                                          *)
LEMMA WorkerStepsStay ==
  ASSUME NEW s \in Sessions, C!Step(s), ~ C!Return(s)
  PROVE  UNCHANGED cpc /\ (UNCHANGED wpc \/ \E l : l # "gone" /\ wpc' = [wpc EXCEPT ![s] = l])
  <1> DEFINE Moves == \E l : l # "gone" /\ wpc' = [wpc EXCEPT ![s] = l]
  <1>1. \A l : l # "gone" /\ C!Goto(s, l) => Moves
    BY DEF C!Goto
  <1>2. \A l, kind, k : k # "gone" /\ C!Receives(s, l, kind, k) =>
          UNCHANGED cpc /\ (UNCHANGED wpc \/ Moves)
    <2> SUFFICES ASSUME NEW l, NEW kind, NEW k, k # "gone", C!Receives(s, l, kind, k)
                 PROVE  UNCHANGED cpc /\ (UNCHANGED wpc \/ Moves)
      OBVIOUS
    <2>1. UNCHANGED cpc /\ (UNCHANGED wpc \/ C!Goto(s, k) \/ C!Goto(s, "recv"))
      BY DEF C!Receives
    <2> HIDE DEF Moves
    <2> QED
      BY <1>1, <2>1
  <1>3. CASE C!RecvCommand(s)
    <2>1. UNCHANGED cpc /\ (UNCHANGED wpc \/
            \E l \in C!Ops : wpc' = [wpc EXCEPT ![s] = l])
      BY <1>3, Zenon DEF C!RecvCommand
    <2> QED
      BY <2>1 DEF C!Ops
  <1> HIDE DEF Moves
  <1>4. CASE C!Puts(s) \/ C!PutsName(s) \/ C!PutsHash(s) \/ C!GetsHere(s) \/ C!GetsSize(s)
    <2> DEFINE here == IF up[s] # <<>> /\ Head(up[s])[2] = 1 THEN "getsSize" ELSE "transFile"
               puts == IF up[s] # <<>> /\ Head(up[s])[2] = -1 THEN "recv" ELSE "putsName"
    <2>1. here # "gone" /\ puts # "gone"
      OBVIOUS
    <2>2. \/ C!Receives(s, "puts", "int", puts)
          \/ C!Receives(s, "putsName", "str", "putsHash")
          \/ C!Receives(s, "putsHash", "str", "putsCheck")
          \/ C!Receives(s, "getsHere", "int", here)
          \/ C!Receives(s, "getsSize", "long", "transFile")
      BY <1>4 DEF C!Puts, C!PutsName, C!PutsHash, C!GetsHere, C!GetsSize
    <2> HIDE DEF here, puts
    <2> QED
      BY <1>2, <2>1, <2>2 DEF Moves
  <1>5. CASE C!LsEntry(s)
    BY <1>5 DEF C!LsEntry
  <1>6. CASE C!Cd(s) \/ C!Ls(s) \/ C!LsEnd(s) \/ C!Pwd(s) \/ C!MakeDir(s)
    <2>1. UNCHANGED cpc /\ (C!Goto(s, "recv") \/ C!Goto(s, "lsEntry"))
      BY <1>6 DEF C!Cd, C!Ls, C!LsEnd, C!Pwd, C!MakeDir, C!files, C!locals
    <2> QED
      BY <1>1, <2>1 DEF Moves
  <1>7. CASE C!PutsCheck(s) \/ C!Link(s) \/ C!RecvFile(s) \/ C!TransFile(s)
    <2>1. UNCHANGED cpc /\ (C!Goto(s, "recv") \/ C!Goto(s, "link") \/ C!Goto(s, "recvFile"))
      BY <1>7 DEF C!PutsCheck, C!Link, C!RecvFile, C!TransFile, C!files, C!locals
    <2> QED
      BY <1>1, <2>1 DEF Moves
  <1>8. CASE C!RemoveDir(s) \/ C!RemoveRow(s) \/ C!RemoveFile(s)
    <2>1. UNCHANGED cpc /\ (C!Goto(s, "recv") \/ C!Goto(s, "rmlink"))
      BY <1>8 DEF C!RemoveDir, C!RemoveRow, C!RemoveFile, C!files, C!locals
    <2> QED
      BY <1>1, <2>1 DEF Moves
  <1>9. CASE C!Mkdir(s) \/ C!Gets(s) \/ C!RemoveCheck(s)
    <2> DEFINE mkdir == IF C!At(s) = "none" THEN "makeDir" ELSE "recv"
               gets == IF C!At(s) = "file" THEN "getsHere" ELSE "recv"
               remove == IF C!At(s) = "dir" THEN "rmdir"
                         ELSE IF C!At(s) = "file" THEN "rmfile" ELSE "recv"
    <2>1. mkdir # "gone" /\ gets # "gone" /\ remove # "gone"
      OBVIOUS
    <2>2. UNCHANGED cpc /\ (C!Goto(s, mkdir) \/ C!Goto(s, gets) \/ C!Goto(s, remove))
      BY <1>9 DEF C!Mkdir, C!Gets, C!RemoveCheck, C!files, C!locals
    <2> HIDE DEF mkdir, gets, remove
    <2> QED
      BY <1>1, <2>1, <2>2 DEF Moves
  <1> QED
    BY <1>3, <1>4, <1>5, <1>6, <1>7, <1>8, <1>9 DEF Moves, C!Step

(* Only a client that is there types or reads.                             *)
LEMMA ClientStepsStay ==
  ASSUME CommandTypes, NEW s \in Sessions, C!Ask(s) \/ C!Hear(s) \/ C!HangUp(s)
  PROVE  /\ UNCHANGED wpc
         /\ \A t \in Sessions : cpc[t] = "gone" => cpc'[t] = "gone"
  <1>1. cpc \in [Sessions -> ClientPlace]
    BY DEF CommandTypes
  <1>2. CASE C!HangUp(s)
    BY <1>1, <1>2 DEF C!HangUp
  <1>3. CASE C!Ask(s)
    <2>1. PICK c : cpc' = [cpc EXCEPT ![s] = c]
      BY <1>3 DEF C!Ask
    <2>2. cpc[s] = "prompt" /\ UNCHANGED wpc
      BY <1>3 DEF C!Ask
    <2> QED
      BY <1>1, <2>1, <2>2
  <1>4. CASE C!Hear(s)
    <2>1. \A kind, k, items : C!Hears(s, kind, k, items) =>
            UNCHANGED wpc /\ (UNCHANGED cpc \/ \E c : cpc' = [cpc EXCEPT ![s] = c])
      BY DEF C!Hears
    <2>2. cpc[s] # "gone" /\ \E kind, k, items : C!Hears(s, kind, k, items)
      BY <1>4 DEF C!Hear
    <2> QED
      BY <1>1, <2>1, <2>2
  <1> QED
    BY <1>2, <1>3, <1>4

(* So no worker leaves its client.                                         *)
LEMMA WorkersStayNext ==
  ASSUME CommandInv, WorkersStay, C!Next \/ UNCHANGED cvars
  PROVE  WorkersStay'
  <1>1. CommandTypes /\ wpc \in [Sessions -> WorkerPlace]
    BY DEF CommandInv, CommandTypes
  <1>2. CASE UNCHANGED cvars
    BY <1>2 DEF cvars, WorkersStay
  <1>3. CASE C!Next
    <2>1. PICK s \in Sessions :
            C!Ask(s) \/ C!Hear(s) \/ C!HangUp(s) \/ C!Crash(s) \/ C!Step(s)
      BY <1>3 DEF C!Next, C!ServerClient
    <2>2. CASE C!Crash(s)
      BY <2>2 DEF C!Crash, WorkersStay
    <2>3. CASE C!Return(s)
      BY <1>1, <2>3 DEF C!Return, C!Goto, C!Eof, WorkersStay
    <2>4. CASE C!Step(s) /\ ~ C!Return(s)
      BY <1>1, <2>4, WorkerStepsStay DEF WorkersStay
    <2>5. CASE C!Ask(s) \/ C!Hear(s) \/ C!HangUp(s)
      BY <1>1, <2>5, ClientStepsStay DEF WorkersStay
    <2> QED
      BY <2>1, <2>2, <2>3, <2>4, <2>5
  <1> QED
    BY <1>2, <1>3

(* When nothing is under way either way, the worker is where the client    *)
(* needs it.                                                               *)
LEMMA TurnIsKnown ==
  ASSUME CommandInv, NEW s \in Sessions, wpc[s] \in Receiving, up[s] = <<>>, cpc[s] # "gone"
  PROVE  IF down[s] = <<>> THEN wpc[s] = "recv" /\ cpc[s] = "prompt" ELSE cpc[s] # "prompt"
  <1>1. cpc[s] = "prompt" => down[s] = <<>>
    BY SessionFacts, TalkPrompt
  <1>2. ASSUME down[s] = <<>> PROVE wpc[s] = "recv" /\ cpc[s] = "prompt"
    <2>1. /\ cpc[s] \in ClientPlace /\ cpc[s] \in Spot /\ wpc[s] \in Spot
          /\ Reads(wpc[s]) = wpc[s]
      BY SessionFacts, SpotFacts DEF Reads, Receiving
    <2>2. PICK e \in Spot :
            Walk(Hearing, cpc[s], <<>>, e) /\ Walk(Taking, wpc[s], <<>>, Want(e))
      BY <1>2, <2>1, SessionFacts DEF Talk
    <2>3. e = cpc[s] /\ Want(e) = wpc[s]
      BY <2>1, <2>2, WalkEmpty, SpotFacts
    <2> QED
      BY <2>1, <2>3 DEF Want, Receiving, ClientPlace, C!Ops
  <1> QED
    BY <1>1, <1>2

(* Neither end of a session waits for the other while it waits too         *)
(* (main.cpp:252-531, client.cpp:140-278): the client reads an answer for  *)
(* every request, and no worker is left inside a command for an operand    *)
(* that does not come, in any order of commands, refusals and hang-ups of  *)
(* any number of sessions, orderly or not.                                 *)
THEOREM SessionsDoNotStall == PlainNames => (SumSpec => []OneHasTheTurn)
  <1> SUFFICES ASSUME PlainNames PROVE SumSpec => []OneHasTheTurn
    OBVIOUS
  <1>1. SumInit => CommandInv /\ WorkersStay
    BY CommandInit DEF SumInit, C!Init, WorkersStay
  <1>2. CommandInv /\ WorkersStay /\ [SumNext]_all => CommandInv' /\ WorkersStay'
    BY Parts, CommandNext, CommandStutter, WorkersStayNext
  <1>3. CommandInv /\ WorkersStay => OneHasTheTurn
    BY TurnIsKnown DEF WorkersStay, OneHasTheTurn
  <1> QED
    BY <1>1, <1>2, <1>3, PTL DEF SumSpec
=============================================================================
