-------------------------- MODULE ProcessPoolProofs --------------------------
(***************************************************************************)
(* Proofs about the process pools, for any number of children and clients  *)
(* and any length of the file.  FlagsAgree speaks of the time before the   *)
(* exit only, and says nothing of where in a socket a connection is, so it *)
(* is not inductive with OneServer alone; Lists and Unheld add what the    *)
(* sockets hold, the exit included, and what no one has yet passed on.     *)
(***************************************************************************)
EXTENDS ProcessPool, TLAPS, WellFoundedInduction

(* A connection in a child's socket is the first thing there, and the      *)
(* child has nothing else under way; -1 comes only with the exit.          *)
Lists ==
  \A j \in Children :
    /\ \A i \in 1 .. Len(down[j]) :
         /\ down[j][i] \in Clients => i = 1 /\ child[j] = "recv" /\ up[j] = 0
         /\ parent = "loop" => down[j][i] \in Clients
    /\ child[j] \in {"send", "finish"} => up[j] = 0
    /\ child[j] = "send" => conn[j] \in Clients
    /\ parent = "loop" => child[j] # "exited"

Unheld == \A c \in Clients : client[c] = "new" => held[c] = "none"

IInv == TypeOK /\ FlagsAgree /\ Lists /\ OneServer /\ Unheld

(* What a child takes from its socket, and what it leaves there.           *)
LEMMA TailFacts ==
  ASSUME NEW S, NEW q \in Seq(S), q # << >>
  PROVE  /\ Tail(q) \in Seq(S)
         /\ Len(q) \in Nat \ {0}
         /\ Head(q) = q[1]
         /\ q[1] \in S
         /\ Len(Tail(q)) = Len(q) - 1
         /\ \A i \in 1 .. Len(q) - 1 : Tail(q)[i] = q[i + 1]
  OBVIOUS

(* What the parent adds to a child's socket.                               *)
LEMMA AppendFacts ==
  ASSUME NEW S, NEW q \in Seq(S), NEW m \in S
  PROVE  /\ Append(q, m) \in Seq(S)
         /\ Len(q) \in Nat
         /\ Len(Append(q, m)) = Len(q) + 1
         /\ \A i \in 1 .. Len(q) : Append(q, m)[i] = q[i]
         /\ Append(q, m)[Len(q) + 1] = m
  OBVIOUS

(* The places of a socket, and the empty one.                              *)
LEMMA SocketFacts ==
  ASSUME NEW S, NEW q \in Seq(S)
  PROVE  /\ DOMAIN q = 1 .. Len(q)
         /\ Len(q) \in Nat
         /\ q = << >> <=> Len(q) = 0
         /\ \A i \in 1 .. Len(q) : q[i] \in S
  OBVIOUS

(* The parent's search finds an idle child if there is one.                *)
LEMMA FirstFacts ==
  ASSUME Idle # {}
  PROVE  First(Idle) \in Children /\ ~busy[First(Idle)]
<1>1. Idle \subseteq Nat
  BY PoolAssumption DEF Idle, Children
<1> DEFINE Less == {p \in Nat \X Nat : p[1] < p[2]}
<1>2. PICK j \in Idle : \A k \in Idle : ~ (<<k, j>> \in Less)
  <2>1. IsWellFoundedOn(Less, Nat)
    BY NatLessThanWellFounded DEF OpToRel
  <2> HIDE DEF Less
  <2> QED
    BY <1>1, <2>1, WFMin
<1>3. ASSUME NEW k \in Idle PROVE j <= k
  <2>1. k \in Nat /\ j \in Nat /\ <<k, j>> \in Nat \X Nat
    BY <1>1
  <2>2. k < j => <<k, j>> \in Less
    BY <2>1
  <2> QED
    BY <2>1, <2>2, <1>2
<1>4. First(Idle) \in Idle
  BY <1>3 DEF First
<1> QED
  BY <1>4 DEF Idle

(* When the last process that listens ends, what waits to be accepted is    *)
(* closed, and with the parent what it has accepted and passed to nobody.  *)
Places == {"none", "backlog", "passed", "forgotten", "closed"}
Released(h, g) ==
  /\ g \in [Clients -> Places]
  /\ \A c \in Clients :
       \/ g[c] = h[c]
       \/ h[c] \in {"backlog", "forgotten"} /\ g[c] = "closed"

(* Closing the listening socket closes only connections in its backlog.    *)
LEMMA UnlistenedFacts ==
  ASSUME NEW h \in [Clients -> Places]
  PROVE  Released(h, Unlistened(h)) /\ Released(h, h)
  BY DEF Released, Unlistened, Places

(* The end of the parent closes nothing a child has.                       *)
LEMMA ParentDiesFacts ==
  ASSUME held \in [Clients -> Places], ParentDies
  PROVE  Released(held, held')
<1> DEFINE h == [c \in Clients |-> IF held[c] = "forgotten" THEN "closed" ELSE held[c]]
<1>1. h \in [Clients -> Places] /\ Released(held, h)
  BY DEF Released, Places
<1>2. Released(h, held')
  <2>1. held' = Unlistened(h) \/ held' = h
    BY DEF ParentDies
  <2> QED
    BY <1>1, <2>1, UnlistenedFacts
<1>3. h \in [Clients -> Places] => (Released(held, h) /\ Released(h, held') => Released(held, held'))
  BY DEF Released
<1> QED
  BY <1>1, <1>2, <1>3

(* Nor does the end of a child close what another child has.               *)
LEMMA DiesFacts ==
  ASSUME NEW j, NEW how, NEW h \in [Clients -> Places], Dies(j, how, h)
  PROVE  child' = [child EXCEPT ![j] = how] /\ Released(h, held')
  BY UnlistenedFacts DEF Dies

(* The pool starts in the invariant.                                       *)
LEMMA InitIInv == Init => IInv
<1> SUFFICES ASSUME Init PROVE IInv
  OBVIOUS
<1> USE PoolAssumption DEF Init
<1>1. TypeOK
  <2>1. << >> \in Seq(Clients \union {Exit})
    OBVIOUS
  <2> QED
    BY <2>1 DEF TypeOK
<1>2. FlagsAgree
  BY DEF FlagsAgree
<1>3. Lists
  BY DEF Lists
<1>4. OneServer /\ Unheld
  BY DEF OneServer, Has, Unheld
<1> QED
  BY <1>1, <1>2, <1>3, <1>4 DEF IInv

-----------------------------------------------------------------------------
(* Steps of the clients leave the pool as it is.                           *)
LEMMA ClientStep ==
  ASSUME IInv, NEW c \in Clients,
         Connect(c) \/ ClientReads(c) \/ HangUp(c)
  PROVE  IInv'
<1> USE DEF IInv, TypeOK, FlagsAgree, Lists, OneServer, Has, Unheld, pool, stream
<1>1. CASE Connect(c)
  BY <1>1 DEF Connect
<1>2. CASE ReceiveText(c)
  BY <1>2 DEF ReceiveText
<1>3. CASE Receive(c)
  BY <1>3 DEF Receive
<1>4. CASE ServerCrash(c)
  BY <1>4 DEF ServerCrash
<1>5. CASE HangUp(c)
  BY <1>5 DEF HangUp
<1> QED
  BY <1>1, <1>2, <1>3, <1>4, <1>5 DEF ClientReads

-----------------------------------------------------------------------------
(* A child without the flag has an empty socket and waits, or is dead.     *)
LEMMA IdleFacts ==
  ASSUME IInv, parent = "loop", NEW j \in Children, ~busy[j]
  PROVE  down[j] = << >> /\ up[j] = 0 /\ (~Dead(j) => child[j] = "recv")
  BY DEF IInv, FlagsAgree, Dead

(* Passing a connection to an idle child: it is nobody else's, as it has   *)
(* just been accepted, and the child's socket holds nothing else.          *)
LEMMA GiveStep ==
  ASSUME IInv, NEW c \in Clients, Give(c)
  PROVE  IInv'
<1>0. PICK j \in Children : j = First(Idle) /\ ~busy[j]
  BY FirstFacts DEF Give
<1>1. j \in Children /\ ~busy[j] /\ ~Dead(j) /\ parent = "loop"
  BY <1>0 DEF Give
<1>2. down[j] = << >> /\ up[j] = 0 /\ child[j] = "recv"
  BY <1>1, IdleFacts
<1>3. /\ down' = [down EXCEPT ![j] = <<c>>]
      /\ held' = [held EXCEPT ![c] = "passed"]
      /\ watched' = watched \union {j}
      /\ busy' = [busy EXCEPT ![j] = TRUE]
      /\ UNCHANGED <<prog, parent, sigpipe, up, child, conn, client, sent, got>>
  BY <1>0, <1>2 DEF Give, SendFd, stream
<1>4. held[c] = "backlog"
  BY DEF Give
<1>5. TypeOK'
  BY <1>1, <1>3 DEF IInv, TypeOK
<1>6. FlagsAgree'
  BY <1>1, <1>2, <1>3 DEF IInv, TypeOK, FlagsAgree
<1>7. Lists'
  BY <1>1, <1>2, <1>3 DEF IInv, TypeOK, Lists
<1>8. OneServer'
  <2>1. \A k \in Children : ~Has(k, c)
    BY <1>4 DEF IInv, OneServer
  <2>2. \A k \in Children, d \in Clients :
          Has(k, d)' <=> Has(k, d) \/ (k = j /\ d = c)
    <3>1. DOMAIN <<c>> = {1} /\ <<c>>[1] = c /\ DOMAIN << >> = {}
      OBVIOUS
    <3>2. down'[j] = <<c>> /\ \A k \in Children \ {j} : down'[k] = down[k]
      BY <1>1, <1>3 DEF IInv, TypeOK
    <3>3. \A d \in Clients : ~Has(j, d) /\ (Has(j, d)' <=> d = c)
      BY <1>2, <1>3, <3>1, <3>2 DEF Has
    <3>4. \A k \in Children \ {j}, d \in Clients : Has(k, d)' <=> Has(k, d)
      BY <1>3, <3>2 DEF Has
    <3> QED
      BY <1>1, <3>3, <3>4
  <2> QED
    BY <1>1, <1>3, <2>1, <2>2 DEF IInv, TypeOK, OneServer
<1>9. Unheld'
  BY <1>3, <1>4 DEF IInv, TypeOK, Unheld
<1> QED
  BY <1>5, <1>6, <1>7, <1>8, <1>9 DEF IInv

(* Once the loop is over, what the parent releases is no child's.          *)
LEMMA ReleasedStep ==
  ASSUME IInv, Released(held, held'), parent' \in {"gone", "killed"},
         UNCHANGED <<prog, sigpipe, busy, watched, down, up, child, conn, client, sent, got>>
  PROVE  IInv'
<1>1. TypeOK' /\ Unheld'
  BY DEF IInv, TypeOK, Unheld, Released, Places
<1>2. FlagsAgree' /\ Lists'
  BY DEF IInv, TypeOK, FlagsAgree, Lists
<1>3. OneServer'
  <2>1. \A k \in Children, d \in Clients : Has(k, d)' <=> Has(k, d)
    BY DEF Has
  <2> QED
    BY <2>1 DEF IInv, OneServer, Released
<1> QED
  BY <1>1, <1>2, <1>3 DEF IInv

(* Steps of the parent that touch no socket and no child.                  *)
LEMMA HeldStep ==
  ASSUME IInv,
         (\E c \in Clients : GiveToDead(c) \/ Forget(c)) \/ Gone \/ SigFunc
  PROVE  IInv'
<1>0. held \in [Clients -> Places]
  BY DEF IInv, TypeOK, Places
<1>1. ASSUME NEW c \in Clients, GiveToDead(c) PROVE IInv'
  <2>1. Released(held, held') /\ parent' = "killed"
    BY <1>0, <1>1, ParentDiesFacts DEF GiveToDead
  <2>2. UNCHANGED <<prog, sigpipe, busy, watched, down, up, child, conn, client, sent, got>>
    BY <1>1 DEF GiveToDead, pool, stream
  <2> QED
    BY <2>1, <2>2, ReleasedStep
<1>2. ASSUME NEW c \in Clients, Forget(c) PROVE IInv'
  BY <1>2 DEF Forget, IInv, TypeOK, FlagsAgree, Lists, OneServer, Has, Unheld, pool, stream
<1>3. CASE Gone
  <2>1. Released(held, held') /\ parent' = "gone"
    BY <1>0, <1>3, ParentDiesFacts DEF Gone
  <2>2. UNCHANGED <<prog, sigpipe, busy, watched, down, up, child, conn, client, sent, got>>
    BY <1>3 DEF Gone, pool, stream
  <2> QED
    BY <2>1, <2>2, ReleasedStep
<1>4. CASE SigFunc
  BY <1>4 DEF SigFunc, IInv, TypeOK, FlagsAgree, Lists, OneServer, Has, Unheld, pool, stream
<1> QED
  BY <1>1, <1>2, <1>3, <1>4

(* Reading a "finish", or the end of a dead child, makes the child idle:   *)
(* nothing is under way to or from it.                                     *)
LEMMA FinishedStep ==
  ASSUME IInv, NEW j \in Children, Finished(j)
  PROVE  IInv'
<1>1. parent = "loop" /\ busy[j]
  BY DEF Finished, IInv, FlagsAgree
<1>2. child[j] \in {"recv", "killed"} /\ down[j] = << >>
  <2>1. CASE child[j] = "killed"
    <3>1. Len(down[j]) = 0
      <4>1. Len(down[j]) \in Nat
        BY SocketFacts DEF IInv, TypeOK
      <4>2. ~ (1 \in 1 .. Len(down[j]))
        BY <1>1, <2>1 DEF IInv, Lists
      <4> QED
        BY <4>1, <4>2
    <3> QED
      BY <2>1, <3>1, SocketFacts DEF IInv, TypeOK
  <2>2. CASE child[j] # "killed"
    BY <1>1, <2>2 DEF Finished, Dead, IInv, FlagsAgree, Lists
  <2> QED
    BY <2>1, <2>2
<1> USE DEF IInv, Finished, stream
<1>3. TypeOK' /\ Unheld'
  BY DEF TypeOK, Unheld
<1>4. FlagsAgree'
  BY <1>1, <1>2 DEF TypeOK, FlagsAgree
<1>5. Lists'
  BY DEF TypeOK, Lists
<1>6. OneServer'
  BY DEF TypeOK, OneServer, Has
<1> QED
  BY <1>3, <1>4, <1>5, <1>6

(* Telling a child to exit puts -1 behind whatever is in its socket; the   *)
(* children behind a dead one are told nothing.                            *)
LEMMA StartExitStep ==
  ASSUME IInv, StartExit
  PROVE  IInv'
<1>1. /\ parent' \in {"wait", "killed"} /\ Released(held, held')
      /\ UNCHANGED <<prog, sigpipe, busy, watched, up, child, conn, client, sent, got>>
  <2>1. held \in [Clients -> Places]
    BY DEF IInv, TypeOK, Places
  <2> QED
    BY <2>1, ParentDiesFacts, UnlistenedFacts DEF StartExit, stream
<1>2. \A j \in Children :
        /\ down'[j] \in Seq(Clients \union {Exit})
        /\ Len(down[j]) \in Nat
        /\ Len(down'[j]) \in {Len(down[j]), Len(down[j]) + 1}
        /\ \A i \in 1 .. Len(down[j]) : down'[j][i] = down[j][i]
        /\ Len(down'[j]) # Len(down[j]) => down'[j][Len(down[j]) + 1] = Exit
        /\ DOMAIN down[j] = 1 .. Len(down[j])
        /\ DOMAIN down'[j] = 1 .. Len(down'[j])
  <2> SUFFICES ASSUME NEW j \in Children
               PROVE  /\ down'[j] \in Seq(Clients \union {Exit})
                      /\ Len(down[j]) \in Nat
                      /\ Len(down'[j]) \in {Len(down[j]), Len(down[j]) + 1}
                      /\ \A i \in 1 .. Len(down[j]) : down'[j][i] = down[j][i]
                      /\ Len(down'[j]) # Len(down[j]) => down'[j][Len(down[j]) + 1] = Exit
                      /\ DOMAIN down[j] = 1 .. Len(down[j])
                      /\ DOMAIN down'[j] = 1 .. Len(down'[j])
    OBVIOUS
  <2>1. down[j] \in Seq(Clients \union {Exit})
    BY DEF IInv, TypeOK
  <2>2. CASE down'[j] = down[j]
    BY <2>1, <2>2, SocketFacts
  <2>3. CASE down'[j] = Append(down[j], Exit)
    <3>1. /\ Append(down[j], Exit) \in Seq(Clients \union {Exit})
          /\ Len(Append(down[j], Exit)) = Len(down[j]) + 1
          /\ \A i \in 1 .. Len(down[j]) : Append(down[j], Exit)[i] = down[j][i]
          /\ Append(down[j], Exit)[Len(down[j]) + 1] = Exit
      BY <2>1, AppendFacts
    <3>2. /\ Len(down[j]) \in Nat /\ DOMAIN down[j] = 1 .. Len(down[j])
          /\ DOMAIN Append(down[j], Exit) = 1 .. Len(Append(down[j], Exit))
      BY <2>1, <3>1, SocketFacts
    <3> QED
      BY <2>3, <3>1, <3>2
  <2> QED
    BY <2>2, <2>3 DEF StartExit
<1>3. TypeOK'
  BY <1>1, <1>2 DEF StartExit, IInv, TypeOK, Released, Places
<1>4. FlagsAgree' /\ Unheld'
  BY <1>1 DEF IInv, FlagsAgree, Unheld, Released
<1>5. Lists'
  <2> SUFFICES ASSUME NEW j \in Children
               PROVE  /\ \A i \in 1 .. Len(down'[j]) : down'[j][i] \in Clients =>
                            i = 1 /\ child[j] = "recv" /\ up[j] = 0
                      /\ child[j] \in {"send", "finish"} => up[j] = 0
                      /\ child[j] = "send" => conn[j] \in Clients
    BY <1>1 DEF Lists
  <2>1. ASSUME NEW i \in 1 .. Len(down'[j]), down'[j][i] \in Clients
        PROVE  i \in 1 .. Len(down[j]) /\ down'[j][i] = down[j][i]
    BY <1>2, <2>1, PoolAssumption
  <2>2. \A i \in 1 .. Len(down[j]) : down[j][i] \in Clients =>
           i = 1 /\ child[j] = "recv" /\ up[j] = 0
    BY DEF IInv, Lists
  <2> QED
    BY <2>1, <2>2 DEF IInv, Lists
<1>6. OneServer'
  <2>1. \A k \in Children, d \in Clients : Has(k, d)' <=> Has(k, d)
    BY <1>1, <1>2, PoolAssumption, SMTT(30) DEF Has
  <2>2. \A d \in Clients : held'[d] = "passed" <=> held[d] = "passed"
    BY <1>1 DEF Released
  <2> QED
    BY <2>1, <2>2 DEF IInv, OneServer
<1> QED
  BY <1>3, <1>4, <1>5, <1>6 DEF IInv

-----------------------------------------------------------------------------
(* A child takes the first message of its socket: a connection stays with  *)
(* it, and after -1 it has nothing left.                                   *)
LEMMA RecvFdStep ==
  ASSUME IInv, NEW j \in Children, RecvFd(j)
  PROVE  IInv'
<1> DEFINE q == down[j]
<1>1. /\ q \in Seq(Clients \union {Exit}) /\ q # << >>
      /\ child[j] = "recv"
      /\ down' = [down EXCEPT ![j] = Tail(q)]
      /\ UNCHANGED <<prog, parent, sigpipe, busy, watched, up, client, sent, got>>
  BY DEF RecvFd, IInv, TypeOK, stream
<1>2. /\ Tail(q) \in Seq(Clients \union {Exit})
      /\ Len(q) \in Nat \ {0}
      /\ Head(q) = q[1]
      /\ q[1] \in Clients \union {Exit}
      /\ Len(Tail(q)) = Len(q) - 1
      /\ \A i \in 1 .. Len(q) - 1 : Tail(q)[i] = q[i + 1]
      /\ DOMAIN q = 1 .. Len(q) /\ DOMAIN Tail(q) = 1 .. Len(Tail(q))
  BY <1>1, TailFacts, SocketFacts
<1>3. \A i \in 1 .. Len(Tail(q)) : Tail(q)[i] \notin Clients
  BY <1>2 DEF IInv, Lists
<1>4. parent = "loop" => Len(q) = 1 /\ q[1] \in Clients /\ Tail(q) = << >>
  <2>1. parent = "loop" => q[1] \in Clients
    BY <1>2 DEF IInv, Lists
  <2>2. parent = "loop" => Len(q) = 1
    BY <1>1, <1>2 DEF IInv, FlagsAgree
  <2> QED
    BY <1>2, <2>1, <2>2, SocketFacts
<1>5. CASE q[1] = Exit
  <2>0. held \in [Clients -> Places] /\ Dies(j, "exited", held)
    BY <1>2, <1>5 DEF RecvFd, IInv, TypeOK, Places
  <2>1. /\ child' = [child EXCEPT ![j] = "exited"] /\ UNCHANGED conn /\ parent # "loop"
        /\ Released(held, held')
    BY <1>2, <1>4, <1>5, <2>0, DiesFacts, PoolAssumption DEF RecvFd
  <2>2. TypeOK' /\ Unheld'
    BY <1>1, <1>2, <2>1 DEF IInv, TypeOK, Unheld, Released, Places
  <2>3. FlagsAgree' /\ Lists'
    BY <1>1, <1>2, <1>3, <2>1 DEF IInv, TypeOK, FlagsAgree, Lists
  <2>4. OneServer'
    <3>1. \A c \in Clients : ~Has(j, c) /\ ~Has(j, c)'
      <4>1. \A i \in DOMAIN q : q[i] \notin Clients
        BY <1>2, <1>5, PoolAssumption DEF IInv, Lists
      <4>2. child'[j] = "exited" /\ down'[j] = Tail(q)
        BY <1>1, <2>1 DEF IInv, TypeOK
      <4> QED
        BY <1>1, <1>2, <1>3, <4>1, <4>2 DEF Has
    <3>2. \A k \in Children \ {j}, c \in Clients : Has(k, c)' <=> Has(k, c)
      BY <1>1, <2>1 DEF IInv, TypeOK, Has
    <3> QED
      BY <2>1, <3>1, <3>2 DEF IInv, OneServer, Released
  <2> QED
    BY <2>2, <2>3, <2>4 DEF IInv
<1>6. CASE q[1] # Exit
  <2>1. /\ q[1] \in Clients
        /\ child' = [child EXCEPT ![j] = "send"]
        /\ conn' = [conn EXCEPT ![j] = q[1]]
        /\ up[j] = 0 /\ UNCHANGED held
    BY <1>2, <1>6 DEF RecvFd, IInv, Lists
  <2>2. TypeOK' /\ Unheld'
    BY <1>1, <1>2, <2>1 DEF IInv, TypeOK, Unheld
  <2>3. FlagsAgree'
    BY <1>1, <1>2, <1>4, <2>1 DEF IInv, TypeOK, FlagsAgree
  <2>4. Lists'
    BY <1>1, <1>2, <1>3, <1>4, <2>1 DEF IInv, TypeOK, Lists
  <2>5. OneServer'
    <3>1. \A c \in Clients : Has(j, c)' <=> c = q[1]
      BY <1>1, <1>2, <1>3, <2>1 DEF IInv, TypeOK, Has
    <3>2. \A c \in Clients : Has(j, c) <=> c = q[1]
      <4>1. 1 \in DOMAIN q
        BY <1>2
      <4>2. \A i \in DOMAIN q : q[i] \in Clients => i = 1
        BY <1>2 DEF IInv, Lists
      <4> QED
        BY <1>1, <4>1, <4>2 DEF Has
    <3>3. \A k \in Children \ {j}, c \in Clients : Has(k, c)' <=> Has(k, c)
      BY <1>1, <2>1 DEF IInv, TypeOK, Has
    <3>4. \A k \in Children, c \in Clients : Has(k, c)' <=> Has(k, c)
      BY <3>1, <3>2, <3>3
    <3> QED
      BY <2>1, <3>4 DEF IInv, OneServer
  <2> QED
    BY <2>2, <2>3, <2>4, <2>5 DEF IInv
<1> QED
  BY <1>5, <1>6

(* Sending changes no more than the stream.                                *)
LEMMA SendStep ==
  ASSUME IInv, NEW j \in Children, SendText(j) \/ SendItem(j)
  PROVE  IInv'
<1>1. /\ UNCHANGED <<prog, parent, sigpipe, busy, watched, down, up, child, conn, held, client, got>>
      /\ sent' \in [Clients -> Nat]
  <2>1. CASE SendText(j)
    BY <2>1 DEF SendText, pool, IInv, TypeOK
  <2>2. CASE SendItem(j)
    <3>1. conn[j] \in Clients /\ sent[conn[j]] + 1 \in Nat
      BY <2>2 DEF SendItem, IInv, TypeOK, Lists
    <3> QED
      BY <2>2, <3>1 DEF SendItem, pool, IInv, TypeOK
  <2> QED
    BY <2>1, <2>2
<1> QED
  BY <1>1 DEF IInv, TypeOK, FlagsAgree, Lists, OneServer, Has, Unheld

(* When a child closes its client, or is killed, no child has the client.  *)
LEMMA CloseStep ==
  ASSUME IInv, NEW j \in Children, CloseClient(j) \/ Killed(j)
  PROVE  IInv'
<1> DEFINE c == conn[j]
<1> DEFINE h == [held EXCEPT ![c] = "closed"]
<1>0. h \in [Clients -> Places]
  BY DEF IInv, TypeOK, Places
<1>1. /\ child[j] = "send" /\ c \in Clients
      /\ UNCHANGED <<prog, parent, sigpipe, busy, watched, down, up, conn, client, sent, got>>
  BY DEF CloseClient, Killed, IInv, Lists, stream
<1>2. /\ \/ child' = [child EXCEPT ![j] = "finish"]
         \/ child' = [child EXCEPT ![j] = "killed"] /\ prog # "4"
      /\ Released(h, held')
  <2>1. CASE CloseClient(j)
    BY <2>1, <1>0, UnlistenedFacts DEF CloseClient
  <2>2. CASE Killed(j)
    <3>1. Dies(j, "killed", h) /\ prog # "4"
      BY <2>2 DEF Killed, IgnoresSigpipe
    <3> QED
      BY <1>0, <3>1, DiesFacts
  <2> QED
    BY <2>1, <2>2
<1>3. client[c] # "new"
  <2>1. held[c] = "passed"
    BY <1>1 DEF IInv, OneServer, Has
  <2> QED
    BY <1>1, <2>1 DEF IInv, Unheld
<1>4. TypeOK' /\ Unheld'
  BY <1>1, <1>2, <1>3 DEF IInv, TypeOK, Unheld, Released, Places
<1>5. FlagsAgree'
  BY <1>1, <1>2, ZenonT(60) DEF IInv, TypeOK, FlagsAgree
<1>6. Lists'
  BY <1>1, <1>2 DEF IInv, TypeOK, Lists
<1>7. OneServer'
  <2>1. \A d \in Clients : ~Has(j, d)' /\ (Has(j, d) <=> d = c)
    <3>1. \A d \in Clients : ~ \E i \in DOMAIN down[j] : down[j][i] = d
      BY <1>1, SocketFacts DEF IInv, TypeOK, Lists
    <3> QED
      BY <1>1, <1>2, <3>1 DEF IInv, TypeOK, Has
  <2>2. \A k \in Children \ {j}, d \in Clients : Has(k, d)' <=> Has(k, d)
    BY <1>1, <1>2 DEF IInv, TypeOK, Has
  <2>3. \A d \in Clients : held'[d] = "passed" <=> d # c /\ held[d] = "passed"
    BY <1>1, <1>2 DEF IInv, TypeOK, Released
  <2> QED
    BY <1>1, <2>1, <2>2, <2>3 DEF IInv, OneServer
<1> QED
  BY <1>4, <1>5, <1>6, <1>7 DEF IInv

(* The "finish" of a child that has closed its client.                     *)
LEMMA WriteFinishStep ==
  ASSUME IInv, NEW j \in Children, WriteFinish(j)
  PROVE  IInv'
<1>1. /\ child[j] = "finish" /\ up[j] = 0
      /\ up' = [up EXCEPT ![j] = 1]
      /\ child' = [child EXCEPT ![j] = "recv"]
      /\ UNCHANGED <<prog, parent, sigpipe, busy, watched, down, conn, held, client, sent, got>>
  <2>1. child[j] = "finish" /\ up[j] = 0
    BY DEF WriteFinish, IInv, Lists
  <2>2. up' = [up EXCEPT ![j] = 1]
    BY <2>1 DEF WriteFinish
  <2> QED
    BY <2>1, <2>2 DEF WriteFinish, stream
<1>2. TypeOK' /\ Unheld'
  BY <1>1 DEF IInv, TypeOK, Unheld
<1>3. FlagsAgree'
  BY <1>1 DEF IInv, TypeOK, FlagsAgree
<1>4. Lists'
  BY <1>1 DEF IInv, TypeOK, Lists
<1>5. OneServer'
  <2>1. \A k \in Children, d \in Clients : Has(k, d)' <=> Has(k, d)
    BY <1>1 DEF IInv, TypeOK, Has
  <2> QED
    BY <1>1, <2>1 DEF IInv, OneServer
<1> QED
  BY <1>2, <1>3, <1>4, <1>5 DEF IInv

(* A child that the parent has left has no connection.                     *)
LEMMA OrphanDiesStep ==
  ASSUME IInv, NEW j \in Children, OrphanDies(j)
  PROVE  IInv'
<1>1. /\ child[j] = "finish" \/ (child[j] = "recv" /\ down[j] = << >>)
      /\ parent = "killed"
      /\ UNCHANGED <<prog, parent, sigpipe, busy, watched, down, up, conn, client, sent, got>>
  BY DEF OrphanDies, Orphan, stream
<1>2. child' = [child EXCEPT ![j] = "killed"] /\ Released(held, held')
  <2>1. held \in [Clients -> Places] /\ Dies(j, "killed", held)
    BY DEF OrphanDies, IInv, TypeOK, Places
  <2> QED
    BY <2>1, DiesFacts
<1>3. TypeOK' /\ Unheld'
  BY <1>1, <1>2 DEF IInv, TypeOK, Unheld, Released, Places
<1>4. FlagsAgree'
  BY <1>1 DEF FlagsAgree
<1>5. Lists'
  <2>1. \A i \in 1 .. Len(down[j]) : down[j][i] \notin Clients
    BY <1>1, SocketFacts DEF IInv, TypeOK, Lists
  <2> QED
    BY <1>1, <1>2, <2>1 DEF IInv, TypeOK, Lists
<1>6. OneServer'
  <2>1. \A k \in Children, d \in Clients : Has(k, d)' <=> Has(k, d)
    BY <1>1, <1>2 DEF IInv, TypeOK, Has
  <2> QED
    BY <1>2, <2>1 DEF IInv, OneServer, Released
<1> QED
  BY <1>3, <1>4, <1>5, <1>6 DEF IInv

-----------------------------------------------------------------------------
(* Every step keeps the invariant.                                         *)
LEMMA NextIInv == IInv /\ [Next]_vars => IInv'
<1> SUFFICES ASSUME IInv, [Next]_vars PROVE IInv'
  OBVIOUS
<1>1. CASE ParentStep
  <2>1. ASSUME NEW c \in Clients, Give(c) \/ GiveToDead(c) \/ Forget(c) PROVE IInv'
    BY <2>1, GiveStep, HeldStep
  <2>2. ASSUME NEW j \in Children, Finished(j) PROVE IInv'
    BY <2>2, FinishedStep
  <2>3. CASE StartExit
    BY <2>3, StartExitStep
  <2>4. CASE Gone
    BY <2>4, HeldStep
  <2> QED
    BY <1>1, <2>1, <2>2, <2>3, <2>4 DEF ParentStep
<1>2. CASE SigFunc
  BY <1>2, HeldStep
<1>3. ASSUME NEW j \in Children, ChildStep(j) PROVE IInv'
  BY <1>3, RecvFdStep, SendStep, CloseStep, WriteFinishStep, OrphanDiesStep DEF ChildStep
<1>4. ASSUME NEW c \in Clients, Connect(c) \/ ClientReads(c) \/ HangUp(c) PROVE IInv'
  BY <1>4, ClientStep
<1>5. CASE UNCHANGED vars
  BY <1>5 DEF vars, IInv, TypeOK, FlagsAgree, Lists, OneServer, Has, Unheld
<1> QED
  BY <1>1, <1>2, <1>3, <1>4, <1>5 DEF Next

(* The inductive invariant holds in every state the pool reaches.          *)
THEOREM PoolInvariant == Spec => []IInv
<1> QED
  BY InitIInv, NextIInv, PTL DEF Spec

(* The fields keep their kinds; no child writes a second "finish" before   *)
(* the parent has read the first (main.c:20 against :105 of 20190204).     *)
THEOREM PoolTypeCorrect == Spec => []TypeOK
<1>1. IInv => TypeOK
  BY DEF IInv
<1> QED
  BY <1>1, PoolInvariant, PTL

(* The parent's flags are right about every child that lives, so that a    *)
(* connection is only passed to a child that waits for one.                *)
THEOREM FlagsAreRight == Spec => []FlagsAgree
<1>1. IInv => FlagsAgree
  BY DEF IInv
<1> QED
  BY <1>1, PoolInvariant, PTL

(* No connection is served by two children or lost between two.            *)
THEOREM ClientsHaveOneServer == Spec => []OneServer
<1>1. IInv => OneServer
  BY DEF IInv
<1> QED
  BY <1>1, PoolInvariant, PTL

-----------------------------------------------------------------------------
(* What a client is told depends on how far its stream has got when the    *)
(* server's end is closed: unsent, whole, or given up after the client     *)
(* left.  One that has not been passed to a child has been sent nothing.   *)
Told ==
  \A c \in Clients :
    /\ got[c] <= sent[c] /\ sent[c] <= Total
    /\ client[c] = "open" => got[c] < Total
    /\ held[c] \in {"none", "backlog", "forgotten"} => sent[c] = 0
    /\ held[c] = "closed" => sent[c] \in {0, Total} \/ client[c] = "left"
    /\ client[c] = "success" => got[c] = Total
    /\ client[c] = "crash" => held[c] = "closed" /\ sent[c] = 0

(* The length of the stream is that of the program that runs.              *)
LEMMA TotalFacts == /\ Total \in Nat \ {0}
                    /\ prog = "2" => Total = 1
                    /\ prog' = prog => Total' = Total
  BY PoolAssumption DEF Total

(* What the clients do keeps it.                                           *)
LEMMA ClientTold ==
  ASSUME IInv, Told, NEW c \in Clients,
         Connect(c) \/ ClientReads(c) \/ HangUp(c)
  PROVE  Told'
<1> USE TotalFacts DEF IInv, TypeOK, Told
<1>1. CASE Connect(c)
  BY <1>1 DEF Connect, Unheld, pool
<1>2. CASE ReceiveText(c)
  BY <1>2 DEF ReceiveText, pool
<1>3. CASE Receive(c)
  BY <1>3 DEF Receive, pool
<1>4. CASE ServerCrash(c)
  BY <1>4 DEF ServerCrash, pool
<1>5. CASE HangUp(c)
  BY <1>5 DEF HangUp, pool
<1> QED
  BY <1>1, <1>2, <1>3, <1>4, <1>5 DEF ClientReads

(* The parent passes, forgets or closes connections nothing was sent on.   *)
LEMMA ParentTold ==
  ASSUME IInv, Told, ParentStep \/ SigFunc
  PROVE  Told'
<1> DEFINE OnlyUnsent ==
      /\ UNCHANGED <<prog, client, sent, got>>
      /\ \A c \in Clients :
           \/ held'[c] = held[c]
           \/ held[c] \in {"backlog", "forgotten"}
              /\ held'[c] \in {"passed", "forgotten", "closed"}
<1>0. held \in [Clients -> Places]
  BY DEF IInv, TypeOK, Places
<1>1. OnlyUnsent
  <2>0. Released(held, held') /\ UNCHANGED <<prog, client, sent, got>> => OnlyUnsent
    BY DEF Released
  <2>1. ASSUME NEW c \in Clients, Give(c) \/ GiveToDead(c) \/ Forget(c)
        PROVE  OnlyUnsent
    <3>1. CASE GiveToDead(c)
      BY <1>0, <2>0, <3>1, ParentDiesFacts DEF GiveToDead, stream
    <3>2. CASE Give(c) \/ Forget(c)
      BY <3>2 DEF Give, Forget, stream, pool, IInv, TypeOK
    <3> QED
      BY <2>1, <3>1, <3>2
  <2>2. ASSUME NEW j \in Children, Finished(j) PROVE OnlyUnsent
    BY <2>2 DEF Finished, stream
  <2>3. CASE StartExit
    BY <1>0, <2>0, <2>3, ParentDiesFacts, UnlistenedFacts DEF StartExit, stream
  <2>4. CASE Gone \/ SigFunc
    BY <1>0, <2>0, <2>4, ParentDiesFacts DEF Gone, SigFunc, stream, pool
  <2> QED
    BY <2>1, <2>2, <2>3, <2>4 DEF ParentStep
<1> QED
  BY <1>1, TotalFacts DEF Told

(* A child sends on, and closes, only the connection it has been passed.   *)
LEMMA ChildTold ==
  ASSUME IInv, Told, NEW j \in Children, ChildStep(j)
  PROVE  Told'
<1> DEFINE c == conn[j]
<1>1. child[j] = "send" => c \in Clients /\ held[c] = "passed"
  BY DEF IInv, Lists, OneServer, Has
<1> USE <1>1, TotalFacts DEF IInv, TypeOK, Told
<1>0. held \in [Clients -> Places]
  BY DEF Places
<1>2. CASE RecvFd(j)
  <2>1. UNCHANGED <<prog, client, sent, got>> /\ Released(held, held')
    BY <1>0, <1>2, DiesFacts, UnlistenedFacts DEF RecvFd, stream
  <2> QED
    BY <2>1 DEF Released
<1>3. CASE SendText(j)
  BY <1>3 DEF SendText, pool
<1>4. CASE SendItem(j)
  BY <1>4 DEF SendItem, pool
<1>5. CASE CloseClient(j)
  BY <1>5 DEF CloseClient, stream
<1>6. CASE Killed(j)
  <2> DEFINE h == [held EXCEPT ![c] = "closed"]
  <2>1. h \in [Clients -> Places] /\ Dies(j, "killed", h)
    BY <1>0, <1>6 DEF Killed, Places
  <2>2. Released(h, held')
    BY <2>1, DiesFacts
  <2>3. UNCHANGED <<prog, client, sent, got>> /\ client[c] = "left" /\ c \in Clients
    BY <1>6 DEF Killed, stream
  <2>4. \A d \in Clients :
          \/ held'[d] = held[d]
          \/ held[d] \in {"backlog", "forgotten"} /\ held'[d] = "closed"
          \/ d = c /\ held'[d] = "closed"
    BY <2>2, <2>3 DEF Released
  <2> QED
    BY <2>3, <2>4
<1>7. CASE WriteFinish(j)
  BY <1>7 DEF WriteFinish, stream
<1>8. CASE OrphanDies(j)
  <2>1. UNCHANGED <<prog, client, sent, got>> /\ Released(held, held')
    BY <1>0, <1>8, DiesFacts DEF OrphanDies, stream
  <2> QED
    BY <2>1 DEF Released
<1> QED
  BY <1>2, <1>3, <1>4, <1>5, <1>6, <1>7, <1>8 DEF ChildStep

(* A client that says it has the file has all of it, and one of 20190204   *)
(* that says the server crashed was never sent a byte (transFile.c:13-19   *)
(* of its client): children finish what they have been passed.             *)
THEOREM ClientsAreToldTheTruth == Spec => []ClientsAreTold
<1>1. Init => Told
  BY TotalFacts DEF Init, Told
<1>2. IInv /\ Told /\ [Next]_vars => Told'
  <2>1. CASE UNCHANGED vars
    BY <2>1, TotalFacts DEF vars, Told
  <2> QED
    BY <2>1, ClientTold, ParentTold, ChildTold DEF Next
<1>3. Told => ClientsAreTold
  BY DEF Told, ClientsAreTold
<1> QED
  BY <1>1, <1>2, <1>3, PoolInvariant, PTL DEF Spec
=============================================================================
