---------------------------- MODULE FileServerV1 ----------------------------
(***************************************************************************)
(* FileServer, the first version: main accepts and queues, a worker serves *)
(* one client from login to the end, workers keep their descriptors in the *)
(* ring, and the supervisor closes what it finds in the slot that is due.  *)
(*                                                                         *)
(* All of them name a connection by its descriptor, and the kernel gives   *)
(* out the lowest number that is free.  A recv that has begun stays with   *)
(* the connection it was called on even when its descriptor is closed.     *)
(* (Waiting for the queue with a condition variable is ThreadPool's        *)
(* subject; the dialogues are LoginV1's and CommandsV1's.)  Left out: the  *)
(* login of a name that is not registered, which ends the server           *)
(* (mysqlDbHelper.cpp:33-35, LoginV1).                                     *)
(***************************************************************************)
EXTENDS Naturals, Sequences, SequencesExt

CONSTANTS Workers,
          Conns,        \* connections, each made at most once
          MaxFd,        \* bound: descriptor numbers 1..MaxFd
          Capacity,     \* of the queue (MaxNum)
          TimeOut,
          None

ASSUME BoundsAssumption == /\ {MaxFd, Capacity, TimeOut} \subseteq Nat
                           /\ None \notin Conns \union Nat

Fds == 1..MaxFd
Slots == 0..TimeOut

VARIABLES table,        \* table[d]: the connection with descriptor d
          client,       \* client[c]: "new", "idle", "asked" (has sent a command), "left"
          queue,        \* nodes: their descriptors
          pc, newfd, setPos,   \* of each worker; newfd and setPos are in its node
          own,          \* own[w]: the connection w took from the queue
          sock,         \* sock[w]: the connection w's recv is blocked on
          ring, fdPointer,
          silent        \* silent[c]: scans since its worker has put c into the ring, up to TimeOut+2

vars == <<table, client, queue, pc, newfd, setPos, own, sock, ring, fdPointer, silent>>
node == <<newfd, setPos, own>>

Init == /\ table = [d \in Fds |-> None]
        /\ client = [c \in Conns |-> "new"]
        /\ queue = <<>>
        /\ pc = [w \in Workers |-> "pop"]
        /\ newfd = [w \in Workers |-> None] /\ setPos = [w \in Workers |-> 0]
        /\ own = [w \in Workers |-> None] /\ sock = [w \in Workers |-> None]
        /\ ring = [i \in Slots |-> {}] /\ fdPointer = 0
        /\ silent = [c \in Conns |-> 0]

Goto(w, l) == pc' = [pc EXCEPT ![w] = l]
Before(i) == IF i = 0 THEN TimeOut ELSE i - 1
Free == {d \in Fds : table[d] = None}
Lowest(S) == CHOOSE d \in S : \A e \in S : d <= e

(***************************************************************************)
(* Main.  A connection that does not fit into the queue is closed at once. *)
(***************************************************************************)
Accept(c) ==
    LET d == Lowest(Free)
    IN /\ client[c] = "new" /\ Free # {}
       /\ IF Len(queue) < Capacity
          THEN /\ table' = [table EXCEPT ![d] = c]
               /\ queue' = Append(queue, d)
               /\ client' = [client EXCEPT ![c] = "idle"]
          ELSE client' = [client EXCEPT ![c] = "left"] /\ UNCHANGED <<table, queue>>
       /\ UNCHANGED <<pc, node, sock, ring, fdPointer, silent>>

(***************************************************************************)
(* A worker.                                                               *)
(***************************************************************************)
Pop(w) ==
    LET d == Head(queue)
    IN /\ pc[w] = "pop" /\ queue # <<>>
       /\ queue' = Tail(queue)
       /\ newfd' = [newfd EXCEPT ![w] = d]
       /\ own' = [own EXCEPT ![w] = table[d]]
       /\ Goto(w, "login")
       /\ UNCHANGED <<table, client, setPos, sock, ring, fdPointer, silent>>

\* Where a worker goes when a recv_n of login or registration fails.  Mostly to
\* ServerClient, whose first recv_n fails, too, or to the close after a second
\* wrong password.  But registration asks for another name as long as sqlFindData
\* does not give 0 and looks at no recv_n: from the second client that leaves
\* there on (the first has left a row of the empty name), or without a database,
\* the worker asks for ever.
AfterFailure == {"enter", "leave", "register"}

\* recv on the descriptor: what it means now.  A bad descriptor fails.
Call(w, from, to) ==
    LET c == IF newfd[w] = None THEN None ELSE table[newfd[w]]
    IN /\ pc[w] = from
       /\ sock' = [sock EXCEPT ![w] = c]
       /\ \E l \in IF c # None THEN {to} ELSE IF from = "login" THEN AfterFailure ELSE {"leave"} :
             Goto(w, l)
       /\ UNCHANGED <<table, client, queue, node, ring, fdPointer, silent>>

\* Login or registration, an exchange at a time.
Login(w) ==
    LET c == sock[w]
    IN /\ pc[w] = "loginRecv"
       /\ \/ /\ client[c] = "asked"
             /\ client' = [client EXCEPT ![c] = "idle"]
             /\ Goto(w, "enter") \/ Goto(w, "login") \/ Goto(w, "leave")
          \/ /\ client[c] = "left"
             /\ \E l \in AfterFailure : Goto(w, l)
             /\ UNCHANGED client
       /\ sock' = [sock EXCEPT ![w] = None]
       /\ UNCHANGED <<table, queue, node, ring, fdPointer, silent>>

\* A worker that asks for ever for a name gets one when its descriptor has been
\* closed and given to another connection: it takes what that one sends.
Register(w) ==
    LET c == table[newfd[w]]
    IN /\ pc[w] = "register" /\ c # None /\ client[c] # "left"
       /\ sock' = [sock EXCEPT ![w] = c]
       /\ Goto(w, "loginRecv")
       /\ UNCHANGED <<table, client, queue, node, ring, fdPointer, silent>>

\* ServerClient puts the client into the ring, ...
Put(w, old) ==
    LET p == Before(fdPointer)
    IN /\ ring' = [i \in Slots |-> (ring[i] \ (IF i = old THEN {newfd[w]} ELSE {}))
                                    \union (IF i = p THEN {newfd[w]} ELSE {})]
       /\ setPos' = [setPos EXCEPT ![w] = p]

Enter(w) ==
    /\ pc[w] = "enter"
    /\ Put(w, None)
    /\ silent' = [silent EXCEPT ![own[w]] = 0]
    /\ Goto(w, "call")
    /\ UNCHANGED <<table, client, queue, newfd, own, sock, fdPointer>>

\* Mutant: recv_n's result is not looked at.
RecvUnchecked(w) ==
    /\ pc[w] = "recv" /\ client[sock[w]] \in {"asked", "left"}
    /\ client' = [client EXCEPT ![sock[w]] = IF @ = "asked" THEN "idle" ELSE @]
    /\ sock' = [sock EXCEPT ![w] = None]
    /\ Goto(w, "update")
    /\ UNCHANGED <<table, queue, node, ring, fdPointer, silent>>

\* ... receives a command, ...
Recv(w) ==
    LET c == sock[w]
    IN /\ pc[w] = "recv"
       /\ \/ /\ client[c] = "asked"
             /\ client' = [client EXCEPT ![c] = "idle"]
             /\ Goto(w, "update")
          \/ /\ client[c] = "left"
             /\ Goto(w, "leave")
             /\ UNCHANGED client
       /\ sock' = [sock EXCEPT ![w] = None]
       /\ UNCHANGED <<table, queue, node, ring, fdPointer, silent>>

\* ... moves it on in the ring and serves it.
Update(w) ==
    /\ pc[w] = "update"
    /\ Put(w, setPos[w])
    /\ silent' = [silent EXCEPT ![own[w]] = 0]
    /\ Goto(w, "call")
    /\ UNCHANGED <<table, client, queue, newfd, own, sock, fdPointer>>

\* Mutant: the worker does not close.
LeaveOpen(w) ==
    /\ pc[w] = "leave"
    /\ Goto(w, "pop")
    /\ newfd' = [newfd EXCEPT ![w] = None] /\ own' = [own EXCEPT ![w] = None]
    /\ UNCHANGED <<table, client, queue, setPos, sock, ring, fdPointer, silent>>

\* The descriptor is closed, whoever has it by now; it stays in the ring.
Leave(w) ==
    /\ pc[w] = "leave"
    /\ table' = [table EXCEPT ![newfd[w]] = None]
    /\ newfd' = [newfd EXCEPT ![w] = None] /\ own' = [own EXCEPT ![w] = None]
    /\ Goto(w, "pop")
    /\ UNCHANGED <<client, queue, setPos, sock, ring, fdPointer, silent>>

(***************************************************************************)
(* The supervisor, once a second.                                          *)
(***************************************************************************)
\* Mutant: the slot that is cleared is not the one that was scanned.
SuperviseClearsNext ==
    LET next == (fdPointer + 1) % (TimeOut + 1)
    IN /\ table' = [d \in Fds |-> IF d \in ring[fdPointer] THEN None ELSE table[d]]
       /\ ring' = [ring EXCEPT ![next] = {}]
       /\ fdPointer' = next
       /\ silent' = [c \in Conns |-> IF silent[c] < TimeOut + 2 THEN silent[c] + 1 ELSE silent[c]]
       /\ UNCHANGED <<client, queue, pc, node, sock>>

Supervise ==
    /\ table' = [d \in Fds |-> IF d \in ring[fdPointer] THEN None ELSE table[d]]
    /\ ring' = [ring EXCEPT ![fdPointer] = {}]
    /\ fdPointer' = (fdPointer + 1) % (TimeOut + 1)
    /\ silent' = [c \in Conns |-> IF silent[c] < TimeOut + 2 THEN silent[c] + 1 ELSE silent[c]]
    /\ UNCHANGED <<client, queue, pc, node, sock>>

(***************************************************************************)
(* The clients.                                                            *)
(***************************************************************************)
Ask(c) == /\ client[c] = "idle"
          /\ client' = [client EXCEPT ![c] = "asked"]
          /\ UNCHANGED <<table, queue, pc, node, sock, ring, fdPointer, silent>>
HangUp(c) == /\ client[c] \in {"idle", "asked"}
             /\ client' = [client EXCEPT ![c] = "left"]
             /\ UNCHANGED <<table, queue, pc, node, sock, ring, fdPointer, silent>>

WorkerStep(w) == \/ Pop(w) \/ Call(w, "login", "loginRecv") \/ Login(w) \/ Register(w)
                 \/ Enter(w) \/ Call(w, "call", "recv") \/ Recv(w) \/ Update(w) \/ Leave(w)

Next == \/ \E c \in Conns : Accept(c) \/ Ask(c) \/ HangUp(c)
        \/ \E w \in Workers : WorkerStep(w)
        \/ Supervise

Spec == Init /\ [][Next]_vars

\* Threads run; clients hang up some day.
Fair == /\ \A w \in Workers : WF_vars(WorkerStep(w))
        /\ WF_vars(Supervise)
        /\ \A c \in Conns : WF_vars(HangUp(c))
FairSpec == Spec /\ Fair

(***************************************************************************)
(* Properties                                                              *)
(***************************************************************************)

\* Past its login, a worker's client is in service.
Serving(w) == pc[w] \in {"call", "recv", "update"}
Has(w, d) == newfd[w] = d /\ table[d] # None /\ table[d] = own[w]

\* The fields keep their kinds.
TypeOK ==
    /\ table \in [Fds -> Conns \union {None}]
    /\ client \in [Conns -> {"new", "idle", "asked", "left"}]
    /\ queue \in Seq(Fds) /\ Len(queue) <= Capacity
    /\ pc \in [Workers -> {"pop", "login", "loginRecv", "register", "enter", "call", "recv",
                           "update", "leave"}]
    /\ newfd \in [Workers -> Fds \union {None}] /\ setPos \in [Workers -> Slots]
    /\ own \in [Workers -> Conns \union {None}] /\ sock \in [Workers -> Conns \union {None}]
    /\ \A w \in Workers : pc[w] \in {"recv", "loginRecv"} => sock[w] # None
    /\ ring \in [Slots -> SUBSET Fds] /\ fdPointer \in Slots

\* No connection is left open with nobody to serve it, although its descriptor
\* is closed and given out again by main, by the supervisor and by workers that
\* think it is their own.
NobodyForgotten ==
    \A d \in Fds : table[d] # None => Contains(queue, d) \/ \E w \in Workers : Has(w, d)

\* A client in service is in the ring until it is closed, so that the supervisor
\* comes to it; workers that still use the number for a client of theirs that has
\* been closed may move its entry, but not take it away.
ServedInRing ==
    \A w \in Workers : \A d \in Fds :
        Serving(w) /\ Has(w, d) => \E i \in Slots : d \in ring[i]

\* A client in service whose worker has not touched the ring for it during more
\* than TimeOut scans has lost its descriptor, unless a worker whose client is
\* gone holds the same number and moves the entry.
IdleIsClosed ==
    \A w \in Workers :
        Serving(w) /\ Has(w, newfd[w]) /\ (\A v \in Workers \ {w} : newfd[v] # newfd[w])
            => silent[own[w]] <= TimeOut

\* The ring disconnects who is silent for TimeOut seconds.
IdleIsDisconnected ==
    \A w \in Workers : pc[w] = "recv" /\ sock[w] = own[w] => silent[own[w]] <= TimeOut + 1

\* Once clients hang up, a worker that serves one comes back to the queue, or it
\* is lost to a registration (main.cpp:191-198) and waits for nobody else: neither
\* descriptors that others close under it nor numbers that are given out again
\* keep it with a client.
WorkersReturn == \A w \in Workers : pc[w] # "pop" ~> pc[w] \in {"pop", "register"}

\* Every worker comes back to the queue.  Not so (main.cpp:191-198).
AllWorkersReturn == \A w \in Workers : pc[w] # "pop" ~> pc[w] = "pop"
=============================================================================
