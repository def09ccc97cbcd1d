-------------------------- MODULE ThreadPoolCancel --------------------------
(***************************************************************************)
(* The thread-pool file server of 20190208 and its clients: the server of  *)
(* 20190205, which SIGUSR1 ends by closing the listening socket, emptying  *)
(* the queue and cancelling the threads.                                   *)
(*                                                                         *)
(* A cancelled thread runs cleanFunc, which unlocks queMutex whether the   *)
(* thread has it or not: cancellation acts in cond_wait, where the mutex   *)
(* is taken again first, and in the calls of transFile, where another      *)
(* thread may have it.  The unlock then frees it for a third one.          *)
(***************************************************************************)
EXTENDS Naturals, Sequences, FiniteSets

CONSTANTS ThreadNum,    \* at least 2
          Clients,
          Capacity,     \* of the queue; 100 in the code
          Items,        \* what transFile sends, length 0 included
          None

Threads == 1..ThreadNum

VARIABLES locked,       \* queMutex
          queue,
          pc, pnode,    \* of each thread
          cancelled,
          main, newfd,
          pthid,        \* the thread main joins: pthid[i] with the i of epoll's loop
          usr1,
          conn,         \* "none", "backlog", "open", "closed" at the server
          sent,
          client        \* "new", "open", "success", "crash", "left"

vars == <<locked, queue, pc, pnode, cancelled, main, newfd, pthid, usr1, conn, sent, client>>
mains == <<main, newfd, pthid, usr1>>
threads == <<pc, pnode, cancelled>>
net == <<conn, sent, client>>

Init == /\ locked = FALSE /\ queue = <<>>
        /\ pc = [t \in Threads |-> "lock"] /\ pnode = [t \in Threads |-> None]
        /\ cancelled = {}
        /\ main = "loop" /\ newfd = None /\ pthid = 0 /\ usr1 = FALSE
        /\ conn = [c \in Clients |-> "none"] /\ sent = [c \in Clients |-> 0]
        /\ client = [c \in Clients |-> "new"]

Goto(t, l) == pc' = [pc EXCEPT ![t] = l]
Close(c) == conn' = [conn EXCEPT ![c] = "closed"]

(***************************************************************************)
(* A thread; when main has returned from exit there is none.               *)
(***************************************************************************)
Lock(t) ==
    /\ pc[t] \in {"lock", "relock"} /\ ~locked
    /\ locked' = TRUE
    /\ Goto(t, IF pc[t] = "lock" THEN "test" ELSE "pop")
    /\ UNCHANGED <<queue, pnode, cancelled, mains, net>>

Test(t) ==
    /\ pc[t] = "test"
    /\ IF queue = <<>> THEN Goto(t, "wait") /\ locked' = FALSE
                       ELSE Goto(t, "pop") /\ UNCHANGED locked
    /\ UNCHANGED <<queue, pnode, cancelled, mains, net>>

\* cond_wait returns, after a signal or without one.
Wake(t) == pc[t] = "wait" /\ t \notin cancelled /\ Goto(t, "relock")
Spurious(t) == Wake(t) /\ UNCHANGED <<locked, queue, pnode, cancelled, mains, net>>

QuePop(t) ==
    /\ pc[t] = "pop"
    /\ pnode' = [pnode EXCEPT ![t] = IF queue = <<>> THEN None ELSE Head(queue)]
    /\ queue' = IF queue = <<>> THEN queue ELSE Tail(queue)
    /\ Goto(t, "unlock")
    /\ UNCHANGED <<locked, cancelled, mains, net>>

Unlock(t) ==
    /\ pc[t] = "unlock"
    /\ locked' = FALSE
    /\ Goto(t, IF pnode[t] = None THEN "lock" ELSE "send")
    /\ UNCHANGED <<queue, pnode, cancelled, mains, net>>

\* transFile, which ends early when the client has left.
Send(t) ==
    LET c == pnode[t]
    IN /\ pc[t] = "send"
       /\ \/ /\ client[c] = "left" \/ sent[c] = Items
             /\ Goto(t, "close")
             /\ UNCHANGED sent
          \/ /\ sent[c] < Items
             /\ sent' = [sent EXCEPT ![c] = @ + 1]
             /\ UNCHANGED pc
       /\ UNCHANGED <<locked, queue, pnode, cancelled, mains, conn, client>>

CloseServed(t) ==
    /\ pc[t] = "close"
    /\ Close(pnode[t])
    /\ pnode' = [pnode EXCEPT ![t] = None]
    /\ Goto(t, "lock")
    /\ UNCHANGED <<locked, queue, cancelled, mains, sent, client>>

CleanFunc(t) ==
    /\ t \in cancelled /\ pc[t] \in {"wait", "send", "close"}
    /\ pc[t] = "wait" => ~locked
    /\ locked' = FALSE
    /\ Goto(t, "gone")
    /\ UNCHANGED <<queue, pnode, cancelled, mains, net>>

ThreadStep(t) ==
    /\ main # "gone"
    /\ \/ Lock(t) \/ Test(t) \/ QuePop(t) \/ Unlock(t) \/ Send(t)
       \/ CloseServed(t) \/ CleanFunc(t)

(***************************************************************************)
(* Main.                                                                   *)
(***************************************************************************)
Accept(c) ==
    /\ main = "loop" /\ conn[c] = "backlog"
    /\ conn' = [conn EXCEPT ![c] = "open"]
    /\ newfd' = c
    /\ main' = "insert"
    /\ UNCHANGED <<locked, queue, threads, pthid, usr1, sent, client>>

\* Mutant: main does not take the mutex.
MainLockNot(from, to) ==
    /\ main = from
    /\ locked' = TRUE /\ main' = to
    /\ UNCHANGED <<queue, threads, newfd, pthid, usr1, net>>

MainLock(from, to) ==
    /\ main = from /\ ~locked
    /\ locked' = TRUE /\ main' = to
    /\ UNCHANGED <<queue, threads, newfd, pthid, usr1, net>>

\* Mutant: a connection that does not fit is not closed.
QueInsertRefuses ==
    /\ main = "inserting"
    /\ queue' = IF Len(queue) = Capacity THEN queue ELSE Append(queue, newfd)
    /\ locked' = FALSE
    /\ main' = "signal"
    /\ UNCHANGED <<threads, newfd, pthid, usr1, net>>

\* A connection that does not fit is closed.
QueInsert ==
    /\ main = "inserting"
    /\ IF Len(queue) = Capacity THEN Close(newfd) /\ UNCHANGED queue
                                ELSE queue' = Append(queue, newfd) /\ UNCHANGED conn
    /\ locked' = FALSE
    /\ main' = "signal"
    /\ UNCHANGED <<threads, newfd, pthid, usr1, sent, client>>

Signal ==
    /\ main = "signal"
    /\ IF \E t \in Threads : pc[t] = "wait" THEN \E t \in Threads : Wake(t) ELSE UNCHANGED pc
    /\ main' = "loop"
    /\ UNCHANGED <<locked, queue, pnode, cancelled, newfd, pthid, usr1, net>>

\* The pipe is readable, alone or after the listening socket (i is 0 or 1).
Exit ==
    /\ main = "loop" /\ usr1
    /\ conn' = [c \in Clients |-> IF conn[c] = "backlog" THEN "closed" ELSE conn[c]]
    /\ pthid' \in {1, 2}
    /\ main' = "drain"
    /\ UNCHANGED <<locked, queue, threads, newfd, usr1, sent, client>>

Drain ==
    /\ main = "draining"
    /\ IF queue = <<>> THEN main' = "cancel" /\ UNCHANGED <<queue, conn>>
                       ELSE main' = "drain" /\ queue' = Tail(queue) /\ Close(Head(queue))
    /\ locked' = FALSE
    /\ UNCHANGED <<threads, newfd, pthid, usr1, sent, client>>

\* Mutant: the last thread is not cancelled.
CancelButLast ==
    LET next == Cardinality(cancelled) + 1
    IN /\ main = "cancel"
       /\ cancelled' = cancelled \union {next}
       /\ main' = IF next = ThreadNum - 1 THEN "join" ELSE "cancel"
       /\ UNCHANGED <<locked, queue, pc, pnode, newfd, pthid, usr1, net>>

Cancel ==
    LET next == Cardinality(cancelled) + 1
    IN /\ main = "cancel"
       /\ cancelled' = cancelled \union {next}
       /\ main' = IF next = ThreadNum THEN "join" ELSE "cancel"
       /\ UNCHANGED <<locked, queue, pc, pnode, newfd, pthid, usr1, net>>

\* The thread that is joined first is joined again for all the others; these
\* calls return at once.  Then exit, which closes what the threads have open.
Join ==
    /\ main = "join" /\ pc[pthid] = "gone"
    /\ main' = "gone"
    /\ conn' = [c \in Clients |-> IF conn[c] = "open" THEN "closed" ELSE conn[c]]
    /\ UNCHANGED <<locked, queue, threads, newfd, pthid, usr1, sent, client>>

MainStep == \/ \E c \in Clients : Accept(c)
            \/ MainLock("insert", "inserting") \/ QueInsert \/ Signal
            \/ Exit \/ MainLock("drain", "draining") \/ Drain \/ Cancel \/ Join

SigFunc == /\ ~usr1 /\ main # "gone"
           /\ usr1' = TRUE
           /\ UNCHANGED <<locked, queue, threads, main, newfd, pthid, net>>

(***************************************************************************)
(* The clients.                                                            *)
(***************************************************************************)
Connect(c) ==
    /\ client[c] = "new" /\ main \in {"loop", "insert", "inserting", "signal"}
    /\ client' = [client EXCEPT ![c] = "open"]
    /\ conn' = [conn EXCEPT ![c] = "backlog"]
    /\ UNCHANGED <<locked, queue, threads, mains, sent>>

\* "download success", or "Server crash" when the connection is closed too early.
Receive(c) ==
    /\ client[c] = "open"
    /\ \/ sent[c] = Items /\ client' = [client EXCEPT ![c] = "success"]
       \/ sent[c] < Items /\ conn[c] = "closed" /\ client' = [client EXCEPT ![c] = "crash"]
    /\ UNCHANGED <<locked, queue, threads, mains, conn, sent>>

HangUp(c) ==
    /\ client[c] = "open"
    /\ client' = [client EXCEPT ![c] = "left"]
    /\ UNCHANGED <<locked, queue, threads, mains, conn, sent>>

Next == \/ \E t \in Threads : ThreadStep(t) \/ (main # "gone" /\ Spurious(t))
        \/ MainStep \/ SigFunc
        \/ \E c \in Clients : Connect(c) \/ Receive(c) \/ HangUp(c)

Spec == Init /\ [][Next]_vars

\* The threads and the clients run; a mutex that is free again and again is got.
Fair == /\ SF_vars(MainStep) /\ \A t \in Threads : SF_vars(ThreadStep(t))
        /\ \A c \in Clients : WF_vars(Receive(c))
FairSpec == Spec /\ Fair

(***************************************************************************)
(* Properties                                                              *)
(***************************************************************************)

\* Several threads are between lock and unlock only when the queue is empty: the
\* mutex is unlocked for others by threads that are cancelled in a transfer, but by
\* then nobody inserts and main has drained the queue.
Inside == {t \in Threads : pc[t] \in {"test", "pop", "unlock"}}
PopAlone ==
    Cardinality(Inside) + (IF main \in {"inserting", "draining"} THEN 1 ELSE 0) > 1 => queue = <<>>

\* Every client that connects comes to an end: it gets the file, or its connection
\* is closed because it does not fit, is drained, or is with a thread that is
\* cancelled.
EveryoneIsTold == \A c \in Clients : client[c] = "open" ~> client[c] # "open"

\* SIGUSR1 ends the server, whatever its threads are doing.
ExitEnds == usr1 ~> main = "gone"

\* "exit success" is printed for every thread: all of them have been joined.
JoinsAll == main = "gone" => \A t \in Threads : pc[t] = "gone"
=============================================================================
