----------------------------- MODULE ThreadPool -----------------------------
(***************************************************************************)
(* The thread-pool file server of 20190207/thread_pool (main.c): the main  *)
(* thread accepts connections and queues them, the workers wait on a       *)
(* condition variable, take one connection each, send it the file and      *)
(* close it, and SIGUSR1 makes main drain the queue, wake the workers and  *)
(* join them.  The queue is the bounded FIFO that WorkQueue implements.    *)
(*                                                                         *)
(* Every critical section under queMutex is one action; what the code does *)
(* outside the mutex (the test of state at main.c:8, the signals, the      *)
(* closes) is an action of its own.  pthread_cond_wait releases the mutex  *)
(* and sleeps in one step and re-acquires it in another; it may return     *)
(* without a signal, as POSIX allows.                                      *)
(***************************************************************************)
EXTENDS Integers, Sequences, FiniteSets, Functions

CONSTANTS
    Worker,
    Client,    \* connections that may arrive
    Capacity,  \* threadQue->Capacity
    None

ASSUME PoolAssumption == /\ IsFiniteSet(Worker)
                         /\ Capacity \in Nat \ {0}
                         /\ None \notin Client

VARIABLES
    state,     \* f.state: 1 open, 0 closed
    queue,     \* threadQue: connections waiting for a worker
    main,      \* where main is
    newfd,     \* the connection main has accepted or popped, or None
    wakeups,   \* signals main has still to send in the shutdown loop
    pc,        \* pc[w]: where worker w is
    serving,   \* serving[w]: the connection of worker w, or None
    accepted,  \* connections accept has returned
    closed,    \* connections the server has closed
    sigpipe    \* SIGUSR1 has written to sigpipe

mainVars == <<main, newfd, wakeups, sigpipe>>
workerVars == <<pc, serving>>
vars == <<state, queue, main, newfd, wakeups, pc, serving, accepted, closed,
          sigpipe>>

Init ==
    /\ state = 1
    /\ queue = << >>
    /\ main = "epoll"
    /\ newfd = None
    /\ wakeups = 0
    /\ pc = [w \in Worker |-> "check"]
    /\ serving = [w \in Worker |-> None]
    /\ accepted = {}
    /\ closed = {}
    /\ sigpipe = FALSE

Waiting == {w \in Worker : pc[w] = "wait"}

(* pthread_cond_signal: one waiting thread, if there is one, wakes up. *)
CondSignal ==
    IF Waiting = {}
    THEN pc' = pc
    ELSE \E w \in Waiting : pc' = [pc EXCEPT ![w] = "woken"]

(***************************************************************************)
(* The main thread.                                                        *)
(***************************************************************************)
(* Mutants: the signal is sent only for the first connection in the queue, *)
(* or not at all; a connection drained on shutdown, or served, is not      *)
(* closed.                                                                 *)

SignalFirst ==
    /\ main = "signal"
    /\ IF Len(queue) = 1 THEN CondSignal ELSE pc' = pc
    /\ main' = "epoll"
    /\ UNCHANGED <<state, queue, newfd, wakeups, serving, accepted, closed, sigpipe>>

NoSignal ==
    /\ main = "signal"
    /\ main' = "epoll"
    /\ UNCHANGED <<state, queue, newfd, wakeups, workerVars, accepted, closed, sigpipe>>

DropOpen ==
    /\ main = "drop"
    /\ newfd' = None
    /\ main' = "drain"
    /\ UNCHANGED <<state, queue, wakeups, workerVars, accepted, closed, sigpipe>>

ServeOpen(w) ==
    /\ pc[w] = "serve"
    /\ serving' = [serving EXCEPT ![w] = None]
    /\ pc' = [pc EXCEPT ![w] = "check"]
    /\ UNCHANGED <<state, queue, mainVars, accepted, closed>>

Accept(c) ==
    /\ main = "epoll"
    /\ c \notin accepted
    /\ accepted' = accepted \cup {c}
    /\ newfd' = c
    /\ main' = "insert"
    /\ UNCHANGED <<state, queue, wakeups, workerVars, closed, sigpipe>>

Insert ==
    /\ main = "insert"
    /\ IF Len(queue) = Capacity
       THEN queue' = queue /\ main' = "refuse"
       ELSE queue' = Append(queue, newfd) /\ main' = "signal"
    /\ newfd' = IF main' = "refuse" THEN newfd ELSE None
    /\ UNCHANGED <<state, wakeups, workerVars, accepted, closed, sigpipe>>

Refuse ==
    /\ main = "refuse"
    /\ closed' = closed \cup {newfd}
    /\ newfd' = None
    /\ main' = "signal"
    /\ UNCHANGED <<state, queue, wakeups, workerVars, accepted, sigpipe>>

Signal ==
    /\ main = "signal"
    /\ CondSignal
    /\ main' = "epoll"
    /\ UNCHANGED <<state, queue, newfd, wakeups, serving, accepted, closed, sigpipe>>

SigFunc ==
    /\ ~sigpipe
    /\ sigpipe' = TRUE
    /\ UNCHANGED <<state, queue, main, newfd, wakeups, workerVars, accepted, closed>>

StartExit ==
    /\ main = "epoll"
    /\ sigpipe
    /\ state' = 0
    /\ main' = "drain"
    /\ UNCHANGED <<queue, newfd, wakeups, workerVars, accepted, closed, sigpipe>>

Drain ==
    /\ main = "drain"
    /\ \/ /\ queue # << >>
          /\ newfd' = Head(queue)
          /\ queue' = Tail(queue)
          /\ main' = "drop"
          /\ UNCHANGED wakeups
       \/ /\ queue = << >>
          /\ main' = "wake"
          /\ wakeups' = Cardinality(Worker)
          /\ UNCHANGED <<queue, newfd>>
    /\ UNCHANGED <<state, workerVars, accepted, closed, sigpipe>>

Drop ==
    /\ main = "drop"
    /\ closed' = closed \cup {newfd}
    /\ newfd' = None
    /\ main' = "drain"
    /\ UNCHANGED <<state, queue, wakeups, workerVars, accepted, sigpipe>>

Wake ==
    /\ main = "wake"
    /\ wakeups > 0
    /\ CondSignal
    /\ wakeups' = wakeups - 1
    /\ UNCHANGED <<state, queue, main, newfd, serving, accepted, closed, sigpipe>>

Join ==
    /\ main = "wake"
    /\ wakeups = 0
    /\ \A w \in Worker : pc[w] = "exited"
    /\ main' = "done"
    /\ UNCHANGED <<state, queue, newfd, wakeups, workerVars, accepted, closed, sigpipe>>

(***************************************************************************)
(* A worker.                                                               *)
(***************************************************************************)
Check(w) ==
    /\ pc[w] = "check"
    /\ pc' = [pc EXCEPT ![w] = IF state = 0 THEN "exited" ELSE "lock"]
    /\ UNCHANGED <<state, queue, mainVars, serving, accepted, closed>>

Wait(w) ==
    /\ pc[w] = "lock"
    /\ queue = << >>
    /\ pc' = [pc EXCEPT ![w] = "wait"]
    /\ UNCHANGED <<state, queue, mainVars, serving, accepted, closed>>

(* quePop with the mutex held: straight after the lock if the queue was    *)
(* not empty, or after cond_wait has returned, whatever the queue is then. *)
Take(w) ==
    /\ \/ pc[w] = "lock" /\ queue # << >>
       \/ pc[w] = "woken"
    /\ IF queue = << >>
       THEN /\ pc' = [pc EXCEPT ![w] = "check"]
            /\ UNCHANGED <<queue, serving>>
       ELSE /\ pc' = [pc EXCEPT ![w] = "serve"]
            /\ serving' = [serving EXCEPT ![w] = Head(queue)]
            /\ queue' = Tail(queue)
    /\ UNCHANGED <<state, mainVars, accepted, closed>>

SpuriousWakeup(w) ==
    /\ pc[w] = "wait"
    /\ pc' = [pc EXCEPT ![w] = "woken"]
    /\ UNCHANGED <<state, queue, mainVars, serving, accepted, closed>>

(* transFile returns (the client has the file or has gone), close, free. *)
Serve(w) ==
    /\ pc[w] = "serve"
    /\ closed' = closed \cup {serving[w]}
    /\ serving' = [serving EXCEPT ![w] = None]
    /\ pc' = [pc EXCEPT ![w] = "check"]
    /\ UNCHANGED <<state, queue, mainVars, accepted>>

MainStep ==
    \/ Insert \/ Refuse \/ Signal
    \/ StartExit \/ Drain \/ Drop \/ Wake \/ Join

WorkerStep(w) == Check(w) \/ Wait(w) \/ Take(w) \/ Serve(w)

(* main has returned and the process is gone. *)
Terminated == main = "done" /\ UNCHANGED vars

Next ==
    \/ \E c \in Client : Accept(c)
    \/ MainStep
    \/ SigFunc
    \/ \E w \in Worker : WorkerStep(w) \/ SpuriousWakeup(w)
    \/ Terminated

(* Every thread that can run is eventually scheduled, the mutex is granted *)
(* to a worker that keeps asking for it, and every transfer ends.  Nothing *)
(* obliges clients to come, a signal to be sent or a wait to return early. *)
Fairness ==
    /\ WF_vars(MainStep)
    /\ \A w \in Worker : WF_vars(WorkerStep(w))

Spec == Init /\ [][Next]_vars /\ Fairness

-----------------------------------------------------------------------------
(* Type invariant of the server's shared state and of each thread's place  *)
(* in its code (thread_factory.h, work_que.h, main.c:3-29).                *)
TypeOK ==
    /\ state \in {0, 1}
    /\ queue \in Seq(Client) /\ Len(queue) <= Capacity
    /\ main \in {"epoll", "insert", "refuse", "signal", "drain", "drop",
                 "wake", "done"}
    /\ newfd \in Client \cup {None}
    /\ wakeups \in 0..Cardinality(Worker)
    /\ pc \in [Worker -> {"check", "lock", "wait", "woken", "serve", "exited"}]
    /\ serving \in [Worker -> Client \cup {None}]
    /\ accepted \in SUBSET Client
    /\ closed \in SUBSET Client
    /\ sigpipe \in BOOLEAN

(* Every accepted connection that is still open is in exactly one place:   *)
(* in main's hands, once in the queue, or with one worker.  So none is     *)
(* leaked, served by two workers, or closed twice (a second close could    *)
(* hit a descriptor number that accept has given out again).               *)
Places(c) ==
    {<<"main", 0>> : x \in {y \in {newfd} : y = c}}
    \cup {<<"queue", i>> : i \in {j \in 1..Len(queue) : queue[j] = c}}
    \cup {<<"worker", w>> : w \in {v \in Worker : serving[v] = c}}

OnePlace ==
    /\ closed \subseteq accepted
    /\ \A c \in Client : Cardinality(Places(c)) =
          IF c \in accepted \ closed THEN 1 ELSE 0

(* No wake-up is lost while the pool is open.  The workers test for an     *)
(* empty queue once, before they wait (an if, not a loop, main.c:12), and  *)
(* main signals after it has released the mutex (main.c:97); still, when   *)
(* some worker sleeps there are as many workers on their way to the queue, *)
(* counting the one main is about to wake, as connections in it.           *)
OnTheWay == {w \in Worker : pc[w] \in {"check", "lock", "woken"}}

NoLostWakeup ==
    state = 1 /\ Waiting # {} =>
        Len(queue) <= Cardinality(OnTheWay) + (IF main = "signal" THEN 1 ELSE 0)

(* When main returns from the joins and the process ends, no accepted      *)
(* connection is left without its close (main.c:100-118).                  *)
CleanExit == main = "done" => closed = accepted /\ queue = << >>

(* Every accepted connection is eventually closed: served, refused or      *)
(* dropped on shutdown, even if SIGUSR1 arrives while it is queued.        *)
EveryClientClosed ==
    \A c \in Client : c \in accepted ~> c \in closed

(* The exit the code sets up ("exit mechanism", main.c:41) and reports     *)
(* ("exit success", main.c:114): SIGUSR1 ends every worker and main.       *)
ExitSucceeds == sigpipe ~> main = "done"
=============================================================================
