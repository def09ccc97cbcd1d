------------------------------ MODULE Counters ------------------------------
(***************************************************************************)
(* The exercises in which processes or threads share a counter:            *)
(*   "add"       20190123/homework/multiadd: two processes add, no lock    *)
(*   "semadd"    20190124/homework/realadd: the same under a semaphore     *)
(*   "mutexadd"  20190129/homework/sem: two threads under a mutex          *)
(*   "buffer5"   20190124/homework/procon: a producer and a consumer over  *)
(*               two semaphores, as many places as items                   *)
(*   "buffer10"  20190124/proandsale: the same with twice the places       *)
(*   "tickets"   20190129/homework/ticket: two sellers, and a thread that  *)
(*               puts new tickets up once when the first are sold          *)
(* Process 1 is the parent or the first thread.  What a mutex protects in  *)
(* "tickets" is one step.                                                  *)
(***************************************************************************)
EXTENDS Naturals, FiniteSets

CONSTANTS Progs,
          N             \* rounds of a process; 10000000, 5 and 20 in the code

Procs    == {1, 2}
Other(p) == 3 - p
Adding   == {"add", "semadd", "mutexadd"}
Buffered == {"buffer5", "buffer10"}

VARIABLES prog, pc, rounds,
          val, reg,     \* the counter, and what a process has loaded of it
          holder,       \* who has the semaphore or the mutex; 0 for nobody
          sem,          \* sem[1] counts places, sem[2] products
          tickets, sold,
          product,      \* the third thread: "new", "wait", "woken", "done"
          main          \* "run", "done", and what it has printed last
vars == <<prog, pc, rounds, val, reg, holder, sem, tickets, sold, product, main>>
sale == <<tickets, sold, product>>

Init ==
  /\ prog \in Progs
  /\ pc = [p \in Procs |-> "top"] /\ rounds = [p \in Procs |-> 0]
  /\ val = 0 /\ reg = [p \in Procs |-> 0] /\ holder = 0
  /\ sem = <<IF prog = "buffer10" THEN 2 * N ELSE N, 0>>
  /\ tickets = 2 * N /\ sold = 0 /\ product = "new"
  /\ main = "run"

Goto(p, l) == pc' = [pc EXCEPT ![p] = l]

(***************************************************************************)
(* Adding.                                                                 *)
(***************************************************************************)
\* Mutant: the semaphore and the mutex start open for both.
AcquireOpen(p) ==
  /\ prog \in Adding /\ pc[p] = "top" /\ rounds[p] < N
  /\ holder' = p
  /\ Goto(p, "load")
  /\ UNCHANGED <<prog, rounds, val, reg, sem, sale, main>>

Acquire(p) ==
  /\ prog \in Adding /\ pc[p] = "top" /\ rounds[p] < N
  /\ IF prog = "add" THEN UNCHANGED holder ELSE holder = 0 /\ holder' = p
  /\ Goto(p, "load")
  /\ UNCHANGED <<prog, rounds, val, reg, sem, sale, main>>

Load(p) ==
  /\ pc[p] = "load" /\ Goto(p, "store")
  /\ reg' = [reg EXCEPT ![p] = val]
  /\ UNCHANGED <<prog, rounds, val, holder, sem, sale, main>>

Store(p) ==
  /\ pc[p] = "store" /\ Goto(p, "release")
  /\ val' = reg[p] + 1
  /\ UNCHANGED <<prog, rounds, reg, holder, sem, sale, main>>

Release(p) ==
  /\ pc[p] = "release" /\ Goto(p, "top")
  /\ holder' = 0
  /\ rounds' = [rounds EXCEPT ![p] = @ + 1]
  /\ UNCHANGED <<prog, val, reg, sem, sale, main>>

(***************************************************************************)
(* Producing (1) and consuming (2).  Every operation has SEM_UNDO: when a  *)
(* process exits the kernel takes its operations back, down to 0.          *)
(***************************************************************************)
SemP(p) ==
  /\ prog \in Buffered /\ pc[p] = "top" /\ rounds[p] < N
  /\ sem[p] > 0
  /\ sem' = [sem EXCEPT ![p] = @ - 1]
  /\ Goto(p, "done one")
  /\ UNCHANGED <<prog, rounds, val, reg, holder, sale, main>>

SemV(p) ==
  /\ pc[p] = "done one" /\ Goto(p, "top")
  /\ sem' = [sem EXCEPT ![Other(p)] = @ + 1]
  /\ rounds' = [rounds EXCEPT ![p] = @ + 1]
  /\ UNCHANGED <<prog, val, reg, holder, sale, main>>

Undone(p) ==
  [q \in Procs |-> IF q = p THEN sem[q] + rounds[p]
                   ELSE IF sem[q] > rounds[p] THEN sem[q] - rounds[p] ELSE 0]

(***************************************************************************)
(* The end of a process that has done its rounds.  A parent waits for its  *)
(* child first; main of "mutexadd" joins both and prints.                  *)
(***************************************************************************)
\* Mutant: the parent does not wait.
ExitAtOnce(p) ==
  /\ prog # "tickets" /\ pc[p] = "top" /\ rounds[p] = N
  /\ Goto(p, "exit")
  /\ sem' = IF prog \in Buffered THEN Undone(p) ELSE sem
  /\ main' = IF p = 1 THEN "done" ELSE main
  /\ UNCHANGED <<prog, rounds, val, reg, holder, sale>>

Exit(p) ==
  /\ prog # "tickets" /\ pc[p] = "top" /\ rounds[p] = N
  /\ p = 1 => pc[2] = "exit"
  /\ Goto(p, "exit")
  /\ sem' = IF prog \in Buffered THEN Undone(p) ELSE sem
  /\ main' = IF p = 1 THEN "done" ELSE main
  /\ UNCHANGED <<prog, rounds, val, reg, holder, sale>>

(***************************************************************************)
(* Tickets.                                                                *)
(***************************************************************************)
Sell(p) ==
  /\ prog = "tickets" /\ pc[p] = "top"
  /\ IF tickets = 0
     THEN Goto(p, "exit") /\ UNCHANGED <<tickets, sold, product>>
     ELSE /\ tickets' = tickets - 1 /\ sold' = sold + 1
          /\ product' = IF tickets = 1 /\ product = "wait" THEN "woken" ELSE product
          /\ UNCHANGED pc
  /\ UNCHANGED <<prog, rounds, val, reg, holder, sem, main>>

\* The thread takes the mutex; cond_wait may also return without a signal.
Product ==
  /\ prog = "tickets"
  /\ \/ product = "new" /\ product' = (IF tickets > 0 THEN "wait" ELSE "done") /\ UNCHANGED tickets
     \/ product \in {"wait", "woken"} /\ product' = "done" /\ tickets' = N
  /\ UNCHANGED <<prog, pc, rounds, val, reg, holder, sem, sold, main>>

\* main joins the sellers, destroys the mutex and the condition and returns.
JoinSellers ==
  /\ prog = "tickets" /\ main = "run" /\ \A p \in Procs : pc[p] = "exit"
  /\ main' = "done"
  /\ UNCHANGED <<prog, pc, rounds, val, reg, holder, sem, sale>>

Step(p) == \/ Acquire(p) \/ Load(p) \/ Store(p) \/ Release(p)
           \/ SemP(p) \/ SemV(p) \/ Exit(p) \/ Sell(p)

\* With main of "tickets" its threads end.
Alive == main = "run" \/ prog # "tickets"

AllEnded == main = "done" /\ \A p \in Procs : pc[p] = "exit"

Next == \/ Alive /\ ((\E p \in Procs : Step(p)) \/ Product \/ JoinSellers)
        \/ AllEnded /\ UNCHANGED vars

\* A lock that is free again and again is got.
FairSpec == Init /\ [][Next]_vars /\ WF_vars(JoinSellers)
                 /\ \A p \in Procs : SF_vars(Alive /\ Step(p))

(***************************************************************************)
(* Properties                                                              *)
(***************************************************************************)
\* The number that is printed at the end is that of the additions, where a lock
\* is held over each of them.
Exact == (main = "done" /\ prog \in Adding \ {"add"}) => val = 2 * N

\* The same without the lock.  Not so (multiadd.c:21).
AllExact == (main = "done" /\ prog \in Adding) => val = 2 * N

\* Every process comes to its end.  For the buffers this is so because the
\* producer waits for the consumer: its exit takes its products back.
Finishes == <>AllEnded

\* The mutex and the condition are destroyed when no thread uses them any more.
\* Not so (ticket.c:69): main does not join the third thread.
DestroyedUnused == (main = "done" /\ prog = "tickets") => product = "done"

\* All tickets that were put up are sold.  Not so (ticket.c:22): the sellers may
\* find none left and return before the third thread is awake.
AllSold == (main = "done" /\ prog = "tickets") => tickets = 0
=============================================================================
