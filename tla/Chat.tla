-------------------------------- MODULE Chat --------------------------------
(***************************************************************************)
(* Two people chat through two FIFOs.  File 1 goes from side 1 to side 2,  *)
(* file 2 the other way.  The module holds two versions of the program:    *)
(*   "pipe"  20190121/homework/chat/chat2.c (side 1) and chat1.c (side 2): *)
(*           what arrives is printed at once, the end of the standard      *)
(*           input closes the chat;                                        *)
(*   "ipc"   20190127/A.c (side 1) and B.c (side 2): the sides exchange    *)
(*           their pids, hand every line to a display of their own         *)
(*           (A1.c over a shared-memory slot, B1.c over a message queue),  *)
(*           and end after some minutes without a line.                    *)
(* A line is its number among the lines of the side that typed it.  A read *)
(* of the chat loop (128 bytes) takes all that is in the FIFO; the read of *)
(* the pid (10 bytes) takes a part that is not empty.                      *)
(* Left out: a line of 127 bytes or more, the end of the standard input of *)
(* "ipc" (read's 0 makes strlen(buf)-1 wrap, A.c:62), a message queue that *)
(* is full, and the bytes of a line that two processes copy at one time in *)
(* the shared memory (a line there is stored or not).                      *)
(***************************************************************************)
EXTENDS Naturals, Sequences

CONSTANTS Progs,    \* the versions to run, out of "pipe" and "ipc"
          Lines     \* bound: Lines[p] is the number of lines that side p types

Sides    == {1, 2}
Other(p) == 3 - p
Pid      == 0       \* the text of a pid; lines count from 1

VARIABLES prog, pc,
          begun,    \* how many of its two opens a side has called
          met,      \* the FIFOs that both sides have held open at one time
          pipe,     \* pipe[p]: what is written to side p and not read
          typed,    \* typed[p]: how many lines side p has sent
          ipc,      \* the display's memory or queue: "none", "made", "removed"
          queue,    \* what is handed to the display of side p
          slot,     \* what A1.c has copied out of the memory and not printed
          shown     \* what the person at side p sees, as <<whose, line>>
vars == <<prog, pc, begun, met, pipe, typed, ipc, queue, slot, shown>>

Init ==
  /\ prog \in Progs
  /\ pc = [p \in Sides |-> "setup"]
  /\ begun = [p \in Sides |-> 0]
  /\ met = {}
  /\ pipe = [p \in Sides |-> <<>>]
  /\ typed = [p \in Sides |-> 0]
  /\ ipc = [p \in Sides |-> "none"]
  /\ queue = [p \in Sides |-> <<>>]
  /\ slot = <<>>
  /\ shown = [p \in Sides |-> <<>>]

-----------------------------------------------------------------------------
(* Opening: open of a FIFO returns once the other end is held open too.    *)

Order(p) == <<1, 2>>             \* the files in the order side p opens them

Holds(p) == {Order(p)[k] : k \in 1 .. begun[p]}

Begin(p) ==
  /\ pc[p] = "setup"
  /\ begun' = [begun EXCEPT ![p] = @ + 1]
  /\ pc' = [pc EXCEPT ![p] = "open"]
  /\ met' = IF pc[Other(p)] = "end" THEN met
            ELSE met \union ({Order(p)[begun[p] + 1]} \intersect Holds(Other(p)))
  /\ UNCHANGED <<prog, pipe, typed, ipc, queue, slot, shown>>

FirstState(p) == IF prog = "pipe" THEN "loop"
                 ELSE IF p = 1 THEN "writePid" ELSE "readPid"

Opened(p) ==
  /\ pc[p] = "open"
  /\ Order(p)[begun[p]] \in met
  /\ pc' = [pc EXCEPT ![p] = IF begun[p] = 2 THEN FirstState(p) ELSE "setup"]
  /\ UNCHANGED <<prog, begun, met, pipe, typed, ipc, queue, slot, shown>>

-----------------------------------------------------------------------------
(* The pids of "ipc": side 1 writes and then reads, side 2 the other way.  *)
(* A write with no reader left ends the writer (SIGPIPE), without clear.   *)

(* After its second step a side gets the memory or the queue.              *)
AfterPid(p, second) ==
  /\ pc' = [pc EXCEPT ![p] = IF second THEN "loop"
                             ELSE IF p = 1 THEN "readPid" ELSE "writePid"]
  /\ ipc' = IF second THEN [ipc EXCEPT ![p] = "made"] ELSE ipc

WritePid(p) ==
  /\ pc[p] = "writePid"
  /\ IF pc[Other(p)] = "end"
     THEN pc' = [pc EXCEPT ![p] = "end"] /\ UNCHANGED <<pipe, ipc>>
     ELSE /\ pipe' = [pipe EXCEPT ![Other(p)] = Append(@, Pid)]
          /\ AfterPid(p, p = 2)
  /\ UNCHANGED <<prog, begun, met, typed, queue, slot, shown>>

ReadPid(p) ==
  /\ pc[p] = "readPid"
  /\ IF pipe[p] = <<>>
     THEN pc[Other(p)] = "end" /\ UNCHANGED pipe
     ELSE \E n \in 1 .. Len(pipe[p]) :
            pipe' = [pipe EXCEPT ![p] = SubSeq(@, n + 1, Len(@))]
  /\ AfterPid(p, p = 1)
  /\ UNCHANGED <<prog, begun, met, typed, queue, slot, shown>>

-----------------------------------------------------------------------------
(* The loop.  "pipe" shows what arrives at once (what is typed is on the   *)
(* terminal already); side 1 of "ipc" stores the last text in the memory;  *)
(* side 2 of "ipc" puts every text in the queue.                           *)

(* Mutant: the queue holds one text only, as the memory does.              *)
HandOverLast(p, items) ==
  IF prog = "pipe"
  THEN shown' = [shown EXCEPT ![p] = @ \o items] /\ UNCHANGED queue
  ELSE queue' = [queue EXCEPT ![p] = items] /\ UNCHANGED shown

HandOver(p, items) ==
  CASE prog = "pipe"            -> /\ shown' = [shown EXCEPT ![p] = @ \o items]
                                   /\ UNCHANGED queue
    [] prog = "ipc" /\ p = 1    -> /\ queue' = [queue EXCEPT ![p] = items]
                                   /\ UNCHANGED shown
    [] OTHER                    -> /\ queue' = [queue EXCEPT ![p] = @ \o items]
                                   /\ UNCHANGED shown

Marked(q, lines) == [k \in 1 .. Len(lines) |-> <<q, lines[k]>>]

(* A line typed at side p: write it, show it (FD_ISSET(STDIN_FILENO)).     *)
Say(p) ==
  /\ pc[p] = "loop" /\ typed[p] < Lines[p]
  /\ IF pc[Other(p)] = "end"
     THEN pc' = [pc EXCEPT ![p] = "end"] /\ UNCHANGED <<pipe, typed, queue, shown>>
     ELSE LET line == typed[p] + 1 IN
          /\ typed' = [typed EXCEPT ![p] = line]
          /\ pipe' = [pipe EXCEPT ![Other(p)] = Append(@, line)]
          /\ HandOver(p, Marked(p, <<line>>))
          /\ UNCHANGED pc
  /\ UNCHANGED <<prog, begun, met, ipc, slot>>

(* FD_ISSET(fdr): all that is there is read.  That it fits into the 128    *)
(* bytes of buf, with the mark and a NUL behind it (A.c:67-75, B.c:72-80), *)
(* is assumed: lines are short, and a read that fills buf is left out.     *)
Hear(p) ==
  /\ pc[p] = "loop" /\ pipe[p] # <<>>
  /\ HandOver(p, Marked(Other(p), pipe[p]))
  /\ pipe' = [pipe EXCEPT ![p] = <<>>]
  /\ UNCHANGED <<prog, pc, begun, met, typed, ipc, slot>>

(* The read returns 0: the other side is gone.                             *)
Clear(p) ==
  /\ pc' = [pc EXCEPT ![p] = "end"]
  /\ ipc' = IF ipc[p] = "made" THEN [ipc EXCEPT ![p] = "removed"] ELSE ipc
  /\ UNCHANGED <<prog, begun, met, pipe, typed, queue, slot, shown>>

(* Mutant: the answer to the end of the other side is forgotten.           *)
HearEndIgnored(p) ==
  /\ pc[p] = "loop" /\ pipe[p] = <<>> /\ pc[Other(p)] = "end"
  /\ UNCHANGED vars

HearEnd(p) ==
  /\ pc[p] = "loop" /\ pipe[p] = <<>> /\ pc[Other(p)] = "end"
  /\ Clear(p)

(* SIGINT at any place: clear in "ipc", the default action in "pipe".      *)
Interrupt(p) == pc[p] # "end" /\ Clear(p)

(* The end of the standard input in "pipe"; the time-out of select in      *)
(* "ipc", which returns from main and removes nothing.                     *)
Quit(p) ==
  /\ pc[p] = "loop"
  /\ prog = "ipc" => pipe[p] = <<>> /\ pc[Other(p)] # "end"
  /\ pc' = [pc EXCEPT ![p] = "end"]
  /\ UNCHANGED <<prog, begun, met, pipe, typed, ipc, queue, slot, shown>>

-----------------------------------------------------------------------------
(* The displays of "ipc".  B1.c ends when the queue is removed, with what  *)
(* is in it; A1.c copies the text and, once it is printed, clears as many  *)
(* bytes, whatever has been stored in between.                             *)

ShowQueue ==
  /\ prog = "ipc" /\ ipc[2] # "removed" /\ queue[2] # <<>>
  /\ shown' = [shown EXCEPT ![2] = Append(@, Head(queue[2]))]
  /\ queue' = [queue EXCEPT ![2] = Tail(@)]
  /\ UNCHANGED <<prog, pc, begun, met, pipe, typed, ipc, slot>>

CopySlot ==
  /\ prog = "ipc" /\ slot = <<>> /\ queue[1] # <<>>
  /\ slot' = queue[1]
  /\ UNCHANGED <<prog, pc, begun, met, pipe, typed, ipc, queue, shown>>

ShowSlot ==
  /\ slot # <<>>
  /\ shown' = [shown EXCEPT ![1] = @ \o slot]
  /\ slot' = <<>>
  /\ queue' = [queue EXCEPT ![1] = <<>>]
  /\ UNCHANGED <<prog, pc, begun, met, pipe, typed, ipc>>

Program(p) ==
  Begin(p) \/ Opened(p) \/ WritePid(p) \/ ReadPid(p) \/ Hear(p) \/ HearEnd(p)

Displays == ShowQueue \/ CopySlot \/ ShowSlot

Done == pc = [p \in Sides |-> "end"] /\ UNCHANGED vars

Next == \/ \E p \in Sides : Program(p) \/ Say(p) \/ Interrupt(p) \/ Quit(p)
        \/ Displays
        \/ Done

(* A program that can take its step takes it; people need not type.        *)
Fairness == (\A p \in Sides : WF_vars(Program(p))) /\ WF_vars(Displays)
FairSpec == Init /\ [][Next]_vars /\ Fairness

-----------------------------------------------------------------------------
(* Properties                                                              *)

(* The lines of side q among these are 1 .. n, all of them and in order.   *)
InOrder(q, items, n) ==
  LET theirs == {i \in 1 .. Len(items) : items[i][1] = q} IN
  /\ {items[i][2] : i \in theirs} = 1 .. n
  /\ \A i, j \in theirs : i < j => items[i][2] < items[j][2]

(* What has come to side p: its screen, what is handed to its display, and *)
(* what is in the FIFO.                                                    *)
Coming(p) == shown[p] \o queue[p] \o Marked(Other(p), pipe[p])

(* What one side types the other sees, all of it and in order: while a     *)
(* side chats, its screen, its queue and the FIFO hold together the lines  *)
(* of the other side.  Of "ipc" this is so only for the side with the      *)
(* queue: see AllShown.                                                    *)
NothingLost ==
  \A p \in Sides :
    pc[p] = "loop" /\ (prog = "ipc" => p = 2)
      => InOrder(Other(p), Coming(p), typed[Other(p)])

(* The same of both sides.  Not so: side 1 of "ipc" reads the first lines  *)
(* with the pid (A.c:35), and A1.c prints only what is still in the memory *)
(* when it looks, and clears what came after it (A1.c:8, A1.c:20).         *)
AllShown ==
  \A p \in Sides :
    pc[p] = "loop" => InOrder(Other(p), Coming(p), typed[Other(p)])

(* The two sides open the FIFOs in one order, so neither waits for ever in *)
(* open: both come through, or one is interrupted.                         *)
Connects ==
  <>(\/ \A p \in Sides : pc[p] \notin {"setup", "open"}
     \/ \E p \in Sides : pc[p] = "end")

(* Once the FIFOs are open the end of a side, however it comes, ends the   *)
(* other side too.                                                         *)
BothEnd ==
  \A p \in Sides : (met = {1, 2} /\ pc[p] = "end") ~> (pc[Other(p)] = "end")

(* The queue of a side that has ended is removed, so that B1.c ends.  Not  *)
(* so after a time-out or a broken FIFO (B.c:87: return without clear).    *)
QueueRemoved == (ipc[2] = "made" /\ pc[2] = "end") ~> (ipc[2] = "removed")

=============================================================================
