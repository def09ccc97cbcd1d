----------------------------- MODULE TransFile -----------------------------
(***************************************************************************)
(* FileServerAdvance's transfers: the client's data threads, the server's  *)
(* workers, and both copies of transFile/recvFile between them, from the   *)
(* moment the connection has been accepted as a data connection.           *)
(*                                                                         *)
(* A file is a sequence of chunks (1024 bytes in the code); the right      *)
(* content of a file of n chunks is <<1, ..., n>>, and Hole is a chunk that *)
(* ftruncate made.  A length and what it counts are one item on the wire:  *)
(* a connection that breaks inside one has lost it, but for the one length *)
(* that means something when it is torn (TornLength).                      *)
(***************************************************************************)
EXTENDS Naturals, Sequences, FiniteSets

CONSTANTS None,         \* no file, no command, no connection
          Threads,      \* data threads of one client
          Workers,      \* worker threads of the server
          Files,        \* names; each is transferred in one direction
          Puts,         \* the files of Files the client sends
          Size,         \* Size[f]: chunks of f
          Limit,        \* the largest size read and written without mmap (100 MB)
          Half,         \* what four bytes of an offset can count (2^32 bytes)
          Garbage,      \* upper halves a worker's uninitialised fileSize may have
          Patient,      \* the user waits until a thread has copied its command
          StopMapped,   \* a process may also die while it has a file mapped
          Torn,         \* a connection may break inside the four bytes of a length
          Window,       \* bound: items in flight on a connection
          MaxCommands, MaxBreaks, MaxStops   \* bounds

ASSUME SizeAssumption == Size \in [Files -> Nat] /\ Puts \subseteq Files
ASSUME EndsAssumption == Threads \cap Workers = {}
ASSUME LimitAssumption == Limit \in Nat /\ Half \in Nat \ {0} /\ Window \in Nat \ {0, 1}

Data == Files \union Nat \union {None}    \* what an item tells
Item == {"file", "offset", "name", "size", "chunk"} \X Data

ASSUME NoneAssumption == None \notin Files \union Threads \union Nat \union Seq(Data)

VARIABLES action,       \* the client's buffer for the command of the next thread
          at,           \* at[e]: where thread or worker e is
          file,         \* file[e]: the file e works on
          cur, total,   \* currentSize and totalSize of transFile and recvFile
          fileSize,     \* the offset with which transFile or recvFile is called
          peer,         \* peer[w]: the connection w serves, named by its thread
          wire,         \* wire[t][d]: what is under way to side d
          broken,       \* connections that have failed
          disk,         \* disk[s][f]: the content of f at side s
          received,     \* the files a recvFile has returned 0 for
          commands, breaks, stops   \* counters of the bounds

vars == <<action, at, file, cur, total, fileSize, peer, wire, broken, disk,
          received, commands, breaks, stops>>

local == <<file, cur, total, fileSize, peer>>
bounds == <<commands, breaks, stops>>

Hole == 0
EndOfFile == <<"chunk", None>>   \* a chunk of length 0
Ends == Threads \union Workers
Content(f) == [i \in 1..Size[f] |-> i]
Home(f) == IF f \in Puts THEN "client" ELSE "server"
Dest(f) == IF f \in Puts THEN "server" ELSE "client"

Side(e) == IF e \in Threads THEN "client" ELSE "server"
Other(e) == IF e \in Threads THEN "server" ELSE "client"
Conn(e) == IF e \in Threads THEN e ELSE peer[e]
In(e) == wire[Conn(e)][Side(e)]      \* items are <<kind, value>>
Arg(e) == Head(In(e))[2]
FileOf(e) == disk[Side(e)][file[e]]
Exists(e) == FileOf(e) # None
Large(n) == n > Limit
InFlight(t) == {w \in Workers : peer[w] = t}

NoWire == [s \in {"client", "server"} |-> <<>>]

Init == /\ action = None
        /\ at = [e \in Ends |-> "idle"]
        /\ file = [e \in Ends |-> None]
        /\ cur = [e \in Ends |-> 0]
        /\ total = [e \in Ends |-> 0]
        /\ \E h \in Garbage : fileSize = [e \in Ends |-> IF e \in Workers THEN h * Half ELSE 0]
        /\ peer = [w \in Workers |-> None]
        /\ wire = [t \in Threads |-> NoWire]
        /\ broken = {}
        /\ disk = [s \in {"client", "server"} |->
                     [f \in Files |-> IF s = Home(f) THEN Content(f) ELSE None]]
        /\ received = {}
        /\ commands = 0 /\ breaks = 0 /\ stops = 0

Goto(e, l) == at' = [at EXCEPT ![e] = l]

\* send_n: it fails on a connection that has failed.
CanSend(e) == Conn(e) \notin broken /\ Len(wire[Conn(e)][Other(e)]) < Window
Send(e, items) == wire' = [wire EXCEPT ![Conn(e)][Other(e)] = @ \o items]

\* recv_n: it takes what has arrived, and fails only when there is no more.
CanRecv(e) == In(e) # <<>>
Recv(e) == wire' = [wire EXCEPT ![Conn(e)][Side(e)] = Tail(@)]
RecvFails(e) == In(e) = <<>> /\ Conn(e) \in broken

\* The end of transFile, of recvFile and of the thread or the worker's turn:
\* both close the connection.  A sender has closed it in order (what it sent
\* still arrives).
Leave(e) == /\ Goto(e, IF e \in Threads THEN "done" ELSE "idle")
            /\ peer' = IF e \in Workers THEN [peer EXCEPT ![e] = None] ELSE peer

(***************************************************************************)
(* The client.                                                             *)
(***************************************************************************)

\* The main thread has the server's leave, copies the command into action and
\* starts a thread.  (The users considered do not transfer a file twice at once.)
Issue(t, f) ==
    /\ at[t] \in {"idle", "done"} /\ InFlight(t) = {} /\ wire[t]["server"] = <<>>
    /\ commands < MaxCommands
    /\ \A e \in Ends : at[e] \in {"idle", "done"} \/ file[e] # f
    /\ \A u \in Threads : at[u] = "start" => ~Patient /\ action # f
    /\ action' = f
    /\ Goto(t, "start")
    /\ wire' = [wire EXCEPT ![t] = NoWire]
    /\ broken' = broken \ {t}
    /\ commands' = commands + 1
    /\ UNCHANGED <<local, disk, received, breaks, stops>>

\* The thread copies the command from the shared buffer and sends it once its
\* connection is accepted; for gets it also says how much it has already.
ThreadStart(t) ==
    LET f == action
        mine == disk["client"][f]
        size == IF mine = None THEN None ELSE Len(mine)
    IN /\ at[t] = "start"
       /\ file' = [file EXCEPT ![t] = f]
       /\ Goto(t, IF f \in Puts THEN "answer" ELSE "name")
       /\ cur' = [cur EXCEPT ![t] = IF f \in Puts \/ size = None THEN 0 ELSE size]
       /\ fileSize' = [fileSize EXCEPT ![t] = cur'[t]]
       /\ wire' = IF t \in broken THEN wire
                  ELSE [wire EXCEPT ![t]["server"] =
                          IF f \in Puts THEN << <<"file", f>> >>
                          ELSE << <<"file", f>>, <<"offset", size>> >>]
       /\ UNCHANGED <<action, total, peer, broken, disk, received, bounds>>

\* Mutant: puts ignores how much the server has.
PutsFromStart(t) ==
    /\ at[t] = "answer"
    /\ CanRecv(t) /\ Recv(t)
    /\ cur' = [cur EXCEPT ![t] = 0] /\ fileSize' = [fileSize EXCEPT ![t] = 0]
    /\ Goto(t, "head")
    /\ UNCHANGED <<action, file, total, peer, broken, disk, received, bounds>>

\* puts: the answer says from where to send.  A failed recv_n leaves fileSize
\* at its initial 0.
PutsOffset(t) ==
    /\ at[t] = "answer"
    /\ \/ /\ CanRecv(t)
          /\ cur' = [cur EXCEPT ![t] = Arg(t)]
          /\ Recv(t)
       \/ /\ RecvFails(t)
          /\ cur' = [cur EXCEPT ![t] = 0]
          /\ UNCHANGED wire
    /\ fileSize' = [fileSize EXCEPT ![t] = cur'[t]]
    /\ Goto(t, "head")
    /\ UNCHANGED <<action, file, total, peer, broken, disk, received, bounds>>

(***************************************************************************)
(* The worker.                                                             *)
(***************************************************************************)

\* It pops a connection and receives the command again.
Take(w, t) ==
    /\ at[w] = "idle" /\ InFlight(t) = {}
    /\ wire[t]["server"] # <<>>
    /\ file' = [file EXCEPT ![w] = Head(wire[t]["server"])[2]]
    /\ peer' = [peer EXCEPT ![w] = t]
    /\ wire' = [wire EXCEPT ![t]["server"] = Tail(@)]
    /\ Goto(w, "command")
    /\ UNCHANGED <<action, cur, total, fileSize, broken, disk, received, bounds>>

\* puts: the size of what is there is the offset to go on from.
PutsAnswer(w) ==
    LET size == IF Exists(w) THEN Len(FileOf(w)) ELSE 0
    IN /\ at[w] = "command" /\ file[w] \in Puts
       /\ cur' = [cur EXCEPT ![w] = size]
       /\ fileSize' = [fileSize EXCEPT ![w] = size]
       /\ IF Conn(w) \in broken THEN UNCHANGED wire ELSE Send(w, << <<"offset", size>> >>)
       /\ Goto(w, "name")
       /\ UNCHANGED <<action, file, total, peer, broken, disk, received, bounds>>

\* Mutant: gets ignores how much the client has.
GetsFromStart(w) ==
    /\ at[w] = "command" /\ file[w] \notin Puts
    /\ CanRecv(w) /\ Recv(w)
    /\ fileSize' = [fileSize EXCEPT ![w] = 0] /\ cur' = [cur EXCEPT ![w] = 0]
    /\ Goto(w, "head")
    /\ UNCHANGED <<action, file, total, peer, broken, disk, received, bounds>>

\* gets: the client's 8-byte offset is received with sizeof(int), so fileSize
\* keeps its own upper half; a client without the file says so with a flag.
GetsOffset(w) ==
    LET Lower(n) == IF n = None THEN 0 ELSE (fileSize[w] \div Half) * Half + (n % Half)
    IN /\ at[w] = "command" /\ file[w] \notin Puts
       /\ \/ CanRecv(w) /\ Recv(w) /\ fileSize' = [fileSize EXCEPT ![w] = Lower(Arg(w))]
          \/ RecvFails(w) /\ fileSize' = [fileSize EXCEPT ![w] = 0] /\ UNCHANGED wire
       /\ cur' = [cur EXCEPT ![w] = fileSize'[w]]
       /\ Goto(w, "head")
       /\ UNCHANGED <<action, file, total, peer, broken, disk, received, bounds>>
(***************************************************************************)
(* transFile.                                                              *)
(***************************************************************************)

\* Name and size of the file.  Any send that fails ends it with -1.
SendHead(e) ==
    /\ at[e] = "head"
    /\ CanSend(e)
    /\ Send(e, << <<"name", file[e]>>, <<"size", Len(FileOf(e))>> >>)
    /\ total' = [total EXCEPT ![e] = Len(FileOf(e))]
    /\ Goto(e, "send")
    /\ UNCHANGED <<action, file, cur, fileSize, peer, broken, disk, received, bounds>>

SendChunk(e) ==
    /\ at[e] = "send"
    /\ CanSend(e)
    /\ cur[e] < (IF Large(total[e]) THEN total[e] ELSE Len(FileOf(e)))
    /\ Send(e, << <<"chunk", FileOf(e)[cur[e] + 1]>> >>)
    /\ cur' = [cur EXCEPT ![e] = @ + 1]
    /\ UNCHANGED <<action, at, file, total, fileSize, peer, broken, disk, received, bounds>>

\* Up to Limit a length of 0 ends the file; above it both ends count.
SendEnd(e) ==
    /\ at[e] = "send"
    /\ cur[e] >= (IF Large(total[e]) THEN total[e] ELSE Len(FileOf(e)))
    /\ IF Large(total[e]) THEN UNCHANGED wire ELSE CanSend(e) /\ Send(e, <<EndOfFile>>)
    /\ Leave(e)
    /\ UNCHANGED <<action, file, cur, total, fileSize, broken, disk, received, bounds>>

SendFails(e) ==
    /\ at[e] \in {"head", "send"} /\ Conn(e) \in broken
    /\ Leave(e)
    /\ UNCHANGED <<action, file, cur, total, fileSize, wire, broken, disk, received, bounds>>

(***************************************************************************)
(* recvFile.                                                               *)
(***************************************************************************)

\* The name; the file is opened, and made if it is not there.
RecvName(e) ==
    /\ at[e] = "name" /\ CanRecv(e)
    /\ Recv(e)
    /\ disk' = IF Exists(e) THEN disk ELSE [disk EXCEPT ![Side(e)][file[e]] = <<>>]
    /\ Goto(e, "size")
    /\ UNCHANGED <<action, local, broken, received, bounds>>

\* The size; above Limit the file gets it at once.
RecvSize(e) ==
    LET n == Arg(e)
        old == FileOf(e)
    IN /\ at[e] = "size" /\ CanRecv(e)
       /\ Recv(e)
       /\ total' = [total EXCEPT ![e] = n]
       /\ disk' = IF ~Large(n) THEN disk
                  ELSE [disk EXCEPT ![Side(e)][file[e]] =
                          [i \in 1..n |-> IF i <= Len(old) THEN old[i] ELSE Hole]]
       /\ Goto(e, "recv")
       /\ UNCHANGED <<action, file, cur, fileSize, peer, broken, received, bounds>>

\* A chunk is appended (O_APPEND), or copied to its place in the mapped file.
RecvChunk(e) ==
    LET x == Arg(e)
    IN /\ at[e] = "recv" /\ CanRecv(e) /\ Head(In(e)) # EndOfFile
       /\ Large(total[e]) => cur[e] < total[e]
       /\ Recv(e)
       /\ disk' = [disk EXCEPT ![Side(e)][file[e]] =
                     IF Large(total[e]) THEN [@ EXCEPT ![cur[e] + 1] = x] ELSE Append(@, x)]
       /\ cur' = [cur EXCEPT ![e] = @ + 1]
       /\ UNCHANGED <<action, at, file, total, fileSize, peer, broken, received, bounds>>

RecvEnd(e) ==
    /\ at[e] = "recv"
    /\ IF Large(total[e])
       THEN cur[e] >= total[e] /\ UNCHANGED wire
       ELSE CanRecv(e) /\ Head(In(e)) = EndOfFile /\ Recv(e)
    /\ received' = received \union {file[e]}
    /\ Leave(e)
    /\ UNCHANGED <<action, file, cur, total, fileSize, broken, disk, bounds>>

\* The mapped file is cut back to what has arrived.
Truncated(e) == [disk EXCEPT ![Side(e)][file[e]] =
                   SubSeq(@, 1, IF cur[e] < Len(@) THEN cur[e] ELSE Len(@))]

\* Mutant: a connection that fails between chunks is not noticed.
RecvFailedUnnoticed(e) ==
    /\ at[e] \in {"name", "size"} /\ RecvFails(e)
    /\ Leave(e)
    /\ UNCHANGED <<action, file, cur, total, fileSize, wire, broken, disk, received, bounds>>

\* A length of 0 is looked for before recv_n's result.  The length of the first
\* chunk is received over the 8 that the length of the size has left: if only its
\* lowest byte comes, and that is 0 (a full chunk has 1024 bytes), it reads as 0.
\* So does a part of the end's own length.
TornLength(e) ==
    Torn /\ at[e] = "recv" /\ ~Large(total[e]) /\ cur[e] \in {fileSize[e], total[e]}

\* What has been received fails; after a torn length recvFile returns 0 all the same.
RecvFailed(e) ==
    /\ at[e] \in {"name", "size", "recv"} /\ RecvFails(e)
    /\ at[e] = "recv" /\ Large(total[e]) => cur[e] < total[e]
    /\ disk' = IF at[e] = "recv" /\ Large(total[e]) THEN Truncated(e) ELSE disk
    /\ received' \in {received, IF TornLength(e) THEN received \union {file[e]} ELSE received}
    /\ Leave(e)
    /\ UNCHANGED <<action, file, cur, total, fileSize, wire, broken, bounds>>

(***************************************************************************)
(* Failures.                                                               *)
(***************************************************************************)

\* A connection fails; only a part of what is under way still arrives.
Break(t) ==
    /\ breaks < MaxBreaks /\ t \notin broken
    /\ at[t] \notin {"idle", "done"} \/ InFlight(t) # {}
    /\ broken' = broken \union {t}
    /\ \E s \in {"client", "server"} : \E n \in 0..Len(wire[t][s]) :
          wire' = [wire EXCEPT ![t] = [NoWire EXCEPT ![s] = SubSeq(wire[t][s], 1, n)]]
    /\ breaks' = breaks + 1
    /\ UNCHANGED <<action, at, local, disk, received, commands, stops>>

Mapped(e) == at[e] = "recv" /\ Large(total[e])

\* The server, or the client, is killed and started again.
Stop(s) ==
    LET es == IF s = "client" THEN Threads ELSE Workers
    IN /\ stops < MaxStops
       /\ \E e \in es : at[e] \notin {"idle", "done"}
       /\ StopMapped \/ \A e \in es : ~Mapped(e)
       /\ at' = [e \in Ends |-> IF e \in es THEN "idle" ELSE at[e]]
       /\ peer' = IF s = "server" THEN [w \in Workers |-> None] ELSE peer
       /\ broken' = Threads
       /\ wire' = [t \in Threads |-> [wire[t] EXCEPT ![s] = <<>>]]
       /\ stops' = stops + 1
       /\ UNCHANGED <<action, file, cur, total, fileSize, disk, received, commands, breaks>>

\* The two copies of the two functions.
ClientTransFile(t) == SendHead(t) \/ SendChunk(t) \/ SendEnd(t) \/ SendFails(t)
ClientRecvFile(t) == RecvName(t) \/ RecvSize(t) \/ RecvChunk(t) \/ RecvEnd(t) \/ RecvFailed(t)
ServerTransFile(w) == SendHead(w) \/ SendChunk(w) \/ SendEnd(w) \/ SendFails(w)
ServerRecvFile(w) == RecvName(w) \/ RecvSize(w) \/ RecvChunk(w) \/ RecvEnd(w) \/ RecvFailed(w)

ThreadStep(t) == ThreadStart(t) \/ PutsOffset(t) \/ ClientTransFile(t) \/ ClientRecvFile(t)
WorkerStep(w) == \/ \E t \in Threads : Take(w, t)
                 \/ PutsAnswer(w) \/ GetsOffset(w)
                 \/ ServerTransFile(w) \/ ServerRecvFile(w)

Next == \/ \E t \in Threads : \E f \in Files : Issue(t, f)
        \/ \E t \in Threads : ThreadStep(t)
        \/ \E w \in Workers : WorkerStep(w)
        \/ \E t \in Threads : Break(t)
        \/ Stop("client") \/ Stop("server")

Spec == Init /\ [][Next]_vars
Fair == /\ \A t \in Threads : WF_vars(ThreadStep(t))
        /\ \A w \in Workers : WF_vars(WorkerStep(w))
FairSpec == Spec /\ Fair

(***************************************************************************)
(* Properties                                                              *)
(***************************************************************************)

Place == {"idle", "start", "answer", "command", "head", "send", "name", "size",
          "recv", "done"}

\* The fields keep their kinds; a worker serves somebody exactly when it is busy.
TypeOK ==
    /\ action \in Files \union {None}
    /\ at \in [Ends -> Place]
    /\ file \in [Ends -> Files \union {None}]
    /\ cur \in [Ends -> Nat] /\ total \in [Ends -> Nat]
    /\ fileSize \in [Ends -> Nat]
    /\ peer \in [Workers -> Threads \union {None}]
    /\ \A w \in Workers : peer[w] = None <=> at[w] = "idle"
    /\ wire \in [Threads -> [{"client", "server"} -> Seq(Item)]]
    /\ \A t \in Threads : \A s \in {"client", "server"} : Len(wire[t][s]) <= Window
    /\ broken \subseteq Threads /\ received \subseteq Files
    /\ disk \in [{"client", "server"} -> [Files -> Seq(Data) \union {None}]]

Same(s, f) == disk[s][f] = Content(f)

\* What a recvFile has returned 0 for is the whole file ("gets success").  Not so
\* with Torn (transFile.cpp:144), StopMapped or offsets above four bytes.
SuccessMeansSame == \A f \in received : Same(Dest(f), f)

\* The two ends of a running transfer count from the same byte, although each
\* has its own offset: what is under way is exactly what the receiver lacks.
EndsAgree ==
    \A e, r \in Ends :
        /\ at[e] = "send" /\ at[r] \in {"name", "size", "recv"}
        /\ Conn(e) = Conn(r) /\ Conn(e) \notin broken
        => cur[e] = cur[r] + Cardinality({i \in 1..Len(In(r)) : In(r)[i][1] = "chunk"})

\* Every command is carried out by the one thread that was started for it.
\* Not so (client.cpp:384): threads that start late copy the same later command.
ThreadOwnsCommand ==
    \A t, u \in Threads :
        t # u /\ {at[t], at[u]} \intersect {"idle", "start", "done"} = {} => file[t] # file[u]

\* Both ends of every transfer come to an end, whatever breaks.
TransfersEnd == \A e \in Ends : at[e] \notin {"idle", "done"} ~> at[e] \in {"idle", "done"}

\* The right chunks at the beginning of f at its destination.
Arrived(f) ==
    LET d == disk[Dest(f)][f]
    IN IF d = None \/ Len(d) > Size[f] THEN 0
       ELSE CHOOSE n \in 0..Len(d) : /\ \A i \in 1..n : d[i] = i
                                     /\ n = Len(d) \/ d[n + 1] # n + 1

Abstract == INSTANCE Copy WITH have <- [f \in Files |-> Arrived(f)]

\* The transfers implement Copy: progress is never lost, chunks come in order,
\* success is told only of a whole file, if no connection breaks inside the first
\* length of a file (~Torn: transFile.cpp:144, client/transFile.cpp:160).
ImplementsCopy == Abstract!Spec
=============================================================================
