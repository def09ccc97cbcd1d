-------------------------- MODULE TransFileProofs --------------------------
(***************************************************************************)
(* The transfers of FileServerAdvance for every number of threads, workers *)
(* and files, every size, window and limit: both ends count from the same  *)
(* byte, a file called received is the file, and nothing that has arrived  *)
(* is lost.                                                                *)
(*                                                                         *)
(* None of this is inductive.  That a chunk is appended where it belongs   *)
(* takes that all that is under way to a receiver is the beginning of what *)
(* it waits for (StreamOK), which in turn takes what each end knows of the *)
(* other in every pair of places (Sync), who may still write a file once   *)
(* the other end is gone (Holds: a worker may go on writing after its      *)
(* thread has left), and what is on the disks (DiskInv).                   *)
(***************************************************************************)
EXTENDS TransFile, SequenceTheorems, FiniteSetTheorems, TLAPS

(* The files the client receives.                                          *)
Gets == Files \ Puts

(* The places of recvFile.                                                 *)
Receiving == {"name", "size", "recv"}

(* What is under way to the worker, and to the thread.                     *)
Up(t) == wire[t]["server"]
Down(t) == wire[t]["client"]

(* What is still to come before the chunks.                                *)
Heads(r) == IF at[r] = "name" THEN 2 ELSE IF at[r] = "size" THEN 1 ELSE 0

(* The number of the last item after the heads.                            *)
Whole(f) == Size[f] + (IF Large(Size[f]) THEN 0 ELSE 1)

(* The i-th item for a receiver of f that waits for h heads and has c      *)
(* chunks.                                                                 *)
Script(f, h, c, i) ==
    IF i < h THEN <<"name", f>>
    ELSE IF i = h THEN <<"size", Size[f]>>
    ELSE IF c + i - h <= Size[f] THEN <<"chunk", c + i - h>> ELSE EndOfFile

(* All that is under way to r is the beginning of what it waits for.       *)
StreamOK(r) ==
    /\ cur[r] <= Size[file[r]]
    /\ Len(In(r)) + cur[r] <= Heads(r) + Whole(file[r])
    /\ \A i \in 1..Len(In(r)) : In(r)[i] = Script(file[r], Heads(r), cur[r], i)

(* What tells the other end where to go on.                                *)
Says(item, n) == item[1] = "offset" /\ (item[2] = n \/ (item[2] = None /\ n = 0))

(* The thread's part.                                                      *)
ThreadOK(t) ==
    /\ at[t] # "command"
    /\ at[t] \in {"answer", "head", "send"} => file[t] \in Puts
    /\ at[t] \in Receiving => file[t] \in Gets /\ StreamOK(t)
    /\ at[t] = "start" => /\ action \in Files /\ Up(t) = <<>> /\ Down(t) = <<>>
                          /\ InFlight(t) = {}
    /\ at[t] = "answer" => \/ Down(t) = <<>>
                           \/ Len(Down(t)) = 1 /\ Down(t)[1][1] = "offset" /\ Down(t)[1][2] \in Nat
    /\ at[t] = "send" => total[t] = Size[file[t]] /\ cur[t] <= Size[file[t]]
    /\ at[t] = "recv" => total[t] = Size[file[t]]

(* Nobody serves t: the command may be under way.                          *)
Alone(t) ==
    /\ Up(t) # <<>> =>
         /\ Up(t)[1][1] = "file" /\ Up(t)[1][2] \in Files
         /\ Up(t)[1][2] \in Puts => Len(Up(t)) = 1
         /\ Len(Up(t)) <= 2
         /\ Len(Up(t)) = 2 => Up(t)[2][1] = "offset" /\ Up(t)[2][2] \in Nat \cup {None}
         /\ at[t] \notin {"idle", "done"} => file[t] = Up(t)[1][2]
         /\ t \notin broken =>
              /\ at[t] \in {"answer", "name"} /\ Down(t) = <<>>
              /\ Up(t)[1][2] \in Gets => Len(Up(t)) = 2 /\ Says(Up(t)[2], cur[t])
    /\ t \notin broken =>
         /\ at[t] = "answer" => Up(t) # <<>>
         /\ at[t] # "head"
         /\ at[t] = "send" => Large(Size[file[t]]) /\ cur[t] = Size[file[t]]

(* The worker's part, w serving t.                                         *)
WorkerOK(w, t) ==
    /\ at[w] \in {"command", "head", "send"} \cup Receiving
    /\ at[w] \in Receiving => file[w] \in Puts
    /\ at[w] \in {"head", "send"} => file[w] \in Gets
    /\ file[w] \in Files
    /\ at[t] # "start"
    /\ at[t] \notin {"idle", "done"} => file[t] = file[w]
    /\ at[w] = "command" =>
         /\ file[w] \in Puts => Up(t) = <<>>
         /\ Up(t) # <<>> => /\ Len(Up(t)) = 1 /\ Up(t)[1][1] = "offset"
                            /\ Up(t)[1][2] \in Nat \cup {None}
    /\ at[w] \in {"head", "send"} => Up(t) = <<>>
    /\ at[w] \in Receiving => StreamOK(w)
    /\ at[w] = "send" => total[w] = Size[file[w]] /\ cur[w] <= Size[file[w]]
    /\ at[w] = "recv" => total[w] = Size[file[w]]

(* How the two parts fit together.                                         *)
Sync(w, t) ==
    /\ at[w] = "command" => /\ Down(t) = <<>>
                            /\ file[w] \in Puts => at[t] = "answer"
                            /\ file[w] \in Gets => /\ at[t] = "name" /\ Len(Up(t)) = 1
                                                   /\ Says(Up(t)[1], cur[t])
    /\ at[t] = "answer" /\ at[w] # "command" => /\ at[w] = "name" /\ Up(t) = <<>>
                                                /\ Down(t) = << <<"offset", cur[w]>> >>
    /\ at[t] = "head" => at[w] = "name" /\ Up(t) = <<>> /\ cur[w] = cur[t]
    /\ at[t] = "send" => /\ at[w] \in Receiving /\ cur[w] <= cur[t]
                      /\ Len(Up(t)) + cur[w] = Heads(w) + cur[t]
    /\ at[w] = "head" => at[t] = "name" /\ Down(t) = <<>> /\ cur[w] = cur[t]
    /\ at[w] = "send" => \/ /\ at[t] \in Receiving /\ cur[t] <= cur[w]
                            /\ Len(Down(t)) + cur[t] = Heads(t) + cur[w]
                         \/ at[t] = "done" /\ Large(Size[file[w]]) /\ cur[w] = Size[file[w]]

(* On a connection that has failed there is nothing to agree on any more.  *)
Served(w, t) == WorkerOK(w, t) /\ (t \notin broken => Sync(w, t))

(* A connection, served by a worker or not yet.                            *)
ConnOK(t) ==
    /\ ThreadOK(t)
    /\ InFlight(t) = {} => Alone(t)
    /\ \A w \in InFlight(t) : Served(w, t)

(* No two workers serve one connection; a command in the shared buffer is  *)
(* for one thread; an offset fits into four bytes.                         *)
OneWorker == \A w, v \in Workers : peer[w] = peer[v] /\ peer[w] # None => w = v
OneStart == \A t, u \in Threads : at[t] = "start" /\ at[u] = "start" => t = u
Offsets == \A w \in Workers : fileSize[w] < Half

(* The connections.                                                        *)
ConnInv == OneWorker /\ OneStart /\ Offsets /\ \A t \in Threads : ConnOK(t)

(* Who may still write f.                                                  *)
Writing(w) == at[w] \in {"size", "recv"} \/ (at[w] = "name" /\ Up(peer[w]) # <<>>)

(* A file is held by the connection on which it may be written, from the   *)
(* command on.                                                             *)
Holds(t, f) ==
    \/ at[t] = "start" /\ action = f
    \/ at[t] \notin {"idle", "done", "start"} /\ file[t] = f
    \/ \E w \in InFlight(t) : file[w] = f /\ Writing(w)

(* No file is held by two connections.                                     *)
OneHolder == \A t, u \in Threads, f \in Files : Holds(t, f) /\ Holds(u, f) => t = u

(* The receiver's copy of f.                                               *)
There(f) == disk[Dest(f)][f]

(* How much of it there is.                                                *)
Length(d) == IF d = None THEN 0 ELSE Len(d)

(* A copy that is not mapped is a beginning of f.                          *)
Prefix(f) == LET d == There(f) IN d # None => Len(d) <= Size[f] /\ \A i \in 1..Len(d) : d[i] = i

(* Who writes, or will write, the file it has in hand.                     *)
Attached(r) ==
    IF r \in Threads THEN at[r] \in Receiving
    ELSE Writing(r) \/ (at[r] = "name" /\ at[peer[r]] \in {"answer", "head", "send"})

(* It has the whole file mapped.                                           *)
IsMapped(r) == at[r] = "recv" /\ Large(Size[file[r]])

(* It counts what is there, or in a mapped file what is before the holes.  *)
ReceiverOK(r) ==
    LET d == There(file[r]) IN
    /\ ~IsMapped(r) => cur[r] = Length(d)
    /\ at[r] \in {"size", "recv"} => d # None
    /\ IsMapped(r) => /\ Len(d) = Size[file[r]]
                      /\ \A i \in 1..Len(d) : d[i] = IF i <= cur[r] THEN i ELSE Hole

(* The originals are untouched, and the copies are what the receivers      *)
(* count.                                                                  *)
DiskInv ==
    /\ \A f \in Files : disk[Home(f)][f] = Content(f)
    /\ \A f \in Files : (\A r \in Ends : IsMapped(r) => file[r] # f) => Prefix(f)
    /\ \A r \in Ends : Attached(r) => ReceiverOK(r)

(* What has been received is the whole file.                               *)
ReceivedOK == \A f \in received : There(f) = Content(f)

(* The inductive invariant.                                                *)
IInv == TypeOK /\ ConnInv /\ OneHolder /\ DiskInv /\ ReceivedOK

(* The conditions under which the promise is kept: the user waits for the  *)
(* thread to copy the command, no process dies with a file mapped, no      *)
(* connection breaks inside the four bytes of a length, fileSize starts at *)
(* 0, and an offset fits into the four bytes received of it.               *)
(* MCTransFileDocs.cfg shows what happens without the first, the second,   *)
(* the third and the last.                                                 *)
Good == /\ Patient /\ ~StopMapped /\ ~Torn /\ Garbage = {0}
        /\ \A f \in Files : Size[f] < Half

-----------------------------------------------------------------------------
(* Types.                                                                  *)

(* A head that is received leaves the stream, a chunk goes from it to what  *)
(* is counted: the balance of both, x and then y, stays with the sender's d. *)
LEMMA Balance ==
    \A x, y, h, k, d \in Nat :
        x = h + d /\ x + k = y + h => y = k + d /\ (k = 0 => y = d)
  OBVIOUS

(* A data thread is a client's end, named like its connection.             *)
LEMMA ThreadEnd ==
    ASSUME NEW t \in Threads
    PROVE  /\ Side(t) = "client" /\ Other(t) = "server" /\ Conn(t) = t
           /\ In(t) = Down(t) /\ t \in Ends /\ t \notin Workers
  BY EndsAssumption DEF Side, Other, Conn, In, Down, Ends

(* A worker is a server's end; its connection is the one it serves.        *)
LEMMA WorkerEnd ==
    ASSUME NEW w \in Workers
    PROVE  /\ Side(w) = "server" /\ Other(w) = "client" /\ Conn(w) = peer[w]
           /\ In(w) = Up(peer[w]) /\ w \in Ends /\ w \notin Threads
  BY EndsAssumption DEF Side, Other, Conn, In, Up, Ends

(* The two sides of a connection.                                          *)
Sides == {"client", "server"}

(* The two sides of an end are two sides.                                  *)
LEMMA SidesOf ==
    ASSUME NEW e \in Ends
    PROVE  Side(e) \in Sides /\ Other(e) \in Sides /\ Side(e) # Other(e)
  BY DEF Side, Other, Sides

(* send_n appends to what is under way to the other side, and leaves the   *)
(* rest.                                                                   *)
LEMMA SendWire ==
    ASSUME TypeOK, NEW e \in Ends, Conn(e) \in Threads, NEW items \in Seq(Item),
           Send(e, items)
    PROVE  /\ wire' \in [Threads -> [Sides -> Seq(Item)]]
           /\ wire'[Conn(e)][Other(e)] = wire[Conn(e)][Other(e)] \o items
           /\ wire'[Conn(e)][Side(e)] = wire[Conn(e)][Side(e)]
           /\ \A u \in Threads : u # Conn(e) => wire'[u] = wire[u]
  <1>1. wire \in [Threads -> [Sides -> Seq(Item)]]
    BY DEF TypeOK, Sides
  <1>2. wire[Conn(e)][Other(e)] \o items \in Seq(Item)
    BY <1>1, SidesOf, ConcatProperties
  <1> QED
    BY <1>1, <1>2, SidesOf DEF Send

(* recv_n takes the first item of what is under way to its side, and       *)
(* leaves the rest.                                                        *)
LEMMA RecvWire ==
    ASSUME TypeOK, NEW e \in Ends, Conn(e) \in Threads, CanRecv(e), Recv(e)
    PROVE  /\ wire' \in [Threads -> [Sides -> Seq(Item)]]
           /\ wire'[Conn(e)][Side(e)] = Tail(In(e))
           /\ wire'[Conn(e)][Other(e)] = wire[Conn(e)][Other(e)]
           /\ \A u \in Threads : u # Conn(e) => wire'[u] = wire[u]
           /\ In(e) \in Seq(Item) /\ Len(Tail(In(e))) = Len(In(e)) - 1
           /\ Head(In(e)) = In(e)[1] /\ In(e)[1] \in Item
           /\ \A i \in 1..Len(In(e)) - 1 : Tail(In(e))[i] = In(e)[i + 1]
  <1>1. wire \in [Threads -> [Sides -> Seq(Item)]]
    BY DEF TypeOK, Sides
  <1>2. In(e) \in Seq(Item) /\ In(e) # <<>>
    BY <1>1, SidesOf DEF In, CanRecv
  <1>3. /\ Tail(In(e)) \in Seq(Item) /\ Len(Tail(In(e))) = Len(In(e)) - 1
        /\ Head(In(e)) = In(e)[1] /\ In(e)[1] \in Item
        /\ \A i \in 1..Len(In(e)) - 1 : Tail(In(e))[i] = In(e)[i + 1]
    BY <1>2, SMT
  <1> QED
    BY <1>1, <1>2, <1>3, SidesOf DEF Recv, In

(* A step to l moves e alone.                                              *)
LEMMA GotoAt ==
    ASSUME TypeOK, NEW e \in Ends, NEW l \in Place, Goto(e, l)
    PROVE  /\ at' \in [Ends -> Place] /\ at'[e] = l
           /\ \A x \in Ends : x # e => at'[x] = at[x]
  BY DEF TypeOK, Goto

(* An end that leaves moves alone; a worker is free again.                 *)
LEMMA LeaveAt ==
    ASSUME TypeOK, NEW e \in Ends, Leave(e)
    PROVE  /\ at' \in [Ends -> Place] /\ peer' \in [Workers -> Threads \union {None}]
           /\ \A x \in Ends : x # e => at'[x] = at[x]
           /\ \A w \in Workers : w # e => peer'[w] = peer[w]
           /\ e \in Threads => at'[e] = "done" /\ peer' = peer
           /\ e \in Workers => at'[e] = "idle" /\ peer'[e] = None
  <1>1. CASE e \in Threads
    BY <1>1, ThreadEnd, GotoAt DEF Leave, Place, TypeOK
  <1>2. CASE e \in Workers
    BY <1>2, WorkerEnd, GotoAt DEF Leave, Place, TypeOK
  <1> QED
    BY <1>1, <1>2 DEF Ends

(* A transfer is of a known file on a known connection: a sender has the   *)
(* file at home, a receiver at its destination, and the receiver's stream  *)
(* is in order.                                                            *)
LEMMA Kinds ==
    ASSUME IInv, NEW e \in Ends, at[e] \in {"command", "head", "send"} \cup Receiving
    PROVE  /\ file[e] \in Files /\ Conn(e) \in Threads
           /\ at[e] \in {"head", "send"} =>
                /\ Side(e) = Home(file[e]) /\ FileOf(e) = Content(file[e])
                /\ Len(FileOf(e)) = Size[file[e]] /\ FileOf(e) \in Seq(Nat)
           /\ at[e] \in Receiving =>
                /\ Side(e) = Dest(file[e]) /\ FileOf(e) = There(file[e])
                /\ StreamOK(e)
  <1>1. CASE e \in Threads
    <2>1. ThreadOK(e) /\ Conn(e) = e /\ Side(e) = "client"
      BY <1>1, ThreadEnd DEF IInv, ConnInv, ConnOK
    <2>2. file[e] \in Files /\ (at[e] \in {"head", "send"} => file[e] \in Puts)
          /\ (at[e] \in Receiving => file[e] \notin Puts /\ StreamOK(e))
      BY <2>1, SizeAssumption DEF ThreadOK, Gets, Receiving
    <2>3. at[e] \in {"head", "send"} => Side(e) = Home(file[e]) /\ FileOf(e) = Content(file[e])
      BY <2>1, <2>2 DEF Home, FileOf, IInv, DiskInv
    <2>4. at[e] \in Receiving => Side(e) = Dest(file[e]) /\ FileOf(e) = There(file[e])
      BY <2>1, <2>2 DEF Dest, FileOf, There
    <2>5. Content(file[e]) \in Seq(Nat) /\ Len(Content(file[e])) = Size[file[e]]
      BY <2>2, SizeAssumption DEF Content
    <2> QED
      BY <1>1, <2>1, <2>2, <2>3, <2>4, <2>5
  <1>2. CASE e \in Workers
    <2>1. peer[e] \in Threads /\ e \in InFlight(peer[e])
      BY <1>2 DEF IInv, TypeOK, InFlight, Receiving
    <2>2. WorkerOK(e, peer[e]) /\ Conn(e) = peer[e] /\ Side(e) = "server"
      BY <1>2, <2>1, WorkerEnd DEF IInv, ConnInv, ConnOK, Served
    <2>3. file[e] \in Files /\ (at[e] \in {"head", "send"} => file[e] \notin Puts)
          /\ (at[e] \in Receiving => file[e] \in Puts /\ StreamOK(e))
      BY <2>2 DEF WorkerOK, Gets, Receiving
    <2>4. at[e] \in {"head", "send"} => Side(e) = Home(file[e]) /\ FileOf(e) = Content(file[e])
      BY <2>2, <2>3 DEF Home, FileOf, IInv, DiskInv
    <2>5. at[e] \in Receiving => Side(e) = Dest(file[e]) /\ FileOf(e) = There(file[e])
      BY <2>2, <2>3 DEF Dest, FileOf, There
    <2>6. Content(file[e]) \in Seq(Nat) /\ Len(Content(file[e])) = Size[file[e]]
      BY <2>3, SizeAssumption DEF Content
    <2> QED
      BY <2>1, <2>2, <2>3, <2>4, <2>5, <2>6
  <1> QED
    BY <1>1, <1>2 DEF Ends

(* The types of the connections, and of the places.                        *)
WireOK == /\ wire \in [Threads -> [Sides -> Seq(Item)]]
          /\ \A t \in Threads, s \in Sides : Len(wire[t][s]) <= Window
PeerOK == /\ at \in [Ends -> Place] /\ peer \in [Workers -> Threads \union {None}]
          /\ \A w \in Workers : peer[w] = None <=> at[w] = "idle"

(* The types of what the two processes share.                              *)
LEMMA TypeParts ==
    ASSUME TypeOK PROVE WireOK /\ PeerOK
  BY DEF TypeOK, WireOK, PeerOK, Sides

(* recv_n keeps the types of the connections.                              *)
LEMMA RecvWindow ==
    ASSUME TypeOK, NEW e \in Ends, Conn(e) \in Threads, CanRecv(e), Recv(e)
    PROVE  WireOK'
  <1>1. WireOK
    BY TypeParts
  <1>2. Side(e) \in Sides /\ Other(e) \in Sides /\ Sides = {Side(e), Other(e)}
    BY SidesOf DEF Sides
  <1>3. Len(In(e)) \in Nat /\ Len(In(e)) <= Window
    BY <1>1, <1>2 DEF WireOK, In
  <1>4. Len(Tail(In(e))) <= Window
    BY <1>3, RecvWire, LimitAssumption, SMT
  <1> SUFFICES ASSUME NEW t \in Threads, NEW s \in Sides
               PROVE  Len(wire'[t][s]) <= Window
    BY RecvWire DEF WireOK
  <1>5. CASE t = Conn(e)
    BY <1>1, <1>2, <1>4, <1>5, RecvWire DEF WireOK
  <1>6. CASE t # Conn(e)
    BY <1>1, <1>6, RecvWire DEF WireOK
  <1> QED
    BY <1>5, <1>6

(* So does send_n, which waits while the window is full.                   *)
LEMMA SendWindow ==
    ASSUME TypeOK, NEW e \in Ends, Conn(e) \in Threads, NEW items \in Seq(Item),
           Send(e, items), Len(wire[Conn(e)][Other(e)]) + Len(items) <= Window
    PROVE  WireOK'
  <1>1. WireOK
    BY TypeParts
  <1>2. Side(e) \in Sides /\ Other(e) \in Sides /\ Sides = {Side(e), Other(e)}
    BY SidesOf DEF Sides
  <1>3. wire[Conn(e)][Other(e)] \in Seq(Item)
    BY <1>1, <1>2 DEF WireOK
  <1>4. Len(wire'[Conn(e)][Other(e)]) <= Window
    <2>1. Len(wire[Conn(e)][Other(e)] \o items) = Len(wire[Conn(e)][Other(e)]) + Len(items)
      BY <1>3, ConcatProperties
    <2> QED
      BY <2>1, SendWire
  <1> SUFFICES ASSUME NEW t \in Threads, NEW s \in Sides
               PROVE  Len(wire'[t][s]) <= Window
    BY SendWire DEF WireOK
  <1>5. CASE t = Conn(e)
    BY <1>1, <1>2, <1>4, <1>5, SendWire DEF WireOK
  <1>6. CASE t # Conn(e)
    BY <1>1, <1>6, SendWire DEF WireOK
  <1> QED
    BY <1>5, <1>6

(* A thread's step keeps the types of the places.                          *)
LEMMA ThreadGoes ==
    ASSUME TypeOK, NEW t \in Threads, NEW l \in Place, Goto(t, l), peer' = peer
    PROVE  PeerOK'
  <1>1. t \in Ends /\ t \notin Workers /\ \A w \in Workers : w \in Ends
    BY ThreadEnd DEF Ends
  <1> QED
    BY <1>1, GotoAt DEF PeerOK, TypeOK

(* So does a busy worker's step to another busy place.                     *)
LEMMA WorkerGoes ==
    ASSUME TypeOK, NEW w \in Workers, at[w] # "idle", NEW l \in Place \ {"idle"},
           Goto(w, l), peer' = peer
    PROVE  PeerOK'
  <1>1. w \in Ends /\ \A v \in Workers : v \in Ends
    BY DEF Ends
  <1> QED
    BY <1>1, GotoAt DEF PeerOK, TypeOK

(* So does a step of either.                                               *)
LEMMA EndGoes ==
    ASSUME TypeOK, NEW e \in Ends, at[e] # "idle", NEW l \in Place \ {"idle"},
           Goto(e, l), peer' = peer
    PROVE  PeerOK'
  BY ThreadGoes, WorkerGoes DEF Ends

(* So does leaving.                                                        *)
LEMMA EndLeaves ==
    ASSUME TypeOK, NEW e \in Ends, Leave(e)
    PROVE  PeerOK'
  <1>1. \A w \in Workers : w \in Ends
    BY DEF Ends
  <1>2. CASE e \in Threads
    BY <1>1, <1>2, LeaveAt, ThreadEnd DEF PeerOK, TypeOK
  <1>3. CASE e \in Workers
    BY <1>1, <1>3, LeaveAt, NoneAssumption DEF PeerOK, TypeOK
  <1> QED
    BY <1>2, <1>3 DEF Ends

(* The types, part by part.                                                *)
LEMMA TypeAfter ==
    ASSUME TypeOK, WireOK', PeerOK',
           action' \in Files \union {None}, file' \in [Ends -> Files \union {None}],
           cur' \in [Ends -> Nat], total' \in [Ends -> Nat], fileSize' \in [Ends -> Nat],
           broken' \subseteq Threads, received' \subseteq Files,
           disk' \in [Sides -> [Files -> Seq(Data) \union {None}]]
    PROVE  TypeOK'
  BY DEF TypeOK, WireOK, PeerOK, Sides

(* A file is absent or a sequence of chunks; its home and its destination  *)
(* are different.                                                          *)
LEMMA DiskTypes ==
    ASSUME TypeOK
    PROVE  /\ disk \in [Sides -> [Files -> Seq(Data) \union {None}]]
           /\ \A s \in Sides, f \in Files : disk[s][f] # None =>
                disk[s][f] \in Seq(Data) /\ Len(disk[s][f]) \in Nat
           /\ \A f \in Files : Home(f) \in Sides /\ Dest(f) \in Sides /\ Home(f) # Dest(f)
  BY DEF TypeOK, Sides, Home, Dest

(* What is sent is an item.                                                *)
LEMMA ItemsAre ==
    /\ \A f \in Files : <<"file", f>> \in Item /\ <<"name", f>> \in Item
    /\ \A n \in Nat \cup {None} : <<"offset", n>> \in Item
    /\ \A n \in Nat : <<"size", n>> \in Item /\ <<"chunk", n>> \in Item
    /\ EndOfFile \in Item /\ Item # {}
  BY DEF Item, Data, EndOfFile

(* A message of one item.                                                  *)
LEMMA OneItem ==
    ASSUME NEW x \in Item
    PROVE  <<x>> \in Seq(Item) /\ Len(<<x>>) = 1 /\ <<x>>[1] = x
  OBVIOUS

(* A message of two items.                                                 *)
LEMMA TwoItems ==
    ASSUME NEW x \in Item, NEW y \in Item
    PROVE  <<x, y>> \in Seq(Item) /\ Len(<<x, y>>) = 2 /\ <<x, y>>[1] = x /\ <<x, y>>[2] = y
  OBVIOUS

(* Issue keeps the types.                                                  *)
LEMMA IssueType ==
    ASSUME IInv, NEW t \in Threads, NEW f \in Files, Issue(t, f)
    PROVE  TypeOK'
  <1>1. TypeOK /\ WireOK /\ t \in Ends
    BY TypeParts, ThreadEnd DEF IInv
  <1>2. PeerOK'
    BY <1>1, ThreadGoes DEF Issue, local, Place
  <1>3. WireOK'
    <2>1. NoWire \in [Sides -> Seq(Item)] /\ \A s \in Sides : Len(NoWire[s]) <= Window
      BY LimitAssumption DEF NoWire, Sides
    <2> QED
      BY <1>1, <2>1 DEF Issue, WireOK
  <1> QED
    BY <1>1, <1>2, <1>3, TypeAfter, DiskTypes DEF Issue, local, TypeOK

(* ThreadStart keeps the types.                                            *)
LEMMA ThreadStartType ==
    ASSUME IInv, NEW t \in Threads, ThreadStart(t)
    PROVE  TypeOK'
  <1> DEFINE mine == disk["client"][action]
             size == IF mine = None THEN None ELSE Len(mine)
  <1>1. TypeOK /\ WireOK /\ t \in Ends
    BY TypeParts, ThreadEnd DEF IInv
  <1>2. ThreadOK(t) /\ at[t] = "start"
    BY DEF IInv, ConnInv, ConnOK, ThreadStart
  <1>3. action \in Files /\ Up(t) = <<>> /\ Down(t) = <<>>
    BY <1>2 DEF ThreadOK
  <1>4. size \in Nat \cup {None} /\ (size # None => size \in Nat)
    BY <1>1, <1>3, DiskTypes DEF Sides
  <1>5. PeerOK'
    <2>1. PICK l \in {"answer", "name"} : Goto(t, l)
      BY DEF ThreadStart
    <2> QED
      BY <1>1, <2>1, ThreadGoes DEF ThreadStart, Place
  <1>6. WireOK'
    <2>1. CASE t \in broken
      BY <1>1, <2>1 DEF ThreadStart, WireOK
    <2>2. CASE t \notin broken
      <3>1. PICK items \in Seq(Item) :
                Len(items) <= 2 /\ wire' = [wire EXCEPT ![t]["server"] = items]
        <4>1. CASE action \in Puts
          <5>1. <<"file", action>> \in Item
            BY <1>3, ItemsAre
          <5>2. wire' = [wire EXCEPT ![t]["server"] = << <<"file", action>> >>]
            BY <2>2, <4>1 DEF ThreadStart
          <5>3. << <<"file", action>> >> \in Seq(Item) /\ Len(<< <<"file", action>> >>) <= 2
            BY <5>1, OneItem
          <5> QED
            BY <5>2, <5>3
        <4>2. CASE action \notin Puts
          <5>1. <<"file", action>> \in Item /\ <<"offset", size>> \in Item
            BY <1>3, <1>4, ItemsAre
          <5>2. wire' = [wire EXCEPT ![t]["server"] =
                           << <<"file", action>>, <<"offset", size>> >>]
            BY <2>2, <4>2 DEF ThreadStart
          <5>3. /\ << <<"file", action>>, <<"offset", size>> >> \in Seq(Item)
                /\ Len(<< <<"file", action>>, <<"offset", size>> >>) <= 2
            BY <5>1, TwoItems
          <5> QED
            BY <5>2, <5>3
        <4> QED
          BY <4>1, <4>2
      <3>2. Len(items) <= Window
        BY <3>1, LimitAssumption, LenProperties, SMT
      <3> QED
        BY <1>1, <3>1, <3>2 DEF WireOK, Sides
    <2> QED
      BY <2>1, <2>2
  <1>7. file' \in [Ends -> Files \union {None}]
    BY <1>1, <1>3 DEF ThreadStart, TypeOK
  <1>8. cur' \in [Ends -> Nat] /\ fileSize' \in [Ends -> Nat]
    <2>1. PICK c \in Nat : cur' = [cur EXCEPT ![t] = c]
      BY <1>4 DEF ThreadStart
    <2>2. cur' \in [Ends -> Nat] /\ cur'[t] \in Nat
      BY <1>1, <2>1 DEF TypeOK
    <2>3. fileSize' = [fileSize EXCEPT ![t] = cur'[t]]
      BY DEF ThreadStart
    <2> QED
      BY <1>1, <2>2, <2>3 DEF TypeOK
  <1> QED
    BY <1>1, <1>5, <1>6, <1>7, <1>8, TypeAfter, DiskTypes DEF ThreadStart, TypeOK, bounds

(* PutsOffset keeps the types.                                             *)
LEMMA PutsOffsetType ==
    ASSUME IInv, NEW t \in Threads, PutsOffset(t)
    PROVE  TypeOK'
  <1>1. /\ TypeOK /\ WireOK /\ t \in Ends /\ Conn(t) = t /\ Conn(t) \in Threads
        /\ In(t) = Down(t)
    BY TypeParts, ThreadEnd DEF IInv
  <1>2. ThreadOK(t) /\ at[t] = "answer"
    BY DEF IInv, ConnInv, ConnOK, PutsOffset
  <1>3. PeerOK'
    BY <1>1, ThreadGoes DEF PutsOffset, Place
  <1>4. WireOK'
    BY <1>1, RecvWindow DEF PutsOffset, WireOK
  <1>5. cur' \in [Ends -> Nat] /\ fileSize' \in [Ends -> Nat]
    <2>1. CanRecv(t) => Arg(t) \in Nat
      BY <1>1, <1>2, RecvWire, HeadTailProperties DEF ThreadOK, CanRecv, Arg
    <2>2. PICK c \in Nat : cur' = [cur EXCEPT ![t] = c]
      BY <2>1 DEF PutsOffset
    <2>3. cur' \in [Ends -> Nat] /\ cur'[t] \in Nat
      BY <1>1, <2>2 DEF TypeOK
    <2>4. fileSize' = [fileSize EXCEPT ![t] = cur'[t]]
      BY DEF PutsOffset
    <2> QED
      BY <1>1, <2>3, <2>4 DEF TypeOK
  <1> QED
    BY <1>1, <1>3, <1>4, <1>5, TypeAfter, DiskTypes DEF PutsOffset, TypeOK, bounds

(* The worker's recv_n of the command (main.cpp:276-279).                  *)
LEMMA TakeWire ==
    ASSUME TypeOK, NEW w \in Workers, NEW t \in Threads, Take(w, t)
    PROVE  /\ WireOK' /\ Up(t)[1] \in Item /\ Head(Up(t)) = Up(t)[1]
           /\ wire'[t]["server"] = Tail(Up(t)) /\ wire'[t]["client"] = Down(t)
           /\ \A u \in Threads : u # t => wire'[u] = wire[u]
           /\ Len(Tail(Up(t))) = Len(Up(t)) - 1
           /\ \A i \in 1..Len(Up(t)) - 1 : Tail(Up(t))[i] = Up(t)[i + 1]
  <1>1. WireOK /\ Up(t) # <<>> /\ wire' = [wire EXCEPT ![t]["server"] = Tail(@)]
    BY TypeParts DEF Take, Up
  <1>2. Up(t) \in Seq(Item) /\ Len(Up(t)) <= Window
    BY <1>1 DEF WireOK, Up, Sides
  <1>3. /\ Tail(Up(t)) \in Seq(Item) /\ Len(Tail(Up(t))) = Len(Up(t)) - 1
        /\ Head(Up(t)) = Up(t)[1] /\ Up(t)[1] \in Item
        /\ \A i \in 1..Len(Up(t)) - 1 : Tail(Up(t))[i] = Up(t)[i + 1]
    BY <1>1, <1>2, SMT
  <1>4. Len(Tail(Up(t))) <= Window
    BY <1>2, <1>3, LimitAssumption, LenProperties, SMT
  <1>5. /\ wire'[t]["server"] = Tail(Up(t)) /\ wire'[t]["client"] = Down(t)
        /\ \A u \in Threads : u # t => wire'[u] = wire[u]
    BY <1>1 DEF WireOK, Up, Down, Sides
  <1>6. WireOK'
    BY <1>1, <1>3, <1>4, <1>5 DEF WireOK, Up, Sides
  <1> QED
    BY <1>3, <1>5, <1>6

(* Take keeps the types.                                                   *)
LEMMA TakeType ==
    ASSUME IInv, NEW w \in Workers, NEW t \in Threads, Take(w, t)
    PROVE  TypeOK'
  <1>1. TypeOK /\ WireOK /\ w \in Ends
    BY TypeParts, WorkerEnd DEF IInv
  <1>2. Head(Up(t)) \in Item /\ Up(t) # <<>> /\ InFlight(t) = {}
    BY <1>1, TakeWire DEF Take, Up
  <1>3. Head(Up(t))[2] \in Files
    BY <1>1, <1>2, TakeWire DEF IInv, ConnInv, ConnOK, Alone
  <1>4. file' \in [Ends -> Files \union {None}]
    BY <1>1, <1>3 DEF Take, TypeOK, Up
  <1>5. PeerOK'
    <2>1. Goto(w, "command") /\ peer' = [peer EXCEPT ![w] = t] /\ PeerOK /\ t # None
      BY <1>1, TypeParts, NoneAssumption DEF Take
    <2> QED
      BY <1>1, <2>1, GotoAt DEF PeerOK, Place, Ends
  <1> QED
    BY <1>1, <1>4, <1>5, TakeWire, TypeAfter, DiskTypes DEF Take, TypeOK, bounds

-----------------------------------------------------------------------------
(* What the actions change.                                                *)

(* A step of e changes only what belongs to e and to its connection.       *)
OnlyAt(e) ==
    /\ \A x \in Ends : x # e => /\ at'[x] = at[x] /\ file'[x] = file[x]
                                /\ cur'[x] = cur[x] /\ total'[x] = total[x]
    /\ \A u \in Threads : u # Conn(e) => wire'[u] = wire[u]
    /\ action' = action /\ broken' = broken

(* What is under way to e, and from e, after the step.                     *)
Coming(e) == wire'[Conn(e)][Side(e)]
Going(e) == wire'[Conn(e)][Other(e)]
Sent(e) == wire[Conn(e)][Other(e)]

(* What PutsAnswer changes: the worker counts from the length of what is   *)
(* there, and says so on a connection that works.                          *)
LEMMA PutsAnswerDoes ==
    ASSUME IInv, NEW w \in Workers, PutsAnswer(w)
    PROVE  /\ TypeOK' /\ OnlyAt(w) /\ peer' = peer /\ peer[w] \in Threads
           /\ at'[w] = "name" /\ file'[w] = file[w] /\ total'[w] = total[w]
           /\ cur'[w] = Length(There(file[w])) /\ cur'[w] \in Nat
           /\ fileSize' = [fileSize EXCEPT ![w] = cur'[w]]
           /\ Coming(w) = Up(peer[w])
           /\ peer[w] \in broken => Going(w) = Down(peer[w])
           /\ peer[w] \notin broken => /\ Down(peer[w]) = <<>>
                                       /\ Going(w) = << <<"offset", cur'[w]>> >>
  <1> DEFINE size == IF Exists(w) THEN Len(FileOf(w)) ELSE 0
             t == peer[w]
  <1>1. /\ TypeOK /\ WireOK /\ w \in Ends /\ Conn(w) = t /\ Side(w) = "server"
        /\ Other(w) = "client" /\ at[w] = "command" /\ file[w] \in Puts
    BY TypeParts, WorkerEnd DEF IInv, PutsAnswer
  <1>2. file[w] \in Files /\ t \in Threads
    BY <1>1, Kinds
  <1>3. FileOf(w) = There(file[w]) /\ size = Length(There(file[w])) /\ size \in Nat
    BY <1>1, <1>2, DiskTypes DEF FileOf, There, Dest, Exists, Length, Sides
  <1>4. PeerOK' /\ at' \in [Ends -> Place] /\ at'[w] = "name" /\ peer' = peer
        /\ \A x \in Ends : x # w => at'[x] = at[x]
    BY <1>1, WorkerGoes, GotoAt DEF PutsAnswer, Place
  <1>5. cur' = [cur EXCEPT ![w] = size] /\ fileSize' = [fileSize EXCEPT ![w] = size]
    BY DEF PutsAnswer
  <1>6. /\ cur' \in [Ends -> Nat] /\ fileSize' \in [Ends -> Nat] /\ cur'[w] = size
        /\ \A x \in Ends : x # w => cur'[x] = cur[x]
    BY <1>1, <1>3, <1>5 DEF TypeOK
  <1>7. /\ WireOK' /\ Coming(w) = Up(t)
        /\ \A u \in Threads : u # t => wire'[u] = wire[u]
        /\ t \in broken => Going(w) = Down(t)
        /\ t \notin broken => Down(t) = <<>> /\ Going(w) = << <<"offset", size>> >>
    <2>1. CASE t \in broken
      BY <1>1, <2>1 DEF PutsAnswer, WireOK, Coming, Going, Up, Down
    <2>2. CASE t \notin broken
      <3>1. Send(w, << <<"offset", size>> >>)
        BY <1>1, <2>2 DEF PutsAnswer
      <3>2. <<"offset", size>> \in Item
        BY <1>3, ItemsAre
      <3> DEFINE items == << <<"offset", size>> >>
      <3>3. items \in Seq(Item) /\ Len(items) = 1
        BY <3>2, OneItem
      <3>4. w \in InFlight(t)
        BY <1>2 DEF InFlight
      <3>5. Down(t) = <<>>
        BY <1>1, <1>2, <2>2, <3>4 DEF IInv, ConnInv, ConnOK, Served, Sync
      <3>6. wire[Conn(w)][Other(w)] = <<>>
        BY <1>1, <3>5 DEF Down
      <3>7. Len(wire[Conn(w)][Other(w)]) + Len(items) <= Window
        BY <3>3, <3>6, LimitAssumption, SMT
      <3>8. Conn(w) \in Threads /\ Send(w, items)
        BY <1>1, <1>2, <3>1
      <3>9. <<>> \o items = items
        BY <3>3, ConcatEmptySeq
      <3> HIDE DEF items
      <3>10. WireOK'
        BY <1>1, <3>3, <3>7, <3>8, SendWindow
      <3>11. Going(w) = items /\ Coming(w) = Up(t) /\ \A u \in Threads : u # t => wire'[u] = wire[u]
        BY <1>1, <3>3, <3>6, <3>8, <3>9, SendWire DEF Going, Coming, Up
      <3> QED
        BY <2>2, <3>5, <3>10, <3>11 DEF items
    <2> QED
      BY <2>1, <2>2
  <1>8. TypeOK'
    BY <1>1, <1>4, <1>6, <1>7, TypeAfter, DiskTypes DEF PutsAnswer, TypeOK, bounds
  <1>9. OnlyAt(w)
    BY <1>1, <1>4, <1>6, <1>7 DEF OnlyAt, PutsAnswer
  <1> QED
    BY <1>2, <1>3, <1>4, <1>5, <1>6, <1>7, <1>8, <1>9 DEF PutsAnswer

(* What GetsOffset changes: under Good, the worker's offset is the one the *)
(* client sent, modulo what four bytes can count.                          *)
LEMMA GetsOffsetDoes ==
    ASSUME IInv, Good, NEW w \in Workers, GetsOffset(w)
    PROVE  /\ TypeOK' /\ OnlyAt(w) /\ peer' = peer /\ peer[w] \in Threads
           /\ at'[w] = "head" /\ file'[w] = file[w] /\ total'[w] = total[w]
           /\ cur'[w] = fileSize'[w]
           /\ \E n \in Nat : fileSize' = [fileSize EXCEPT ![w] = n]
           /\ Going(w) = Down(peer[w])
           /\ Up(peer[w]) # <<>> => /\ CanRecv(w) /\ Recv(w)
                                    /\ fileSize'[w] = IF Up(peer[w])[1][2] = None THEN 0
                                                      ELSE Up(peer[w])[1][2] % Half
                                    /\ Up(peer[w])[1][2] \in Nat \cup {None}
           /\ Up(peer[w]) = <<>> => wire' = wire /\ fileSize'[w] = 0 /\ peer[w] \in broken
           /\ Coming(w) = <<>>
  <1> DEFINE t == peer[w]
             x == Up(t)[1][2]
  <1>1. /\ TypeOK /\ WireOK /\ w \in Ends /\ Conn(w) = t /\ Side(w) = "server"
        /\ Other(w) = "client" /\ In(w) = Up(t) /\ at[w] = "command" /\ file[w] \notin Puts
    BY TypeParts, WorkerEnd DEF IInv, GetsOffset
  <1>2. file[w] \in Files /\ t \in Threads /\ w \in InFlight(t)
    BY <1>1, Kinds DEF InFlight
  <1>3. Up(t) # <<>> => Len(Up(t)) = 1 /\ x \in Nat \cup {None}
    BY <1>1, <1>2 DEF IInv, ConnInv, ConnOK, Served, WorkerOK
  <1>4. fileSize[w] \in Nat /\ fileSize[w] < Half /\ Half \in Nat \ {0}
    BY <1>1, LimitAssumption DEF IInv, ConnInv, Offsets, TypeOK
  <1>5. fileSize[w] \div Half = 0
    BY <1>4, SMT
  <1>6. \A n \in Nat : (fileSize[w] \div Half) * Half + (n % Half) = n % Half /\ n % Half \in Nat
    BY <1>4, <1>5, SMT
  <1>7. CanRecv(w) => Arg(w) = x
    BY <1>1, <1>2, RecvWire DEF Arg, CanRecv, GetsOffset, RecvFails
  <1>8. CASE Up(t) # <<>>
    <2>1. CanRecv(w) /\ Recv(w) /\ Arg(w) = x
      BY <1>1, <1>7, <1>8 DEF GetsOffset, RecvFails, CanRecv
    <2>2. PICK n \in Nat : /\ fileSize' = [fileSize EXCEPT ![w] = n]
                           /\ n = IF x = None THEN 0 ELSE x % Half
      BY <1>1, <1>3, <1>6, <1>8, <2>1 DEF GetsOffset, RecvFails
    <2>3. cur' = [cur EXCEPT ![w] = n]
      BY <1>1, <2>2 DEF GetsOffset, TypeOK
    <2>4. WireOK' /\ Going(w) = Down(t)  /\ \A u \in Threads : u # t => wire'[u] = wire[u]
      BY <1>1, <1>2, <2>1, RecvWire, RecvWindow DEF Going, Down
    <2>5. Coming(w) = <<>>
      <3>1. Coming(w) = Tail(Up(t)) /\ Up(t) \in Seq(Item) /\ Len(Tail(Up(t))) = Len(Up(t)) - 1
        BY <1>1, <1>2, <2>1, RecvWire DEF Coming
      <3> QED
        BY <1>3, <1>8, <3>1, SMT
    <2>6. PeerOK' /\ at' \in [Ends -> Place] /\ at'[w] = "head"
          /\ \A y \in Ends : y # w => at'[y] = at[y]
      BY <1>1, WorkerGoes, GotoAt DEF GetsOffset, Place
    <2>7. /\ cur' \in [Ends -> Nat] /\ fileSize' \in [Ends -> Nat]
          /\ cur'[w] = n /\ fileSize'[w] = n /\ \A y \in Ends : y # w => cur'[y] = cur[y]
      BY <1>1, <2>2, <2>3 DEF TypeOK
    <2>8. TypeOK'
      BY <1>1, <2>4, <2>6, <2>7, TypeAfter, DiskTypes DEF GetsOffset, TypeOK, bounds
    <2>9. OnlyAt(w)
      BY <1>1, <2>4, <2>6, <2>7 DEF OnlyAt, GetsOffset
    <2> QED
      BY <1>2, <1>3, <1>8, <2>1, <2>2, <2>4, <2>5, <2>6, <2>7, <2>8, <2>9 DEF GetsOffset
  <1>9. CASE Up(t) = <<>>
    <2>1. fileSize' = [fileSize EXCEPT ![w] = 0] /\ wire' = wire /\ t \in broken
      BY <1>1, <1>9 DEF GetsOffset, RecvFails, CanRecv
    <2>3. cur' = [cur EXCEPT ![w] = 0]
      BY <1>1, <2>1 DEF GetsOffset, TypeOK
    <2>4. WireOK' /\ Going(w) = Down(t) /\ Coming(w) = <<>>
      BY <1>1, <1>9, <2>1 DEF Going, Coming, Down, Up, WireOK
    <2>6. PeerOK' /\ at' \in [Ends -> Place] /\ at'[w] = "head"
          /\ \A y \in Ends : y # w => at'[y] = at[y]
      BY <1>1, WorkerGoes, GotoAt DEF GetsOffset, Place
    <2>7. /\ cur' \in [Ends -> Nat] /\ fileSize' \in [Ends -> Nat]
          /\ cur'[w] = 0 /\ fileSize'[w] = 0 /\ \A y \in Ends : y # w => cur'[y] = cur[y]
      BY <1>1, <2>1, <2>3 DEF TypeOK
    <2>8. TypeOK'
      BY <1>1, <2>4, <2>6, <2>7, TypeAfter, DiskTypes DEF GetsOffset, TypeOK, bounds
    <2>9. OnlyAt(w)
      BY <1>1, <2>1, <2>6, <2>7 DEF OnlyAt, GetsOffset
    <2> QED
      BY <1>2, <1>9, <2>1, <2>4, <2>6, <2>7, <2>8, <2>9 DEF GetsOffset
  <1> QED
    BY <1>8, <1>9

(* The items of a concatenation.                                           *)
LEMMA ConcatAt ==
    ASSUME NEW a \in Seq(Item), NEW b \in Seq(Item)
    PROVE  /\ a \o b \in Seq(Item) /\ Len(a \o b) = Len(a) + Len(b)
           /\ \A i \in 1..Len(a) : (a \o b)[i] = a[i]
           /\ \A i \in 1..Len(b) : (a \o b)[Len(a) + i] = b[i]
  <1>1. a \o b \in Seq(Item) /\ Len(a \o b) = Len(a) + Len(b)
    BY ConcatProperties
  <1>2. \A i \in 1..Len(a) + Len(b) :
           (a \o b)[i] = IF i <= Len(a) THEN a[i] ELSE b[i - Len(a)]
    BY ConcatProperties
  <1>3. Len(a) \in Nat /\ Len(b) \in Nat
    BY LenProperties
  <1>4. \A i \in 1..Len(a) : i \in 1..Len(a) + Len(b) /\ i <= Len(a)
    BY <1>3, SMT
  <1>5. \A i \in 1..Len(b) : Len(a) + i \in 1..Len(a) + Len(b) /\ ~(Len(a) + i <= Len(a))
                             /\ Len(a) + i - Len(a) = i
    BY <1>3, SMT
  <1> QED
    BY <1>1, <1>2, <1>4, <1>5

(* The items after one more.                                               *)
LEMMA AppendAt ==
    ASSUME NEW a \in Seq(Item), NEW b \in Seq(Item), Len(b) = 1
    PROVE  /\ a \o b \in Seq(Item) /\ Len(a \o b) = Len(a) + 1
           /\ \A i \in 1..Len(a) : (a \o b)[i] = a[i]
           /\ (a \o b)[Len(a) + 1] = b[1]
  <1>1. 1 \in 1..Len(b)
    BY SMT
  <1>2. \A i \in 1..Len(b) : (a \o b)[Len(a) + i] = b[i]
    BY ConcatAt
  <1>3. (a \o b)[Len(a) + 1] = b[1]
    BY <1>1, <1>2
  <1> QED
    BY <1>3, ConcatAt, ZenonT(60)

(* Before a sender's head nothing else is under way to its receiver.       *)
LEMMA HeadAlone ==
    ASSUME IInv, NEW e \in Ends, at[e] = "head", Conn(e) \notin broken
    PROVE  Sent(e) = <<>>
  <1>1. Conn(e) \in Threads
    BY Kinds
  <1>2. CASE e \in Threads
    <2>1. Conn(e) = e /\ Sent(e) = Up(e) /\ ConnOK(e)
      BY <1>2, ThreadEnd DEF Sent, Up, IInv, ConnInv
    <2>2. PICK w \in InFlight(e) : TRUE
      BY <2>1 DEF ConnOK, Alone
    <2> QED
      BY <2>1, <2>2 DEF ConnOK, Served, Sync
  <1>3. CASE e \in Workers
    <2>1. Conn(e) = peer[e] /\ Sent(e) = Down(peer[e]) /\ e \in InFlight(peer[e])
      BY <1>1, <1>3, WorkerEnd DEF Sent, Down, InFlight
    <2> QED
      BY <1>1, <2>1 DEF IInv, ConnInv, ConnOK, Served, Sync
  <1> QED
    BY <1>2, <1>3 DEF Ends

(* What SendHead changes.                                                  *)
LEMMA SendHeadDoes ==
    ASSUME IInv, NEW e \in Ends, SendHead(e)
    PROVE  /\ TypeOK' /\ OnlyAt(e) /\ peer' = peer /\ fileSize' = fileSize
           /\ Conn(e) \in Threads /\ Conn(e) \notin broken
           /\ at'[e] = "send" /\ file'[e] = file[e] /\ cur'[e] = cur[e]
           /\ total'[e] = Size[file[e]]
           /\ Coming(e) = In(e) /\ Sent(e) = <<>>
           /\ Len(Going(e)) = 2 /\ Going(e)[1] = <<"name", file[e]>>
           /\ Going(e)[2] = <<"size", Size[file[e]]>>
  <1> DEFINE items == << <<"name", file[e]>>, <<"size", Size[file[e]]>> >>
  <1>1. /\ TypeOK /\ WireOK /\ Conn(e) \in Threads /\ at[e] = "head" /\ file[e] \in Files
        /\ Len(FileOf(e)) = Size[file[e]] /\ Size[file[e]] \in Nat /\ Conn(e) \notin broken
    BY TypeParts, Kinds, SizeAssumption DEF IInv, SendHead, CanSend
  <1>2. PeerOK' /\ at' \in [Ends -> Place] /\ at'[e] = "send" /\ peer' = peer
        /\ \A x \in Ends : x # e => at'[x] = at[x]
    BY <1>1, EndGoes, GotoAt DEF SendHead, Place
  <1>3. total' = [total EXCEPT ![e] = Size[file[e]]]
    BY <1>1 DEF SendHead
  <1>4. total' \in [Ends -> Nat] /\ total'[e] = Size[file[e]]
        /\ \A x \in Ends : x # e => total'[x] = total[x]
    BY <1>1, <1>3 DEF TypeOK
  <1>5. Send(e, items)
    BY <1>1 DEF SendHead
  <1>6. <<"name", file[e]>> \in Item /\ <<"size", Size[file[e]]>> \in Item
    BY <1>1, ItemsAre
  <1>7. /\ items \in Seq(Item) /\ Len(items) = 2 /\ items[1] = <<"name", file[e]>>
        /\ items[2] = <<"size", Size[file[e]]>>
    BY <1>6, TwoItems
  <1> HIDE DEF items
  <1>8. Sent(e) = <<>> /\ wire[Conn(e)][Other(e)] = <<>>
    BY <1>1, HeadAlone DEF Sent
  <1>9. Len(wire[Conn(e)][Other(e)]) + Len(items) <= Window
    BY <1>7, <1>8, LimitAssumption, SMT
  <1>10. WireOK'
    BY <1>1, <1>5, <1>7, <1>9, SendWindow
  <1>11. <<>> \o items = items
    BY <1>7, ConcatEmptySeq
  <1>12. Going(e) = items /\ Coming(e) = In(e)
         /\ \A u \in Threads : u # Conn(e) => wire'[u] = wire[u]
    BY <1>1, <1>5, <1>7, <1>8, <1>11, SendWire DEF Going, Coming, In
  <1>13. TypeOK'
    BY <1>1, <1>2, <1>4, <1>10, TypeAfter, DiskTypes DEF SendHead, TypeOK, bounds
  <1>14. OnlyAt(e)
    BY <1>1, <1>2, <1>4, <1>12 DEF OnlyAt, SendHead
  <1> QED
    BY <1>1, <1>2, <1>4, <1>7, <1>8, <1>12, <1>13, <1>14 DEF SendHead

(* The two sizes transFile compares with are both the size of the file.    *)
LEMMA Aim ==
    ASSUME IInv, NEW e \in Ends, at[e] = "send"
    PROVE  /\ (IF Large(total[e]) THEN total[e] ELSE Len(FileOf(e))) = Size[file[e]]
           /\ total[e] = Size[file[e]] /\ cur[e] \in Nat /\ cur[e] <= Size[file[e]]
           /\ Size[file[e]] \in Nat
  <1>1. file[e] \in Files /\ Len(FileOf(e)) = Size[file[e]] /\ Conn(e) \in Threads
    BY Kinds
  <1>2. total[e] = Size[file[e]] /\ cur[e] <= Size[file[e]]
    <2>1. CASE e \in Threads
      BY <2>1 DEF IInv, ConnInv, ConnOK, ThreadOK
    <2>2. CASE e \in Workers
      BY <1>1, <2>2, WorkerEnd DEF IInv, ConnInv, ConnOK, Served, WorkerOK, InFlight
    <2> QED
      BY <2>1, <2>2 DEF Ends
  <1> QED
    BY <1>1, <1>2, SizeAssumption DEF IInv, TypeOK

(* What SendChunk changes: the chunk sent is the next one of the file.     *)
LEMMA SendChunkDoes ==
    ASSUME IInv, NEW e \in Ends, SendChunk(e)
    PROVE  /\ TypeOK' /\ OnlyAt(e) /\ peer' = peer /\ fileSize' = fileSize
           /\ Conn(e) \in Threads /\ Conn(e) \notin broken
           /\ at'[e] = "send" /\ file'[e] = file[e] /\ cur'[e] = cur[e] + 1
           /\ cur'[e] <= Size[file[e]] /\ total'[e] = Size[file[e]]
           /\ Coming(e) = In(e) /\ Sent(e) \in Seq(Item) /\ Len(Going(e)) = Len(Sent(e)) + 1
           /\ \A i \in 1..Len(Sent(e)) : Going(e)[i] = Sent(e)[i]
           /\ Going(e)[Len(Sent(e)) + 1] = <<"chunk", cur'[e]>>
  <1> DEFINE items == << <<"chunk", FileOf(e)[cur[e] + 1]>> >>
  <1>1. /\ TypeOK /\ WireOK /\ Conn(e) \in Threads /\ at[e] = "send" /\ file[e] \in Files
        /\ FileOf(e) = Content(file[e]) /\ Conn(e) \notin broken
        /\ Len(Sent(e)) < Window
    BY TypeParts, Kinds DEF IInv, SendChunk, CanSend, Sent
  <1>2. cur[e] \in Nat /\ cur[e] < Size[file[e]] /\ Size[file[e]] \in Nat
        /\ total[e] = Size[file[e]]
    BY <1>1, Aim DEF SendChunk
  <1>3. FileOf(e)[cur[e] + 1] = cur[e] + 1
    BY <1>1, <1>2, SMT DEF Content
  <1>4. PeerOK' /\ at' = at /\ at' \in [Ends -> Place] /\ peer' = peer
    BY <1>1, TypeParts DEF SendChunk, PeerOK
  <1>5. cur' = [cur EXCEPT ![e] = cur[e] + 1]
    BY <1>1 DEF SendChunk
  <1>6. cur' \in [Ends -> Nat] /\ cur'[e] = cur[e] + 1 /\ cur'[e] <= Size[file[e]]
        /\ \A x \in Ends : x # e => cur'[x] = cur[x]
    BY <1>1, <1>2, <1>5 DEF TypeOK
  <1>7. Send(e, items)
    BY DEF SendChunk
  <1>8. <<"chunk", FileOf(e)[cur[e] + 1]>> \in Item
    <2>1. cur[e] + 1 \in Nat
      BY <1>2, SMT
    <2> QED
      BY <1>3, <2>1, ItemsAre
  <1>9. items \in Seq(Item) /\ Len(items) = 1 /\ items[1] = <<"chunk", cur'[e]>>
    BY <1>3, <1>6, <1>8, OneItem
  <1> HIDE DEF items
  <1>10. Sent(e) \in Seq(Item) /\ Sent(e) = wire[Conn(e)][Other(e)]
    BY <1>1, SidesOf DEF Sent, WireOK
  <1>11. Len(wire[Conn(e)][Other(e)]) + Len(items) <= Window
    BY <1>1, <1>9, <1>10, LimitAssumption, LenProperties, SMT
  <1>12. WireOK'
    BY <1>1, <1>7, <1>9, <1>11, SendWindow
  <1>13. Going(e) = Sent(e) \o items /\ Coming(e) = In(e)
         /\ \A u \in Threads : u # Conn(e) => wire'[u] = wire[u]
    BY <1>1, <1>7, <1>9, <1>10, SendWire DEF Going, Coming, In
  <1>14. /\ Len(Going(e)) = Len(Sent(e)) + 1
         /\ \A i \in 1..Len(Sent(e)) : Going(e)[i] = Sent(e)[i]
         /\ Going(e)[Len(Sent(e)) + 1] = <<"chunk", cur'[e]>>
    BY <1>9, <1>10, <1>13, AppendAt
  <1>15. TypeOK'
    BY <1>1, <1>4, <1>6, <1>12, TypeAfter, DiskTypes DEF SendChunk, TypeOK, bounds
  <1>16. OnlyAt(e)
    BY <1>1, <1>4, <1>6, <1>13 DEF OnlyAt, SendChunk
  <1> QED
    BY <1>1, <1>2, <1>4, <1>6, <1>10, <1>13, <1>14, <1>15, <1>16 DEF SendChunk

(* What SendEnd changes: the sender leaves when the whole file is sent.    *)
LEMMA SendEndDoes ==
    ASSUME IInv, NEW e \in Ends, SendEnd(e)
    PROVE  /\ TypeOK' /\ OnlyAt(e) /\ Leave(e) /\ fileSize' = fileSize
           /\ Conn(e) \in Threads
           /\ file'[e] = file[e] /\ cur'[e] = cur[e] /\ cur[e] = Size[file[e]]
           /\ total'[e] = total[e]
           /\ Coming(e) = In(e) /\ Sent(e) \in Seq(Item)
           /\ Large(Size[file[e]]) => Going(e) = Sent(e)
           /\ ~Large(Size[file[e]]) => /\ Conn(e) \notin broken
                                       /\ Len(Going(e)) = Len(Sent(e)) + 1
                                       /\ \A i \in 1..Len(Sent(e)) : Going(e)[i] = Sent(e)[i]
                                       /\ Going(e)[Len(Sent(e)) + 1] = EndOfFile
  <1> DEFINE items == <<EndOfFile>>
  <1>1. /\ TypeOK /\ WireOK /\ Conn(e) \in Threads /\ at[e] = "send" /\ file[e] \in Files
        /\ total[e] = Size[file[e]]
    BY TypeParts, Kinds, Aim DEF IInv, SendEnd
  <1>2. cur[e] = Size[file[e]]
    BY <1>1, Aim, SMT DEF SendEnd
  <1>3. PeerOK' /\ Leave(e) /\ \A x \in Ends : x # e => at'[x] = at[x]
    BY <1>1, EndLeaves, LeaveAt DEF SendEnd
  <1>4. Sent(e) \in Seq(Item) /\ Sent(e) = wire[Conn(e)][Other(e)]
    BY <1>1, SidesOf DEF Sent, WireOK
  <1>5. CASE Large(Size[file[e]])
    <2>1. wire' = wire
      BY <1>1, <1>5 DEF SendEnd
    <2>2. WireOK' /\ Going(e) = Sent(e) /\ Coming(e) = In(e)
      BY <1>1, <2>1 DEF WireOK, Going, Sent, Coming, In
    <2>3. TypeOK'
      BY <1>1, <1>3, <2>2, TypeAfter, DiskTypes DEF SendEnd, TypeOK, bounds
    <2>4. OnlyAt(e)
      BY <1>1, <1>3, <2>1 DEF OnlyAt, SendEnd
    <2> QED
      BY <1>1, <1>2, <1>3, <1>4, <1>5, <2>2, <2>3, <2>4 DEF SendEnd
  <1>6. CASE ~Large(Size[file[e]])
    <2>1. Conn(e) \notin broken /\ Len(Sent(e)) < Window /\ Send(e, items)
      BY <1>1, <1>6 DEF SendEnd, CanSend, Sent
    <2>2. items \in Seq(Item) /\ Len(items) = 1 /\ items[1] = EndOfFile
      BY ItemsAre, OneItem
    <2> HIDE DEF items
    <2>3. Len(wire[Conn(e)][Other(e)]) + Len(items) <= Window
      BY <1>4, <2>1, <2>2, LimitAssumption, LenProperties, SMT
    <2>4. WireOK'
      BY <1>1, <2>1, <2>2, <2>3, SendWindow
    <2>5. Going(e) = Sent(e) \o items /\ Coming(e) = In(e)
         /\ \A u \in Threads : u # Conn(e) => wire'[u] = wire[u]
      BY <1>1, <1>4, <2>1, <2>2, SendWire DEF Going, Coming, In
    <2>6. /\ Len(Going(e)) = Len(Sent(e)) + 1
          /\ \A i \in 1..Len(Sent(e)) : Going(e)[i] = Sent(e)[i]
          /\ Going(e)[Len(Sent(e)) + 1] = EndOfFile
      BY <1>4, <2>2, <2>5, AppendAt
    <2>7. TypeOK'
      BY <1>1, <1>3, <2>4, TypeAfter, DiskTypes DEF SendEnd, TypeOK, bounds
    <2>8. OnlyAt(e)
      BY <1>1, <1>3, <2>5 DEF OnlyAt, SendEnd
    <2> QED
      BY <1>1, <1>2, <1>3, <1>4, <1>6, <2>1, <2>5, <2>6, <2>7, <2>8 DEF SendEnd
  <1> QED
    BY <1>5, <1>6

(* What SendFails changes.                                                 *)
LEMMA SendFailsDoes ==
    ASSUME IInv, NEW e \in Ends, SendFails(e)
    PROVE  /\ TypeOK' /\ OnlyAt(e) /\ Leave(e) /\ fileSize' = fileSize
           /\ Conn(e) \in Threads /\ Conn(e) \in broken
           /\ file'[e] = file[e] /\ cur'[e] = cur[e] /\ total'[e] = total[e]
           /\ wire' = wire
  <1>1. TypeOK /\ WireOK /\ Conn(e) \in Threads /\ Conn(e) \in broken
    BY TypeParts, Kinds DEF IInv, SendFails
  <1>2. PeerOK' /\ Leave(e) /\ \A x \in Ends : x # e => at'[x] = at[x]
    BY <1>1, EndLeaves, LeaveAt DEF SendFails
  <1>3. WireOK'
    BY <1>1 DEF SendFails, WireOK
  <1>4. TypeOK'
    BY <1>1, <1>2, <1>3, TypeAfter, DiskTypes DEF SendFails, TypeOK, bounds
  <1> QED
    BY <1>1, <1>2, <1>4 DEF SendFails, OnlyAt

(* The head of a receiver's stream is what its place in the protocol calls *)
(* for: never a chunk for a size, and never a chunk out of turn.           *)
LEMMA StreamHead ==
    ASSUME IInv, NEW e \in Ends, at[e] \in Receiving, CanRecv(e)
    PROVE  /\ at[e] = "name" => Head(In(e)) = <<"name", file[e]>>
           /\ at[e] = "size" => Head(In(e)) = <<"size", Size[file[e]]>>
           /\ at[e] = "recv" => IF cur[e] < Size[file[e]]
                                THEN Head(In(e)) = <<"chunk", cur[e] + 1>>
                                ELSE Head(In(e)) = EndOfFile
           /\ cur[e] \in Nat /\ cur[e] <= Size[file[e]] /\ Size[file[e]] \in Nat
  <1>1. /\ file[e] \in Files /\ Conn(e) \in Threads /\ StreamOK(e) /\ TypeOK
        /\ Size[file[e]] \in Nat /\ cur[e] \in Nat
    BY Kinds, SizeAssumption DEF IInv, TypeOK
  <1>2. In(e) \in Seq(Item) /\ In(e) # <<>>
    BY <1>1, TypeParts, SidesOf DEF WireOK, In, CanRecv
  <1>3. 1 \in 1..Len(In(e)) /\ Head(In(e)) = In(e)[1]
    BY <1>2, SMT
  <1>4. Head(In(e)) = Script(file[e], Heads(e), cur[e], 1)
    BY <1>1, <1>3 DEF StreamOK
  <1>5. CASE at[e] = "name"
    <2>1. Heads(e) = 2 /\ Head(In(e)) = <<"name", file[e]>>
      BY <1>4, <1>5, SMT DEF Heads, Script
    <2> QED
      BY <1>1, <1>5, <2>1 DEF StreamOK
  <1>6. CASE at[e] = "size"
    <2>1. Heads(e) = 1 /\ Head(In(e)) = <<"size", Size[file[e]]>>
      BY <1>4, <1>6 DEF Heads, Script
    <2> QED
      BY <1>1, <1>6, <2>1 DEF StreamOK
  <1>7. CASE at[e] = "recv"
    <2>1. Heads(e) = 0
      BY <1>7 DEF Heads
    <2>2. Script(file[e], 0, cur[e], 1) = IF cur[e] < Size[file[e]]
                                          THEN <<"chunk", cur[e] + 1>> ELSE EndOfFile
      <3>1. ~(1 < 0) /\ ~(1 = 0) /\ cur[e] + 1 - 0 = cur[e] + 1
            /\ (cur[e] + 1 <= Size[file[e]] <=> cur[e] < Size[file[e]])
        BY <1>1, SMT
      <3> QED
        BY <3>1 DEF Script
    <2> QED
      BY <1>1, <1>4, <1>7, <2>1, <2>2 DEF StreamOK
  <1> QED
    BY <1>5, <1>6, <1>7 DEF Receiving

(* An end that receives is attached to the copy it writes.                 *)
LEMMA ReceiverHas ==
    ASSUME IInv, NEW e \in Ends, at[e] \in Receiving, at[e] = "name" => CanRecv(e)
    PROVE  /\ Attached(e) /\ ReceiverOK(e) /\ file[e] \in Files /\ Side(e) = Dest(file[e])
           /\ FileOf(e) = There(file[e]) /\ Side(e) \in Sides
           /\ There(file[e]) # None => /\ There(file[e]) \in Seq(Data)
                                       /\ Len(There(file[e])) \in Nat
           /\ at[e] \in {"size", "recv"} => There(file[e]) # None
           /\ at[e] = "recv" => total[e] = Size[file[e]]
  <1>1. /\ file[e] \in Files /\ Conn(e) \in Threads /\ Side(e) = Dest(file[e])
        /\ FileOf(e) = There(file[e]) /\ Side(e) \in Sides
    BY Kinds, SidesOf
  <1>2. Attached(e)
    <2>1. CASE e \in Threads
      BY <2>1 DEF Attached
    <2>2. CASE e \in Workers
      BY <2>2, WorkerEnd DEF Attached, Writing, Receiving, CanRecv
    <2> QED
      BY <2>1, <2>2 DEF Ends
  <1>3. ReceiverOK(e)
    BY <1>2 DEF IInv, DiskInv
  <1>4. There(file[e]) # None => There(file[e]) \in Seq(Data) /\ Len(There(file[e])) \in Nat
    BY <1>1, DiskTypes DEF IInv, There
  <1>5. at[e] = "recv" => total[e] = Size[file[e]]
    <2>1. CASE e \in Threads
      BY <2>1 DEF IInv, ConnInv, ConnOK, ThreadOK
    <2>2. CASE e \in Workers
      BY <1>1, <2>2, WorkerEnd DEF IInv, ConnInv, ConnOK, Served, WorkerOK, InFlight
    <2> QED
      BY <2>1, <2>2 DEF Ends
  <1> QED
    BY <1>1, <1>2, <1>3, <1>4, <1>5 DEF ReceiverOK

(* Writing one file leaves the others, and the types.                      *)
LEMMA DiskSet ==
    ASSUME TypeOK, NEW s \in Sides, NEW f \in Files, NEW d \in Seq(Data),
           disk' = [disk EXCEPT ![s][f] = d]
    PROVE  /\ disk' \in [Sides -> [Files -> Seq(Data) \union {None}]]
           /\ disk'[s][f] = d
           /\ \A u \in Sides, g \in Files : <<u, g>> # <<s, f>> => disk'[u][g] = disk[u][g]
  BY DiskTypes

(* What an end that takes an item changes of its connection.               *)
Takes(e) ==
    /\ CanRecv(e) /\ In(e) \in Seq(Item)
    /\ Len(Coming(e)) = Len(In(e)) - 1 /\ Coming(e) \in Seq(Item)
    /\ \A i \in 1..Len(In(e)) - 1 : Coming(e)[i] = In(e)[i + 1]
    /\ Going(e) = Sent(e)

(* recv_n on a known connection.                                           *)
LEMMA RecvTakes ==
    ASSUME TypeOK, NEW e \in Ends, Conn(e) \in Threads, CanRecv(e), Recv(e)
    PROVE  /\ Takes(e) /\ WireOK'
           /\ \A u \in Threads : u # Conn(e) => wire'[u] = wire[u]
  <1>1. WireOK' /\ \A u \in Threads : u # Conn(e) => wire'[u] = wire[u]
    BY RecvWindow, RecvWire
  <1>2. Coming(e) \in Seq(Item)
    BY RecvWire, SidesOf DEF Coming
  <1>3. Coming(e) = Tail(In(e)) /\ Going(e) = Sent(e)
    BY RecvWire DEF Coming, Going, Sent
  <1> QED
    BY <1>1, <1>2, <1>3, RecvWire DEF Takes

(* What RecvName changes: the file is made if it is not there.             *)
LEMMA RecvNameDoes ==
    ASSUME IInv, NEW e \in Ends, RecvName(e)
    PROVE  /\ TypeOK' /\ OnlyAt(e) /\ peer' = peer /\ fileSize' = fileSize
           /\ Conn(e) \in Threads /\ Takes(e)
           /\ at'[e] = "size" /\ file'[e] = file[e] /\ cur'[e] = cur[e] /\ total'[e] = total[e]
           /\ IF There(file[e]) # None THEN disk' = disk
              ELSE disk' = [disk EXCEPT ![Dest(file[e])][file[e]] = <<>>]
  <1>1. TypeOK /\ Conn(e) \in Threads /\ at[e] = "name" /\ CanRecv(e) /\ Recv(e)
    BY Kinds DEF IInv, RecvName, Receiving
  <1>2. PeerOK' /\ at' \in [Ends -> Place] /\ at'[e] = "size" /\ peer' = peer
        /\ \A x \in Ends : x # e => at'[x] = at[x]
    BY <1>1, EndGoes, GotoAt DEF RecvName, Place, local
  <1>3. /\ Takes(e) /\ WireOK'
        /\ \A u \in Threads : u # Conn(e) => wire'[u] = wire[u]
    BY <1>1, RecvTakes
  <1>4. /\ Side(e) = Dest(file[e]) /\ Side(e) \in Sides /\ file[e] \in Files
        /\ FileOf(e) = There(file[e])
    BY <1>1, ReceiverHas DEF Receiving
  <1>5. IF There(file[e]) # None THEN disk' = disk
        ELSE disk' = [disk EXCEPT ![Dest(file[e])][file[e]] = <<>>]
    BY <1>4 DEF RecvName, Exists
  <1>6. <<>> \in Seq(Data)
    OBVIOUS
  <1>7. disk' \in [Sides -> [Files -> Seq(Data) \union {None}]]
    BY <1>1, <1>4, <1>5, <1>6, DiskSet, DiskTypes
  <1>8. TypeOK'
    BY <1>1, <1>2, <1>3, <1>7, TypeAfter DEF RecvName, TypeOK, bounds, local
  <1>9. OnlyAt(e)
    BY <1>2, <1>3 DEF OnlyAt, RecvName, local
  <1> QED
    BY <1>1, <1>2, <1>3, <1>5, <1>8, <1>9 DEF RecvName, local

(* A mapped file: what was there, and holes.                               *)
Stretched(d, n) == [i \in 1..n |-> IF i <= Len(d) THEN d[i] ELSE Hole]

(* What RecvSize changes: the size received is that of the file.           *)
LEMMA RecvSizeDoes ==
    ASSUME IInv, NEW e \in Ends, RecvSize(e)
    PROVE  /\ TypeOK' /\ OnlyAt(e) /\ peer' = peer /\ fileSize' = fileSize
           /\ Conn(e) \in Threads /\ Takes(e)
           /\ at'[e] = "recv" /\ file'[e] = file[e] /\ cur'[e] = cur[e]
           /\ total'[e] = Size[file[e]]
           /\ IF ~Large(Size[file[e]]) THEN disk' = disk
              ELSE disk' = [disk EXCEPT ![Dest(file[e])][file[e]] =
                              Stretched(There(file[e]), Size[file[e]])]
  <1> DEFINE f == file[e]
             n == Size[f]
             d == There(f)
  <1>1. TypeOK /\ Conn(e) \in Threads /\ at[e] = "size" /\ CanRecv(e) /\ Recv(e)
    BY Kinds DEF IInv, RecvSize, Receiving
  <1>2. PeerOK' /\ at' \in [Ends -> Place] /\ at'[e] = "recv" /\ peer' = peer
        /\ \A x \in Ends : x # e => at'[x] = at[x]
    BY <1>1, EndGoes, GotoAt DEF RecvSize, Place
  <1>3. /\ Takes(e) /\ WireOK'
        /\ \A u \in Threads : u # Conn(e) => wire'[u] = wire[u]
    BY <1>1, RecvTakes
  <1>4. /\ Side(e) = Dest(f) /\ Side(e) \in Sides /\ f \in Files
        /\ FileOf(e) = d /\ d \in Seq(Data) /\ Len(d) \in Nat
    BY <1>1, ReceiverHas DEF Receiving
  <1>5. Head(In(e)) = <<"size", n>> /\ n \in Nat
    BY <1>1, StreamHead DEF Receiving
  <1>6. Arg(e) = n
    BY <1>5 DEF Arg
  <1>7. IF ~Large(n) THEN disk' = disk
        ELSE disk' = [disk EXCEPT ![Dest(f)][f] = Stretched(d, n)]
    BY <1>4, <1>6 DEF RecvSize, Stretched
  <1>8. Stretched(d, n) \in Seq(Data)
    <2>1. \A i \in 1..n : i <= Len(d) => d[i] \in Data
      BY <1>4, <1>5
    <2>2. Hole \in Data
      BY DEF Hole, Data
    <2> QED
      BY <1>5, <2>1, <2>2 DEF Stretched
  <1>9. disk' \in [Sides -> [Files -> Seq(Data) \union {None}]]
    BY <1>1, <1>4, <1>7, <1>8, DiskSet, DiskTypes
  <1>10. total' = [total EXCEPT ![e] = n]
    BY <1>6 DEF RecvSize
  <1>11. total' \in [Ends -> Nat] /\ total'[e] = n /\ \A x \in Ends : x # e => total'[x] = total[x]
    BY <1>1, <1>5, <1>10 DEF TypeOK
  <1>12. TypeOK'
    BY <1>1, <1>2, <1>3, <1>9, <1>11, TypeAfter DEF RecvSize, TypeOK, bounds
  <1>13. OnlyAt(e)
    BY <1>2, <1>3, <1>11 DEF OnlyAt, RecvSize
  <1> QED
    BY <1>1, <1>2, <1>3, <1>7, <1>11, <1>12, <1>13 DEF RecvSize

(* What RecvChunk changes: the chunk received is the next one.             *)
LEMMA RecvChunkDoes ==
    ASSUME IInv, NEW e \in Ends, RecvChunk(e)
    PROVE  /\ TypeOK' /\ OnlyAt(e) /\ peer' = peer /\ fileSize' = fileSize
           /\ Conn(e) \in Threads /\ Takes(e)
           /\ at[e] = "recv" /\ at'[e] = "recv" /\ file'[e] = file[e] /\ cur'[e] = cur[e] + 1
           /\ cur[e] \in Nat /\ cur[e] < Size[file[e]] /\ total'[e] = total[e]
           /\ In(e)[1] = <<"chunk", cur[e] + 1>>
           /\ disk' = [disk EXCEPT ![Dest(file[e])][file[e]] =
                         IF IsMapped(e) THEN [There(file[e]) EXCEPT ![cur[e] + 1] = cur[e] + 1]
                         ELSE Append(There(file[e]), cur[e] + 1)]
  <1> DEFINE f == file[e]
             c == cur[e] + 1
             d == There(f)
             new == IF IsMapped(e) THEN [d EXCEPT ![c] = c] ELSE Append(d, c)
  <1>1. /\ TypeOK /\ Conn(e) \in Threads /\ at[e] = "recv" /\ CanRecv(e) /\ Recv(e)
        /\ Head(In(e)) # EndOfFile
    BY Kinds DEF IInv, RecvChunk, Receiving
  <1>2. PeerOK' /\ at' = at /\ peer' = peer
    BY <1>1, TypeParts DEF RecvChunk, PeerOK
  <1>3. /\ Takes(e) /\ WireOK'
        /\ \A u \in Threads : u # Conn(e) => wire'[u] = wire[u]
    BY <1>1, RecvTakes
  <1>4. /\ Side(e) = Dest(f) /\ Side(e) \in Sides /\ f \in Files /\ ReceiverOK(e)
        /\ FileOf(e) = d /\ d \in Seq(Data) /\ Len(d) \in Nat /\ total[e] = Size[f]
    BY <1>1, ReceiverHas DEF Receiving
  <1>5. /\ cur[e] \in Nat /\ Size[f] \in Nat /\ cur[e] < Size[f]
        /\ Head(In(e)) = <<"chunk", c>> /\ c \in Nat
    BY <1>1, StreamHead DEF Receiving
  <1>6. Arg(e) = c /\ In(e)[1] = <<"chunk", c>>
    BY <1>1, <1>5, RecvWire DEF Arg
  <1>7. disk' = [disk EXCEPT ![Dest(f)][f] = new]
    <2>1. disk[Dest(f)][f] = d
      BY DEF There
    <2> QED
      BY <1>1, <1>4, <1>6, <2>1 DEF RecvChunk, IsMapped
  <1>8. new \in Seq(Data)
    <2>1. c \in Data
      BY <1>5 DEF Data
    <2>2. Append(d, c) \in Seq(Data)
      BY <1>4, <2>1
    <2>3. d \in [1..Len(d) -> Data]
      BY <1>4
    <2>4. [d EXCEPT ![c] = c] \in [1..Len(d) -> Data]
      BY <2>1, <2>3
    <2>5. [d EXCEPT ![c] = c] \in Seq(Data)
      BY <1>4, <2>4, SeqDef
    <2> QED
      BY <2>2, <2>5
  <1>9. disk' \in [Sides -> [Files -> Seq(Data) \union {None}]]
    BY <1>1, <1>4, <1>7, <1>8, DiskSet
  <1>10. cur' = [cur EXCEPT ![e] = c]
    BY <1>1 DEF RecvChunk
  <1>11. cur' \in [Ends -> Nat] /\ cur'[e] = c /\ \A x \in Ends : x # e => cur'[x] = cur[x]
    BY <1>1, <1>5, <1>10 DEF TypeOK
  <1>12. TypeOK'
    BY <1>1, <1>2, <1>3, <1>9, <1>11, TypeAfter DEF RecvChunk, TypeOK, bounds
  <1>13. OnlyAt(e)
    BY <1>2, <1>3, <1>11 DEF OnlyAt, RecvChunk
  <1> QED
    BY <1>1, <1>2, <1>3, <1>5, <1>6, <1>7, <1>11, <1>12, <1>13 DEF RecvChunk

(* What RecvEnd changes: it ends at the size of the file, in both modes.   *)
LEMMA RecvEndDoes ==
    ASSUME IInv, NEW e \in Ends, RecvEnd(e)
    PROVE  /\ TypeOK' /\ OnlyAt(e) /\ Leave(e) /\ fileSize' = fileSize
           /\ Conn(e) \in Threads /\ at[e] = "recv" /\ cur[e] = Size[file[e]]
           /\ file[e] \in Files /\ disk' = disk /\ received' = received \union {file[e]}
           /\ file'[e] = file[e] /\ cur'[e] = cur[e] /\ total'[e] = total[e]
           /\ Going(e) = Sent(e)
           /\ Large(Size[file[e]]) => Coming(e) = In(e)
           /\ ~Large(Size[file[e]]) => Takes(e)
  <1> DEFINE f == file[e]
  <1>1. TypeOK /\ WireOK /\ Conn(e) \in Threads /\ at[e] = "recv" /\ f \in Files
    BY Kinds, TypeParts DEF IInv, RecvEnd, Receiving
  <1>2. StreamOK(e) /\ total[e] = Size[f] /\ cur[e] \in Nat /\ Size[f] \in Nat
    BY <1>1, Kinds, ReceiverHas, SizeAssumption DEF Receiving, TypeOK
  <1>3. PeerOK' /\ Leave(e) /\ \A x \in Ends : x # e => at'[x] = at[x]
    BY <1>1, EndLeaves, LeaveAt DEF RecvEnd
  <1>4. received' \subseteq Files
    BY <1>1 DEF RecvEnd, TypeOK
  <1>5. /\ WireOK' /\ \A u \in Threads : u # Conn(e) => wire'[u] = wire[u]
        /\ cur[e] = Size[f] /\ Going(e) = Sent(e)
        /\ Large(Size[f]) => Coming(e) = In(e)
        /\ ~Large(Size[f]) => Takes(e)
    <2>1. CASE Large(Size[f])
      <3>1. wire' = wire /\ cur[e] >= Size[f]
        BY <1>2, <2>1 DEF RecvEnd
      <3>2. cur[e] = Size[f]
        BY <1>2, <3>1, SMT DEF StreamOK
      <3> QED
        BY <1>1, <2>1, <3>1, <3>2 DEF WireOK, Coming, Going, Sent, In
    <2>2. CASE ~Large(Size[f])
      <3>1. CanRecv(e) /\ Recv(e) /\ Head(In(e)) = EndOfFile
        BY <1>2, <2>2 DEF RecvEnd
      <3>2. ~(cur[e] < Size[f])
        <4>1. \A n \in Nat : <<"chunk", n>> # EndOfFile
          BY NoneAssumption DEF EndOfFile
        <4>2. cur[e] + 1 \in Nat
          BY <1>2
        <4> QED
          BY <1>1, <3>1, <4>1, <4>2, StreamHead DEF Receiving
      <3>3. cur[e] = Size[f]
        BY <1>2, <3>2, SMT DEF StreamOK
      <3> QED
        BY <1>1, <2>2, <3>1, <3>3, RecvTakes DEF Takes
    <2> QED
      BY <2>1, <2>2
  <1>6. TypeOK'
    BY <1>1, <1>3, <1>4, <1>5, TypeAfter, DiskTypes DEF RecvEnd, TypeOK, bounds
  <1>7. OnlyAt(e)
    BY <1>3, <1>5 DEF OnlyAt, RecvEnd
  <1> QED
    BY <1>1, <1>3, <1>5, <1>6, <1>7 DEF RecvEnd

(* What RecvFailed changes: a mapped file is cut back to what has arrived. *)
LEMMA RecvFailedDoes ==
    ASSUME IInv, NEW e \in Ends, RecvFailed(e)
    PROVE  /\ TypeOK' /\ OnlyAt(e) /\ Leave(e) /\ fileSize' = fileSize
           /\ Conn(e) \in Threads /\ Conn(e) \in broken /\ In(e) = <<>>
           /\ file[e] \in Files /\ received' \subseteq Files /\ at[e] \in Receiving
           /\ Good => received' = received
           /\ file'[e] = file[e] /\ cur'[e] = cur[e] /\ total'[e] = total[e]
           /\ wire' = wire
           /\ IF ~IsMapped(e) THEN disk' = disk
              ELSE /\ cur[e] \in Nat /\ cur[e] < Size[file[e]]
                   /\ disk' = [disk EXCEPT ![Dest(file[e])][file[e]] =
                                 SubSeq(There(file[e]), 1, cur[e])]
  <1> DEFINE f == file[e]
             d == There(f)
  <1>1. /\ TypeOK /\ WireOK /\ Conn(e) \in Threads /\ at[e] \in Receiving /\ f \in Files
        /\ RecvFails(e) /\ Side(e) = Dest(f) /\ FileOf(e) = d /\ cur[e] \in Nat /\ Size[f] \in Nat
    BY Kinds, TypeParts, SizeAssumption DEF IInv, RecvFailed, Receiving, TypeOK
  <1>2. PeerOK' /\ Leave(e) /\ \A x \in Ends : x # e => at'[x] = at[x]
    BY <1>1, EndLeaves, LeaveAt DEF RecvFailed
  <1>3. WireOK'
    BY <1>1 DEF RecvFailed, WireOK
  <1>4. /\ disk' \in [Sides -> [Files -> Seq(Data) \union {None}]]
        /\ IF ~IsMapped(e) THEN disk' = disk
           ELSE cur[e] < Size[f] /\ disk' = [disk EXCEPT ![Dest(f)][f] = SubSeq(d, 1, cur[e])]
    <2>1. CASE at[e] # "recv"
      BY <1>1, <2>1, DiskTypes DEF RecvFailed, IsMapped
    <2>2. CASE at[e] = "recv"
      <3>1. /\ ReceiverOK(e) /\ total[e] = Size[f] /\ d \in Seq(Data) /\ Len(d) \in Nat
            /\ Side(e) \in Sides
        BY <1>1, <2>2, ReceiverHas DEF Receiving
      <3>2. CASE ~IsMapped(e)
        BY <1>1, <2>2, <3>1, <3>2, DiskTypes DEF RecvFailed, IsMapped
      <3>3. CASE IsMapped(e)
        <4>1. cur[e] < Size[f] /\ disk' = Truncated(e)
          BY <2>2, <3>1, <3>3 DEF RecvFailed, IsMapped
        <4>2. Len(d) = Size[f] /\ disk[Dest(f)][f] = d
          BY <3>1, <3>3 DEF ReceiverOK, There
        <4>3. disk' = [disk EXCEPT ![Dest(f)][f] = SubSeq(d, 1, cur[e])]
          BY <1>1, <4>1, <4>2 DEF Truncated
        <4>4. SubSeq(d, 1, cur[e]) \in Seq(Data)
          <5>1. \A i \in 1..cur[e] : d[i] \in Data
            BY <1>1, <3>1, <4>1, <4>2
          <5>2. SubSeq(d, 1, cur[e]) = [i \in 1..cur[e] |-> d[i]]
            BY <1>1, <3>1, <4>1, <4>2, SMT
          <5> QED
            BY <1>1, <5>1, <5>2
        <4>5. disk' \in [Sides -> [Files -> Seq(Data) \union {None}]]
          BY <1>1, <3>1, <4>3, <4>4, DiskSet
        <4> QED
          BY <3>3, <4>1, <4>3, <4>5
      <3> QED
        BY <3>2, <3>3
    <2> QED
      BY <2>1, <2>2
  <1>5. received' \subseteq Files /\ (Good => received' = received)
    <2>1. received' = received \/ (Torn /\ received' = received \union {f})
      BY DEF RecvFailed, TornLength
    <2> QED
      BY <1>1, <2>1 DEF TypeOK, Good
  <1>6. TypeOK'
    BY <1>1, <1>2, <1>3, <1>4, <1>5, TypeAfter DEF RecvFailed, TypeOK, bounds
  <1>7. OnlyAt(e)
    BY <1>2 DEF OnlyAt, RecvFailed
  <1> QED
    BY <1>1, <1>2, <1>4, <1>6, <1>7, <1>5 DEF RecvFailed, RecvFails

-----------------------------------------------------------------------------
(* The connections stay in step.                                           *)

(* A step that leaves everything of t's connection alone.                  *)
SameConn(t) ==
    /\ at'[t] = at[t] /\ file'[t] = file[t] /\ cur'[t] = cur[t] /\ total'[t] = total[t]
    /\ wire'[t] = wire[t] /\ (t \in broken' <=> t \in broken)
    /\ at[t] = "start" => action' = action
    /\ \A w \in Workers :
         IF peer[w] = t
         THEN /\ peer'[w] = t /\ at'[w] = at[w] /\ file'[w] = file[w]
              /\ cur'[w] = cur[w] /\ total'[w] = total[w]
         ELSE peer'[w] # t

(* A thread nothing of which changes keeps its part.                       *)
LEMMA SameThread ==
    ASSUME NEW t \in Threads, at'[t] = at[t], file'[t] = file[t], cur'[t] = cur[t],
           total'[t] = total[t], at[t] = "start" => action' = action,
           Down(t)' = Down(t), at[t] = "start" => Up(t)' = Up(t) /\ InFlight(t)' = InFlight(t),
           ThreadOK(t)
    PROVE  ThreadOK(t)'
  <1>1. Heads(t)' = Heads(t)
    BY DEF Heads
  <1>2. In(t)' = Down(t)' /\ In(t) = Down(t)
    BY ThreadEnd DEF In, Down, Conn, Side
  <1>3. at[t] \in Receiving /\ StreamOK(t) => StreamOK(t)'
    BY <1>1, <1>2 DEF StreamOK, Script, Whole, Large
  <1> QED
    BY <1>3 DEF ThreadOK, Receiving, Gets

(* A worker nothing of which changes keeps its stream.                     *)
LEMMA SameWorkerStream ==
    ASSUME NEW t \in Threads, NEW w \in Workers, peer[w] = t, peer'[w] = t,
           at'[w] = at[w], file'[w] = file[w], cur'[w] = cur[w], Up(t)' = Up(t), StreamOK(w)
    PROVE  StreamOK(w)' /\ Heads(w)' = Heads(w)
  <1>1. Heads(w)' = Heads(w)
    BY DEF Heads
  <1>2. In(w)' = Up(t)' /\ In(w) = Up(t)
    BY WorkerEnd DEF In, Up, Conn, Side
  <1> QED
    BY <1>1, <1>2 DEF StreamOK, Script, Whole, Large

(* A connection nothing of which changes stays as it should be.            *)
LEMMA Undisturbed ==
    ASSUME NEW t \in Threads, ConnOK(t), SameConn(t)
    PROVE  ConnOK(t)'
  <1>1. InFlight(t)' = InFlight(t)
    BY DEF SameConn, InFlight
  <1>2. Up(t)' = Up(t) /\ Down(t)' = Down(t)
    BY DEF SameConn, Up, Down
  <1>3. ThreadOK(t)'
    BY <1>1, <1>2, SameThread DEF SameConn, ConnOK
  <1>4. Alone(t) => Alone(t)'
    BY <1>2 DEF Alone, SameConn, Large, Gets, Says
  <1>5. ASSUME NEW w \in InFlight(t), Served(w, t)
        PROVE  Served(w, t)'
    <2>1. /\ w \in Workers /\ peer[w] = t /\ peer'[w] = t /\ at'[w] = at[w]
          /\ file'[w] = file[w] /\ cur'[w] = cur[w] /\ total'[w] = total[w]
      BY DEF SameConn, InFlight
    <2>2. Heads(w)' = Heads(w) /\ Heads(t)' = Heads(t)
      BY <2>1 DEF Heads, SameConn
    <2>3. at[w] \in Receiving /\ StreamOK(w) => StreamOK(w)'
      BY <1>2, <2>1, SameWorkerStream
    <2>4. WorkerOK(w, t) => WorkerOK(w, t)'
      BY <1>2, <2>1, <2>3 DEF WorkerOK, SameConn, Receiving, Gets
    <2>5. Sync(w, t) => Sync(w, t)'
      BY <1>2, <2>1, <2>2 DEF Sync, SameConn, Receiving, Gets, Says, Large
    <2>6. t \in broken' <=> t \in broken
      BY DEF SameConn
    <2> QED
      BY <1>5, <2>4, <2>5, <2>6 DEF Served
  <1> QED
    BY <1>1, <1>3, <1>4, <1>5 DEF ConnOK

(* A step of e leaves the connections e is not on as they should be.       *)
LEMMA OthersKept ==
    ASSUME IInv, NEW e \in Ends, OnlyAt(e), peer' = peer \/ Leave(e), Conn(e) \in Threads,
           NEW t \in Threads, t # Conn(e)
    PROVE  ConnOK(t)'
  <1>1. ConnOK(t) /\ TypeOK
    BY DEF IInv, ConnInv
  <1>2. t # e /\ t \in Ends /\ wire'[t] = wire[t]
    BY ThreadEnd DEF OnlyAt, Ends
  <1>3. \A w \in Workers : w # e => peer'[w] = peer[w]
    BY <1>1, LeaveAt DEF OnlyAt
  <1>4. e \in Workers => peer[e] # t /\ peer'[e] # t
    BY <1>1, LeaveAt, WorkerEnd, NoneAssumption
  <1>5. \A w \in Workers : w \in Ends
    BY DEF Ends
  <1>6. SameConn(t)
    BY <1>2, <1>3, <1>4, <1>5 DEF SameConn, OnlyAt
  <1> QED
    BY <1>1, <1>6, Undisturbed

(* So it is enough to look at the connection of e.                         *)
LEMMA ConnAfter ==
    ASSUME IInv, NEW e \in Ends, OnlyAt(e), peer' = peer \/ Leave(e), NEW c \in Threads,
           c = Conn(e), at'[e] # "start", TypeOK', Offsets', ConnOK(c)'
    PROVE  ConnInv'
  <1>1. TypeOK
    BY DEF IInv
  <1>2. OneWorker'
    <2>1. \A w \in Workers : peer'[w] = peer[w] \/ peer'[w] = None
      BY <1>1, LeaveAt
    <2> QED
      BY <2>1 DEF IInv, ConnInv, OneWorker
  <1>3. OneStart'
    BY DEF IInv, ConnInv, OneStart, OnlyAt, Ends
  <1>4. \A t \in Threads : ConnOK(t)'
    BY OthersKept
  <1> QED
    BY <1>2, <1>3, <1>4 DEF ConnInv

(* A receiver's stream, by what it depends on.                             *)
Stream(f, h, c, q) ==
    /\ c <= Size[f] /\ Len(q) + c <= h + Whole(f)
    /\ \A i \in 1..Len(q) : q[i] = Script(f, h, c, i)

(* After the heads come the chunks and, without mmap, the end.             *)
LEMMA WholeOf ==
    ASSUME NEW f \in Files
    PROVE  /\ Size[f] \in Nat /\ Whole(f) \in Nat
           /\ Large(Size[f]) => Whole(f) = Size[f]
           /\ ~Large(Size[f]) => Whole(f) = Size[f] + 1
  BY SizeAssumption DEF Whole

(* A receiver's stream, now and after the step.                            *)
LEMMA StreamIs ==
    ASSUME NEW r \in Ends
    PROVE  /\ StreamOK(r) <=> Stream(file[r], Heads(r), cur[r], In(r))
           /\ StreamOK(r)' <=> Stream(file'[r], Heads(r)', cur'[r], In(r)')
  BY DEF StreamOK, Stream, Script, Whole, Large

(* A stream from which an item is taken goes on with the next.             *)
LEMMA StreamTaken ==
    ASSUME NEW f \in Files, NEW h \in {0, 1, 2}, NEW c \in Nat, NEW q \in Seq(Item),
           NEW p \in Seq(Item), Stream(f, h, c, q), q # <<>>, Len(p) = Len(q) - 1,
           \A i \in 1..Len(q) - 1 : p[i] = q[i + 1]
    PROVE  /\ h > 0 => Stream(f, h - 1, c, p)
           /\ h = 0 /\ c < Size[f] => Stream(f, 0, c + 1, p)
  <1>1. Len(q) \in Nat /\ Len(p) \in Nat /\ Size[f] \in Nat /\ Whole(f) \in Nat
    BY LenProperties, WholeOf
  <1>2. \A i \in 1..Len(p) : i \in Nat /\ i >= 1 /\ i + 1 \in 1..Len(q) /\ p[i] = q[i + 1]
    BY <1>1, SMT
  <1>3. ASSUME h > 0
        PROVE  Stream(f, h - 1, c, p)
    <2>1. \A i \in Nat : i >= 1 => Script(f, h, c, i + 1) = Script(f, h - 1, c, i)
      <3> SUFFICES ASSUME NEW i \in Nat, i >= 1
                   PROVE  Script(f, h, c, i + 1) = Script(f, h - 1, c, i)
        OBVIOUS
      <3>1. /\ (i + 1 < h <=> i < h - 1) /\ (i + 1 = h <=> i = h - 1)
            /\ c + (i + 1) - h = c + i - (h - 1)
        BY SMT
      <3> QED
        BY <3>1 DEF Script
    <2>2. Len(p) + c <= h - 1 + Whole(f) /\ c <= Size[f]
      BY <1>1, SMT DEF Stream
    <2> QED
      BY <1>2, <2>1, <2>2 DEF Stream
  <1>4. ASSUME h = 0, c < Size[f]
        PROVE  Stream(f, 0, c + 1, p)
    <2>1. \A i \in Nat : i >= 1 => Script(f, 0, c, i + 1) = Script(f, 0, c + 1, i)
      <3> SUFFICES ASSUME NEW i \in Nat, i >= 1
                   PROVE  Script(f, 0, c, i + 1) = Script(f, 0, c + 1, i)
        OBVIOUS
      <3>1. /\ ~(i + 1 < 0) /\ ~(i < 0) /\ ~(i + 1 = 0) /\ ~(i = 0)
            /\ c + (i + 1) - 0 = c + 1 + i - 0
        BY SMT
      <3> QED
        BY <3>1 DEF Script
    <2>2. Len(p) + (c + 1) <= 0 + Whole(f) /\ c + 1 <= Size[f]
      BY <1>1, <1>4, SMT DEF Stream
    <2> QED
      BY <1>2, <1>4, <2>1, <2>2 DEF Stream
  <1> QED
    BY <1>3, <1>4

(* A stream to which the right item is added.                              *)
LEMMA StreamAdded ==
    ASSUME NEW f \in Files, NEW h \in {0, 1, 2}, NEW c \in Nat, NEW q \in Seq(Item),
           NEW p, Stream(f, h, c, q), Len(p) = Len(q) + 1,
           \A i \in 1..Len(q) : p[i] = q[i], p[Len(q) + 1] = Script(f, h, c, Len(q) + 1),
           Len(q) + 1 + c <= h + Whole(f)
    PROVE  Stream(f, h, c, p)
  <1>1. Len(q) \in Nat
    BY LenProperties
  <1>2. \A i \in 1..Len(p) : i \in 1..Len(q) \/ i = Len(q) + 1
    BY <1>1, SMT
  <1> QED
    BY <1>1, <1>2 DEF Stream

(* A connection as its thread sees it.                                     *)
LEMMA ThreadView ==
    ASSUME NEW t \in Threads
    PROVE  /\ t \in Ends /\ Conn(t) = t /\ In(t) = Down(t) /\ In(t)' = Down(t)'
           /\ Sent(t) = Up(t) /\ Coming(t) = Down(t)' /\ Going(t) = Up(t)'
  BY ThreadEnd DEF In, Down, Up, Conn, Side, Sent, Coming, Going

(* A connection as its worker sees it.                                     *)
LEMMA WorkerView ==
    ASSUME TypeOK, NEW t \in Threads, NEW w \in InFlight(t)
    PROVE  /\ w \in Ends /\ w \in Workers /\ peer[w] = t /\ Conn(w) = t /\ In(w) = Up(t)
           /\ Sent(w) = Down(t) /\ Coming(w) = Up(t)' /\ Going(w) = Down(t)'
           /\ peer'[w] = t => In(w)' = Up(t)'
           /\ at[w] # "idle" /\ w \notin Threads
  <1>1. w \in Workers /\ peer[w] = t /\ t # None
    BY NoneAssumption DEF InFlight
  <1> QED
    BY <1>1, WorkerEnd DEF In, Down, Up, Conn, Side, Sent, Coming, Going, TypeOK

(* When a thread takes a step, its worker stays.                           *)
LEMMA WorkerStays ==
    ASSUME TypeOK, NEW t \in Threads, OnlyAt(t), peer' = peer
    PROVE  /\ InFlight(t)' = InFlight(t)
           /\ \A w \in InFlight(t) :
                /\ at'[w] = at[w] /\ file'[w] = file[w] /\ cur'[w] = cur[w]
                /\ total'[w] = total[w] /\ Heads(w)' = Heads(w) /\ In(w)' = Up(t)'
                /\ In(w) = Up(t) /\ w \in Ends /\ w \in Workers
                /\ Up(t)' = Up(t) /\ StreamOK(w) => StreamOK(w)'
  <1>1. InFlight(t)' = InFlight(t)
    BY DEF InFlight
  <1> SUFFICES ASSUME NEW w \in InFlight(t)
               PROVE  /\ at'[w] = at[w] /\ file'[w] = file[w] /\ cur'[w] = cur[w]
                      /\ total'[w] = total[w] /\ Heads(w)' = Heads(w) /\ In(w)' = Up(t)'
                      /\ In(w) = Up(t) /\ w \in Ends /\ w \in Workers
                      /\ Up(t)' = Up(t) /\ StreamOK(w) => StreamOK(w)'
    BY <1>1
  <1>2. w \in Ends /\ w # t /\ w \in Workers /\ peer[w] = t /\ peer'[w] = t
    BY WorkerView, ThreadView
  <1>3. at'[w] = at[w] /\ file'[w] = file[w] /\ cur'[w] = cur[w] /\ total'[w] = total[w]
    BY <1>2 DEF OnlyAt
  <1> QED
    BY <1>2, <1>3, WorkerView, SameWorkerStream DEF Heads

(* When a worker takes a step, its thread stays.                           *)
LEMMA ThreadStays ==
    ASSUME IInv, NEW t \in Threads, NEW w \in InFlight(t), OnlyAt(w), peer' = peer \/ Leave(w)
    PROVE  /\ at'[t] = at[t] /\ file'[t] = file[t] /\ cur'[t] = cur[t] /\ total'[t] = total[t]
           /\ at[t] # "start" /\ Heads(t)' = Heads(t) /\ InFlight(t) = {w}
           /\ InFlight(t)' = IF peer' = peer THEN {w} ELSE {}
           /\ Down(t)' = Down(t) => ThreadOK(t)'
           /\ broken' = broken /\ ThreadOK(t) /\ Served(w, t)
  <1>1. TypeOK /\ ConnOK(t) /\ ThreadOK(t) /\ Served(w, t)
    BY DEF IInv, ConnInv, ConnOK
  <1>2. t \in Ends /\ t # w /\ w \in Workers /\ peer[w] = t /\ t # None
    BY <1>1, WorkerView, ThreadView, NoneAssumption
  <1>3. /\ at'[t] = at[t] /\ file'[t] = file[t] /\ cur'[t] = cur[t] /\ total'[t] = total[t]
        /\ broken' = broken /\ action' = action
    BY <1>2 DEF OnlyAt
  <1>4. at[t] # "start"
    BY <1>1 DEF Served, WorkerOK
  <1>5. InFlight(t) = {w}
    BY <1>2 DEF IInv, ConnInv, OneWorker, InFlight
  <1>6. InFlight(t)' = IF peer' = peer THEN {w} ELSE {}
    <2>1. CASE peer' = peer
      BY <1>5, <2>1 DEF InFlight
    <2>2. CASE peer' # peer
      <3>1. peer'[w] = None /\ \A v \in Workers : v # w => peer'[v] = peer[v]
        BY <1>1, <1>2, <2>2, LeaveAt DEF Ends
      <3> QED
        BY <1>2, <1>5, <2>2, <3>1 DEF InFlight
    <2> QED
      BY <2>1, <2>2
  <1>7. Down(t)' = Down(t) => ThreadOK(t)'
    BY <1>1, <1>3, <1>4, SameThread
  <1> QED
    BY <1>1, <1>3, <1>4, <1>5, <1>6, <1>7 DEF Heads

(* A thread that takes an item keeps its connection in step: what is under *)
(* way is still what it lacks.                                             *)
LEMMA ThreadReceives ==
    ASSUME IInv, NEW t \in Threads, OnlyAt(t), peer' = peer,
           at[t] \in Receiving, at'[t] \in Receiving, file'[t] = file[t], Up(t)' = Up(t),
           StreamOK(t)', at'[t] = "recv" => total'[t] = Size[file[t]], Down(t) # <<>>,
           NEW x \in Nat, NEW y \in Nat, x = Len(Down(t)) + cur[t], y = Len(Down(t))' + cur'[t],
           x + Heads(t)' = y + Heads(t),
           cur'[t] = cur[t] \/ (Heads(t)' = 0 /\ cur'[t] <= y)
    PROVE  ConnOK(t)'
  <1>1. TypeOK /\ ConnOK(t) /\ broken' = broken /\ t \in Ends
    BY ThreadView DEF IInv, ConnInv, OnlyAt
  <1>2. ThreadOK(t)'
    BY <1>1 DEF ConnOK, ThreadOK, Receiving, Gets
  <1>3. ASSUME InFlight(t) = {}
        PROVE  Alone(t)'
    <2>1. Alone(t)
      BY <1>1, <1>3 DEF ConnOK
    <2> QED
      BY <1>1, <2>1 DEF Alone, Receiving, Large
  <1>4. ASSUME NEW w \in InFlight(t)
        PROVE  Served(w, t)'
    <2>1. Served(w, t)
      BY <1>1 DEF ConnOK
    <2>2. WorkerOK(w, t)'
      BY <1>1, <2>1, WorkerStays DEF Served, WorkerOK, Receiving, Gets
    <2>3. ASSUME t \notin broken
          PROVE  Sync(w, t)'
      <3>1. Sync(w, t) /\ WorkerOK(w, t)
        BY <2>1, <2>3 DEF Served
      <3>2. at[w] = "send" => x = Heads(t) + cur[w] /\ cur[t] <= cur[w]
        BY <3>1 DEF Sync, Receiving
      <3>3. at[w] = "send" => y = Heads(t)' + cur[w] /\ cur'[t] <= cur[w]
        <4>1. cur[w] \in Nat /\ Heads(t) \in Nat /\ Heads(t)' \in Nat
          BY <1>1, WorkerStays DEF TypeOK, Heads
        <4>2. PICK h \in Nat, k \in Nat, d \in Nat : h = Heads(t) /\ k = Heads(t)' /\ d = cur[w]
          BY <4>1
        <4>3. x + k = y + h /\ (cur'[t] = cur[t] \/ (k = 0 /\ cur'[t] <= y))
          BY <4>2
        <4>4. at[w] = "send" => x = h + d /\ cur[t] <= d
          BY <3>2, <4>2
        <4>5. at[w] = "send" => y = k + d /\ (k = 0 => y = d)
          BY <4>2, <4>3, <4>4, Balance, SMTT(30)
        <4>6. at[w] = "send" => cur'[t] <= d
          BY <4>3, <4>4, <4>5
        <4> QED
          BY <4>2, <4>5, <4>6
      <3>4. at'[w] = at[w] /\ cur'[w] = cur[w] /\ file'[w] = file[w]
        BY <1>1, WorkerStays
      <3> QED
        BY <1>1, <3>1, <3>3, <3>4 DEF Sync, Receiving
    <2> QED
      BY <1>1, <2>2, <2>3 DEF Served
  <1> QED
    BY <1>1, <1>2, <1>3, <1>4, WorkerStays DEF ConnOK

(* So does one that sends a head or a chunk.                               *)
LEMMA ThreadSends ==
    ASSUME IInv, NEW t \in Threads, OnlyAt(t), peer' = peer,
           at[t] \in {"head", "send"}, at'[t] = "send", file'[t] = file[t], Down(t)' = Down(t),
           total'[t] = Size[file[t]], cur'[t] \in Nat, cur'[t] <= Size[file[t]],
           at[t] = "send" => cur[t] < Size[file[t]], t \notin broken,
           \A w \in InFlight(t) : at[w] \in Receiving =>
               /\ StreamOK(w)' /\ cur[w] <= cur'[t]
               /\ Len(Up(t))' + cur[w] = Heads(w) + cur'[t]
    PROVE  ConnOK(t)'
  <1>1. TypeOK /\ ConnOK(t) /\ broken' = broken /\ t \in Ends
    BY ThreadView DEF IInv, ConnInv, OnlyAt
  <1>2. ThreadOK(t)'
    BY <1>1 DEF ConnOK, ThreadOK, Receiving, Gets
  <1>3. InFlight(t) # {}
    BY <1>1, WholeOf DEF ConnOK, Alone, TypeOK, ThreadOK
  <1>4. ASSUME NEW w \in InFlight(t)
        PROVE  Served(w, t)'
    <2>1. WorkerOK(w, t) /\ Sync(w, t)
      BY <1>1 DEF ConnOK, Served
    <2>2. at[w] \in Receiving
      BY <2>1 DEF Sync, Receiving
    <2>3. /\ at'[w] = at[w] /\ cur'[w] = cur[w] /\ file'[w] = file[w] /\ total'[w] = total[w]
          /\ Heads(w)' = Heads(w)
      BY <1>1, WorkerStays
    <2>4. WorkerOK(w, t)'
      BY <1>1, <2>1, <2>2, <2>3 DEF WorkerOK, Receiving, Gets
    <2>5. Sync(w, t)'
      BY <1>1, <2>2, <2>3 DEF Sync, Receiving
    <2> QED
      BY <2>4, <2>5 DEF Served
  <1> QED
    BY <1>1, <1>2, <1>3, <1>4, WorkerStays DEF ConnOK

(* And one that leaves: what its worker receives still arrives.            *)
LEMMA ThreadLeaves ==
    ASSUME IInv, NEW t \in Threads, OnlyAt(t), Leave(t), at[t] \in {"head", "send"} \cup Receiving,
           Up(t)' = Up(t) \/ InFlight(t) # {},
           \A w \in InFlight(t) :
             /\ at[w] \in Receiving => StreamOK(w)'
             /\ at[w] \notin Receiving => Up(t)' = Up(t)
             /\ at[w] = "send" /\ t \notin broken => Large(Size[file[w]]) /\ cur[w] = Size[file[w]],
           t \notin broken => at[t] \in {"send", "recv"}
    PROVE  ConnOK(t)'
  <1>1. TypeOK /\ ConnOK(t) /\ broken' = broken /\ t \in Ends
    BY ThreadView DEF IInv, ConnInv, OnlyAt
  <1>2. peer' = peer /\ at'[t] = "done"
    BY <1>1, LeaveAt
  <1>3. ThreadOK(t)'
    BY <1>2 DEF ThreadOK, Receiving
  <1>4. ASSUME InFlight(t) = {}
        PROVE  Alone(t)'
    <2>1. Alone(t) /\ Up(t)' = Up(t)
      BY <1>1, <1>4 DEF ConnOK
    <2> QED
      BY <1>1, <1>2, <2>1 DEF Alone
  <1>5. ASSUME NEW w \in InFlight(t)
        PROVE  Served(w, t)'
    <2>1. Served(w, t)
      BY <1>1 DEF ConnOK
    <2>2. /\ at'[w] = at[w] /\ cur'[w] = cur[w] /\ file'[w] = file[w] /\ total'[w] = total[w]
          /\ Heads(w)' = Heads(w)
      BY <1>1, <1>2, WorkerStays
    <2>3. WorkerOK(w, t)'
      BY <1>2, <2>1, <2>2 DEF Served, WorkerOK, Receiving, Gets
    <2>4. ASSUME t \notin broken
          PROVE  Sync(w, t)'
      <3>1. Sync(w, t) /\ at[t] \in {"send", "recv"} /\ file[w] \in Files
        BY <2>1, <2>4 DEF Served, WorkerOK
      <3>2. at[w] # "command" /\ at[w] # "head"
        BY <2>1, <3>1 DEF Sync, Served, WorkerOK, Gets
      <3> QED
        BY <1>2, <2>2, <2>4, <3>2 DEF Sync, Large
    <2> QED
      BY <1>1, <2>3, <2>4 DEF Served
  <1> QED
    BY <1>1, <1>2, <1>3, <1>4, <1>5, WorkerStays DEF ConnOK

(* A worker that takes an item keeps its connection in step.               *)
LEMMA WorkerReceives ==
    ASSUME IInv, NEW t \in Threads, NEW w \in InFlight(t), OnlyAt(w), peer' = peer,
           at[w] \in Receiving, at'[w] \in Receiving, file'[w] = file[w], Down(t)' = Down(t),
           StreamOK(w)', at'[w] = "recv" => total'[w] = Size[file[w]], Up(t) # <<>>,
           NEW x \in Nat, NEW y \in Nat, x = Len(Up(t)) + cur[w], y = Len(Up(t))' + cur'[w],
           x + Heads(w)' = y + Heads(w),
           cur'[w] = cur[w] \/ (Heads(w)' = 0 /\ cur'[w] <= y)
    PROVE  ConnOK(t)'
  <1>1. TypeOK /\ w \in Ends
    BY WorkerView DEF IInv
  <1>2. /\ at'[t] = at[t] /\ file'[t] = file[t] /\ cur'[t] = cur[t] /\ total'[t] = total[t]
        /\ InFlight(t)' = {w} /\ ThreadOK(t)' /\ Served(w, t) /\ broken' = broken
    BY ThreadStays
  <1>3. WorkerOK(w, t)'
    BY <1>2 DEF Served, WorkerOK, Receiving
  <1>4. ASSUME t \notin broken
        PROVE  Sync(w, t)'
    <2>1. Sync(w, t) /\ WorkerOK(w, t)
      BY <1>2, <1>4 DEF Served
    <2>2. at[t] = "send" => x = Heads(w) + cur[t] /\ cur[w] <= cur[t]
      BY <2>1 DEF Sync
    <2>3. at[t] = "send" => y = Heads(w)' + cur[t] /\ cur'[w] <= cur[t]
      <3>1. cur[t] \in Nat /\ Heads(w) \in Nat /\ Heads(w)' \in Nat
        BY <1>1, ThreadView DEF TypeOK, Heads
      <3>2. PICK h \in Nat, k \in Nat, d \in Nat : h = Heads(w) /\ k = Heads(w)' /\ d = cur[t]
        BY <3>1
      <3>3. x + k = y + h /\ (cur'[w] = cur[w] \/ (k = 0 /\ cur'[w] <= y))
        BY <3>2
      <3>4. at[t] = "send" => x = h + d /\ cur[w] <= d
        BY <2>2, <3>2
      <3>5. at[t] = "send" => y = k + d /\ (k = 0 => y = d)
        BY <3>2, <3>3, <3>4, Balance, SMTT(30)
      <3>6. at[t] = "send" => cur'[w] <= d
        BY <3>3, <3>4, <3>5
      <3> QED
        BY <3>2, <3>5, <3>6
    <2>4. at[t] # "answer" /\ at[t] # "head"
      BY <2>1 DEF Sync, Receiving
    <2> QED
      BY <1>2, <2>3, <2>4 DEF Sync, Receiving
  <1> QED
    BY <1>2, <1>3, <1>4 DEF ConnOK, Served

(* So does one that sends a head or a chunk.                               *)
LEMMA WorkerSends ==
    ASSUME IInv, NEW t \in Threads, NEW w \in InFlight(t), OnlyAt(w), peer' = peer,
           at[w] \in {"head", "send"}, at'[w] = "send", file'[w] = file[w], Up(t)' = Up(t),
           total'[w] = Size[file[w]], cur'[w] \in Nat, cur'[w] <= Size[file[w]],
           at[w] = "send" => cur[w] < Size[file[w]], t \notin broken,
           at[t] \in Receiving => /\ StreamOK(t)' /\ cur[t] <= cur'[w]
                                  /\ Len(Down(t))' + cur[t] = Heads(t) + cur'[w]
    PROVE  ConnOK(t)'
  <1>1. TypeOK /\ w \in Ends
    BY WorkerView DEF IInv
  <1>2. /\ at'[t] = at[t] /\ file'[t] = file[t] /\ cur'[t] = cur[t] /\ total'[t] = total[t]
        /\ InFlight(t)' = {w} /\ ThreadOK(t) /\ Served(w, t) /\ broken' = broken
        /\ Heads(t)' = Heads(t)
    BY ThreadStays
  <1>3. Sync(w, t) /\ WorkerOK(w, t)
    BY <1>2 DEF Served
  <1>4. file[w] \in Files /\ Size[file[w]] \in Nat /\ cur[w] \in Nat
    BY <1>1, <1>3, SizeAssumption DEF WorkerOK, TypeOK
  <1>5. at[t] \in Receiving
    BY <1>3, <1>4, SMT DEF Sync, Receiving
  <1>6. WorkerOK(w, t)'
    BY <1>2, <1>3 DEF WorkerOK, Receiving
  <1>7. Sync(w, t)'
    BY <1>2, <1>5 DEF Sync, Receiving
  <1>8. ThreadOK(t)'
    BY <1>2, <1>5 DEF ThreadOK, Receiving, Gets
  <1> QED
    BY <1>2, <1>6, <1>7, <1>8 DEF ConnOK, Served

(* And one that leaves.                                                    *)
LEMMA WorkerLeaves ==
    ASSUME IInv, NEW t \in Threads, NEW w \in InFlight(t), OnlyAt(w), Leave(w),
           at[w] \in {"head", "send"} \cup Receiving,
           Up(t)' = <<>>,
           at[t] \in Receiving => StreamOK(t)',
           at[t] \notin Receiving => Down(t)' = Down(t),
           t \notin broken => /\ at[w] \in {"send", "recv"}
                              /\ at[t] = "send" => Large(Size[file[t]]) /\ cur[t] = Size[file[t]]
    PROVE  ConnOK(t)'
  <1>1. TypeOK /\ w \in Ends /\ w \in Workers /\ peer[w] = t /\ t # None
    BY WorkerView, NoneAssumption DEF IInv
  <1>2. peer'[w] = None
    BY <1>1, LeaveAt
  <1>3. /\ at'[t] = at[t] /\ file'[t] = file[t] /\ cur'[t] = cur[t] /\ total'[t] = total[t]
        /\ InFlight(t)' = {} /\ ThreadOK(t) /\ Served(w, t) /\ broken' = broken /\ at[t] # "start"
        /\ (Down(t)' = Down(t) => ThreadOK(t)')
    BY <1>1, <1>2, ThreadStays
  <1>4. ThreadOK(t)'
    BY <1>3 DEF ThreadOK, Receiving, Gets
  <1>5. Alone(t)'
    <2>1. t \notin broken => at[t] # "answer" /\ at[t] # "head"
      BY <1>3 DEF Served, Sync
    <2> QED
      BY <1>3, <2>1 DEF Alone, Large
  <1> QED
    BY <1>3, <1>4, <1>5 DEF ConnOK

(* The two heads begin a stream.                                           *)
LEMMA StreamBegun ==
    ASSUME NEW f \in Files, NEW c \in Nat, c <= Size[f], NEW q, Len(q) = 2,
           q[1] = <<"name", f>>, q[2] = <<"size", Size[f]>>
    PROVE  Stream(f, 2, c, q)
  <1>1. 2 + c <= 2 + Whole(f)
    BY WholeOf, SMT
  <1>2. \A i \in 1..2 : i = 1 \/ i = 2
    BY SMT
  <1>3. Script(f, 2, c, 1) = <<"name", f>> /\ Script(f, 2, c, 2) = <<"size", Size[f]>>
    BY SMT DEF Script
  <1> QED
    BY <1>1, <1>2, <1>3 DEF Stream

(* The item after the first n chunks of f.                                 *)
Follows(f, n, item) ==
    \/ n < Size[f] /\ item = <<"chunk", n + 1>>
    \/ n = Size[f] /\ ~Large(Size[f]) /\ item = EndOfFile

(* p is q and one more item.                                               *)
Extends(p, q, item) ==
    /\ Len(p) = Len(q) + 1 /\ p[Len(q) + 1] = item
    /\ \A i \in 1..Len(q) : p[i] = q[i]

(* q is what is under way when n chunks have been sent.                    *)
UnderWay(f, h, c, q, n) == Stream(f, h, c, q) /\ Len(q) + c = h + n /\ c <= n

(* Sending what follows continues it.                                      *)
LEMMA StreamGoesOn ==
    ASSUME NEW f \in Files, NEW h \in {0, 1, 2}, NEW c \in Nat, NEW q \in Seq(Item), NEW p,
           NEW n \in Nat, NEW x, UnderWay(f, h, c, q, n), Extends(p, q, x), Follows(f, n, x)
    PROVE  Stream(f, h, c, p) /\ Len(p) + c = h + (n + 1)
  <1>0. /\ Stream(f, h, c, q) /\ Len(q) + c = h + n /\ c <= n
        /\ Len(p) = Len(q) + 1 /\ p[Len(q) + 1] = x
        /\ \A i \in 1..Len(q) : p[i] = q[i]
    BY DEF UnderWay, Extends
  <1>1. Len(q) \in Nat /\ Size[f] \in Nat /\ Whole(f) \in Nat
    BY LenProperties, WholeOf
  <1>2. /\ ~(Len(q) + 1 < h) /\ Len(q) + 1 # h /\ c + (Len(q) + 1) - h = n + 1
        /\ Len(q) + 1 + c = h + (n + 1)
    BY <1>0, <1>1, SMT
  <1>3. Script(f, h, c, Len(q) + 1) = IF n + 1 <= Size[f] THEN <<"chunk", n + 1>> ELSE EndOfFile
    BY <1>2 DEF Script
  <1>4. p[Len(q) + 1] = Script(f, h, c, Len(q) + 1)
    <2>1. n < Size[f] => n + 1 <= Size[f]
      BY <1>1, SMT
    <2>2. n = Size[f] => ~(n + 1 <= Size[f])
      BY <1>1, SMT
    <2> QED
      BY <1>0, <1>3, <2>1, <2>2 DEF Follows
  <1>5. Len(q) + 1 + c <= h + Whole(f)
    BY <1>1, <1>2, WholeOf, SMT DEF Follows
  <1> QED
    BY <1>0, <1>2, <1>4, <1>5, StreamAdded

(* How many heads a receiver waits for.                                    *)
LEMMA HeadsOf ==
    \A r \in Ends : /\ Heads(r) \in {0, 1, 2} /\ Heads(r)' \in {0, 1, 2}
                    /\ at[r] = "name" => Heads(r) = 2
                    /\ at[r] = "size" => Heads(r) = 1
                    /\ at[r] = "recv" => Heads(r) = 0
                    /\ at'[r] = "size" => Heads(r)' = 1
                    /\ at'[r] = "recv" => Heads(r)' = 0
  BY DEF Heads

(* SendHead keeps every connection in step.                                *)
LEMMA SendHeadConn ==
    ASSUME IInv, NEW e \in Ends, SendHead(e)
    PROVE  ConnInv'
  <1>1. /\ TypeOK /\ TypeOK' /\ OnlyAt(e) /\ peer' = peer /\ Conn(e) \in Threads
        /\ Conn(e) \notin broken /\ at[e] = "head" /\ cur[e] \in Nat /\ file[e] \in Files
        /\ Offsets'
    BY SendHeadDoes, Kinds DEF IInv, ConnInv, Offsets, SendHead, TypeOK
  <1>2. PICK t \in Threads : t = Conn(e)
    BY <1>1
  <1>3. ConnOK(t) /\ t \notin broken
    BY <1>1, <1>2 DEF IInv, ConnInv
  <1>4. CASE e \in Threads
    <2>1. t = e /\ Sent(t) = Up(t) /\ Going(t) = Up(t)' /\ Down(t)' = Down(t)
      BY <1>2, <1>4, ThreadView, SendHeadDoes
    <2>2. PICK w \in InFlight(t) : TRUE
      BY <1>1, <1>3, <2>1 DEF ConnOK, Alone
    <2>3. \A v \in InFlight(t) : /\ at[v] = "name" /\ cur[v] = cur[t] /\ file[v] = file[t]
                                 /\ cur[t] <= Size[file[t]] /\ v \in Workers
      BY <1>1, <1>3, <2>1 DEF ConnOK, Served, Sync, WorkerOK, StreamOK, Receiving, InFlight
    <2>4. Stream(file[t], 2, cur[t], Up(t)')
      BY <1>1, <2>1, <2>2, <2>3, SendHeadDoes, StreamBegun
    <2>5. \A v \in InFlight(t) : /\ v \in Ends /\ file'[v] = file[v] /\ cur'[v] = cur[v]
                                 /\ Heads(v)' = Heads(v) /\ In(v)' = Up(t)' /\ Heads(v) = 2
      BY <1>1, <2>1, <2>3, WorkerStays DEF Heads
    <2>6. \A v \in InFlight(t) : StreamOK(v)'
      BY <2>3, <2>4, <2>5, StreamIs
    <2>7. Len(Up(t)') = 2 /\ cur'[t] = cur[t]
      BY <2>1, SendHeadDoes
    <2>8. \A v \in InFlight(t) : Len(Up(t))' + cur[v] = Heads(v) + cur'[t] /\ cur[v] <= cur'[t]
      BY <1>1, <2>1, <2>3, <2>5, <2>7
    <2>9. ConnOK(t)'
      BY <1>1, <1>3, <2>1, <2>2, <2>3, <2>6, <2>8, ThreadSends, SendHeadDoes
    <2> QED
      BY <1>1, <1>2, <2>9, ConnAfter, SendHeadDoes
  <1>5. CASE e \in Workers
    <2>1. e \in InFlight(t)
      BY <1>2, <1>5, WorkerEnd DEF InFlight
    <2>2. Sent(e) = Down(t) /\ Going(e) = Down(t)' /\ Up(t)' = Up(t)
      BY <1>1, <1>2, <2>1, WorkerView, SendHeadDoes
    <2>3. /\ at[t] = "name" /\ cur[e] = cur[t] /\ file[t] = file[e] /\ cur[t] <= Size[file[t]]
      BY <1>1, <1>3, <2>1 DEF ConnOK, Served, Sync, WorkerOK, ThreadOK, StreamOK, Receiving
    <2>4. Stream(file[t], 2, cur[t], Down(t)') /\ Len(Down(t)') = 2
      BY <1>1, <2>2, <2>3, SendHeadDoes, StreamBegun
    <2>5. /\ file'[t] = file[t] /\ cur'[t] = cur[t] /\ Heads(t)' = 2
          /\ In(t)' = Down(t)' /\ Heads(t) = 2
      BY <1>1, <2>1, <2>3, ThreadStays, ThreadView DEF Heads
    <2>6. StreamOK(t)'
      BY <2>3, <2>4, <2>5, StreamIs, ThreadView
    <2>7. Len(Down(t))' + cur[t] = Heads(t) + cur'[e] /\ cur[t] <= cur'[e]
      BY <1>1, <2>3, <2>4, <2>5, SendHeadDoes
    <2>8. ConnOK(t)'
      BY <1>1, <1>3, <2>1, <2>2, <2>3, <2>6, <2>7, WorkerSends, SendHeadDoes
    <2> QED
      BY <1>1, <1>2, <2>8, ConnAfter, SendHeadDoes
  <1> QED
    BY <1>4, <1>5 DEF Ends

(* SendChunk keeps every connection in step.                               *)
LEMMA SendChunkConn ==
    ASSUME IInv, NEW e \in Ends, SendChunk(e)
    PROVE  ConnInv'
  <1>1. /\ TypeOK /\ TypeOK' /\ OnlyAt(e) /\ peer' = peer /\ Conn(e) \in Threads
        /\ Conn(e) \notin broken /\ at[e] = "send" /\ cur[e] \in Nat /\ file[e] \in Files
        /\ Offsets' /\ cur[e] < Size[file[e]] /\ Sent(e) \in Seq(Item)
        /\ cur'[e] = cur[e] + 1 /\ cur'[e] \in Nat
    <2>1. at[e] = "send"
      BY DEF SendChunk
    <2>2. cur[e] < Size[file[e]]
      BY <2>1, Aim DEF SendChunk
    <2> QED
      BY <2>1, <2>2, SendChunkDoes, Kinds DEF IInv, ConnInv, Offsets, TypeOK
  <1>2. PICK t \in Threads : t = Conn(e)
    BY <1>1
  <1>3. ConnOK(t) /\ t \notin broken
    BY <1>1, <1>2 DEF IInv, ConnInv
  <1>4. CASE e \in Threads
    <2>1. t = e /\ Sent(t) = Up(t) /\ Going(t) = Up(t)' /\ Down(t)' = Down(t)
      BY <1>2, <1>4, ThreadView, SendChunkDoes
    <2>2. ASSUME NEW v \in InFlight(t)
          PROVE  StreamOK(v)' /\ Len(Up(t))' + cur[v] = Heads(v) + cur'[t] /\ cur[v] <= cur'[t]
      <3>1. /\ at[v] \in Receiving /\ file[v] = file[t] /\ cur[v] <= cur[t]
            /\ Len(Up(t)) + cur[v] = Heads(v) + cur[t] /\ StreamOK(v)
        BY <1>1, <1>3, <2>1 DEF ConnOK, Served, Sync, WorkerOK
      <3>2. /\ v \in Ends /\ file'[v] = file[v] /\ cur'[v] = cur[v]
            /\ Heads(v)' = Heads(v) /\ In(v)' = Up(t)' /\ Heads(v) \in {0, 1, 2}
            /\ In(v) = Up(t)
        BY <1>1, <2>1, WorkerStays, HeadsOf
      <3>3. cur[v] \in Nat /\ Stream(file[t], Heads(v), cur[v], Up(t))
        BY <1>1, <3>1, <3>2, StreamIs DEF TypeOK
      <3>4. /\ Len(Up(t)') = Len(Up(t)) + 1
            /\ \A i \in 1..Len(Up(t)) : Up(t)'[i] = Up(t)[i]
            /\ Follows(file[t], cur[t], Up(t)'[Len(Up(t)) + 1])
        BY <1>1, <2>1, SendChunkDoes DEF Follows
      <3>5. /\ Stream(file[t], Heads(v), cur[v], Up(t)')
            /\ Len(Up(t)') + cur[v] = Heads(v) + (cur[t] + 1)
        <4>1. /\ Up(t) \in Seq(Item) /\ file[t] \in Files /\ cur[t] \in Nat
              /\ cur[t] < Size[file[t]]
          BY <1>1, <2>1
        <4>2. PICK x : Extends(Up(t)', Up(t), x) /\ Follows(file[t], cur[t], x)
          BY <3>4 DEF Extends
        <4>3. UnderWay(file[t], Heads(v), cur[v], Up(t), cur[t])
          BY <3>1, <3>3 DEF UnderWay
        <4>4. PICK h \in {0, 1, 2}, c \in Nat, n \in Nat :
                  h = Heads(v) /\ c = cur[v] /\ n = cur[t]
          BY <3>2, <3>3, <4>1
        <4>5. UnderWay(file[t], h, c, Up(t), n) /\ Follows(file[t], n, x)
          BY <4>2, <4>3, <4>4
        <4>6. Stream(file[t], h, c, Up(t)') /\ Len(Up(t)') + c = h + (n + 1)
          BY <4>1, <4>2, <4>5, StreamGoesOn
        <4> QED
          BY <4>4, <4>6
      <3>6. cur[v] <= cur[t] + 1
        BY <1>1, <2>1, <3>1, <3>3, SMT
      <3> QED
        BY <1>1, <2>1, <3>1, <3>2, <3>5, <3>6, StreamIs
    <2>3. ConnOK(t)'
      BY <1>1, <1>3, <2>1, <2>2, ThreadSends, SendChunkDoes
    <2> QED
      BY <1>1, <1>2, <2>3, ConnAfter, SendChunkDoes
  <1>5. CASE e \in Workers
    <2>1. e \in InFlight(t)
      BY <1>2, <1>5, WorkerEnd DEF InFlight
    <2>2. Sent(e) = Down(t) /\ Going(e) = Down(t)' /\ Up(t)' = Up(t)
      BY <1>1, <1>2, <2>1, WorkerView, SendChunkDoes
    <2>3. Served(e, t) /\ Sync(e, t) /\ ThreadOK(t) /\ cur[t] \in Nat
      BY <1>1, <1>3, <2>1, ThreadView DEF ConnOK, Served, TypeOK
    <2>4. ASSUME at[t] \in Receiving
          PROVE  StreamOK(t)' /\ Len(Down(t))' + cur[t] = Heads(t) + cur'[e] /\ cur[t] <= cur'[e]
      <3>1. /\ file[t] = file[e] /\ cur[t] <= cur[e]
            /\ Len(Down(t)) + cur[t] = Heads(t) + cur[e] /\ StreamOK(t)
        BY <1>1, <2>3, <2>4 DEF Served, Sync, WorkerOK, ThreadOK, Receiving
      <3>2. /\ t \in Ends /\ file'[t] = file[t] /\ cur'[t] = cur[t]
            /\ Heads(t)' = Heads(t) /\ In(t)' = Down(t)' /\ Heads(t) \in {0, 1, 2}
            /\ In(t) = Down(t)
        BY <1>1, <2>1, ThreadStays, ThreadView, HeadsOf
      <3>3. Stream(file[t], Heads(t), cur[t], Down(t))
        BY <3>1, <3>2, StreamIs
      <3>4. /\ Len(Down(t)') = Len(Down(t)) + 1
            /\ \A i \in 1..Len(Down(t)) : Down(t)'[i] = Down(t)[i]
            /\ Follows(file[t], cur[e], Down(t)'[Len(Down(t)) + 1])
        BY <1>1, <2>2, <3>1, SendChunkDoes DEF Follows
      <3>5. /\ Stream(file[t], Heads(t), cur[t], Down(t)')
            /\ Len(Down(t)') + cur[t] = Heads(t) + (cur[e] + 1)
        <4>1. /\ Down(t) \in Seq(Item) /\ file[t] \in Files /\ cur[e] \in Nat
              /\ cur[e] < Size[file[t]]
          BY <1>1, <2>2, <3>1
        <4>2. PICK x : Extends(Down(t)', Down(t), x) /\ Follows(file[t], cur[e], x)
          BY <3>4 DEF Extends
        <4>3. UnderWay(file[t], Heads(t), cur[t], Down(t), cur[e])
          BY <3>1, <3>3 DEF UnderWay
        <4>4. PICK h \in {0, 1, 2}, c \in Nat, n \in Nat :
                  h = Heads(t) /\ c = cur[t] /\ n = cur[e]
          BY <2>3, <3>2, <4>1
        <4>5. UnderWay(file[t], h, c, Down(t), n) /\ Follows(file[t], n, x)
          BY <4>2, <4>3, <4>4
        <4>6. Stream(file[t], h, c, Down(t)') /\ Len(Down(t)') + c = h + (n + 1)
          BY <4>1, <4>2, <4>5, StreamGoesOn
        <4> QED
          BY <4>4, <4>6
      <3>6. cur[t] <= cur[e] + 1
        BY <1>1, <2>3, <3>1, SMT
      <3> QED
        BY <1>1, <3>1, <3>2, <3>5, <3>6, StreamIs
    <2>5. ConnOK(t)'
      BY <1>1, <1>3, <2>1, <2>2, <2>4, WorkerSends, SendChunkDoes
    <2> QED
      BY <1>1, <1>2, <2>5, ConnAfter, SendChunkDoes
  <1> QED
    BY <1>4, <1>5 DEF Ends

(* SendEnd keeps every connection in step.                                 *)
LEMMA SendEndConn ==
    ASSUME IInv, NEW e \in Ends, SendEnd(e)
    PROVE  ConnInv'
  <1>1. /\ TypeOK /\ TypeOK' /\ OnlyAt(e) /\ Leave(e) /\ Conn(e) \in Threads /\ Offsets'
        /\ at[e] = "send" /\ cur[e] = Size[file[e]] /\ cur[e] \in Nat /\ file[e] \in Files
        /\ at'[e] # "start" /\ Sent(e) \in Seq(Item)
    <2>1. at[e] = "send"
      BY DEF SendEnd
    <2> QED
      BY <2>1, SendEndDoes, Kinds, LeaveAt DEF IInv, ConnInv, Offsets, TypeOK, Ends
  <1>2. PICK t \in Threads : t = Conn(e)
    BY <1>1
  <1>3. ConnOK(t)
    BY <1>1, <1>2 DEF IInv, ConnInv
  <1>4. CASE e \in Threads
    <2>1. t = e /\ Sent(e) = Up(t) /\ Going(e) = Up(t)' /\ Down(t)' = Down(t) /\ peer' = peer
      BY <1>1, <1>2, <1>4, ThreadView, SendEndDoes, LeaveAt
    <2>2. Up(t)' = Up(t) \/ InFlight(t) # {}
      BY <1>1, <1>2, <1>3, <2>1, SendEndDoes DEF ConnOK, Alone
    <2>3. ASSUME NEW v \in InFlight(t)
          PROVE  /\ at[v] \in Receiving => StreamOK(v)'
                 /\ at[v] \notin Receiving => Up(t)' = Up(t)
                 /\ ~(at[v] = "send" /\ t \notin broken)
      <3>1. Served(v, t)
        BY <1>3 DEF ConnOK
      <3>2. /\ v \in Ends /\ file'[v] = file[v] /\ cur'[v] = cur[v]
            /\ Heads(v)' = Heads(v) /\ In(v)' = Up(t)' /\ Heads(v) \in {0, 1, 2}
            /\ In(v) = Up(t) /\ (Up(t)' = Up(t) /\ StreamOK(v) => StreamOK(v)')
            /\ cur[v] \in Nat
        BY <1>1, <2>1, WorkerStays, HeadsOf DEF TypeOK
      <3>3. ~(at[v] = "send" /\ t \notin broken)
        BY <1>1, <2>1, <3>1 DEF Served, Sync, Receiving
      <3>4. CASE Large(Size[file[e]])
        <4>1. Up(t)' = Up(t)
          BY <2>1, <3>4, SendEndDoes
        <4> QED
          BY <3>1, <3>2, <3>3, <4>1 DEF Served, WorkerOK
      <3>5. CASE ~Large(Size[file[e]])
        <4>1. /\ t \notin broken /\ Len(Up(t)') = Len(Up(t)) + 1
              /\ \A i \in 1..Len(Up(t)) : Up(t)'[i] = Up(t)[i]
              /\ Up(t)'[Len(Up(t)) + 1] = EndOfFile
          <5>1. /\ Conn(e) \notin broken /\ Len(Going(e)) = Len(Sent(e)) + 1
                /\ \A i \in 1..Len(Sent(e)) : Going(e)[i] = Sent(e)[i]
                /\ Going(e)[Len(Sent(e)) + 1] = EndOfFile
            BY <3>5, SendEndDoes
          <5>2. Conn(e) = t /\ Sent(e) = Up(t) /\ Going(e) = Up(t)'
            BY <1>2, <2>1
          <5> QED
            BY <5>1, <5>2
        <4>2. /\ at[v] \in Receiving /\ file[v] = file[t] /\ cur[v] <= cur[t]
              /\ Len(Up(t)) + cur[v] = Heads(v) + cur[t] /\ StreamOK(v)
          BY <1>1, <2>1, <3>1, <4>1 DEF Served, Sync, WorkerOK
        <4>3. Extends(Up(t)', Up(t), EndOfFile) /\ Follows(file[t], cur[t], EndOfFile)
          BY <1>1, <2>1, <3>5, <4>1 DEF Extends, Follows
        <4>4. UnderWay(file[t], Heads(v), cur[v], Up(t), cur[t])
          BY <3>2, <4>2, StreamIs DEF UnderWay
        <4>5. PICK h \in {0, 1, 2}, c \in Nat, n \in Nat :
                  h = Heads(v) /\ c = cur[v] /\ n = cur[t]
          BY <1>1, <2>1, <3>2
        <4>6. UnderWay(file[t], h, c, Up(t), n) /\ Follows(file[t], n, EndOfFile)
          BY <4>3, <4>4, <4>5
        <4>7. Up(t) \in Seq(Item) /\ file[t] \in Files
          BY <1>1, <2>1
        <4>8. Stream(file[t], h, c, Up(t)')
          BY <4>3, <4>6, <4>7, StreamGoesOn
        <4> QED
          BY <3>2, <3>3, <4>2, <4>5, <4>8, StreamIs
      <3> QED
        BY <3>4, <3>5
    <2>4. ConnOK(t)'
      BY <1>1, <2>1, <2>2, <2>3, ThreadLeaves
    <2> QED
      BY <1>1, <1>2, <2>4, ConnAfter
  <1>5. CASE e \in Workers
    <2>1. e \in InFlight(t)
      BY <1>2, <1>5, WorkerEnd DEF InFlight
    <2>2. Sent(e) = Down(t) /\ Going(e) = Down(t)' /\ Up(t)' = Up(t) /\ cur[t] \in Nat
      <3>1. Sent(e) = Down(t) /\ Going(e) = Down(t)'
        BY <1>1, <1>2, <2>1, WorkerView
      <3>2. Up(t)' = Up(t)
        BY <1>1, <1>2, <2>1, WorkerView, SendEndDoes, SMTT(30)
      <3>3. cur[t] \in Nat
        BY <1>1, ThreadView DEF TypeOK
      <3> QED
        BY <3>1, <3>2, <3>3
    <2>3. Served(e, t) /\ ThreadOK(t) /\ Up(t) = <<>>
      BY <1>1, <1>3, <2>1 DEF ConnOK, Served, WorkerOK
    <2>4. /\ t \in Ends /\ file'[t] = file[t] /\ cur'[t] = cur[t] /\ at'[t] = at[t]
          /\ Heads(t)' = Heads(t) /\ In(t)' = Down(t)' /\ Heads(t) \in {0, 1, 2}
          /\ In(t) = Down(t) /\ (Down(t)' = Down(t) => ThreadOK(t)')
      BY <1>1, <2>1, ThreadStays, ThreadView, HeadsOf
    <2>5. t \notin broken => at[t] # "send"
      BY <1>1, <2>3 DEF Served, Sync, Receiving
    <2>6. /\ at[t] \in Receiving => StreamOK(t)'
          /\ at[t] \notin Receiving => Down(t)' = Down(t)
      <3>1. CASE Large(Size[file[e]])
        <4>1. Down(t)' = Down(t)
          BY <2>2, <3>1, SendEndDoes
        <4> QED
          BY <2>4, <4>1 DEF ThreadOK, Receiving
      <3>2. CASE ~Large(Size[file[e]])
        <4>1. /\ t \notin broken /\ Len(Down(t)') = Len(Down(t)) + 1
              /\ \A i \in 1..Len(Down(t)) : Down(t)'[i] = Down(t)[i]
              /\ Down(t)'[Len(Down(t)) + 1] = EndOfFile
          BY <1>2, <2>2, <3>2, SendEndDoes
        <4>2. /\ at[t] \in Receiving /\ file[t] = file[e] /\ cur[t] <= cur[e]
              /\ Len(Down(t)) + cur[t] = Heads(t) + cur[e] /\ StreamOK(t)
          BY <1>1, <2>3, <3>2, <4>1 DEF Served, Sync, WorkerOK, ThreadOK, Receiving
        <4>3. Extends(Down(t)', Down(t), EndOfFile) /\ Follows(file[t], cur[e], EndOfFile)
          BY <1>1, <3>2, <4>1, <4>2 DEF Extends, Follows
        <4>4. UnderWay(file[t], Heads(t), cur[t], Down(t), cur[e])
          BY <2>4, <4>2, StreamIs DEF UnderWay
        <4>5. PICK h \in {0, 1, 2}, c \in Nat, n \in Nat :
                  h = Heads(t) /\ c = cur[t] /\ n = cur[e]
          BY <1>1, <2>2, <2>4
        <4>6. UnderWay(file[t], h, c, Down(t), n) /\ Follows(file[t], n, EndOfFile)
          BY <4>3, <4>4, <4>5
        <4>7. Down(t) \in Seq(Item) /\ file[t] \in Files
          BY <1>1, <2>2, <4>2
        <4>8. Stream(file[t], h, c, Down(t)')
          BY <4>3, <4>6, <4>7, StreamGoesOn
        <4> QED
          BY <2>4, <4>2, <4>5, <4>8, StreamIs
      <3> QED
        BY <3>1, <3>2
    <2>7. ConnOK(t)'
      BY <1>1, <2>1, <2>2, <2>3, <2>5, <2>6, WorkerLeaves
    <2> QED
      BY <1>1, <1>2, <2>7, ConnAfter
  <1> QED
    BY <1>4, <1>5 DEF Ends

(* An end may always leave a connection that has failed.                   *)
LEMMA BrokenLeave ==
    ASSUME IInv, NEW e \in Ends, OnlyAt(e), Leave(e), TypeOK', Offsets', Conn(e) \in Threads,
           Conn(e) \in broken, wire' = wire, at[e] \in {"head", "send"} \cup Receiving,
           e \in Workers => In(e) = <<>>
    PROVE  ConnInv'
  <1>1. TypeOK /\ at'[e] # "start"
    BY LeaveAt DEF IInv, Ends
  <1>2. PICK t \in Threads : t = Conn(e)
    OBVIOUS
  <1>3. ConnOK(t) /\ Up(t)' = Up(t) /\ Down(t)' = Down(t) /\ t \in broken
    BY <1>2 DEF IInv, ConnInv, Up, Down
  <1>4. CASE e \in Threads
    <2>1. t = e /\ peer' = peer
      BY <1>1, <1>2, <1>4, ThreadView, LeaveAt
    <2>2. \A w \in InFlight(t) : at[w] \in Receiving => StreamOK(w)'
      BY <1>1, <1>3, <2>1, WorkerStays DEF ConnOK, Served, WorkerOK
    <2>3. ConnOK(t)'
      BY <1>3, <2>1, <2>2, ThreadLeaves
    <2> QED
      BY <1>1, <1>2, <2>3, ConnAfter
  <1>5. CASE e \in Workers
    <2>1. e \in InFlight(t) /\ Up(t) = <<>>
      <3>1. e \in InFlight(t)
        BY <1>2, <1>5, WorkerEnd DEF InFlight
      <3> QED
        BY <1>1, <1>5, <3>1, WorkerView
    <2>2. at[t] \in Receiving => StreamOK(t)'
      BY <1>3, <2>1, ThreadStays DEF ThreadOK, Receiving
    <2>3. ConnOK(t)'
      BY <1>3, <2>1, <2>2, WorkerLeaves
    <2> QED
      BY <1>1, <1>2, <2>3, ConnAfter
  <1> QED
    BY <1>4, <1>5 DEF Ends

(* SendFails keeps every connection in step.                               *)
LEMMA SendFailsConn ==
    ASSUME IInv, NEW e \in Ends, SendFails(e)
    PROVE  ConnInv'
  <1>1. at[e] \in {"head", "send"} /\ Offsets' /\ TypeOK
    BY SendFailsDoes DEF SendFails, IInv, ConnInv, Offsets
  <1>2. e \in Workers => In(e) = <<>>
    <2> SUFFICES ASSUME e \in Workers
                 PROVE  In(e) = <<>>
      OBVIOUS
    <2>1. peer[e] \in Threads /\ e \in InFlight(peer[e]) /\ In(e) = Up(peer[e])
      BY SendFailsDoes, WorkerEnd DEF InFlight
    <2> QED
      BY <1>1, <2>1 DEF IInv, ConnInv, ConnOK, Served, WorkerOK
  <1> QED
    BY <1>1, <1>2, SendFailsDoes, BrokenLeave

(* RecvFailed keeps every connection in step.                              *)
LEMMA RecvFailedConn ==
    ASSUME IInv, NEW e \in Ends, RecvFailed(e)
    PROVE  ConnInv'
  <1>1. Offsets'
    BY RecvFailedDoes DEF IInv, ConnInv, Offsets
  <1> QED
    BY <1>1, RecvFailedDoes, BrokenLeave

(* A receiver that has taken a head or a chunk.                            *)
Advances(e) ==
    \/ at[e] = "name" /\ at'[e] = "size" /\ cur'[e] = cur[e]
    \/ at[e] = "size" /\ at'[e] = "recv" /\ cur'[e] = cur[e]
    \/ at[e] = "recv" /\ at'[e] = "recv" /\ cur'[e] = cur[e] + 1 /\ cur[e] < Size[file[e]]

(* Taking a head or a chunk advances the receiver by what it took.         *)
LEMMA TakesStream ==
    ASSUME TypeOK, NEW e \in Ends, StreamOK(e), Takes(e), file'[e] = file[e], file[e] \in Files,
           In(e)' = Coming(e), Advances(e)
    PROVE  /\ StreamOK(e)' /\ Len(In(e)) + cur[e] \in Nat /\ Len(Coming(e)) + cur'[e] \in Nat
           /\ Len(In(e)) + cur[e] + Heads(e)' = Len(Coming(e)) + cur'[e] + Heads(e)
           /\ cur'[e] = cur[e] \/ (Heads(e)' = 0 /\ cur'[e] <= Len(Coming(e)) + cur'[e])
           /\ In(e) # <<>> /\ cur'[e] \in Nat
  <1>1. /\ cur[e] \in Nat /\ Heads(e) \in {0, 1, 2} /\ Heads(e)' \in {0, 1, 2}
        /\ In(e) \in Seq(Item) /\ Coming(e) \in Seq(Item) /\ In(e) # <<>>
    BY HeadsOf DEF TypeOK, Takes, CanRecv
  <1>2. Len(In(e)) \in Nat /\ Len(Coming(e)) \in Nat /\ Len(Coming(e)) = Len(In(e)) - 1
    BY <1>1, LenProperties DEF Takes
  <1>3. \/ Heads(e) > 0 /\ Heads(e)' = Heads(e) - 1 /\ cur'[e] = cur[e]
        \/ Heads(e) = 0 /\ Heads(e)' = 0 /\ cur'[e] = cur[e] + 1 /\ cur[e] < Size[file[e]]
    BY HeadsOf DEF Advances
  <1>4. \A i \in 1..Len(In(e)) - 1 : Coming(e)[i] = In(e)[i + 1]
    BY DEF Takes
  <1>5. PICK h \in {0, 1, 2}, c \in Nat : h = Heads(e) /\ c = cur[e]
    BY <1>1
  <1>6. Stream(file[e], h, c, In(e))
    BY <1>5, StreamIs
  <1>7. /\ h > 0 => Stream(file[e], h - 1, c, Coming(e))
        /\ h = 0 /\ c < Size[file[e]] => Stream(file[e], 0, c + 1, Coming(e))
    BY <1>1, <1>2, <1>4, <1>6, StreamTaken
  <1>8. Stream(file'[e], Heads(e)', cur'[e], In(e)')
    BY <1>3, <1>5, <1>7
  <1>9. StreamOK(e)'
    BY <1>8, StreamIs
  <1>10. /\ Len(In(e)) + cur[e] \in Nat /\ Len(Coming(e)) + cur'[e] \in Nat
         /\ Len(In(e)) + cur[e] + Heads(e)' = Len(Coming(e)) + cur'[e] + Heads(e)
         /\ cur'[e] = cur[e] \/ (Heads(e)' = 0 /\ cur'[e] <= Len(Coming(e)) + cur'[e])
         /\ cur'[e] \in Nat
    <2>1. PICK a \in Nat, b \in Nat : a = Len(In(e)) /\ b = Len(Coming(e)) /\ b = a - 1
      BY <1>2
    <2>2. CASE Heads(e) > 0 /\ Heads(e)' = Heads(e) - 1 /\ cur'[e] = cur[e]
      <3>1. PICK k \in {0, 1, 2} : k = Heads(e)'
        BY <1>1
      <3>2. a + c \in Nat /\ b + c \in Nat /\ a + c + k = b + c + h
        <4>1. k = h - 1
          BY <1>5, <2>2, <3>1
        <4> QED
          BY <2>1, <4>1
      <3> QED
        BY <1>5, <2>1, <2>2, <3>1, <3>2, SMTT(30)
    <2>3. CASE Heads(e) = 0 /\ Heads(e)' = 0 /\ cur'[e] = cur[e] + 1
      <3>1. /\ a + c \in Nat /\ b + (c + 1) \in Nat /\ a + c + 0 = b + (c + 1) + 0
            /\ c + 1 <= b + (c + 1) /\ c + 1 \in Nat
        BY <2>1, SMT
      <3> QED
        BY <1>5, <2>1, <2>3, <3>1
    <2> QED
      BY <1>3, <2>2, <2>3
  <1> QED
    BY <1>1, <1>9, <1>10

(* So an end that takes an item keeps its connection in step.              *)
LEMMA ReceivesConn ==
    ASSUME IInv, NEW e \in Ends, OnlyAt(e), peer' = peer, TypeOK', fileSize' = fileSize,
           Conn(e) \in Threads, Takes(e), file'[e] = file[e], Advances(e),
           at'[e] = "recv" => total'[e] = Size[file[e]]
    PROVE  ConnInv'
  <1>1. /\ TypeOK /\ Offsets' /\ at[e] \in Receiving /\ at'[e] \in Receiving
        /\ at'[e] # "start"
    BY DEF IInv, ConnInv, Offsets, Advances, Receiving
  <1>2. PICK t \in Threads : t = Conn(e)
    OBVIOUS
  <1>3. file[e] \in Files /\ StreamOK(e)
    BY <1>1, Kinds
  <1>4. CASE e \in Threads
    <2>1. /\ t = e /\ Going(e) = Up(e)' /\ Sent(e) = Up(e) /\ Coming(e) = Down(e)'
          /\ In(e) = Down(e) /\ In(e)' = Down(e)' /\ Up(e)' = Up(e)
      BY <1>2, <1>4, ThreadView DEF Takes
    <2>2. /\ StreamOK(e)' /\ Len(Down(e)) + cur[e] \in Nat /\ Len(Down(e))' + cur'[e] \in Nat
          /\ Len(Down(e)) + cur[e] + Heads(e)' = Len(Down(e))' + cur'[e] + Heads(e)
          /\ cur'[e] = cur[e] \/ (Heads(e)' = 0 /\ cur'[e] <= Len(Down(e))' + cur'[e])
          /\ Down(e) # <<>>
      BY <1>1, <1>3, <2>1, TakesStream
    <2>3. PICK x \in Nat, y \in Nat : x = Len(Down(e)) + cur[e] /\ y = Len(Down(e))' + cur'[e]
      BY <2>2
    <2>4. x + Heads(e)' = y + Heads(e) /\ (cur'[e] = cur[e] \/ (Heads(e)' = 0 /\ cur'[e] <= y))
      BY <2>2, <2>3
    <2>5. ConnOK(e)'
      BY <1>1, <1>4, <2>1, <2>2, <2>3, <2>4, ThreadReceives
    <2> QED
      BY <1>1, <1>2, <2>1, <2>5, ConnAfter
  <1>5. CASE e \in Workers
    <2>0. e \in InFlight(t)
      BY <1>2, <1>5, WorkerEnd DEF InFlight
    <2>1. /\ Going(e) = Down(t)' /\ Sent(e) = Down(t) /\ Coming(e) = Up(t)'
          /\ In(e) = Up(t) /\ In(e)' = Up(t)' /\ Down(t)' = Down(t)
      BY <1>1, <2>0, WorkerView DEF Takes
    <2>2. /\ StreamOK(e)' /\ Len(Up(t)) + cur[e] \in Nat /\ Len(Up(t))' + cur'[e] \in Nat
          /\ Len(Up(t)) + cur[e] + Heads(e)' = Len(Up(t))' + cur'[e] + Heads(e)
          /\ cur'[e] = cur[e] \/ (Heads(e)' = 0 /\ cur'[e] <= Len(Up(t))' + cur'[e])
          /\ Up(t) # <<>>
      BY <1>1, <1>3, <2>1, TakesStream
    <2>3. PICK x \in Nat, y \in Nat : x = Len(Up(t)) + cur[e] /\ y = Len(Up(t))' + cur'[e]
      BY <2>2
    <2>4. x + Heads(e)' = y + Heads(e) /\ (cur'[e] = cur[e] \/ (Heads(e)' = 0 /\ cur'[e] <= y))
      BY <2>2, <2>3
    <2>5. ConnOK(t)'
      BY <1>1, <2>0, <2>1, <2>2, <2>3, <2>4, WorkerReceives
    <2> QED
      BY <1>1, <1>2, <2>5, ConnAfter
  <1> QED
    BY <1>4, <1>5 DEF Ends

(* RecvName keeps every connection in step.                                *)
LEMMA RecvNameConn ==
    ASSUME IInv, NEW e \in Ends, RecvName(e)
    PROVE  ConnInv'
  <1>1. Advances(e) /\ at'[e] # "recv"
    BY RecvNameDoes DEF RecvName, Advances
  <1> QED
    BY <1>1, RecvNameDoes, ReceivesConn

(* RecvSize keeps every connection in step.                                *)
LEMMA RecvSizeConn ==
    ASSUME IInv, NEW e \in Ends, RecvSize(e)
    PROVE  ConnInv'
  <1>1. Advances(e)
    BY RecvSizeDoes DEF RecvSize, Advances
  <1> QED
    BY <1>1, RecvSizeDoes, ReceivesConn

(* RecvChunk keeps every connection in step.                               *)
LEMMA RecvChunkConn ==
    ASSUME IInv, NEW e \in Ends, RecvChunk(e)
    PROVE  ConnInv'
  <1>1. Advances(e)
    BY RecvChunkDoes DEF Advances
  <1>2. total[e] = Size[file[e]]
    BY RecvChunkDoes, ReceiverHas DEF Receiving
  <1> QED
    BY <1>1, <1>2, RecvChunkDoes, ReceivesConn

(* When a receiver is done, nothing is under way to it any more.           *)
LEMMA RecvEndEmpties ==
    ASSUME IInv, NEW e \in Ends, RecvEnd(e)
    PROVE  /\ Coming(e) = <<>> /\ In(e) \in Seq(Item)
           /\ Len(In(e)) + cur[e] = Whole(file[e])
           /\ Large(Size[file[e]]) => In(e) = <<>>
  <1>1. /\ at[e] = "recv" /\ cur[e] = Size[file[e]] /\ file[e] \in Files /\ StreamOK(e)
        /\ TypeOK /\ Conn(e) \in Threads
    BY RecvEndDoes, Kinds DEF Receiving, IInv
  <1>2. Heads(e) = 0
    BY <1>1, HeadsOf
  <1>3. In(e) \in Seq(Item) /\ Len(In(e)) \in Nat
    BY <1>1, TypeParts, SidesOf, LenProperties DEF WireOK, In
  <1>4. Len(In(e)) + Size[file[e]] <= Whole(file[e])
    BY <1>1, <1>2, <1>3, WholeOf, SMT DEF StreamOK
  <1>5. CASE Large(Size[file[e]])
    <2>1. Len(In(e)) = 0
      BY <1>1, <1>3, <1>4, <1>5, WholeOf, SMT
    <2>2. In(e) = <<>>
      BY <1>3, <2>1, EmptySeq
    <2>3. Len(In(e)) + cur[e] = Whole(file[e])
      BY <1>1, <1>5, <2>1, WholeOf, SMT
    <2> QED
      BY <1>3, <1>5, <2>2, <2>3, RecvEndDoes
  <1>6. CASE ~Large(Size[file[e]])
    <2>1. Takes(e)
      BY <1>6, RecvEndDoes
    <2>2. Len(In(e)) # 0
      BY <1>3, <2>1, EmptySeq DEF Takes, CanRecv
    <2>3. Len(In(e)) = 1 /\ Len(In(e)) + cur[e] = Whole(file[e])
      <3>1. Size[file[e]] \in Nat /\ Whole(file[e]) = Size[file[e]] + 1 /\ cur[e] = Size[file[e]]
        BY <1>1, <1>6, WholeOf
      <3>2. PICK a \in Nat, n \in Nat : a = Len(In(e)) /\ n = Size[file[e]]
        BY <1>3, <3>1
      <3>3. a + n <= n + 1 /\ a # 0
        BY <1>4, <2>2, <3>1, <3>2
      <3>4. a = 1 /\ a + n = n + 1
        BY <3>3, SMT
      <3> QED
        BY <3>1, <3>2, <3>4
    <2>4. Len(Coming(e)) = 0
      BY <2>1, <2>3 DEF Takes
    <2>5. Coming(e) = <<>>
      BY <2>1, <2>4, EmptySeq DEF Takes
    <2> QED
      BY <1>3, <1>6, <2>3, <2>5
  <1> QED
    BY <1>5, <1>6

(* RecvEnd keeps every connection in step.                                 *)
LEMMA RecvEndConn ==
    ASSUME IInv, NEW e \in Ends, RecvEnd(e)
    PROVE  ConnInv'
  <1>1. /\ TypeOK /\ TypeOK' /\ OnlyAt(e) /\ Leave(e) /\ Conn(e) \in Threads /\ Offsets'
        /\ at[e] = "recv" /\ cur[e] = Size[file[e]] /\ cur[e] \in Nat /\ file[e] \in Files
        /\ at'[e] # "start" /\ Going(e) = Sent(e) /\ Coming(e) = <<>>
        /\ Len(In(e)) + cur[e] = Whole(file[e]) /\ Heads(e) = 0
    BY RecvEndDoes, RecvEndEmpties, LeaveAt, HeadsOf DEF IInv, ConnInv, Offsets, TypeOK, Ends
  <1>2. PICK t \in Threads : t = Conn(e)
    BY <1>1
  <1>3. ConnOK(t)
    BY <1>1, <1>2 DEF IInv, ConnInv
  (* The other end has sent everything, and counts it when the file is large. *)
  <1>4. \A n \in Nat : Len(In(e)) + cur[e] = Heads(e) + n /\ n <= Size[file[e]]
                       => Large(Size[file[e]]) /\ n = Size[file[e]]
    <2>1. Size[file[e]] \in Nat /\ Whole(file[e]) \in Nat
      BY <1>1, WholeOf
    <2> QED
      BY <1>1, <2>1, WholeOf, SMT
  <1>5. CASE e \in Threads
    <2>1. t = e /\ Sent(e) = Up(t) /\ Going(e) = Up(t)' /\ In(e) = Down(t) /\ peer' = peer
          /\ Up(t)' = Up(t)
      BY <1>1, <1>2, <1>5, ThreadView, LeaveAt
    <2>2. ASSUME NEW v \in InFlight(t)
          PROVE  /\ at[v] \in Receiving => StreamOK(v)'
                 /\ at[v] = "send" /\ t \notin broken =>
                      Large(Size[file[v]]) /\ cur[v] = Size[file[v]]
      <3>1. Served(v, t) /\ v \in Ends
        BY <1>1, <1>3, WorkerView DEF ConnOK
      <3>2. at[v] \in Receiving => StreamOK(v)'
        BY <1>1, <2>1, <3>1, WorkerStays DEF Served, WorkerOK
      <3>3. ASSUME at[v] = "send", t \notin broken
            PROVE  Large(Size[file[v]]) /\ cur[v] = Size[file[v]]
        <4>1. /\ Len(In(e)) + cur[e] = Heads(e) + cur[v] /\ file[v] = file[e]
              /\ cur[v] <= Size[file[e]]
          BY <1>1, <2>1, <3>1, <3>3 DEF Served, Sync, WorkerOK
        <4>2. cur[v] \in Nat
          BY <1>1, <3>1 DEF TypeOK
        <4> QED
          BY <1>4, <4>1, <4>2
      <3> QED
        BY <3>2, <3>3
    <2>3. ConnOK(t)'
      BY <1>1, <2>1, <2>2, ThreadLeaves DEF Receiving
    <2> QED
      BY <1>1, <1>2, <2>3, ConnAfter
  <1>6. CASE e \in Workers
    <2>1. e \in InFlight(t)
      BY <1>2, <1>6, WorkerEnd DEF InFlight
    <2>2. /\ Sent(e) = Down(t) /\ Going(e) = Down(t)' /\ Coming(e) = Up(t)'
          /\ In(e) = Up(t) /\ cur[t] \in Nat /\ Down(t)' = Down(t) /\ Up(t)' = <<>>
      <3>1. /\ Sent(e) = Down(t) /\ Going(e) = Down(t)' /\ Coming(e) = Up(t)'
            /\ In(e) = Up(t)
        BY <1>1, <2>1, WorkerView
      <3>2. cur[t] \in Nat
        BY <1>1, ThreadView DEF TypeOK
      <3> QED
        BY <1>1, <3>1, <3>2
    <2>3. Served(e, t) /\ ThreadOK(t)
      BY <1>1, <1>3, <2>1 DEF ConnOK
    <2>4. at[t] \in Receiving => StreamOK(t)'
      BY <1>1, <2>1, <2>2, ThreadStays DEF ThreadOK, Receiving
    <2>5. ASSUME t \notin broken, at[t] = "send"
          PROVE  Large(Size[file[t]]) /\ cur[t] = Size[file[t]]
      <3>1. /\ Len(In(e)) + cur[e] = Heads(e) + cur[t] /\ file[t] = file[e]
            /\ cur[t] <= Size[file[e]]
        BY <1>1, <2>2, <2>3, <2>5 DEF Served, Sync, WorkerOK, ThreadOK
      <3> QED
        BY <1>4, <2>2, <3>1
    <2>6. ConnOK(t)'
      BY <1>1, <2>1, <2>2, <2>4, <2>5, WorkerLeaves DEF Receiving
    <2> QED
      BY <1>1, <1>2, <2>6, ConnAfter
  <1> QED
    BY <1>5, <1>6 DEF Ends

(* Issue keeps every connection in step.                                   *)
LEMMA IssueConn ==
    ASSUME IInv, Good, NEW t \in Threads, NEW f \in Files, Issue(t, f)
    PROVE  ConnInv'
  <1>1. TypeOK /\ t \in Ends /\ t \notin Workers
    BY ThreadEnd DEF IInv
  <1>2. \A u \in Threads : at[u] # "start"
    BY DEF Issue, Good
  <1>3. /\ at'[t] = "start" /\ \A x \in Ends : x # t => at'[x] = at[x]
    BY <1>1, GotoAt DEF Issue, Place
  <1>4. /\ file' = file /\ cur' = cur /\ total' = total /\ fileSize' = fileSize /\ peer' = peer
        /\ action' = f /\ broken' = broken \ {t}
    BY DEF Issue, local
  <1>5. \A u \in Threads : u # t => wire'[u] = wire[u]
    BY <1>1 DEF Issue, TypeOK
  <1>6. wire'[t] = NoWire
    BY <1>1 DEF Issue, TypeOK
  <1>7. ASSUME NEW u \in Threads, u # t
        PROVE  ConnOK(u)'
    <2>1. SameConn(u)
      BY <1>1, <1>2, <1>3, <1>4, <1>5, <1>7 DEF SameConn, Ends
    <2> QED
      BY <2>1, Undisturbed DEF IInv, ConnInv
  <1>8. ConnOK(t)'
    <2>1. Up(t)' = <<>> /\ Down(t)' = <<>> /\ InFlight(t)' = {}
      BY <1>4, <1>6 DEF Up, Down, NoWire, InFlight, Issue
    <2>2. ThreadOK(t)'
      BY <1>3, <1>4, <2>1 DEF ThreadOK, Receiving
    <2>3. Alone(t)'
      BY <1>3, <2>1 DEF Alone
    <2> QED
      BY <2>1, <2>2, <2>3 DEF ConnOK
  <1>9. OneWorker' /\ Offsets'
    BY <1>4 DEF IInv, ConnInv, OneWorker, Offsets
  <1>10. OneStart'
    BY <1>2, <1>3 DEF OneStart, Ends
  <1> QED
    BY <1>7, <1>8, <1>9, <1>10 DEF ConnInv

(* However much of f has arrived, it is not longer than f.                 *)
LEMMA LengthBound ==
    ASSUME IInv, NEW f \in Files
    PROVE  /\ There(f) # None => There(f) \in Seq(Data) /\ Len(There(f)) \in Nat
                                 /\ Len(There(f)) <= Size[f]
           /\ Length(There(f)) \in Nat /\ Length(There(f)) <= Size[f]
  <1>1. There(f) # None => There(f) \in Seq(Data) /\ Len(There(f)) \in Nat
    BY DiskTypes DEF IInv, There
  <1>2. There(f) # None => Len(There(f)) <= Size[f]
    <2>1. CASE \A r \in Ends : IsMapped(r) => file[r] # f
      BY <2>1 DEF IInv, DiskInv, Prefix
    <2>2. CASE ~\A r \in Ends : IsMapped(r) => file[r] # f
      <3>1. PICK r \in Ends : IsMapped(r) /\ file[r] = f
        BY <2>2
      <3>2. at[r] = "recv"
        BY <3>1 DEF IsMapped
      <3>3. ReceiverOK(r)
        BY <3>2, ReceiverHas DEF Receiving
      <3>4. Len(There(f)) = Size[f]
        BY <3>1, <3>3 DEF ReceiverOK
      <3> QED
        BY <3>4, SizeAssumption
    <2> QED
      BY <2>1, <2>2
  <1> QED
    BY <1>1, <1>2, SizeAssumption DEF Length

(* What ThreadStart changes: the thread sends its command, for gets with   *)
(* the length of what it has.                                              *)
LEMMA ThreadStartDoes ==
    ASSUME IInv, NEW t \in Threads, ThreadStart(t)
    PROVE  /\ OnlyAt(t) /\ peer' = peer /\ disk' = disk
           /\ \A w \in Workers : fileSize'[w] = fileSize[w]
           /\ received' = received /\ at[t] = "start" /\ action \in Files
           /\ Up(t) = <<>> /\ Down(t)' = <<>> /\ InFlight(t) = {} /\ TypeOK
           /\ file'[t] = action /\ (action \in Puts => at'[t] = "answer" /\ cur'[t] = 0)
           /\ action \in Gets => at'[t] = "name" /\ cur'[t] = Length(There(action))
           /\ t \in broken => Up(t)' = <<>>
           /\ t \notin broken =>
                /\ action \in Puts => Up(t)' = << <<"file", action>> >>
                /\ action \in Gets =>
                     \/ /\ There(action) = None
                        /\ Up(t)' = << <<"file", action>>, <<"offset", None>> >>
                     \/ /\ There(action) # None
                        /\ Up(t)' = << <<"file", action>>, <<"offset", Length(There(action))>> >>
  <1>1. TypeOK /\ t \in Ends /\ t \notin Workers /\ Conn(t) = t
    BY ThreadEnd DEF IInv
  <1>2. /\ at[t] = "start" /\ action \in Files /\ Up(t) = <<>> /\ Down(t) = <<>>
        /\ InFlight(t) = {}
    BY DEF IInv, ConnInv, ConnOK, ThreadOK, ThreadStart
  <1>3. PICK l \in {"answer", "name"} : Goto(t, l) /\ (action \in Puts <=> l = "answer")
    BY DEF ThreadStart
  <1>4. at'[t] = l /\ \A x \in Ends : x # t => at'[x] = at[x]
    BY <1>1, <1>3, GotoAt DEF Place
  <1>5. file'[t] = action /\ \A x \in Ends : x # t => file'[x] = file[x]
    BY <1>1 DEF ThreadStart, TypeOK
  <1>6. action \in Gets => There(action) = disk["client"][action]
    BY DEF Gets, There, Dest
  <1>7. /\ action \in Puts => cur' = [cur EXCEPT ![t] = 0]
        /\ action \in Gets => cur' = [cur EXCEPT ![t] = Length(There(action))]
    <2>1. action \in Gets /\ There(action) # None => Len(There(action)) # None
      BY <1>2, LengthBound, NoneAssumption
    <2> QED
      BY <1>2, <1>6, <2>1 DEF ThreadStart, Length, Gets
  <1>8. /\ action \in Puts => cur'[t] = 0
        /\ action \in Gets => cur'[t] = Length(There(action))
        /\ \A x \in Ends : x # t => cur'[x] = cur[x]
    BY <1>1, <1>2, <1>7 DEF TypeOK, Gets
  <1>9. wire \in [Threads -> [Sides -> Seq(Item)]]
    BY <1>1, TypeParts DEF WireOK
  <1>10. \A u \in Threads : u # t => wire'[u] = wire[u]
    BY <1>9 DEF ThreadStart
  <1>11. t \in broken => Up(t)' = <<>> /\ Down(t)' = <<>>
    BY <1>2 DEF ThreadStart, Up, Down
  <1>12. ASSUME t \notin broken
         PROVE  /\ Down(t)' = <<>>
                /\ action \in Puts => Up(t)' = << <<"file", action>> >>
                /\ action \in Gets =>
                     \/ /\ There(action) = None
                        /\ Up(t)' = << <<"file", action>>, <<"offset", None>> >>
                     \/ /\ There(action) # None
                        /\ Up(t)' = << <<"file", action>>, <<"offset", Length(There(action))>> >>
    <2>1. PICK items : wire' = [wire EXCEPT ![t]["server"] = items]
      BY <1>12 DEF ThreadStart
    <2>2. Up(t)' = items /\ Down(t)' = Down(t)
      BY <1>9, <2>1 DEF Up, Down, Sides
    <2>3. CASE action \in Puts
      <3>1. wire' = [wire EXCEPT ![t]["server"] = << <<"file", action>> >>]
        BY <1>12, <2>3 DEF ThreadStart
      <3>2. Up(t)' = << <<"file", action>> >>
        BY <1>9, <3>1 DEF Up, Sides
      <3> QED
        BY <1>2, <2>2, <2>3, <3>2 DEF Gets
    <2>4. CASE action \in Gets /\ There(action) = None
      <3>1. wire' = [wire EXCEPT ![t]["server"] = << <<"file", action>>, <<"offset", None>> >>]
        BY <1>6, <1>12, <2>4 DEF ThreadStart, Gets
      <3>2. Up(t)' = << <<"file", action>>, <<"offset", None>> >>
        BY <1>9, <3>1 DEF Up, Sides
      <3> QED
        BY <1>2, <2>2, <2>4, <3>2 DEF Gets
    <2>5. CASE action \in Gets /\ There(action) # None
      <3>1. wire' = [wire EXCEPT ![t]["server"] =
                       << <<"file", action>>, <<"offset", Length(There(action))>> >>]
        BY <1>6, <1>12, <2>5 DEF ThreadStart, Gets, Length
      <3>2. Up(t)' = << <<"file", action>>, <<"offset", Length(There(action))>> >>
        BY <1>9, <3>1 DEF Up, Sides
      <3> QED
        BY <1>2, <2>2, <2>5, <3>2 DEF Gets
    <2> QED
      BY <1>2, <2>3, <2>4, <2>5 DEF Gets
  <1>13. OnlyAt(t)
    BY <1>1, <1>4, <1>5, <1>8, <1>10 DEF OnlyAt, ThreadStart
  <1>14. \A w \in Workers : fileSize'[w] = fileSize[w]
    <2>1. t \notin Workers /\ fileSize' = [fileSize EXCEPT ![t] = cur'[t]]
      BY ThreadEnd DEF ThreadStart
    <2> QED
      BY <1>1, <2>1 DEF TypeOK, Ends
  <1> QED
    BY <1>1, <1>2, <1>3, <1>4, <1>5, <1>8, <1>11, <1>12, <1>13, <1>14 DEF ThreadStart, Gets

(* ThreadStart keeps every connection in step.                             *)
LEMMA ThreadStartConn ==
    ASSUME IInv, NEW t \in Threads, ThreadStart(t)
    PROVE  ConnInv'
  <1> DEFINE f == action
             n == Length(There(f))
  <1>1. /\ OnlyAt(t) /\ peer' = peer /\ TypeOK /\ TypeOK' /\ InFlight(t) = {} /\ f \in Files
        /\ t \in Ends /\ Conn(t) = t /\ Down(t)' = <<>> /\ broken' = broken /\ file'[t] = f
    BY ThreadStartDoes, ThreadStartType, ThreadView DEF OnlyAt
  <1>2. n \in Nat /\ n <= Size[f] /\ Size[f] \in Nat
    BY <1>1, LengthBound, SizeAssumption
  <1>3. Offsets' /\ InFlight(t)' = {}
    BY <1>1, ThreadStartDoes DEF IInv, ConnInv, Offsets, InFlight
  <1>4. ThreadOK(t)'
    <2>1. CASE f \in Puts
      <3>1. at'[t] = "answer" /\ file'[t] \in Puts
        BY <1>1, <2>1, ThreadStartDoes
      <3> QED
        BY <1>1, <3>1 DEF ThreadOK, Receiving
    <2>2. CASE f \in Gets
      <3>1. at'[t] = "name" /\ cur'[t] = n
        BY <1>1, <2>2, ThreadStartDoes
      <3>2. In(t)' = <<>> /\ Heads(t)' = 2
        BY <1>1, <3>1, ThreadView DEF Heads
      <3>3. Stream(f, 2, n, <<>>)
        <4>1. 0 + n <= 2 + Whole(f) /\ Len(<<>>) = 0
          BY <1>1, <1>2, WholeOf, SMT
        <4>2. \A i \in 1..Len(<<>>) : FALSE
          BY <4>1, SMT
        <4> QED
          BY <1>2, <4>1, <4>2 DEF Stream
      <3>4. StreamOK(t)'
        BY <1>1, <3>1, <3>2, <3>3, StreamIs
      <3> QED
        BY <1>1, <2>2, <3>1, <3>4 DEF ThreadOK, Receiving
    <2> QED
      BY <1>1, <2>1, <2>2 DEF Gets
  <1>5. Alone(t)'
    <2>1. CASE t \in broken
      BY <1>1, <2>1, ThreadStartDoes DEF Alone
    <2>2. CASE t \notin broken /\ f \in Puts
      <3>1. /\ Up(t)' # <<>> /\ Len(Up(t)') = 1 /\ Up(t)'[1][1] = "file" /\ Up(t)'[1][2] = f
            /\ at'[t] = "answer"
        <4>1. Up(t)' = << <<"file", f>> >> /\ at'[t] = "answer"
          BY <2>2, ThreadStartDoes
        <4> QED
          BY <4>1
      <3> QED
        BY <1>1, <2>2, <3>1 DEF Alone, Gets
    <2>3. CASE t \notin broken /\ f \in Gets
      <3>1. PICK m \in Nat \cup {None} : /\ Up(t)' = << <<"file", f>>, <<"offset", m>> >>
                                         /\ m = n \/ (m = None /\ n = 0)
        BY <1>2, <2>3, ThreadStartDoes DEF Length
      <3>2. /\ Up(t)' # <<>> /\ Len(Up(t)') = 2 /\ Up(t)'[1][1] = "file" /\ Up(t)'[1][2] = f
            /\ Up(t)'[2][1] = "offset" /\ Up(t)'[2][2] = m
        BY <3>1
      <3>3. at'[t] = "name" /\ cur'[t] = n
        BY <2>3, ThreadStartDoes
      <3>4. f \notin Puts
        BY <2>3 DEF Gets
      <3> QED
        BY <1>1, <3>1, <3>2, <3>3, <3>4 DEF Alone, Gets, Says
    <2> QED
      BY <1>1, <2>1, <2>2, <2>3 DEF Gets
  <1>6. ConnOK(t)'
    BY <1>3, <1>4, <1>5 DEF ConnOK
  <1>7. at'[t] # "start"
    BY <1>1, ThreadStartDoes DEF Gets
  <1> QED
    BY <1>1, <1>3, <1>6, <1>7, ConnAfter

(* What PutsOffset changes: the thread counts from where the worker said.  *)
LEMMA PutsOffsetDoes ==
    ASSUME IInv, NEW t \in Threads, PutsOffset(t)
    PROVE  /\ OnlyAt(t) /\ peer' = peer /\ disk' = disk
           /\ \A w \in Workers : fileSize'[w] = fileSize[w]
           /\ received' = received /\ at[t] = "answer" /\ at'[t] = "head" /\ file'[t] = file[t]
           /\ Up(t)' = Up(t) /\ TypeOK
           /\ t \notin broken => /\ Down(t) # <<>>
                                 /\ Len(Down(t)) = 1 => cur'[t] = Down(t)[1][2]
  <1>1. TypeOK /\ t \in Ends /\ Conn(t) = t /\ In(t) = Down(t) /\ In(t)' = Down(t)'
        /\ Side(t) = "client" /\ Other(t) = "server"
    BY ThreadEnd, ThreadView DEF IInv
  <1>2. at'[t] = "head" /\ \A x \in Ends : x # t => at'[x] = at[x]
    BY <1>1, GotoAt DEF PutsOffset, Place
  <1>3. PICK c : cur' = [cur EXCEPT ![t] = c]
    BY DEF PutsOffset
  <1>4. cur'[t] = c /\ \A x \in Ends : x # t => cur'[x] = cur[x]
    BY <1>1, <1>3 DEF TypeOK
  <1>5. /\ Up(t)' = Up(t) /\ \A u \in Threads : u # t => wire'[u] = wire[u]
        /\ t \notin broken => Down(t) # <<>> /\ c = Down(t)[1][2]
    <2>1. CASE CanRecv(t) /\ Recv(t) /\ cur' = [cur EXCEPT ![t] = Arg(t)]
      <3>1. cur'[t] = Arg(t)
        BY <1>1, <2>1 DEF TypeOK
      <3>2. Arg(t) = Down(t)[1][2]
        BY <1>1, <2>1, RecvWire DEF Arg
      <3>3. Up(t)' = Up(t) /\ \A u \in Threads : u # t => wire'[u] = wire[u]
        BY <1>1, <2>1, RecvWire DEF Up
      <3> QED
        BY <1>1, <1>4, <2>1, <3>1, <3>2, <3>3 DEF CanRecv
    <2>2. CASE RecvFails(t) /\ UNCHANGED wire
      BY <1>1, <2>2 DEF RecvFails, Up
    <2> QED
      BY <2>1, <2>2 DEF PutsOffset
  <1>6. OnlyAt(t)
    BY <1>1, <1>2, <1>4, <1>5 DEF OnlyAt, PutsOffset
  <1>7. \A w \in Workers : fileSize'[w] = fileSize[w]
    <2>1. t \notin Workers /\ fileSize' = [fileSize EXCEPT ![t] = cur'[t]]
      BY ThreadEnd DEF PutsOffset
    <2> QED
      BY <1>1, <2>1 DEF TypeOK, Ends
  <1> QED
    BY <1>1, <1>2, <1>4, <1>5, <1>6, <1>7 DEF PutsOffset

(* PutsOffset keeps every connection in step.                              *)
LEMMA PutsOffsetConn ==
    ASSUME IInv, NEW t \in Threads, PutsOffset(t)
    PROVE  ConnInv'
  <1>1. /\ OnlyAt(t) /\ peer' = peer /\ TypeOK /\ TypeOK' /\ t \in Ends /\ Conn(t) = t
        /\ at[t] = "answer" /\ at'[t] = "head" /\ file'[t] = file[t] /\ broken' = broken
        /\ Up(t)' = Up(t) /\ Offsets'
    BY PutsOffsetDoes, PutsOffsetType, ThreadView DEF OnlyAt, IInv, ConnInv, Offsets
  <1>2. ConnOK(t)
    BY DEF IInv, ConnInv
  <1>3. ThreadOK(t)'
    BY <1>1, <1>2 DEF ThreadOK, ConnOK, Receiving
  <1>4. ASSUME InFlight(t) = {}
        PROVE  Alone(t)'
    <2>1. Alone(t) /\ t \in broken
      BY <1>1, <1>2, <1>4, PutsOffsetDoes DEF ConnOK, Alone
    <2> QED
      BY <1>1, <2>1 DEF Alone
  <1>5. ASSUME NEW w \in InFlight(t)
        PROVE  Served(w, t)'
    <2>1. Served(w, t)
      BY <1>2 DEF ConnOK
    <2>2. /\ at'[w] = at[w] /\ cur'[w] = cur[w] /\ file'[w] = file[w] /\ total'[w] = total[w]
          /\ Heads(w)' = Heads(w) /\ (StreamOK(w) => StreamOK(w)')
      BY <1>1, WorkerStays
    <2>3. WorkerOK(w, t)'
      BY <1>1, <2>1, <2>2 DEF Served, WorkerOK, Receiving, Gets
    <2>4. ASSUME t \notin broken
          PROVE  Sync(w, t)'
      <3>1. at[w] = "name" /\ Down(t) = << <<"offset", cur[w]>> >> /\ Up(t) = <<>>
        BY <1>1, <2>1, <2>4, PutsOffsetDoes DEF Served, Sync
      <3>2. Len(Down(t)) = 1 /\ Down(t)[1][2] = cur[w]
        BY <3>1
      <3>3. cur'[t] = cur[w]
        BY <2>4, <3>2, PutsOffsetDoes
      <3> QED
        BY <1>1, <2>2, <3>1, <3>3 DEF Sync
    <2> QED
      BY <1>1, <2>3, <2>4 DEF Served
  <1>6. ConnOK(t)'
    BY <1>1, <1>3, <1>4, <1>5, WorkerStays DEF ConnOK
  <1> QED
    BY <1>1, <1>6, ConnAfter

(* Take keeps every connection in step.                                    *)
LEMMA TakeConn ==
    ASSUME IInv, NEW w \in Workers, NEW t \in Threads, Take(w, t)
    PROVE  ConnInv'
  <1>1. TypeOK /\ w \in Ends /\ w \notin Threads /\ at[w] = "idle" /\ peer[w] = None /\ t # None
    BY WorkerEnd, NoneAssumption DEF IInv, TypeOK, Take
  <1>2. /\ at'[w] = "command" /\ \A x \in Ends : x # w => at'[x] = at[x]
    BY <1>1, GotoAt DEF Take, Place
  <1>3. /\ peer'[w] = t /\ \A v \in Workers : v # w => peer'[v] = peer[v]
    BY <1>1 DEF Take, TypeOK
  <1>4. /\ file'[w] = Up(t)[1][2] /\ \A x \in Ends : x # w => file'[x] = file[x]
    <2>1. file' = [file EXCEPT ![w] = Up(t)[1][2]]
      BY <1>1, TakeWire DEF Take, Up
    <2> QED
      BY <1>1, <2>1 DEF TypeOK
  <1>5. /\ cur' = cur /\ total' = total /\ fileSize' = fileSize /\ action' = action
        /\ broken' = broken /\ InFlight(t) = {} /\ Up(t) # <<>>
    BY DEF Take, Up
  <1>6. InFlight(t)' = {w}
    BY <1>1, <1>3, <1>5 DEF InFlight
  <1>7. ConnOK(t) /\ ThreadOK(t) /\ Alone(t)
    BY <1>5 DEF IInv, ConnInv, ConnOK
  <1>8. /\ Up(t)[1][1] = "file" /\ Up(t)[1][2] \in Files
        /\ Up(t)[1][2] \in Puts => Len(Up(t)) = 1
        /\ Len(Up(t)) <= 2
        /\ Len(Up(t)) = 2 => Up(t)[2][1] = "offset" /\ Up(t)[2][2] \in Nat \cup {None}
        /\ at[t] \notin {"idle", "done"} => file[t] = Up(t)[1][2]
        /\ t \notin broken =>
             /\ at[t] \in {"answer", "name"} /\ Down(t) = <<>>
             /\ Up(t)[1][2] \in Gets => Len(Up(t)) = 2 /\ Says(Up(t)[2], cur[t])
    BY <1>5, <1>7 DEF Alone
  <1>9. Up(t) \in Seq(Item)
    BY <1>1, TypeParts DEF WireOK, Up, Sides
  <1>10. /\ Up(t)' = Tail(Up(t)) /\ Down(t)' = Down(t)
         /\ Len(Up(t)) = 1 => Up(t)' = <<>>
         /\ Len(Up(t)) = 2 => Len(Up(t)') = 1 /\ Up(t)'[1] = Up(t)[2]
         /\ Len(Up(t)) \in {1, 2}
    <2>1. /\ Up(t)' = Tail(Up(t)) /\ Down(t)' = Down(t) /\ Len(Tail(Up(t))) = Len(Up(t)) - 1
          /\ \A i \in 1..Len(Up(t)) - 1 : Tail(Up(t))[i] = Up(t)[i + 1]
      BY <1>1, TakeWire DEF Up, Down
    <2>2. PICK p \in Seq(Item) : p = Tail(Up(t))
      BY <1>5, <1>9, HeadTailProperties
    <2>3. Len(Up(t)) \in Nat /\ Len(Up(t)) # 0
      BY <1>5, <1>9, LenProperties, EmptySeq
    <2>4. Len(Up(t)) \in {1, 2}
      <3>1. PICK n \in Nat : n = Len(Up(t)) /\ n # 0 /\ n <= 2
        BY <1>8, <2>3
      <3>2. n \in {1, 2}
        BY <3>1, SMT
      <3> QED
        BY <3>1, <3>2
    <2>5. Len(Up(t)) = 1 => p = <<>>
      <3>1. Len(Up(t)) = 1 => Len(p) = 0
        BY <2>1, <2>2
      <3> QED
        BY <2>2, <3>1, EmptySeq
    <2>6. Len(Up(t)) = 2 => Len(p) = 1 /\ p[1] = Up(t)[2]
      BY <2>1, <2>2
    <2> QED
      BY <2>1, <2>2, <2>4, <2>5, <2>6
  <1>11. /\ at'[t] = at[t] /\ file'[t] = file[t] /\ cur'[t] = cur[t] /\ total'[t] = total[t]
         /\ t \in Ends /\ at[t] # "start"
    BY <1>1, <1>2, <1>4, <1>5, <1>7, ThreadView DEF ThreadOK
  <1>12. ThreadOK(t)'
    BY <1>5, <1>7, <1>10, <1>11, SameThread
  <1>13. WorkerOK(w, t)'
    <2>1. at'[w] = "command" /\ file'[w] \in Files
      BY <1>2, <1>4, <1>8
    <2>2. file'[w] \in Puts => Up(t)' = <<>>
      BY <1>4, <1>8, <1>10
    <2>3. Up(t)' # <<>> => /\ Len(Up(t)') = 1 /\ Up(t)'[1][1] = "offset"
                           /\ Up(t)'[1][2] \in Nat \cup {None}
      BY <1>8, <1>10
    <2>4. at'[t] # "start" /\ (at'[t] \notin {"idle", "done"} => file'[t] = file'[w])
      BY <1>4, <1>8, <1>11
    <2> QED
      BY <2>1, <2>2, <2>3, <2>4 DEF WorkerOK, Receiving
  <1>14. ASSUME t \notin broken
         PROVE  Sync(w, t)'
    <2>1. at[t] = "answer" => file[t] \in Puts
      BY <1>7 DEF ThreadOK
    <2>2. at[t] = "name" => file[t] \in Gets
      BY <1>7 DEF ThreadOK, Receiving
    <2>3. file'[w] = file[t]
      BY <1>4, <1>8, <1>14
    <2>4. file'[w] \in Puts => at'[t] = "answer"
      BY <1>8, <1>11, <1>14, <2>2, <2>3 DEF Gets
    <2>5. file'[w] \in Gets => at'[t] = "name" /\ Len(Up(t)') = 1 /\ Says(Up(t)'[1], cur'[t])
      BY <1>4, <1>8, <1>10, <1>11, <1>14, <2>1, <2>3 DEF Gets
    <2> QED
      BY <1>2, <1>8, <1>10, <1>11, <1>14, <2>4, <2>5 DEF Sync, Gets, Says
  <1>15. ConnOK(t)'
    BY <1>5, <1>6, <1>12, <1>13, <1>14 DEF ConnOK, Served
  <1>16. ASSUME NEW u \in Threads, u # t
         PROVE  ConnOK(u)'
    <2>1. u \in Ends /\ u # w /\ wire'[u] = wire[u] /\ peer[w] # u
      BY <1>1, <1>16, TakeWire, ThreadView, NoneAssumption
    <2>2. SameConn(u)
      BY <1>2, <1>3, <1>4, <1>5, <1>16, <2>1 DEF SameConn, Ends
    <2> QED
      BY <2>2, Undisturbed DEF IInv, ConnInv
  <1>17. OneWorker'
    <2>1. \A v \in Workers : peer[v] # t
      BY <1>5 DEF InFlight
    <2> QED
      BY <1>3, <2>1 DEF IInv, ConnInv, OneWorker
  <1>18. OneStart' /\ Offsets'
    BY <1>2, <1>5 DEF IInv, ConnInv, OneStart, Offsets, Ends
  <1> QED
    BY <1>15, <1>16, <1>17, <1>18 DEF ConnInv

(* PutsAnswer keeps every connection in step.                              *)
LEMMA PutsAnswerConn ==
    ASSUME IInv, Good, NEW w \in Workers, PutsAnswer(w)
    PROVE  ConnInv'
  <1>1. /\ TypeOK /\ TypeOK' /\ OnlyAt(w) /\ peer' = peer /\ w \in Ends /\ at'[w] = "name"
        /\ file'[w] = file[w] /\ file[w] \in Puts /\ at[w] = "command" /\ cur'[w] \in Nat
        /\ cur'[w] = Length(There(file[w]))
    BY PutsAnswerDoes, WorkerEnd DEF IInv, PutsAnswer
  <1>2. PICK t \in Threads : t = peer[w]
    BY PutsAnswerDoes
  <1>3. w \in InFlight(t) /\ Conn(w) = t
    BY <1>2, WorkerEnd DEF InFlight
  <1>4. Up(t)' = Up(t) /\ In(w)' = Up(t)'
    BY <1>1, <1>2, <1>3, WorkerView, PutsAnswerDoes
  <1>5. /\ t \in broken => Down(t)' = Down(t)
        /\ t \notin broken => Down(t) = <<>> /\ Down(t)' = << <<"offset", cur'[w]>> >>
    BY <1>1, <1>2, <1>3, WorkerView, PutsAnswerDoes
  <1>6. /\ at'[t] = at[t] /\ file'[t] = file[t] /\ cur'[t] = cur[t] /\ total'[t] = total[t]
        /\ InFlight(t)' = {w} /\ ThreadOK(t) /\ Served(w, t) /\ broken' = broken
        /\ at[t] # "start" /\ (Down(t)' = Down(t) => ThreadOK(t)')
    BY <1>1, <1>3, ThreadStays
  <1>7. file[w] \in Files /\ cur'[w] <= Size[file[w]]
    BY <1>1, LengthBound, SizeAssumption
  <1>8. Up(t) = <<>>
    BY <1>1, <1>6 DEF Served, WorkerOK
  <1>9. StreamOK(w)'
    <2>1. 0 + cur'[w] <= 2 + Whole(file[w]) /\ Len(<<>>) = 0
      BY <1>1, <1>7, WholeOf, SMT
    <2>2. \A i \in 1..Len(<<>>) : FALSE
      BY <2>1, SMT
    <2>3. Stream(file[w], 2, cur'[w], <<>>)
      BY <1>7, <2>1, <2>2 DEF Stream
    <2>4. Heads(w)' = 2
      BY <1>1 DEF Heads
    <2> QED
      BY <1>1, <1>4, <1>8, <2>3, <2>4, StreamIs
  <1>10. WorkerOK(w, t)'
    BY <1>1, <1>6, <1>9 DEF Served, WorkerOK, Receiving
  <1>11. ThreadOK(t)'
    <2>1. CASE t \in broken
      BY <1>5, <1>6, <2>1
    <2>2. CASE t \notin broken
      <3>1. at[t] = "answer"
        BY <1>1, <1>6, <2>2 DEF Served, Sync
      <3>2. Len(Down(t)') = 1 /\ Down(t)'[1][1] = "offset" /\ Down(t)'[1][2] = cur'[w]
        BY <1>5, <2>2
      <3> QED
        BY <1>1, <1>6, <3>1, <3>2 DEF ThreadOK, Receiving
    <2> QED
      BY <2>1, <2>2
  <1>12. ASSUME t \notin broken
         PROVE  Sync(w, t)'
    <2>1. at[t] = "answer"
      BY <1>1, <1>6, <1>12 DEF Served, Sync
    <2> QED
      BY <1>1, <1>4, <1>5, <1>6, <1>8, <1>12, <2>1 DEF Sync
  <1>13. ConnOK(t)'
    BY <1>6, <1>10, <1>11, <1>12 DEF ConnOK, Served
  <1>14. Offsets'
    <2>1. fileSize' = [fileSize EXCEPT ![w] = cur'[w]]
      BY PutsAnswerDoes
    <2>2. cur'[w] < Half
      <3>1. Size[file[w]] < Half /\ Size[file[w]] \in Nat /\ Half \in Nat
        BY <1>7, SizeAssumption, LimitAssumption DEF Good
      <3> QED
        BY <1>1, <1>7, <3>1, SMT
    <2> QED
      BY <1>1, <2>1, <2>2 DEF Offsets, IInv, ConnInv, TypeOK
  <1> QED
    BY <1>1, <1>3, <1>13, <1>14, ConnAfter

(* GetsOffset keeps every connection in step.                              *)
LEMMA GetsOffsetConn ==
    ASSUME IInv, Good, NEW w \in Workers, GetsOffset(w)
    PROVE  ConnInv'
  <1>1. /\ TypeOK /\ TypeOK' /\ OnlyAt(w) /\ peer' = peer /\ w \in Ends /\ at'[w] = "head"
        /\ file'[w] = file[w] /\ file[w] \notin Puts /\ at[w] = "command"
        /\ cur'[w] = fileSize'[w]
    BY GetsOffsetDoes, WorkerEnd DEF IInv, GetsOffset
  <1>2. PICK t \in Threads : t = peer[w]
    BY GetsOffsetDoes
  <1>3. w \in InFlight(t) /\ Conn(w) = t
    BY <1>2, WorkerEnd DEF InFlight
  <1>4. Up(t)' = <<>> /\ Down(t)' = Down(t)
    <2>1. Coming(w) = <<>> /\ Going(w) = Down(t)
      BY <1>2, GetsOffsetDoes
    <2> QED
      BY <1>1, <1>3, <2>1, WorkerView
  <1>5. /\ at'[t] = at[t] /\ file'[t] = file[t] /\ cur'[t] = cur[t] /\ total'[t] = total[t]
        /\ InFlight(t)' = {w} /\ ThreadOK(t) /\ Served(w, t) /\ broken' = broken
        /\ at[t] # "start" /\ ThreadOK(t)'
    BY <1>1, <1>3, <1>4, ThreadStays
  <1>6. file[w] \in Gets /\ file[w] \in Files
    BY <1>1, <1>5 DEF Served, WorkerOK, Gets
  <1>7. WorkerOK(w, t)'
    BY <1>1, <1>4, <1>5, <1>6 DEF Served, WorkerOK, Receiving
  <1>8. /\ Up(t) # <<>> => /\ fileSize'[w] = IF Up(t)[1][2] = None THEN 0
                                             ELSE Up(t)[1][2] % Half
                           /\ Up(t)[1][2] \in Nat \cup {None}
        /\ Up(t) = <<>> => fileSize'[w] = 0 /\ t \in broken
    BY <1>2, GetsOffsetDoes
  <1>9. Half \in Nat \ {0} /\ \A n \in Nat : n % Half < Half /\ (n < Half => n % Half = n)
    <2>1. Half \in Nat \ {0}
      BY LimitAssumption
    <2> QED
      BY <2>1, SMT
  <1>10. ASSUME t \notin broken
         PROVE  Sync(w, t)'
    <2>1. /\ Down(t) = <<>> /\ at[t] = "name" /\ Len(Up(t)) = 1 /\ Says(Up(t)[1], cur[t])
      BY <1>1, <1>5, <1>6, <1>10 DEF Served, Sync
    <2>2. Up(t) # <<>>
      BY <2>1
    <2>3. cur[t] \in Nat /\ cur[t] < Half
      <3>1. cur[t] <= Size[file[t]] /\ file[t] \in Files
        BY <1>5, <2>1, SizeAssumption DEF ThreadOK, StreamOK, Receiving, Gets
      <3>2. Size[file[t]] < Half /\ Size[file[t]] \in Nat /\ cur[t] \in Nat
        BY <1>1, <3>1, SizeAssumption, ThreadView DEF Good, TypeOK
      <3> QED
        BY <1>9, <3>1, <3>2, SMT
    <2>4. fileSize'[w] = cur[t]
      <3>1. CASE Up(t)[1][2] = None
        BY <1>8, <2>1, <2>2, <2>3, <3>1, NoneAssumption DEF Says
      <3>2. CASE Up(t)[1][2] # None
        BY <1>8, <1>9, <2>1, <2>2, <2>3, <3>2 DEF Says
      <3> QED
        BY <3>1, <3>2
    <2> QED
      BY <1>1, <1>4, <1>5, <2>1, <2>4 DEF Sync
  <1>11. ConnOK(t)'
    BY <1>5, <1>7, <1>10 DEF ConnOK, Served
  <1>12. Offsets'
    <2>1. PICK n \in Nat : fileSize' = [fileSize EXCEPT ![w] = n]
      BY GetsOffsetDoes
    <2>2. fileSize'[w] = n
      BY <1>1, <2>1 DEF TypeOK
    <2>3. n < Half
      <3>1. CASE Up(t) # <<>> /\ Up(t)[1][2] # None
        BY <1>8, <1>9, <2>2, <3>1
      <3>2. CASE ~(Up(t) # <<>> /\ Up(t)[1][2] # None)
        <4>1. n = 0
          BY <1>8, <2>2, <3>2
        <4> QED
          BY <1>9, <4>1, SMT
      <3> QED
        BY <3>1, <3>2
    <2> QED
      BY <1>1, <2>1, <2>3 DEF Offsets, IInv, ConnInv, TypeOK
  <1> QED
    BY <1>1, <1>3, <1>11, <1>12, ConnAfter

(* A part of what was under way.                                           *)
Part(p, q) == /\ p \in Seq(Item) /\ Len(p) <= Len(q)
              /\ \A i \in 1..Len(p) : p[i] = q[i]

(* What Break changes: of what is under way on one connection a part still *)
(* arrives.                                                                *)
LEMMA BreakDoes ==
    ASSUME IInv, NEW t \in Threads, Break(t)
    PROVE  /\ TypeOK /\ TypeOK' /\ Part(Up(t)', Up(t)) /\ Part(Down(t)', Down(t))
           /\ \A u \in Threads : u # t => wire'[u] = wire[u]
           /\ broken' = broken \union {t}
           /\ Up(t) \in Seq(Item) /\ Down(t) \in Seq(Item)
  <1>1. TypeOK /\ WireOK /\ PeerOK
    BY TypeParts DEF IInv
  <1>0. PICK s \in Sides : \E n \in 0..Len(wire[t][s]) :
            wire' = [wire EXCEPT ![t] = [NoWire EXCEPT ![s] = SubSeq(wire[t][s], 1, n)]]
    BY DEF Break, Sides
  <1>2. PICK n \in 0..Len(wire[t][s]) :
            wire' = [wire EXCEPT ![t] = [NoWire EXCEPT ![s] = SubSeq(wire[t][s], 1, n)]]
    BY <1>0
  <1>3. PICK q \in Seq(Item) : q = wire[t][s] /\ Len(q) <= Window
    BY <1>1 DEF WireOK
  <1>4. n \in 0..Len(q) /\ Len(q) \in Nat
    BY <1>2, <1>3, LenProperties
  <1>5. PICK p : p = SubSeq(q, 1, n)
    OBVIOUS
  <1>6. p \in Seq(Item) /\ Len(p) = n /\ \A i \in 1..n : p[i] = q[i]
    <2>1. n \in Nat /\ n <= Len(q)
      BY <1>4
    <2>2. \A i \in 1..n : q[i] \in Item
      <3>1. \A i \in 1..n : i \in 1..Len(q)
        BY <1>4, <2>1, SMT
      <3> QED
        BY <3>1, ElementOfSeq
    <2>3. SubSeq(q, 1, n) = [i \in 1..n |-> q[i]]
      BY <1>4, <2>1, SMT
    <2> QED
      BY <1>5, <2>1, <2>2, <2>3
  <1>7. Part(p, q) /\ Len(p) <= Window
    <2>1. Len(p) <= Len(q)
      BY <1>4, <1>6
    <2>2. Len(p) <= Window
      BY <1>3, <1>4, <1>6, LimitAssumption, SMT
    <2> QED
      BY <1>6, <2>1, <2>2 DEF Part
  <1>8. /\ wire'[t] = [NoWire EXCEPT ![s] = p]
        /\ \A u \in Threads : u # t => wire'[u] = wire[u]
        /\ wire' \in [Threads -> [Sides -> Seq(Item)]]
    <2>1. NoWire \in [Sides -> Seq(Item)]
      BY DEF NoWire, Sides
    <2>2. [NoWire EXCEPT ![s] = p] \in [Sides -> Seq(Item)]
      BY <1>6, <2>1
    <2>3. wire' = [wire EXCEPT ![t] = [NoWire EXCEPT ![s] = p]]
      BY <1>2, <1>3, <1>5
    <2> QED
      BY <1>1, <2>2, <2>3 DEF WireOK
  <1>9. \A r \in Sides : /\ wire'[t][r] = IF r = s THEN p ELSE <<>>
                         /\ wire[t][r] \in Seq(Item)
    BY <1>1, <1>8 DEF NoWire, Sides, WireOK
  <1>10. \A r \in Sides : Part(wire'[t][r], wire[t][r])
    <2>1. \A x \in Seq(Item) : Part(<<>>, x)
      <3> SUFFICES ASSUME NEW x \in Seq(Item)
                   PROVE  Part(<<>>, x)
        OBVIOUS
      <3>1. <<>> \in Seq(Item) /\ Len(<<>>) = 0 /\ Len(x) \in Nat
        BY LenProperties
      <3>2. 0 <= Len(x) /\ \A i \in 1..0 : FALSE
        BY <3>1, SMT
      <3> QED
        BY <3>1, <3>2 DEF Part
    <2> QED
      BY <1>3, <1>7, <1>9, <2>1
  <1>11. WireOK'
    <2> SUFFICES ASSUME NEW u \in Threads, NEW r \in Sides
                 PROVE  Len(wire'[u][r]) <= Window
      BY <1>8 DEF WireOK
    <2>1. Len(<<>>) <= Window
      BY LimitAssumption
    <2>2. CASE u = t
      BY <1>7, <1>9, <2>1, <2>2
    <2>3. CASE u # t
      BY <1>1, <1>8, <2>3 DEF WireOK
    <2> QED
      BY <2>2, <2>3
  <1>12. PeerOK'
    BY <1>1 DEF Break, local, PeerOK
  <1>13. TypeOK'
    BY <1>1, <1>11, <1>12, TypeAfter, DiskTypes DEF Break, local, TypeOK
  <1> QED
    BY <1>1, <1>8, <1>9, <1>10, <1>13 DEF Break, Up, Down, Sides

(* A stream cut short is a stream.                                         *)
LEMMA PartOfStream ==
    ASSUME NEW f \in Files, NEW h \in {0, 1, 2}, NEW c \in Nat, NEW q \in Seq(Item), NEW p,
           Stream(f, h, c, q), Part(p, q)
    PROVE  Stream(f, h, c, p)
  <1>1. /\ p \in Seq(Item) /\ Len(p) <= Len(q)
        /\ \A i \in 1..Len(p) : p[i] = q[i]
    BY DEF Part
  <1>2. Len(p) \in Nat /\ Len(q) \in Nat /\ Whole(f) \in Nat
    BY <1>1, LenProperties, WholeOf
  <1>3. \A i \in 1..Len(p) : i \in 1..Len(q)
    BY <1>1, <1>2, SMT
  <1>4. Len(p) + c <= h + Whole(f)
    <2>1. Len(q) + c <= h + Whole(f)
      BY DEF Stream
    <2> QED
      BY <1>1, <1>2, <2>1, SMT
  <1> QED
    BY <1>1, <1>3, <1>4 DEF Stream

(* What is left of one item, or of two, begins as it did.                  *)
LEMMA PartOfFew ==
    ASSUME NEW q \in Seq(Item), NEW p, Part(p, q)
    PROVE  /\ q = <<>> => p = <<>>
           /\ Len(q) = 1 => p = <<>> \/ (Len(p) = 1 /\ p[1] = q[1])
           /\ p # <<>> => p[1] = q[1] /\ q # <<>>
           /\ Len(p) = 2 => p[2] = q[2] /\ (Len(q) <= 2 => Len(q) = 2)
           /\ Len(q) <= 2 => Len(p) <= 2
  <1>1. PICK m \in Nat, n \in Nat : m = Len(p) /\ n = Len(q) /\ m <= n
    BY LenProperties DEF Part
  <1>2. p \in Seq(Item) /\ \A i \in 1..m : p[i] = q[i]
    BY <1>1 DEF Part
  <1>3. (m = 0 => p = <<>>) /\ (p # <<>> => m # 0) /\ (q = <<>> <=> n = 0)
    BY <1>1, <1>2, EmptySeq
  <1>4. /\ n = 0 => m = 0
        /\ n = 1 => m = 0 \/ m = 1
        /\ m # 0 => 1 \in 1..m /\ n # 0
        /\ m = 2 => 2 \in 1..m /\ (n <= 2 => n = 2)
        /\ n <= 2 => m <= 2
    BY <1>1, SMT
  <1>5. m # 0 => p[1] = q[1]
    BY <1>2, <1>4
  <1>6. m = 2 => p[2] = q[2]
    BY <1>2, <1>4
  <1> QED
    BY <1>1, <1>3, <1>4, <1>5, <1>6

(* Break keeps every connection in step.                                   *)
LEMMA BreakConn ==
    ASSUME IInv, NEW t \in Threads, Break(t)
    PROVE  ConnInv'
  <1>1. /\ at' = at /\ file' = file /\ cur' = cur /\ total' = total /\ fileSize' = fileSize
        /\ peer' = peer /\ action' = action /\ broken' = broken \union {t} /\ TypeOK
        /\ t \in Ends
    BY BreakDoes, ThreadView DEF Break, local
  <1>2. /\ Up(t) \in Seq(Item) /\ Down(t) \in Seq(Item)
        /\ Part(Up(t)', Up(t)) /\ Part(Down(t)', Down(t))
    BY BreakDoes
  <1>3. ConnOK(t) /\ ThreadOK(t) /\ InFlight(t)' = InFlight(t)
    BY <1>1 DEF IInv, ConnInv, ConnOK, InFlight
  <1>4. ASSUME NEW r \in Ends, at[r] \in Receiving, StreamOK(r), file[r] \in Files,
               Part(In(r)', In(r)), In(r) \in Seq(Item)
        PROVE  StreamOK(r)'
    <2>1. Heads(r) \in {0, 1, 2} /\ Heads(r)' = Heads(r) /\ cur[r] \in Nat
      BY <1>1, HeadsOf DEF Heads, TypeOK
    <2>2. Stream(file[r], Heads(r), cur[r], In(r)')
      BY <1>4, <2>1, PartOfStream, StreamIs
    <2> QED
      BY <1>1, <2>1, <2>2, StreamIs
  <1>5. ThreadOK(t)'
    <2>1. at[t] \in Receiving => StreamOK(t)'
      <3>1. In(t) = Down(t) /\ In(t)' = Down(t)'
        BY ThreadView
      <3> QED
        BY <1>1, <1>2, <1>3, <1>4, <3>1, SizeAssumption DEF ThreadOK, Gets
    <2>2. at[t] = "answer" => \/ Down(t)' = <<>>
                              \/ /\ Len(Down(t)') = 1 /\ Down(t)'[1][1] = "offset"
                                 /\ Down(t)'[1][2] \in Nat
      BY <1>2, <1>3, PartOfFew DEF ThreadOK
    <2>3. at[t] = "start" => Up(t)' = <<>> /\ Down(t)' = <<>>
      BY <1>2, <1>3, PartOfFew DEF ThreadOK
    <2> QED
      BY <1>1, <1>3, <2>1, <2>2, <2>3 DEF ThreadOK, Receiving, Gets
  <1>6. ASSUME InFlight(t) = {}
        PROVE  Alone(t)'
    <2>1. Alone(t)
      BY <1>3, <1>6 DEF ConnOK
    <2>2. ASSUME Up(t)' # <<>>
          PROVE  /\ Up(t)'[1][1] = "file" /\ Up(t)'[1][2] \in Files
                 /\ Up(t)'[1][2] \in Puts => Len(Up(t)') = 1
                 /\ Len(Up(t)') <= 2
                 /\ Len(Up(t)') = 2 => Up(t)'[2][1] = "offset" /\ Up(t)'[2][2] \in Nat \cup {None}
                 /\ at[t] \notin {"idle", "done"} => file[t] = Up(t)'[1][2]
      <3>1. Up(t) # <<>> /\ Up(t)'[1] = Up(t)[1]
        BY <1>2, <2>2, PartOfFew
      <3>2. /\ Up(t)[1][1] = "file" /\ Up(t)[1][2] \in Files
            /\ Up(t)[1][2] \in Puts => Len(Up(t)) = 1
            /\ Len(Up(t)) <= 2
            /\ Len(Up(t)) = 2 => Up(t)[2][1] = "offset" /\ Up(t)[2][2] \in Nat \cup {None}
            /\ at[t] \notin {"idle", "done"} => file[t] = Up(t)[1][2]
        BY <2>1, <3>1 DEF Alone
      <3>3. Len(Up(t)') <= 2 /\ (Up(t)[1][2] \in Puts => Len(Up(t)') = 1)
        BY <1>2, <2>2, <3>2, PartOfFew
      <3>4. Len(Up(t)') = 2 => Up(t)'[2] = Up(t)[2] /\ Len(Up(t)) = 2
        BY <1>2, <3>2, PartOfFew
      <3> QED
        BY <3>1, <3>2, <3>3, <3>4
    <2> QED
      BY <1>1, <2>2 DEF Alone
  <1>7. ASSUME NEW w \in InFlight(t)
        PROVE  Served(w, t)'
    <2>1. Served(w, t) /\ WorkerOK(w, t)
      BY <1>3 DEF ConnOK, Served
    <2>2. w \in Ends /\ In(w) = Up(t) /\ In(w)' = Up(t)' /\ peer[w] = t
      BY <1>1, WorkerView
    <2>3. at[w] \in Receiving => StreamOK(w)'
      BY <1>1, <1>2, <1>4, <2>1, <2>2 DEF WorkerOK
    <2>4. Up(t) = <<>> => Up(t)' = <<>>
      BY <1>2, PartOfFew
    <2>5. at[w] = "command" =>
            /\ file[w] \in Puts => Up(t)' = <<>>
            /\ Up(t)' # <<>> => Len(Up(t)') = 1 /\ Up(t)'[1][1] = "offset"
                                /\ Up(t)'[1][2] \in Nat \cup {None}
      BY <1>2, <2>1, <2>4, PartOfFew DEF WorkerOK
    <2>6. WorkerOK(w, t)'
      BY <1>1, <2>1, <2>3, <2>4, <2>5 DEF WorkerOK, Receiving, Gets
    <2> QED
      BY <1>1, <2>6 DEF Served
  <1>8. ConnOK(t)'
    BY <1>3, <1>5, <1>6, <1>7 DEF ConnOK
  <1>9. ASSUME NEW u \in Threads, u # t
        PROVE  ConnOK(u)'
    <2>1. SameConn(u)
      BY <1>1, <1>9, BreakDoes DEF SameConn
    <2> QED
      BY <2>1, Undisturbed DEF IInv, ConnInv
  <1> QED
    BY <1>1, <1>8, <1>9 DEF ConnInv, IInv, OneWorker, OneStart, Offsets

(* What Stop changes: the ends of one side are idle and every connection   *)
(* has failed.                                                             *)
LEMMA StopDoes ==
    ASSUME IInv, NEW s \in Sides, Stop(s)
    PROVE  /\ TypeOK /\ TypeOK' /\ broken' = Threads
           /\ file' = file /\ cur' = cur /\ total' = total /\ fileSize' = fileSize
           /\ disk' = disk /\ received' = received /\ action' = action
           /\ s = "client" => /\ peer' = peer
                              /\ \A t \in Threads : /\ at'[t] = "idle" /\ Down(t)' = <<>>
                                                    /\ Up(t)' = Up(t)
                              /\ \A w \in Workers : at'[w] = at[w]
           /\ s = "server" => /\ \A w \in Workers : peer'[w] = None /\ at'[w] = "idle"
                              /\ \A t \in Threads : /\ at'[t] = at[t] /\ Down(t)' = Down(t)
                                                    /\ Up(t)' = <<>>
  <1> DEFINE es == IF s = "client" THEN Threads ELSE Workers
  <1>1. TypeOK /\ WireOK /\ PeerOK
    BY TypeParts DEF IInv
  <1>2. at' = [e \in Ends |-> IF e \in es THEN "idle" ELSE at[e]]
    BY DEF Stop
  <1>3. \A t \in Threads : t \in Ends /\ t \notin Workers
    BY ThreadEnd
  <1>4. \A w \in Workers : w \in Ends /\ w \notin Threads
    BY WorkerEnd
  <1>5. at' \in [Ends -> Place]
    BY <1>1, <1>2 DEF PeerOK, Place
  <1>6. s = "client" => /\ \A t \in Threads : at'[t] = "idle"
                        /\ \A w \in Workers : at'[w] = at[w]
    BY <1>2, <1>3, <1>4
  <1>7. s = "server" => /\ \A t \in Threads : at'[t] = at[t]
                        /\ \A w \in Workers : at'[w] = "idle"
    BY <1>2, <1>3, <1>4
  <1>8. /\ s = "client" => peer' = peer
        /\ s = "server" => peer' = [w \in Workers |-> None]
    BY DEF Stop
  <1>9. PeerOK'
    <2>1. CASE s = "client"
      BY <1>1, <1>5, <1>6, <1>8, <2>1 DEF PeerOK
    <2>2. CASE s = "server"
      BY <1>1, <1>5, <1>7, <1>8, <2>2 DEF PeerOK
    <2> QED
      BY <2>1, <2>2 DEF Sides
  <1>10. wire' = [t \in Threads |-> [wire[t] EXCEPT ![s] = <<>>]]
    BY DEF Stop
  <1>11. \A t \in Threads, r \in Sides : wire'[t][r] = IF r = s THEN <<>> ELSE wire[t][r]
    BY <1>1, <1>10 DEF WireOK
  <1>12. WireOK'
    <2>1. <<>> \in Seq(Item) /\ Len(<<>>) <= Window
      BY LimitAssumption
    <2>2. wire' \in [Threads -> [Sides -> Seq(Item)]]
      BY <1>1, <1>10, <2>1 DEF WireOK
    <2> QED
      BY <1>1, <1>11, <2>1, <2>2 DEF WireOK
  <1>13. TypeOK'
    BY <1>1, <1>9, <1>12, TypeAfter, DiskTypes DEF Stop, TypeOK
  <1> QED
    BY <1>1, <1>6, <1>7, <1>8, <1>11, <1>13 DEF Stop, Up, Down, Sides

(* Stop keeps every connection in step.                                    *)
LEMMA StopConn ==
    ASSUME IInv, NEW s \in Sides, Stop(s)
    PROVE  ConnInv'
  <1>1. /\ TypeOK /\ broken' = Threads /\ file' = file /\ cur' = cur /\ total' = total
        /\ fileSize' = fileSize /\ action' = action
    BY StopDoes
  <1>2. CASE s = "client"
    <2>1. /\ peer' = peer /\ \A w \in Workers : at'[w] = at[w]
          /\ \A t \in Threads : at'[t] = "idle" /\ Down(t)' = <<>> /\ Up(t)' = Up(t)
      BY <1>2, StopDoes
    <2>2. ASSUME NEW t \in Threads
          PROVE  ConnOK(t)'
      <3>1. ConnOK(t) /\ InFlight(t)' = InFlight(t) /\ at'[t] = "idle" /\ Up(t)' = Up(t)
        BY <2>1 DEF IInv, ConnInv, InFlight
      <3>2. ThreadOK(t)'
        BY <3>1 DEF ThreadOK, Receiving
      <3>3. InFlight(t) = {} => Alone(t)'
        BY <1>1, <3>1 DEF ConnOK, Alone
      <3>4. ASSUME NEW w \in InFlight(t)
            PROVE  Served(w, t)'
        <4>1. WorkerOK(w, t) /\ w \in Workers /\ peer[w] = t /\ peer'[w] = t /\ at'[w] = at[w]
          BY <2>1, <3>1 DEF ConnOK, Served, InFlight
        <4>2. StreamOK(w) => StreamOK(w)'
          BY <1>1, <3>1, <4>1, SameWorkerStream
        <4>3. WorkerOK(w, t)'
          BY <1>1, <3>1, <4>1, <4>2 DEF WorkerOK, Receiving, Gets
        <4> QED
          BY <1>1, <4>3 DEF Served
      <3> QED
        BY <3>1, <3>2, <3>3, <3>4 DEF ConnOK
    <2> QED
      BY <1>1, <2>1, <2>2 DEF ConnInv, IInv, OneWorker, OneStart, Offsets
  <1>3. CASE s = "server"
    <2>1. /\ \A w \in Workers : peer'[w] = None /\ at'[w] = "idle"
          /\ \A t \in Threads : at'[t] = at[t] /\ Down(t)' = Down(t) /\ Up(t)' = <<>>
      BY <1>3, StopDoes
    <2>2. ASSUME NEW t \in Threads
          PROVE  ConnOK(t)'
      <3>1. ConnOK(t) /\ InFlight(t)' = {} /\ t # None
        BY <2>1, NoneAssumption DEF IInv, ConnInv, InFlight
      <3>2. at[t] # "start" => ThreadOK(t)'
        BY <1>1, <2>1, <3>1, SameThread DEF ConnOK
      <3>3. at[t] = "start" => ThreadOK(t)'
        BY <1>1, <2>1, <3>1 DEF ConnOK, ThreadOK, Receiving
      <3>4. Alone(t)'
        BY <1>1, <2>1 DEF Alone
      <3> QED
        BY <3>1, <3>2, <3>3, <3>4 DEF ConnOK
    <2> QED
      BY <1>1, <2>1, <2>2 DEF ConnInv, IInv, OneWorker, OneStart, Offsets
  <1> QED
    BY <1>2, <1>3 DEF Sides

-----------------------------------------------------------------------------
(* One holder of each file.                                                *)

(* The places of an end that does nothing.                                 *)
Idle == {"idle", "done"}

(* Nobody comes to hold a file who did not.                                *)
HoldsShrink(t) == \A f \in Files : Holds(t, f)' => Holds(t, f)

(* On a connection nothing of which changes nobody comes to hold a file.   *)
LEMMA HoldsSame ==
    ASSUME NEW t \in Threads, SameConn(t)
    PROVE  HoldsShrink(t)
  <1>1. \A w \in Workers : /\ peer'[w] = t => peer[w] = t
                           /\ peer[w] = t => /\ peer'[w] = t /\ at'[w] = at[w]
                                             /\ file'[w] = file[w]
    BY DEF SameConn
  <1>2. /\ wire'[t] = wire[t] /\ at'[t] = at[t] /\ file'[t] = file[t]
        /\ at[t] = "start" => action' = action
    BY DEF SameConn
  <1> QED
    BY <1>1, <1>2 DEF HoldsShrink, Holds, InFlight, Writing, Up

(* If nobody comes to hold a file, no file comes to have two holders.      *)
LEMMA OneHolderAfter ==
    ASSUME IInv, \A t \in Threads : HoldsShrink(t)
    PROVE  OneHolder'
  BY DEF IInv, OneHolder, HoldsShrink

(* A step of e changes nothing of the connections e is not on.             *)
LEMMA OthersSame ==
    ASSUME IInv, NEW e \in Ends, OnlyAt(e), peer' = peer \/ Leave(e), Conn(e) \in Threads,
           NEW t \in Threads, t # Conn(e)
    PROVE  SameConn(t)
  <1>1. TypeOK
    BY DEF IInv
  <1>2. t # e /\ t \in Ends /\ wire'[t] = wire[t]
    BY ThreadEnd DEF OnlyAt, Ends
  <1>3. \A w \in Workers : w # e => peer'[w] = peer[w]
    BY <1>1, LeaveAt DEF OnlyAt
  <1>4. e \in Workers => peer[e] # t /\ peer'[e] # t
    BY <1>1, LeaveAt, WorkerEnd, NoneAssumption
  <1>5. \A w \in Workers : w \in Ends
    BY DEF Ends
  <1> QED
    BY <1>2, <1>3, <1>4, <1>5 DEF SameConn, OnlyAt

(* A thread's step leaves the file it holds.                               *)
LEMMA ThreadHolds ==
    ASSUME IInv, NEW t \in Threads, OnlyAt(t), peer' = peer,
           at[t] \notin Idle \cup {"start"}, file'[t] = file[t], at'[t] # "start"
    PROVE  OneHolder'
  <1>1. TypeOK /\ ConnOK(t) /\ t \in Ends /\ Conn(t) = t
    BY ThreadView DEF IInv, ConnInv
  <1>2. HoldsShrink(t)
    <2>1. ASSUME NEW f \in Files, Holds(t, f)'
          PROVE  file[t] = f
      <3>1. CASE at'[t] \notin Idle \cup {"start"} /\ file'[t] = f
        BY <3>1
      <3>2. CASE \E w \in InFlight(t)' : file'[w] = f
        <4>1. PICK w \in InFlight(t) : file'[w] = f
          BY <1>1, <3>2, WorkerStays
        <4>2. file'[w] = file[w] /\ WorkerOK(w, t)
          BY <1>1, WorkerStays DEF ConnOK, Served
        <4> QED
          BY <4>1, <4>2 DEF WorkerOK, Idle
      <3> QED
        BY <2>1, <3>1, <3>2 DEF Holds, Idle
    <2> QED
      BY <2>1 DEF HoldsShrink, Holds, Idle
  <1>3. \A u \in Threads : u # t => HoldsShrink(u)
    BY <1>1, OthersSame, HoldsSame
  <1> QED
    BY <1>2, <1>3, OneHolderAfter

(* A worker's step, if it does not begin to write, leaves who holds what.  *)
LEMMA WorkerHolds ==
    ASSUME IInv, NEW w \in Workers, OnlyAt(w), peer' = peer \/ Leave(w), peer[w] \in Threads,
           file'[w] = file[w], peer' = peer /\ Writing(w)' => Writing(w)
    PROVE  OneHolder'
  <1>1. PICK t \in Threads : t = peer[w]
    OBVIOUS
  <1>2. TypeOK /\ w \in InFlight(t) /\ Conn(w) = t /\ w \in Ends
    BY <1>1, WorkerEnd DEF IInv, InFlight
  <1>3. /\ at'[t] = at[t] /\ file'[t] = file[t] /\ at[t] # "start"
        /\ InFlight(t)' = IF peer' = peer THEN {w} ELSE {}
    BY <1>2, ThreadStays
  <1>4. HoldsShrink(t)
    BY <1>2, <1>3 DEF HoldsShrink, Holds
  <1>5. \A u \in Threads : u # t => HoldsShrink(u)
    BY <1>2, OthersSame, HoldsSame
  <1> QED
    BY <1>4, <1>5, OneHolderAfter

(* Issue gives no file a second holder.                                    *)
LEMMA IssueHolds ==
    ASSUME IInv, Good, NEW t \in Threads, NEW g \in Files, Issue(t, g)
    PROVE  OneHolder'
  <1>1. TypeOK /\ t \in Ends /\ t \notin Workers
    BY ThreadEnd DEF IInv
  <1>2. \A u \in Threads : at[u] # "start"
    BY DEF Issue, Good
  <1>3. /\ at'[t] = "start" /\ \A x \in Ends : x # t => at'[x] = at[x]
    BY <1>1, GotoAt DEF Issue, Place
  <1>4. /\ file' = file /\ peer' = peer /\ action' = g
        /\ \A e \in Ends : at[e] \in Idle \/ file[e] # g
        /\ InFlight(t) = {}
    BY DEF Issue, local, Idle
  <1>5. \A u \in Threads : u # t => wire'[u] = wire[u]
    BY <1>1 DEF Issue, TypeOK
  <1>6. \A w \in Workers : w \in Ends /\ at'[w] = at[w]
    BY <1>1, <1>3 DEF Ends
  <1>7. ASSUME NEW u \in Threads, u # t, NEW f \in Files, Holds(u, f)'
        PROVE  Holds(u, f) /\ f # g
    <2>1. /\ u \in Ends /\ at'[u] = at[u] /\ at[u] # "start"
          /\ Up(u)' = Up(u) /\ InFlight(u)' = InFlight(u)
      BY <1>2, <1>3, <1>4, <1>5, <1>7, ThreadView DEF Up, InFlight
    <2>2. CASE at[u] \notin Idle /\ file[u] = f
      BY <1>4, <2>1, <2>2 DEF Holds, Idle
    <2>3. CASE \E w \in InFlight(u) : file[w] = f /\ Writing(w)'
      <3>1. PICK w \in InFlight(u) : file[w] = f /\ Writing(w)'
        BY <2>3
      <3>2. w \in Workers /\ peer[w] = u /\ at'[w] = at[w] /\ w \in Ends
        BY <1>6 DEF InFlight
      <3>3. Writing(w) /\ at[w] \notin Idle
        BY <1>4, <2>1, <3>1, <3>2 DEF Writing, Idle, Up
      <3> QED
        BY <1>4, <3>1, <3>2, <3>3 DEF Holds
    <2> QED
      BY <1>4, <1>7, <2>1, <2>2, <2>3 DEF Holds, Idle
  <1>8. \A f \in Files : Holds(t, f)' => f = g
    <2>1. InFlight(t)' = {}
      BY <1>4 DEF InFlight
    <2> QED
      BY <1>3, <1>4, <2>1 DEF Holds
  <1> QED
    BY <1>7, <1>8 DEF IInv, OneHolder

(* ThreadStart gives no file a second holder.                              *)
LEMMA ThreadStartHolds ==
    ASSUME IInv, NEW t \in Threads, ThreadStart(t)
    PROVE  OneHolder'
  <1>1. /\ OnlyAt(t) /\ peer' = peer /\ TypeOK /\ InFlight(t) = {} /\ file'[t] = action
        /\ at[t] = "start" /\ Conn(t) = t /\ t \in Ends /\ at'[t] # "start"
    BY ThreadStartDoes, ThreadView DEF Gets
  <1>2. HoldsShrink(t)
    <2>1. InFlight(t)' = {}
      BY <1>1 DEF InFlight
    <2> QED
      BY <1>1, <2>1 DEF HoldsShrink, Holds
  <1>3. \A u \in Threads : u # t => HoldsShrink(u)
    BY <1>1, OthersSame, HoldsSame
  <1> QED
    BY <1>2, <1>3, OneHolderAfter

(* Take gives no file a second holder.                                     *)
LEMMA TakeHolds ==
    ASSUME IInv, NEW w \in Workers, NEW t \in Threads, Take(w, t)
    PROVE  OneHolder'
  <1>1. TypeOK /\ w \in Ends /\ w \notin Threads /\ at[w] = "idle" /\ peer[w] = None /\ t # None
    BY WorkerEnd, NoneAssumption DEF IInv, TypeOK, Take
  <1>2. /\ at'[w] = "command" /\ \A x \in Ends : x # w => at'[x] = at[x]
    BY <1>1, GotoAt DEF Take, Place
  <1>3. /\ peer'[w] = t /\ \A v \in Workers : v # w => peer'[v] = peer[v]
    BY <1>1 DEF Take, TypeOK
  <1>4. \A x \in Ends : x # w => file'[x] = file[x]
    BY <1>1 DEF Take, TypeOK
  <1>5. InFlight(t) = {} /\ action' = action /\ cur' = cur /\ total' = total /\ broken' = broken
    BY DEF Take
  <1>6. HoldsShrink(t)
    <2>1. InFlight(t)' = {w}
      BY <1>1, <1>3, <1>5 DEF InFlight
    <2>2. t \in Ends /\ t # w /\ at'[t] = at[t] /\ file'[t] = file[t]
      BY <1>1, <1>2, <1>4, ThreadView
    <2>3. ~Writing(w)'
      BY <1>2 DEF Writing
    <2> QED
      BY <1>5, <2>1, <2>2, <2>3 DEF HoldsShrink, Holds
  <1>7. ASSUME NEW u \in Threads, u # t
        PROVE  HoldsShrink(u)
    <2>1. u \in Ends /\ u # w /\ wire'[u] = wire[u] /\ peer[w] # u
      BY <1>1, <1>7, TakeWire, ThreadView, NoneAssumption
    <2>2. SameConn(u)
      BY <1>2, <1>3, <1>4, <1>5, <1>7, <2>1 DEF SameConn, Ends
    <2> QED
      BY <2>2, HoldsSame
  <1> QED
    BY <1>6, <1>7, OneHolderAfter

(* Break gives no file a second holder.                                    *)
LEMMA BreakHolds ==
    ASSUME IInv, NEW t \in Threads, Break(t)
    PROVE  OneHolder'
  <1>1. at' = at /\ file' = file /\ peer' = peer /\ action' = action
    BY DEF Break, local
  <1>2. \A u \in Threads : Up(u) = <<>> => Up(u)' = <<>>
    <2>1. Up(t) = <<>> => Up(t)' = <<>>
      BY BreakDoes, PartOfFew
    <2> QED
      BY <2>1, BreakDoes DEF Up
  <1>3. ASSUME NEW u \in Threads, NEW w \in InFlight(u), Writing(w)'
        PROVE  Writing(w)
    <2>1. peer[w] = u /\ peer'[w] = u
      BY <1>1 DEF InFlight
    <2> QED
      BY <1>1, <1>2, <1>3, <2>1 DEF Writing, Up
  <1>4. \A u \in Threads : InFlight(u)' = InFlight(u)
    BY <1>1 DEF InFlight
  <1>5. ASSUME NEW u \in Threads
        PROVE  HoldsShrink(u)
    BY <1>1, <1>3, <1>4 DEF HoldsShrink, Holds
  <1> QED
    BY <1>5, OneHolderAfter

(* Stop gives no file a second holder.                                     *)
LEMMA StopHolds ==
    ASSUME IInv, NEW s \in Sides, Stop(s)
    PROVE  OneHolder'
  <1>1. file' = file /\ action' = action
    BY StopDoes
  <1>2. CASE s = "client"
    <2>1. /\ peer' = peer /\ \A w \in Workers : at'[w] = at[w]
          /\ \A t \in Threads : at'[t] = "idle" /\ Up(t)' = Up(t)
      BY <1>2, StopDoes
    <2>2. ASSUME NEW u \in Threads
          PROVE  HoldsShrink(u)
      <3>1. InFlight(u)' = InFlight(u)
        BY <2>1 DEF InFlight
      <3>2. ASSUME NEW w \in InFlight(u), Writing(w)'
            PROVE  Writing(w)
        <4>1. peer[w] = u /\ peer'[w] = u /\ w \in Workers
          BY <2>1 DEF InFlight
        <4> QED
          BY <2>1, <3>2, <4>1 DEF Writing, Up
      <3> QED
        BY <1>1, <2>1, <3>1, <3>2 DEF HoldsShrink, Holds
    <2> QED
      BY <2>2, OneHolderAfter
  <1>3. CASE s = "server"
    <2>1. /\ \A w \in Workers : peer'[w] = None
          /\ \A t \in Threads : at'[t] = at[t]
      BY <1>3, StopDoes
    <2>2. ASSUME NEW u \in Threads
          PROVE  HoldsShrink(u)
      <3>1. InFlight(u)' = {}
        BY <2>1, NoneAssumption DEF InFlight
      <3> QED
        BY <1>1, <2>1, <3>1 DEF HoldsShrink, Holds
    <2> QED
      BY <2>2, OneHolderAfter
  <1> QED
    BY <1>2, <1>3 DEF Sides

-----------------------------------------------------------------------------
(* The disks.                                                              *)

(* Every receiver that may write a file holds it.                          *)
LEMMA AttachedHolds ==
    ASSUME IInv, NEW r \in Ends, Attached(r)
    PROVE  /\ Conn(r) \in Threads /\ file[r] \in Files /\ Holds(Conn(r), file[r])
           /\ r \in Threads <=> file[r] \in Gets
           /\ at[r] \in Receiving
  <1>1. TypeOK
    BY DEF IInv
  <1>2. CASE r \in Threads
    <2>1. at[r] \in Receiving /\ Conn(r) = r /\ file[r] \in Gets /\ file[r] \in Files
      BY <1>2, Kinds, ThreadEnd DEF Attached, IInv, ConnInv, ConnOK, ThreadOK
    <2> QED
      BY <1>2, <2>1 DEF Holds, Receiving
  <1>3. CASE r \in Workers
    <2>1. at[r] \in Receiving /\ Conn(r) = peer[r] /\ r \notin Threads
      BY <1>3, WorkerEnd DEF Attached, Writing, Receiving
    <2>2. peer[r] \in Threads /\ file[r] \in Files
      BY <2>1, Kinds
    <2>3. r \in InFlight(peer[r])
      BY <1>3 DEF InFlight
    <2>4. WorkerOK(r, peer[r])
      BY <2>2, <2>3 DEF IInv, ConnInv, ConnOK, Served
    <2>5. file[r] \in Puts
      BY <2>1, <2>4 DEF WorkerOK
    <2>6. Holds(peer[r], file[r])
      BY <2>1, <2>3, <2>4 DEF Attached, Holds, WorkerOK
    <2> QED
      BY <1>3, <2>1, <2>2, <2>5, <2>6 DEF Gets
  <1> QED
    BY <1>2, <1>3 DEF Ends

(* So a file has at most one such receiver.                                *)
LEMMA OneReceiver ==
    ASSUME IInv, NEW r \in Ends, NEW e \in Ends, Attached(r), Attached(e), file[r] = file[e]
    PROVE  r = e
  <1>1. Conn(r) = Conn(e)
    BY AttachedHolds DEF IInv, OneHolder
  <1>2. r \in Threads <=> e \in Threads
    BY AttachedHolds
  <1>3. CASE r \in Threads
    BY <1>1, <1>2, <1>3, ThreadEnd
  <1>4. CASE r \notin Threads
    <2>1. r \in Workers /\ e \in Workers
      BY <1>2, <1>4 DEF Ends
    <2>2. peer[r] = peer[e] /\ peer[r] # None
      BY <1>1, <2>1, WorkerEnd, AttachedHolds, NoneAssumption
    <2> QED
      BY <2>1, <2>2 DEF IInv, ConnInv, OneWorker
  <1> QED
    BY <1>3, <1>4

(* Who has mapped a file is one.                                           *)
LEMMA MappedAttached ==
    ASSUME IInv, NEW r \in Ends, IsMapped(r)
    PROVE  Attached(r) /\ ReceiverOK(r)
  BY ReceiverHas DEF IsMapped, Receiving

(* A step of e makes nobody else such a receiver.                          *)
LEMMA OthersAttached ==
    ASSUME IInv, NEW e \in Ends, OnlyAt(e), peer' = peer \/ Leave(e), Conn(e) \in Threads,
           at[e] \notin Idle, NEW r \in Ends, r # e
    PROVE  /\ Attached(r)' => Attached(r)
           /\ at'[r] = at[r] /\ file'[r] = file[r] /\ cur'[r] = cur[r]
  <1>1. at'[r] = at[r] /\ file'[r] = file[r] /\ cur'[r] = cur[r] /\ TypeOK
    BY DEF OnlyAt, IInv
  <1>2. CASE r \in Threads
    BY <1>1, <1>2 DEF Attached
  <1>3. CASE r \in Workers /\ peer[r] \notin Threads
    <2>1. at[r] = "idle" /\ r \notin Threads
      BY <1>1, <1>3, WorkerEnd DEF TypeOK
    <2> QED
      BY <1>1, <2>1 DEF Attached, Writing
  <1>4. CASE r \in Workers /\ peer[r] \in Threads /\ peer[r] # Conn(e)
    <2>1. SameConn(peer[r])
      BY <1>4, OthersSame
    <2>2. peer'[r] = peer[r]
      BY <1>4, <2>1 DEF SameConn
    <2>3. Up(peer[r])' = Up(peer[r])
      BY <2>1, <2>2 DEF SameConn, Up
    <2>4. r \notin Threads /\ at'[peer[r]] = at[peer[r]]
      BY <1>4, <2>1, WorkerEnd DEF SameConn
    <2> QED
      BY <1>1, <2>2, <2>3, <2>4 DEF Attached, Writing
  <1>5. CASE r \in Workers /\ peer[r] \in Threads /\ peer[r] = Conn(e)
    <2>1. e \in Threads
      <3>1. ASSUME e \in Workers
            PROVE  FALSE
        <4>1. peer[e] = peer[r] /\ peer[r] # None
          BY <1>5, <3>1, WorkerEnd, NoneAssumption
        <4> QED
          BY <1>5, <3>1, <4>1 DEF IInv, ConnInv, OneWorker
      <3> QED
        BY <3>1 DEF Ends
    <2>2. Conn(e) = e /\ peer[r] = e /\ r \in InFlight(e) /\ r \notin Threads
      BY <1>5, <2>1, ThreadEnd, WorkerEnd DEF InFlight
    <2>3. WorkerOK(r, e) /\ ThreadOK(e)
      BY <2>1, <2>2 DEF IInv, ConnInv, ConnOK, Served
    <2>4. at[r] = "name" => at[e] \in {"answer", "head", "send"}
      <3>1. at[r] = "name" => file[e] \in Puts /\ at[e] # "start"
        BY <2>3 DEF WorkerOK, Idle, Receiving
      <3>2. at[e] \in Place
        BY <1>1 DEF TypeOK
      <3> QED
        BY <2>3, <3>1, <3>2 DEF ThreadOK, Receiving, Gets, Place, Idle
    <2> QED
      BY <1>1, <2>2, <2>4 DEF Attached, Writing
  <1> QED
    BY <1>1, <1>2, <1>3, <1>4, <1>5 DEF Ends

(* A receiver whose file is not written keeps what it knows of it.         *)
LEMMA ReceiverKept ==
    ASSUME NEW r \in Ends, ReceiverOK(r), at'[r] = at[r], file'[r] = file[r], cur'[r] = cur[r],
           disk'[Dest(file[r])][file[r]] = disk[Dest(file[r])][file[r]]
    PROVE  ReceiverOK(r)'
  <1>1. There(file[r])' = There(file[r])
    BY DEF There, Dest
  <1>2. IsMapped(r)' = IsMapped(r)
    BY DEF IsMapped, Large
  <1> QED
    BY <1>1, <1>2 DEF ReceiverOK, Length

(* A step of e may write the file e receives, and nothing else.            *)
LEMMA DiskAfter ==
    ASSUME IInv, NEW e \in Ends, OnlyAt(e), peer' = peer \/ Leave(e), Conn(e) \in Threads,
           at[e] \notin Idle, NEW f \in Files, f = file[e] \/ disk' = disk,
           Attached(e)' => ReceiverOK(e)',
           \/ disk' = disk /\ (IsMapped(e) => IsMapped(e)' /\ file'[e] = file[e])
           \/ /\ Attached(e) /\ f = file[e]
              /\ \E d \in Seq(Data) : disk' = [disk EXCEPT ![Dest(f)][f] = d]
              /\ (IsMapped(e)' /\ file'[e] = f) \/ Prefix(f)'
    PROVE  DiskInv'
  <1>1. TypeOK
    BY DEF IInv
  <1>2. ASSUME NEW g \in Files
        PROVE  /\ disk'[Home(g)][g] = disk[Home(g)][g]
               /\ g # f \/ disk' = disk => disk'[Dest(g)][g] = disk[Dest(g)][g]
    <2>1. CASE disk' = disk
      BY <2>1
    <2>2. CASE disk' # disk
      <3>1. PICK d \in Seq(Data) : disk' = [disk EXCEPT ![Dest(f)][f] = d]
        BY <2>2
      <3>2. \A u \in Sides, k \in Files : <<u, k>> # <<Dest(f), f>> => disk'[u][k] = disk[u][k]
        BY <1>1, <3>1, DiskSet, DiskTypes
      <3> QED
        BY <1>1, <2>2, <3>2, DiskTypes
    <2> QED
      BY <2>1, <2>2
  <1>3. \A g \in Files : disk'[Home(g)][g] = Content(g)
    BY <1>2 DEF IInv, DiskInv
  <1>4. ASSUME NEW g \in Files, \A r \in Ends : IsMapped(r)' => file'[r] # g
        PROVE  Prefix(g)'
    <2>1. CASE g = f /\ Attached(e) /\ f = file[e] /\ Prefix(f)'
      BY <2>1
    <2>2. CASE disk'[Dest(g)][g] = disk[Dest(g)][g] /\ \A r \in Ends : IsMapped(r) => file[r] # g
      <3>1. Prefix(g)
        BY <2>2 DEF IInv, DiskInv
      <3>2. There(g)' = There(g)
        BY <2>2 DEF There, Dest
      <3> QED
        BY <3>1, <3>2 DEF Prefix
    <2>3. \A r \in Ends : r # e /\ IsMapped(r) => file[r] # g
      <3>1. \A r \in Ends : r # e => at'[r] = at[r] /\ file'[r] = file[r]
        BY DEF OnlyAt
      <3>2. \A r \in Ends : r # e /\ IsMapped(r) => IsMapped(r)'
        BY <3>1 DEF IsMapped, Large
      <3> QED
        BY <1>4, <3>1, <3>2
    <2>4. CASE disk' = disk /\ (IsMapped(e) => IsMapped(e)' /\ file'[e] = file[e])
      BY <1>4, <2>2, <2>3, <2>4
    <2>5. CASE /\ Attached(e) /\ f = file[e] /\ ((IsMapped(e)' /\ file'[e] = f) \/ Prefix(f)')
      <3>1. CASE g = f
        BY <1>4, <2>1, <2>5, <3>1
      <3>2. CASE g # f
        BY <1>2, <2>2, <2>3, <2>5, <3>2
      <3> QED
        BY <3>1, <3>2
    <2> QED
      BY <2>4, <2>5
  <1>5. ASSUME NEW r \in Ends, Attached(r)'
        PROVE  ReceiverOK(r)'
    <2>1. CASE r = e
      BY <1>5, <2>1
    <2>2. CASE r # e
      <3>1. Attached(r) /\ at'[r] = at[r] /\ file'[r] = file[r] /\ cur'[r] = cur[r]
        BY <1>5, <2>2, OthersAttached
      <3>2. ReceiverOK(r) /\ file[r] \in Files
        BY <3>1, AttachedHolds DEF IInv, DiskInv
      <3>3. file[r] # f \/ disk' = disk
        BY <2>2, <3>1, OneReceiver
      <3> QED
        BY <1>2, <3>1, <3>2, <3>3, ReceiverKept
    <2> QED
      BY <2>1, <2>2
  <1> QED
    BY <1>3, <1>4, <1>5 DEF DiskInv

(* Who is not receiving is not attached.                                   *)
LEMMA NotReceiving ==
    ASSUME NEW e \in Ends, at'[e] \notin Receiving
    PROVE  ~Attached(e)' /\ ~IsMapped(e)'
  BY DEF Attached, IsMapped, Writing, Receiving

(* A step that neither writes nor receives keeps the disks.                *)
LEMMA DiskUntouched ==
    ASSUME IInv, NEW e \in Ends, OnlyAt(e), peer' = peer \/ Leave(e), Conn(e) \in Threads,
           at[e] \notin Idle, disk' = disk, ~IsMapped(e), at'[e] \notin Receiving
    PROVE  DiskInv'
  <1>1. CASE Files = {}
    <2>1. ASSUME NEW r \in Ends, Attached(r)'
          PROVE  FALSE
      <3>1. r # e
        BY <2>1, NotReceiving
      <3>2. Attached(r)
        BY <2>1, <3>1, OthersAttached
      <3> QED
        BY <1>1, <3>2, AttachedHolds
    <2> QED
      BY <1>1, <2>1 DEF DiskInv
  <1>2. CASE Files # {}
    <2>1. PICK f \in Files : TRUE
      BY <1>2
    <2> QED
      BY <2>1, NotReceiving, DiskAfter
  <1> QED
    BY <1>1, <1>2

-----------------------------------------------------------------------------
(* One holder of each file: transFile and recvFile.                        *)

(* The steps of transFile and recvFile leave who holds what.               *)
LEMMA EndHolds ==
    ASSUME IInv, NEW e \in Ends, OnlyAt(e), peer' = peer \/ Leave(e), Conn(e) \in Threads,
           at[e] \in {"head", "send"} \cup Receiving, file'[e] = file[e], at'[e] # "start",
           peer' = peer => at'[e] \in {"send", "done"} \/ (CanRecv(e) /\ at[e] \in Receiving)
    PROVE  OneHolder'
  <1>1. TypeOK
    BY DEF IInv
  <1>2. CASE e \in Threads
    BY <1>1, <1>2, LeaveAt, ThreadHolds DEF Idle, Receiving
  <1>3. CASE e \in Workers
    <2>1. Conn(e) = peer[e] /\ In(e) = Up(peer[e])
      BY <1>3, WorkerEnd
    <2>2. ASSUME peer' = peer, Writing(e)'
          PROVE  Writing(e)
      <3>1. at'[e] \notin {"send", "done"}
        BY <2>2 DEF Writing
      <3> QED
        BY <2>1, <2>2, <3>1 DEF Writing, CanRecv, Receiving
    <2> QED
      BY <1>3, <2>1, <2>2, WorkerHolds
  <1> QED
    BY <1>2, <1>3 DEF Ends

(* So does leaving.                                                        *)
LEMMA LeavingHolds ==
    ASSUME IInv, NEW e \in Ends, OnlyAt(e), Leave(e), Conn(e) \in Threads,
           at[e] \in {"head", "send"} \cup Receiving, file'[e] = file[e]
    PROVE  OneHolder'
  <1>1. TypeOK
    BY DEF IInv
  <1>2. at'[e] \in {"done", "idle"} /\ (peer' = peer => at'[e] = "done")
    <2>1. e \in Threads => at'[e] = "done"
      BY <1>1, LeaveAt
    <2>2. e \in Workers => at'[e] = "idle" /\ peer'[e] = None /\ peer[e] # None
      BY <1>1, LeaveAt, WorkerEnd, NoneAssumption
    <2> QED
      BY <2>1, <2>2 DEF Ends
  <1> QED
    BY <1>2, EndHolds

(* SendHead gives no file a second holder.                                 *)
LEMMA SendHeadHolds ==
    ASSUME IInv, NEW e \in Ends, SendHead(e)
    PROVE  OneHolder'
  BY SendHeadDoes, EndHolds DEF SendHead

(* SendChunk gives no file a second holder.                                *)
LEMMA SendChunkHolds ==
    ASSUME IInv, NEW e \in Ends, SendChunk(e)
    PROVE  OneHolder'
  BY SendChunkDoes, EndHolds DEF SendChunk

(* SendEnd gives no file a second holder.                                  *)
LEMMA SendEndHolds ==
    ASSUME IInv, NEW e \in Ends, SendEnd(e)
    PROVE  OneHolder'
  BY SendEndDoes, LeavingHolds DEF SendEnd

(* SendFails gives no file a second holder.                                *)
LEMMA SendFailsHolds ==
    ASSUME IInv, NEW e \in Ends, SendFails(e)
    PROVE  OneHolder'
  BY SendFailsDoes, LeavingHolds DEF SendFails

(* RecvName gives no file a second holder.                                 *)
LEMMA RecvNameHolds ==
    ASSUME IInv, NEW e \in Ends, RecvName(e)
    PROVE  OneHolder'
  BY RecvNameDoes, EndHolds DEF RecvName, Receiving

(* RecvSize gives no file a second holder.                                 *)
LEMMA RecvSizeHolds ==
    ASSUME IInv, NEW e \in Ends, RecvSize(e)
    PROVE  OneHolder'
  BY RecvSizeDoes, EndHolds DEF RecvSize, Receiving

(* RecvChunk gives no file a second holder.                                *)
LEMMA RecvChunkHolds ==
    ASSUME IInv, NEW e \in Ends, RecvChunk(e)
    PROVE  OneHolder'
  BY RecvChunkDoes, EndHolds DEF RecvChunk, Receiving

(* RecvEnd gives no file a second holder.                                  *)
LEMMA RecvEndHolds ==
    ASSUME IInv, NEW e \in Ends, RecvEnd(e)
    PROVE  OneHolder'
  BY RecvEndDoes, LeavingHolds DEF Receiving

(* RecvFailed gives no file a second holder.                               *)
LEMMA RecvFailedHolds ==
    ASSUME IInv, NEW e \in Ends, RecvFailed(e)
    PROVE  OneHolder'
  BY RecvFailedDoes, LeavingHolds DEF Receiving

(* PutsOffset gives no file a second holder.                               *)
LEMMA PutsOffsetHolds ==
    ASSUME IInv, NEW t \in Threads, PutsOffset(t)
    PROVE  OneHolder'
  BY PutsOffsetDoes, ThreadHolds DEF Idle

(* PutsAnswer gives no file a second holder.                               *)
LEMMA PutsAnswerHolds ==
    ASSUME IInv, NEW w \in Workers, PutsAnswer(w)
    PROVE  OneHolder'
  <1>1. w \in InFlight(peer[w]) /\ peer[w] \in Threads /\ file[w] \in Puts
    BY PutsAnswerDoes DEF InFlight, PutsAnswer
  <1>2. WorkerOK(w, peer[w]) /\ at[w] = "command"
    BY <1>1 DEF IInv, ConnInv, ConnOK, Served, PutsAnswer
  <1>3. Up(peer[w]) = <<>> /\ Coming(w) = <<>>
    BY <1>1, <1>2, PutsAnswerDoes DEF WorkerOK
  <1>4. Up(peer[w])' = <<>>
    BY <1>3, PutsAnswerDoes, WorkerEnd DEF Coming, Up
  <1>5. ~Writing(w)'
    BY <1>4, PutsAnswerDoes DEF Writing
  <1> QED
    BY <1>5, PutsAnswerDoes, WorkerHolds

(* GetsOffset gives no file a second holder.                               *)
LEMMA GetsOffsetHolds ==
    ASSUME IInv, Good, NEW w \in Workers, GetsOffset(w)
    PROVE  OneHolder'
  <1>1. ~Writing(w)'
    BY GetsOffsetDoes DEF Writing
  <1> QED
    BY <1>1, GetsOffsetDoes, WorkerHolds

-----------------------------------------------------------------------------
(* The disks, action by action.                                            *)

(* SendHead keeps the disks.                                               *)
LEMMA SendHeadDisk ==
    ASSUME IInv, NEW e \in Ends, SendHead(e)
    PROVE  DiskInv'
  BY SendHeadDoes, DiskUntouched DEF SendHead, IsMapped, Idle, Receiving

(* SendChunk keeps the disks.                                              *)
LEMMA SendChunkDisk ==
    ASSUME IInv, NEW e \in Ends, SendChunk(e)
    PROVE  DiskInv'
  BY SendChunkDoes, DiskUntouched DEF SendChunk, IsMapped, Idle, Receiving

(* Who has left does not receive.                                          *)
LEMMA LeftPlace ==
    ASSUME IInv, NEW e \in Ends, Leave(e)
    PROVE  at'[e] \in {"done", "idle"} /\ at'[e] \notin Receiving
  BY LeaveAt DEF IInv, Ends, Receiving

(* SendEnd keeps the disks.                                                *)
LEMMA SendEndDisk ==
    ASSUME IInv, NEW e \in Ends, SendEnd(e)
    PROVE  DiskInv'
  BY SendEndDoes, LeftPlace, DiskUntouched DEF SendEnd, IsMapped, Idle

(* SendFails keeps the disks.                                              *)
LEMMA SendFailsDisk ==
    ASSUME IInv, NEW e \in Ends, SendFails(e)
    PROVE  DiskInv'
  BY SendFailsDoes, LeftPlace, DiskUntouched DEF SendFails, IsMapped, Idle

(* PutsOffset keeps the disks.                                             *)
LEMMA PutsOffsetDisk ==
    ASSUME IInv, NEW t \in Threads, PutsOffset(t)
    PROVE  DiskInv'
  BY PutsOffsetDoes, ThreadView, DiskUntouched DEF IsMapped, Idle, Receiving

(* GetsOffset keeps the disks.                                             *)
LEMMA GetsOffsetDisk ==
    ASSUME IInv, Good, NEW w \in Workers, GetsOffset(w)
    PROVE  DiskInv'
  BY GetsOffsetDoes, WorkerEnd, DiskUntouched DEF GetsOffset, IsMapped, Idle, Receiving

(* A receiver that begins counts from the length of what is there.         *)
LEMMA BeginsDisk ==
    ASSUME IInv, NEW e \in Ends, OnlyAt(e), peer' = peer, Conn(e) \in Threads,
           at[e] \in {"start", "command"}, at'[e] = "name", disk' = disk,
           NEW f \in Files, file'[e] = f, cur'[e] = Length(There(f))
    PROVE  DiskInv'
  <1>1. There(f)' = There(f)
    BY DEF There, Dest
  <1>2. ReceiverOK(e)'
    BY <1>1 DEF ReceiverOK, Length, IsMapped
  <1>3. ~IsMapped(e) /\ at[e] \notin Idle
    BY DEF IsMapped, Idle
  <1> QED
    BY <1>2, <1>3, DiskAfter

(* ThreadStart keeps the disks.                                            *)
LEMMA ThreadStartDisk ==
    ASSUME IInv, NEW t \in Threads, ThreadStart(t)
    PROVE  DiskInv'
  <1>1. CASE action \in Puts
    BY <1>1, ThreadStartDoes, ThreadView, DiskUntouched DEF IsMapped, Idle, Receiving
  <1>2. CASE action \in Gets
    BY <1>2, ThreadStartDoes, ThreadView, BeginsDisk
  <1> QED
    BY <1>1, <1>2, ThreadStartDoes DEF Gets

(* PutsAnswer keeps the disks.                                             *)
LEMMA PutsAnswerDisk ==
    ASSUME IInv, NEW w \in Workers, PutsAnswer(w)
    PROVE  DiskInv'
  <1>1. w \in Ends /\ Conn(w) = peer[w] /\ file[w] \in Files /\ disk' = disk /\ at[w] = "command"
    BY WorkerEnd, SizeAssumption DEF PutsAnswer
  <1> QED
    BY <1>1, PutsAnswerDoes, BeginsDisk

(* As long as e has not mapped it, what it receives is a part of the file. *)
LEMMA ReceivedPart ==
    ASSUME IInv, NEW e \in Ends, Attached(e), ~IsMapped(e)
    PROVE  Prefix(file[e])
  <1>1. file[e] \in Files
    BY AttachedHolds
  <1>2. \A r \in Ends : IsMapped(r) => file[r] # file[e]
    BY MappedAttached, OneReceiver
  <1> QED
    BY <1>1, <1>2 DEF IInv, DiskInv

(* RecvName keeps the disks.                                               *)
LEMMA RecvNameDisk ==
    ASSUME IInv, NEW e \in Ends, RecvName(e)
    PROVE  DiskInv'
  <1>1. at[e] = "name" /\ CanRecv(e)
    BY DEF RecvName
  <1>2. /\ Attached(e) /\ ReceiverOK(e) /\ file[e] \in Files /\ ~IsMapped(e) /\ at[e] \notin Idle
    BY <1>1, ReceiverHas DEF Receiving, IsMapped, Idle
  <1>3. PICK f \in Files : f = file[e] /\ file'[e] = f
    BY <1>2, RecvNameDoes
  <1>4. cur[e] = Length(There(f)) /\ cur'[e] = cur[e] /\ at'[e] = "size"
    BY <1>2, <1>3, RecvNameDoes DEF ReceiverOK
  <1>5. CASE There(f) # None
    <2>1. disk' = disk /\ There(f)' = There(f)
      BY <1>3, <1>5, RecvNameDoes DEF There, Dest
    <2>2. ReceiverOK(e)'
      BY <1>3, <1>4, <1>5, <2>1 DEF ReceiverOK, IsMapped, Length
    <2> QED
      BY <1>2, <1>3, <2>1, <2>2, RecvNameDoes, DiskAfter
  <1>6. CASE There(f) = None
    <2>1. disk' = [disk EXCEPT ![Dest(f)][f] = <<>>] /\ <<>> \in Seq(Data) /\ Len(<<>>) = 0
      BY <1>3, <1>6, RecvNameDoes
    <2>2. disk'[Dest(f)][f] = <<>>
      BY <2>1, DiskSet, DiskTypes DEF IInv
    <2>3. There(f)' = <<>> /\ <<>> # None
      BY <2>1, <2>2, NoneAssumption DEF There, Dest
    <2>4. cur'[e] = 0 /\ Length(<<>>) = 0
      BY <1>4, <1>6, <2>1, <2>3 DEF Length
    <2>5. ReceiverOK(e)'
      BY <1>3, <1>4, <2>3, <2>4 DEF ReceiverOK, IsMapped, Length
    <2>6. Prefix(f)'
      <3>1. 0 <= Size'[f] /\ \A i \in 1..0 : FALSE
        BY SizeAssumption
      <3> QED
        BY <2>1, <2>3, <3>1 DEF Prefix
    <2> QED
      BY <1>2, <1>3, <2>1, <2>5, <2>6, RecvNameDoes, DiskAfter
  <1> QED
    BY <1>5, <1>6

(* A mapped file of m chunks with its first n, and holes.                  *)
Filled(d, m, n) == /\ d \in Seq(Data) /\ Len(d) = m
                   /\ \A i \in 1..m : d[i] = IF i <= n THEN i ELSE Hole

(* ftruncate to the whole size keeps what was there and adds holes.        *)
LEMMA StretchedIs ==
    ASSUME NEW d \in Seq(Data), NEW n \in Nat, Len(d) <= n, \A i \in 1..Len(d) : d[i] = i
    PROVE  Filled(Stretched(d, n), n, Len(d))
  <1>1. PICK m \in Nat : m = Len(d) /\ m <= n
    BY LenProperties
  <1>2. \A i \in 1..n : i <= m => i \in 1..m
    BY <1>1, SMT
  <1>3. \A i \in 1..n : (IF i <= m THEN d[i] ELSE Hole) = (IF i <= m THEN i ELSE Hole)
    BY <1>1, <1>2
  <1>4. \A i \in 1..n : (IF i <= m THEN i ELSE Hole) \in Data
    BY SMT DEF Data, Hole
  <1>5. Stretched(d, n) = [i \in 1..n |-> IF i <= m THEN i ELSE Hole]
    BY <1>1, <1>3 DEF Stretched
  <1>6. PICK s : s = [i \in 1..n |-> IF i <= m THEN i ELSE Hole]
    OBVIOUS
  <1>7. s \in [1..n -> Data] /\ DOMAIN s = 1..n /\ \A i \in 1..n : s[i] = IF i <= m THEN i ELSE Hole
    BY <1>4, <1>6
  <1>8. s \in Seq(Data)
    BY <1>7
  <1>9. Len(s) = n
    BY <1>7, <1>8, LenProperties
  <1> QED
    BY <1>1, <1>5, <1>6, <1>7, <1>8, <1>9 DEF Filled

(* RecvSize keeps the disks.                                               *)
LEMMA RecvSizeDisk ==
    ASSUME IInv, NEW e \in Ends, RecvSize(e)
    PROVE  DiskInv'
  <1>1. at[e] = "size" /\ CanRecv(e)
    BY DEF RecvSize
  <1>2. /\ Attached(e) /\ ReceiverOK(e) /\ file[e] \in Files /\ ~IsMapped(e) /\ at[e] \notin Idle
    BY <1>1, ReceiverHas DEF Receiving, IsMapped, Idle
  <1>3. PICK f \in Files : f = file[e] /\ file'[e] = f /\ at'[e] = "recv" /\ cur'[e] = cur[e]
    BY <1>2, RecvSizeDoes
  <1>4. There(f) # None /\ cur[e] = Len(There(f)) /\ Prefix(f)
    BY <1>1, <1>2, <1>3, ReceivedPart DEF ReceiverOK, Length
  <1>5. CASE ~Large(Size[f])
    <2>1. disk' = disk /\ There(f)' = There(f)
      BY <1>3, <1>5, RecvSizeDoes DEF There, Dest
    <2>2. ReceiverOK(e)'
      BY <1>3, <1>4, <1>5, <2>1 DEF ReceiverOK, IsMapped, Length, Large
    <2> QED
      BY <1>2, <1>3, <2>1, <2>2, RecvSizeDoes, DiskAfter
  <1>6. CASE Large(Size[f])
    <2>1. PICK s : s = Stretched(There(f), Size[f])
      OBVIOUS
    <2>2. disk' = [disk EXCEPT ![Dest(f)][f] = s]
      BY <1>3, <1>6, <2>1, RecvSizeDoes
    <2>3. Filled(s, Size[f], cur[e])
      BY <1>4, <2>1, LengthBound, StretchedIs, SizeAssumption DEF Prefix
    <2>4. s \in Seq(Data) /\ disk'[Dest(f)][f] = s
      BY <2>2, <2>3, DiskSet, DiskTypes DEF IInv, Filled
    <2>5. There(f)' = s /\ s # None
      BY <2>4, NoneAssumption DEF There, Dest
    <2>6. IsMapped(e)'
      BY <1>3, <1>6 DEF IsMapped, Large
    <2>7. ReceiverOK(e)'
      BY <1>3, <2>3, <2>5, <2>6 DEF ReceiverOK, Filled
    <2> QED
      BY <1>2, <1>3, <2>2, <2>4, <2>6, <2>7, RecvSizeDoes, DiskAfter
  <1> QED
    BY <1>5, <1>6

(* A chunk copied to its place fills the first hole.                       *)
LEMMA FilledMore ==
    ASSUME NEW d, NEW m \in Nat, NEW n \in Nat, n < m, Filled(d, m, n)
    PROVE  Filled([d EXCEPT ![n + 1] = n + 1], m, n + 1)
  <1>1. n + 1 \in 1..m /\ n + 1 \in Data
    BY SMT DEF Data
  <1>2. d \in Seq(Data) /\ Len(d) = m /\ DOMAIN d = 1..m
    BY LenProperties DEF Filled
  <1>3. PICK s : s = [d EXCEPT ![n + 1] = n + 1]
    OBVIOUS
  <1>4. s \in Seq(Data) /\ Len(s) = m
    BY <1>1, <1>2, <1>3, ExceptSeq
  <1>5. \A i \in 1..m : s[i] = IF i = n + 1 THEN n + 1 ELSE d[i]
    BY <1>1, <1>2, <1>3
  <1>6. \A i \in 1..m : d[i] = IF i <= n THEN i ELSE Hole
    BY DEF Filled
  <1>7. \A i \in 1..m : s[i] = IF i <= n + 1 THEN i ELSE Hole
    BY <1>5, <1>6, SMT
  <1> QED
    BY <1>3, <1>4, <1>7 DEF Filled

(* A chunk appended is the next one.                                       *)
LEMMA OneMore ==
    ASSUME NEW d \in Seq(Data), NEW n \in Nat, Len(d) = n, \A i \in 1..n : d[i] = i
    PROVE  /\ Append(d, n + 1) \in Seq(Data) /\ Len(Append(d, n + 1)) = n + 1
           /\ \A i \in 1..n + 1 : Append(d, n + 1)[i] = i
  <1>1. n + 1 \in Data
    BY SMT DEF Data
  <1>2. /\ Append(d, n + 1) \in Seq(Data) /\ Len(Append(d, n + 1)) = n + 1
        /\ \A i \in 1..n : Append(d, n + 1)[i] = d[i]
        /\ Append(d, n + 1)[n + 1] = n + 1
    BY <1>1, AppendProperties
  <1>3. \A i \in 1..n + 1 : i \in 1..n \/ i = n + 1
    BY SMT
  <1> QED
    BY <1>2, <1>3

(* RecvChunk keeps the disks.                                              *)
LEMMA RecvChunkDisk ==
    ASSUME IInv, NEW e \in Ends, RecvChunk(e)
    PROVE  DiskInv'
  <1>1. at[e] = "recv" /\ CanRecv(e)
    BY DEF RecvChunk
  <1>2. /\ Attached(e) /\ ReceiverOK(e) /\ file[e] \in Files /\ at[e] \notin Idle
    BY <1>1, ReceiverHas DEF Receiving, Idle
  <1>3. PICK f \in Files : f = file[e] /\ file'[e] = f /\ at'[e] = "recv" /\ cur'[e] = cur[e] + 1
    BY <1>2, RecvChunkDoes
  <1>4. PICK n \in Nat, m \in Nat : n = cur[e] /\ m = Size[f] /\ n < m
    BY <1>3, RecvChunkDoes, SizeAssumption, ZenonT(60)
  <1>5. PICK d \in Seq(Data) : d = There(f) /\ d # None
    BY <1>1, <1>2, <1>3, LengthBound DEF ReceiverOK
  <1>6. IsMapped(e)' <=> IsMapped(e)
    BY <1>1, <1>3 DEF IsMapped, Large
  <1>7. CASE IsMapped(e)
    <2>1. Filled(d, m, n)
      BY <1>2, <1>3, <1>4, <1>5, <1>7 DEF ReceiverOK, Filled
    <2>2. PICK s : s = [d EXCEPT ![n + 1] = n + 1]
      OBVIOUS
    <2>3. Filled(s, m, n + 1)
      BY <1>4, <2>1, <2>2, FilledMore
    <2>4. disk' = [disk EXCEPT ![Dest(f)][f] = s]
      BY <1>3, <1>4, <1>5, <1>7, <2>2, RecvChunkDoes
    <2>5. s \in Seq(Data) /\ disk'[Dest(f)][f] = s
      BY <2>3, <2>4, DiskSet, DiskTypes DEF IInv, Filled
    <2>6. There(f)' = s /\ s # None
      BY <2>5, NoneAssumption DEF There, Dest
    <2>7. ReceiverOK(e)'
      BY <1>3, <1>4, <1>6, <1>7, <2>3, <2>6 DEF ReceiverOK, Filled
    <2> QED
      BY <1>2, <1>3, <1>6, <1>7, <2>4, <2>5, <2>7, RecvChunkDoes, DiskAfter
  <1>8. CASE ~IsMapped(e)
    <2>1. Len(d) = n /\ \A i \in 1..n : d[i] = i
      BY <1>2, <1>3, <1>4, <1>5, <1>8, ReceivedPart DEF ReceiverOK, Length, Prefix
    <2>2. PICK s : s = Append(d, n + 1)
      OBVIOUS
    <2>3. s \in Seq(Data) /\ Len(s) = n + 1 /\ \A i \in 1..n + 1 : s[i] = i
      BY <1>4, <2>1, <2>2, OneMore
    <2>4. disk' = [disk EXCEPT ![Dest(f)][f] = s]
      BY <1>3, <1>4, <1>5, <1>8, <2>2, RecvChunkDoes
    <2>5. disk'[Dest(f)][f] = s
      BY <2>3, <2>4, DiskSet, DiskTypes DEF IInv
    <2>6. There(f)' = s /\ s # None
      BY <2>3, <2>5, NoneAssumption DEF There, Dest
    <2>7. ReceiverOK(e)'
      BY <1>3, <1>4, <1>6, <1>8, <2>3, <2>6 DEF ReceiverOK, Length
    <2>8. n + 1 <= m
      BY <1>4, SMT
    <2>9. Prefix(f)'
      BY <1>4, <2>3, <2>6, <2>8 DEF Prefix
    <2> QED
      BY <1>2, <1>3, <2>3, <2>4, <2>7, <2>9, RecvChunkDoes, DiskAfter
  <1> QED
    BY <1>7, <1>8

(* RecvEnd keeps the disks; what it calls received is a part of the file   *)
(* of the file's length.                                                   *)
LEMMA RecvEndDisk ==
    ASSUME IInv, NEW e \in Ends, RecvEnd(e)
    PROVE  DiskInv' /\ Prefix(file[e]) /\ Length(There(file[e])) = Size[file[e]]
                    /\ There(file[e]) # None
  <1>1. /\ at[e] = "recv" /\ at[e] \notin Idle /\ disk' = disk
        /\ OnlyAt(e) /\ Leave(e) /\ Conn(e) \in Threads
    BY RecvEndDoes DEF Idle
  <1>2. Attached(e) /\ ReceiverOK(e)
    BY <1>1, ReceiverHas DEF Receiving
  <1>3. at'[e] \notin Receiving
    BY <1>1, LeftPlace
  <1>4. PICK f \in Files : f = file[e] /\ cur[e] = Size[f] /\ file'[e] = f
    BY RecvEndDoes
  <1>5. PICK d \in Seq(Data) : d = There(f) /\ d # None
    BY <1>1, <1>2, <1>4, LengthBound DEF ReceiverOK
  <1>6. PICK m \in Nat : m = Size[f]
    BY SizeAssumption
  <1>7. CASE ~IsMapped(e)
    <2>1. Prefix(f)
      BY <1>2, <1>4, <1>7, ReceivedPart
    <2>2. Length(d) = m
      BY <1>2, <1>4, <1>5, <1>6, <1>7 DEF ReceiverOK
    <2>3. DiskInv'
      BY <1>1, <1>3, <1>7, DiskUntouched
    <2> QED
      BY <1>4, <1>5, <1>6, <2>1, <2>2, <2>3
  <1>8. CASE IsMapped(e)
    <2>1. Len(d) = m /\ \A i \in 1..m : d[i] = i
      BY <1>2, <1>4, <1>5, <1>6, <1>8 DEF ReceiverOK
    <2>2. Prefix(f)
      BY <1>5, <1>6, <2>1 DEF Prefix
    <2>3. There(f)' = There(f)
      BY <1>1 DEF There, Dest
    <2>4. Prefix(f)'
      BY <2>2, <2>3 DEF Prefix
    <2>5. disk' = [disk EXCEPT ![Dest(f)][f] = d]
      <3>1. disk \in [Sides -> [Files -> Seq(Data) \union {None}]] /\ Dest(f) \in Sides
        BY DiskTypes DEF IInv
      <3> QED
        BY <1>1, <1>5, <3>1 DEF There
    <2>6. DiskInv'
      BY <1>1, <1>2, <1>3, <1>4, <2>4, <2>5, NotReceiving, DiskAfter
    <2> QED
      BY <1>4, <1>5, <1>6, <2>1, <2>2, <2>6 DEF Length
  <1> QED
    BY <1>7, <1>8

(* A mapped file cut back to what has arrived is a part of the file.       *)
LEMMA CutIs ==
    ASSUME NEW d, NEW m \in Nat, NEW n \in Nat, n < m, Filled(d, m, n)
    PROVE  /\ SubSeq(d, 1, n) \in Seq(Data) /\ Len(SubSeq(d, 1, n)) = n
           /\ \A i \in 1..n : SubSeq(d, 1, n)[i] = i
  <1>1. d \in Seq(Data) /\ Len(d) = m
    BY DEF Filled
  <1>2. \A i \in 1..n : i \in 1..m /\ i <= n
    BY SMT
  <1>3. \A i \in 1..n : d[i] = i /\ d[i] \in Data
    BY <1>2, SMT DEF Filled, Data
  <1>4. SubSeq(d, 1, n) = [i \in 1..n |-> d[i]]
    BY <1>1, SMT
  <1>5. PICK s : s = [i \in 1..n |-> d[i]]
    OBVIOUS
  <1>6. s \in [1..n -> Data] /\ DOMAIN s = 1..n /\ \A i \in 1..n : s[i] = i
    BY <1>3, <1>5
  <1>7. s \in Seq(Data)
    BY <1>6
  <1>8. Len(s) = n
    BY <1>6, <1>7, LenProperties
  <1> QED
    BY <1>4, <1>5, <1>6, <1>7, <1>8

(* RecvFailed keeps the disks.                                             *)
LEMMA RecvFailedDisk ==
    ASSUME IInv, NEW e \in Ends, RecvFailed(e)
    PROVE  DiskInv'
  <1>1. /\ at[e] \in Receiving /\ at[e] \notin Idle
        /\ OnlyAt(e) /\ Leave(e) /\ Conn(e) \in Threads
    BY RecvFailedDoes DEF Idle, Receiving
  <1>2. at'[e] \notin Receiving
    BY <1>1, LeftPlace
  <1>3. CASE ~IsMapped(e)
    BY <1>1, <1>2, <1>3, RecvFailedDoes, DiskUntouched
  <1>4. CASE IsMapped(e)
    <2>1. Attached(e) /\ ReceiverOK(e)
      BY <1>4, MappedAttached
    <2>2. PICK f \in Files : f = file[e] /\ file'[e] = f
      BY RecvFailedDoes
    <2>3. PICK n \in Nat, m \in Nat : n = cur[e] /\ m = Size[f] /\ n < m
      BY <1>4, <2>2, RecvFailedDoes, SizeAssumption
    <2>4. PICK d \in Seq(Data) : d = There(f) /\ d # None
      BY <1>4, <2>1, <2>2, LengthBound DEF ReceiverOK, IsMapped
    <2>5. Filled(d, m, n)
      BY <1>4, <2>1, <2>2, <2>3, <2>4 DEF ReceiverOK, Filled
    <2>6. PICK s : s = SubSeq(d, 1, n)
      OBVIOUS
    <2>7. s \in Seq(Data) /\ Len(s) = n /\ \A i \in 1..n : s[i] = i
      BY <2>3, <2>5, <2>6, CutIs
    <2>8. disk' = [disk EXCEPT ![Dest(f)][f] = s]
      BY <1>4, <2>2, <2>3, <2>4, <2>6, RecvFailedDoes
    <2>9. There(f)' = s /\ s # None
      BY <2>7, <2>8, DiskSet, DiskTypes, NoneAssumption DEF IInv, There, Dest
    <2>10. Prefix(f)'
      <3>1. n <= m
        BY <2>3, SMT
      <3> QED
        BY <2>3, <2>7, <2>9, <3>1 DEF Prefix
    <2> QED
      BY <1>1, <1>2, <2>1, <2>2, <2>7, <2>8, <2>10, NotReceiving, DiskAfter
  <1> QED
    BY <1>3, <1>4

(* A step that writes nothing, and after which nobody receives who did     *)
(* not, keeps the disks.                                                   *)
LEMMA DiskKept ==
    ASSUME IInv, disk' = disk, file' = file \/ (\A r \in Ends : Attached(r)' => file'[r] = file[r]),
           \A r \in Ends : Attached(r)' => Attached(r) /\ at'[r] = at[r] /\ cur'[r] = cur[r],
           \A r \in Ends : IsMapped(r) => IsMapped(r)' /\ file'[r] = file[r]
    PROVE  DiskInv'
  <1>1. \A f \in Files : There(f)' = There(f)
    BY DEF There, Dest
  <1>2. ASSUME NEW f \in Files, \A r \in Ends : IsMapped(r)' => file'[r] # f
        PROVE  Prefix(f)'
    <2>1. Prefix(f)
      BY <1>2 DEF IInv, DiskInv
    <2> QED
      BY <1>1, <2>1 DEF Prefix
  <1>3. ASSUME NEW r \in Ends, Attached(r)'
        PROVE  ReceiverOK(r)'
    <2>1. Attached(r) /\ at'[r] = at[r] /\ cur'[r] = cur[r] /\ file'[r] = file[r]
      BY <1>3
    <2>2. ReceiverOK(r)
      BY <2>1 DEF IInv, DiskInv
    <2> QED
      BY <2>1, <2>2, ReceiverKept
  <1>4. \A f \in Files : disk'[Home(f)][f] = Content(f)
    BY DEF IInv, DiskInv
  <1> QED
    BY <1>2, <1>3, <1>4 DEF DiskInv

(* Issue keeps the disks.                                                  *)
LEMMA IssueDisk ==
    ASSUME IInv, NEW t \in Threads, NEW f \in Files, Issue(t, f)
    PROVE  DiskInv'
  <1>1. TypeOK /\ t \in Ends /\ t \notin Workers /\ at[t] \in Idle /\ InFlight(t) = {}
    BY ThreadEnd DEF IInv, Issue, Idle
  <1>2. /\ at'[t] = "start" /\ \A x \in Ends : x # t => at'[x] = at[x]
    BY <1>1, GotoAt DEF Issue, Place
  <1>3. file' = file /\ cur' = cur /\ peer' = peer /\ disk' = disk
    BY DEF Issue, local
  <1>4. \A u \in Threads : u # t => wire'[u] = wire[u]
    BY <1>1 DEF Issue, TypeOK
  <1>5. ASSUME NEW r \in Ends
        PROVE  /\ Attached(r)' => Attached(r) /\ at'[r] = at[r]
               /\ IsMapped(r) => IsMapped(r)'
    <2>1. CASE r = t
      BY <1>1, <1>2, <2>1 DEF Attached, IsMapped, Receiving, Idle
    <2>2. CASE r # t
      <3>1. at'[r] = at[r]
        BY <1>2, <2>2
      <3>2. IsMapped(r) => IsMapped(r)'
        BY <1>3, <3>1 DEF IsMapped, Large
      <3>3. CASE r \in Threads
        BY <3>1, <3>2, <3>3 DEF Attached
      <3>4. CASE r \in Workers
        <4>1. r \notin Threads /\ (at[r] \notin Idle => peer[r] \in Threads)
          BY <1>1, <3>4, WorkerEnd DEF TypeOK, Idle
        <4>2. CASE at[r] = "idle"
          BY <3>1, <3>2, <4>1, <4>2 DEF Attached, Writing
        <4>3. CASE at[r] # "idle"
          <5>1. peer[r] \in Threads /\ peer[r] # t /\ peer[r] \in Ends
            BY <1>1, <3>4, <4>3 DEF InFlight, TypeOK, Ends
          <5>2. at'[peer[r]] = at[peer[r]] /\ wire'[peer[r]] = wire[peer[r]]
            BY <1>2, <1>4, <5>1
          <5> QED
            BY <1>3, <3>1, <3>2, <4>1, <5>2 DEF Attached, Writing, Up
        <4> QED
          BY <4>2, <4>3
      <3> QED
        BY <3>3, <3>4 DEF Ends
    <2> QED
      BY <2>1, <2>2
  <1> QED
    BY <1>3, <1>5, DiskKept

(* Take keeps the disks.                                                   *)
LEMMA TakeDisk ==
    ASSUME IInv, NEW w \in Workers, NEW t \in Threads, Take(w, t)
    PROVE  DiskInv'
  <1>1. TypeOK /\ w \in Ends /\ w \notin Threads /\ at[w] = "idle" /\ peer[w] = None /\ t # None
    BY WorkerEnd, NoneAssumption DEF IInv, TypeOK, Take
  <1>2. /\ at'[w] = "command" /\ \A x \in Ends : x # w => at'[x] = at[x]
    BY <1>1, GotoAt DEF Take, Place
  <1>3. /\ peer'[w] = t /\ \A v \in Workers : v # w => peer'[v] = peer[v]
    BY <1>1 DEF Take, TypeOK
  <1>4. \A x \in Ends : x # w => file'[x] = file[x]
    BY <1>1 DEF Take, TypeOK
  <1>5. InFlight(t) = {} /\ cur' = cur /\ disk' = disk
    BY DEF Take
  <1>6. ASSUME NEW r \in Ends
        PROVE  /\ Attached(r)' => Attached(r) /\ at'[r] = at[r] /\ file'[r] = file[r]
               /\ IsMapped(r) => IsMapped(r)' /\ file'[r] = file[r]
    <2>1. CASE r = w
      BY <1>1, <1>2, <2>1 DEF Attached, IsMapped, Writing
    <2>2. CASE r # w
      <3>1. at'[r] = at[r] /\ file'[r] = file[r]
        BY <1>2, <1>4, <2>2
      <3>2. IsMapped(r) => IsMapped(r)'
        BY <3>1 DEF IsMapped, Large
      <3>3. CASE r \in Threads
        BY <3>1, <3>2, <3>3 DEF Attached
      <3>4. CASE r \in Workers
        <4>1. r \notin Threads /\ peer'[r] = peer[r]
          BY <1>3, <2>2, <3>4, WorkerEnd
        <4>2. CASE at[r] = "idle"
          BY <3>1, <3>2, <4>1, <4>2 DEF Attached, Writing
        <4>3. CASE at[r] # "idle"
          <5>1. peer[r] \in Threads /\ peer[r] # t /\ peer[r] \in Ends /\ peer[r] # w
            BY <1>1, <1>5, <3>4, <4>3 DEF InFlight, TypeOK, Ends
          <5>2. at'[peer[r]] = at[peer[r]] /\ wire'[peer[r]] = wire[peer[r]]
            BY <1>1, <1>2, <5>1, TakeWire
          <5> QED
            BY <3>1, <3>2, <4>1, <5>2 DEF Attached, Writing, Up
        <4> QED
          BY <4>2, <4>3
      <3> QED
        BY <3>3, <3>4 DEF Ends
    <2> QED
      BY <2>1, <2>2
  <1> QED
    BY <1>5, <1>6, DiskKept

(* Break keeps the disks.                                                  *)
LEMMA BreakDisk ==
    ASSUME IInv, NEW t \in Threads, Break(t)
    PROVE  DiskInv'
  <1>1. at' = at /\ file' = file /\ peer' = peer /\ cur' = cur /\ disk' = disk
    BY DEF Break, local
  <1>2. \A u \in Threads : Up(u) = <<>> => Up(u)' = <<>>
    <2>1. Up(t) = <<>> => Up(t)' = <<>>
      BY BreakDoes, PartOfFew
    <2> QED
      BY <2>1, BreakDoes DEF Up
  <1>3. ASSUME NEW r \in Ends, Attached(r)'
        PROVE  Attached(r)
    <2>1. CASE r \in Threads
      BY <1>1, <1>3, <2>1 DEF Attached
    <2>2. CASE r \notin Threads
      <3>1. r \in Workers
        BY <2>2 DEF Ends
      <3>2. peer[r] \in Threads \/ at[r] = "idle"
        BY <3>1 DEF IInv, TypeOK
      <3>3. Writing(r)' => Writing(r)
        BY <1>1, <1>2, <3>2 DEF Writing, Up
      <3> QED
        BY <1>1, <1>3, <2>2, <3>3 DEF Attached
    <2> QED
      BY <2>1, <2>2
  <1>4. \A r \in Ends : IsMapped(r) => IsMapped(r)'
    BY <1>1 DEF IsMapped, Large
  <1> QED
    BY <1>1, <1>3, <1>4, DiskKept

(* Stop keeps the disks.                                                   *)
LEMMA StopDisk ==
    ASSUME IInv, Good, NEW s \in Sides, Stop(s)
    PROVE  DiskInv'
  <1> DEFINE es == IF s = "client" THEN Threads ELSE Workers
  <1>1. file' = file /\ cur' = cur /\ disk' = disk
    BY StopDoes
  <1>2. \A r \in es : ~IsMapped(r)
    <2>1. \A r \in es : ~Mapped(r) /\ r \in Ends
      BY DEF Stop, Good, Ends
    <2>2. \A r \in Ends : IsMapped(r) => Mapped(r)
      BY ReceiverHas DEF IsMapped, Mapped, Receiving
    <2> QED
      BY <2>1, <2>2
  <1>3. CASE s = "client"
    <2>1. /\ peer' = peer /\ \A w \in Workers : at'[w] = at[w]
          /\ \A t \in Threads : at'[t] = "idle" /\ Up(t)' = Up(t)
      BY <1>3, StopDoes
    <2>2. ASSUME NEW r \in Threads
          PROVE  ~Attached(r)' /\ ~IsMapped(r)
      BY <1>2, <1>3, <2>1 DEF Attached, Receiving
    <2>3. ASSUME NEW r \in Workers
          PROVE  /\ Attached(r)' => Attached(r) /\ at'[r] = at[r]
                 /\ IsMapped(r) => IsMapped(r)'
      <3>1. at'[r] = at[r] /\ r \notin Threads /\ (peer[r] \in Threads \/ at[r] = "idle")
        BY <2>1, WorkerEnd DEF IInv, TypeOK
      <3>2. Writing(r)' => Writing(r)
        BY <2>1, <3>1 DEF Writing, Up
      <3>3. Attached(r)' => Writing(r)'
        BY <2>1, <3>1 DEF Attached
      <3> QED
        BY <1>1, <3>1, <3>2, <3>3 DEF Attached, IsMapped, Large
    <2> QED
      BY <1>1, <2>2, <2>3, DiskKept DEF Ends
  <1>4. CASE s = "server"
    <2>1. /\ \A w \in Workers : at'[w] = "idle"
          /\ \A t \in Threads : at'[t] = at[t]
      BY <1>4, StopDoes
    <2>2. ASSUME NEW r \in Workers
          PROVE  ~Attached(r)' /\ ~IsMapped(r)
      <3>1. at'[r] = "idle" /\ r \notin Threads
        BY <2>1, WorkerEnd
      <3> QED
        BY <1>2, <1>4, <3>1 DEF Attached, Writing
    <2>3. ASSUME NEW r \in Threads
          PROVE  /\ Attached(r)' => Attached(r) /\ at'[r] = at[r]
                 /\ IsMapped(r) => IsMapped(r)'
      BY <1>1, <2>1 DEF Attached, IsMapped, Large
    <2> QED
      BY <1>1, <2>2, <2>3, DiskKept DEF Ends
  <1> QED
    BY <1>3, <1>4 DEF Sides

-----------------------------------------------------------------------------
(* What has been received.                                                 *)

(* A step that writes nothing keeps what has been received.                *)
LEMMA ReceivedKept ==
    ASSUME IInv, received' = received, disk' = disk
    PROVE  ReceivedOK'
  <1>1. \A f \in Files : There(f)' = There(f)
    BY DEF There, Dest
  <1>2. received \subseteq Files
    BY DEF IInv, TypeOK
  <1> QED
    BY <1>1, <1>2 DEF IInv, ReceivedOK, Content

(* The content of f is a sequence of its chunks.                           *)
LEMMA ContentIs ==
    ASSUME NEW f \in Files
    PROVE  /\ Content(f) \in Seq(Data) /\ Len(Content(f)) = Size[f] /\ Content(f) # None
           /\ \A i \in 1..Size[f] : Content(f)[i] = i
  <1>1. PICK m \in Nat : m = Size[f]
    BY SizeAssumption
  <1>2. \A i \in 1..m : i \in Data
    BY SMT DEF Data
  <1>3. PICK s : s = [i \in 1..m |-> i]
    OBVIOUS
  <1>4. s \in [1..m -> Data] /\ DOMAIN s = 1..m /\ \A i \in 1..m : s[i] = i
    BY <1>2, <1>3
  <1>5. s \in Seq(Data)
    BY <1>4
  <1>6. Len(s) = m
    BY <1>4, <1>5, LenProperties
  <1> QED
    BY <1>1, <1>3, <1>4, <1>5, <1>6, NoneAssumption DEF Content

(* A part of f of f's length is f.                                         *)
LEMMA WholePart ==
    ASSUME NEW f \in Files, NEW d \in Seq(Data), Len(d) = Size[f], \A i \in 1..Len(d) : d[i] = i
    PROVE  d = Content(f)
  BY ContentIs, SeqEqual

(* A step that writes nothing of what has been received keeps it.          *)
LEMMA ReceivedAfter ==
    ASSUME IInv, received' = received, NEW f \in Files,
           \E d \in Seq(Data) : disk' = [disk EXCEPT ![Dest(f)][f] = d],
           f \in received => There(f)' = There(f)
    PROVE  ReceivedOK'
  <1>1. TypeOK /\ received \subseteq Files
    BY DEF IInv, TypeOK
  <1>2. PICK d \in Seq(Data) : disk' = [disk EXCEPT ![Dest(f)][f] = d]
    OBVIOUS
  <1>3. \A g \in Files : g # f => There(g)' = There(g)
    <2>1. \A u \in Sides, k \in Files : <<u, k>> # <<Dest(f), f>> => disk'[u][k] = disk[u][k]
      BY <1>1, <1>2, DiskSet, DiskTypes
    <2> QED
      BY <1>1, <2>1, DiskTypes DEF There, Dest
  <1> QED
    BY <1>1, <1>3 DEF IInv, ReceivedOK, Content

(* RecvName leaves what has been received whole.                           *)
LEMMA RecvNameReceived ==
    ASSUME IInv, NEW e \in Ends, RecvName(e)
    PROVE  ReceivedOK'
  <1>1. received' = received /\ at[e] = "name" /\ CanRecv(e)
    BY DEF RecvName
  <1>2. PICK f \in Files : f = file[e]
    BY <1>1, ReceiverHas DEF Receiving
  <1>3. CASE There(f) # None
    BY <1>1, <1>2, <1>3, RecvNameDoes, ReceivedKept
  <1>4. CASE There(f) = None
    <2>1. f \notin received
      BY <1>4, ContentIs DEF IInv, ReceivedOK
    <2>2. disk' = [disk EXCEPT ![Dest(f)][f] = <<>>] /\ <<>> \in Seq(Data)
      BY <1>2, <1>4, RecvNameDoes
    <2> QED
      BY <1>1, <2>1, <2>2, ReceivedAfter
  <1> QED
    BY <1>3, <1>4

(* RecvSize leaves what has been received whole: a file that is all there  *)
(* is stretched by nothing.                                                *)
LEMMA RecvSizeReceived ==
    ASSUME IInv, NEW e \in Ends, RecvSize(e)
    PROVE  ReceivedOK'
  <1>1. received' = received /\ at[e] = "size" /\ CanRecv(e)
    BY DEF RecvSize
  <1>2. PICK f \in Files : f = file[e]
    BY <1>1, ReceiverHas DEF Receiving
  <1>3. CASE ~Large(Size[f])
    BY <1>1, <1>2, <1>3, RecvSizeDoes, ReceivedKept
  <1>4. CASE Large(Size[f])
    <2>1. PICK s : s = Stretched(There(f), Size[f])
      OBVIOUS
    <2>2. disk' = [disk EXCEPT ![Dest(f)][f] = s]
      BY <1>2, <1>4, <2>1, RecvSizeDoes
    <2>3. Attached(e) /\ ~IsMapped(e) /\ There(f) # None
      BY <1>1, <1>2, ReceiverHas DEF Receiving, IsMapped
    <2>4. Filled(s, Size[f], Len(There(f)))
      BY <1>2, <2>1, <2>3, ReceivedPart, LengthBound, StretchedIs, SizeAssumption DEF Prefix
    <2>5. s \in Seq(Data)
      BY <2>4 DEF Filled
    <2>6. f \in received => s = There(f)
      <3> SUFFICES ASSUME f \in received
                   PROVE  s = There(f)
        OBVIOUS
      <3>1. There(f) = Content(f) /\ Len(There(f)) = Size[f]
        BY ContentIs DEF IInv, ReceivedOK
      <3>2. Len(s) = Size[f] /\ \A i \in 1..Size[f] : s[i] = IF i <= Size[f] THEN i ELSE Hole
        BY <2>4, <3>1 DEF Filled
      <3>3. \A i \in 1..Size[f] : i <= Size[f]
        BY SizeAssumption
      <3> QED
        BY <2>5, <3>1, <3>2, <3>3, WholePart
    <2>7. There(f)' = s
      BY <2>2, <2>5, DiskSet, DiskTypes DEF IInv, There, Dest
    <2> QED
      BY <1>1, <2>2, <2>5, <2>6, <2>7, ReceivedAfter
  <1> QED
    BY <1>3, <1>4

(* What still lacks a chunk has not been received.                         *)
LEMMA LackingNotReceived ==
    ASSUME IInv, NEW e \in Ends, Attached(e), cur[e] \in Nat, cur[e] < Size[file[e]]
    PROVE  file[e] \notin received
  <1>1. PICK f \in Files : f = file[e]
    BY AttachedHolds
  <1>2. PICK n \in Nat, m \in Nat : n = cur[e] /\ m = Size[f] /\ n < m
    BY <1>1, SizeAssumption
  <1>3. ReceiverOK(e)
    BY DEF IInv, DiskInv
  <1> SUFFICES ASSUME f \in received
               PROVE  FALSE
    BY <1>1
  <1>4. There(f) = Content(f)
    BY DEF IInv, ReceivedOK
  <1>5. There(f) # None /\ Len(There(f)) = m /\ \A i \in 1..m : There(f)[i] = i
    BY <1>2, <1>4, ContentIs
  <1>6. CASE ~IsMapped(e)
    BY <1>1, <1>2, <1>3, <1>5, <1>6 DEF ReceiverOK, Length
  <1>7. CASE IsMapped(e)
    <2>1. n + 1 \in 1..m /\ ~(n + 1 <= n) /\ n + 1 # Hole
      BY <1>2, SMT DEF Hole
    <2>2. There(f)[n + 1] = IF n + 1 <= n THEN n + 1 ELSE Hole
      BY <1>1, <1>2, <1>3, <1>5, <1>7, <2>1 DEF ReceiverOK
    <2> QED
      BY <1>5, <2>1, <2>2
  <1> QED
    BY <1>6, <1>7

(* What is written is a sequence of chunks.                                *)
LEMMA WrittenSeq ==
    ASSUME IInv, NEW e \in Ends, Attached(e), NEW f \in Files, f = file[e], There(f) # None,
           cur[e] \in Nat, cur[e] < Size[f]
    PROVE  /\ IsMapped(e) => /\ [There(f) EXCEPT ![cur[e] + 1] = cur[e] + 1] \in Seq(Data)
                             /\ SubSeq(There(f), 1, cur[e]) \in Seq(Data)
           /\ Append(There(f), cur[e] + 1) \in Seq(Data)
  <1>1. PICK n \in Nat, m \in Nat : n = cur[e] /\ m = Size[f] /\ n < m
    BY SizeAssumption
  <1>2. PICK d \in Seq(Data) : d = There(f)
    BY LengthBound
  <1>3. n + 1 \in Data
    BY SMT DEF Data
  <1>4. ReceiverOK(e)
    BY DEF IInv, DiskInv
  <1>5. IsMapped(e) => Filled(d, m, n)
    BY <1>1, <1>2, <1>4 DEF ReceiverOK, Filled
  <1>6. IsMapped(e) => [d EXCEPT ![n + 1] = n + 1] \in Seq(Data) /\ SubSeq(d, 1, n) \in Seq(Data)
    BY <1>1, <1>5, FilledMore, CutIs DEF Filled
  <1>7. Append(d, n + 1) \in Seq(Data)
    BY <1>3, AppendProperties
  <1> QED
    BY <1>1, <1>2, <1>6, <1>7

(* RecvChunk leaves what has been received whole.                          *)
LEMMA RecvChunkReceived ==
    ASSUME IInv, NEW e \in Ends, RecvChunk(e)
    PROVE  ReceivedOK'
  <1>1. received' = received /\ at[e] = "recv" /\ CanRecv(e)
    BY DEF RecvChunk
  <1>2. PICK f \in Files : f = file[e] /\ Attached(e) /\ There(f) # None
    BY <1>1, ReceiverHas DEF Receiving
  <1>3. cur[e] \in Nat /\ cur[e] < Size[f]
    BY <1>2, RecvChunkDoes
  <1>4. f \notin received
    BY <1>2, <1>3, LackingNotReceived
  <1>5. \E d \in Seq(Data) : disk' = [disk EXCEPT ![Dest(f)][f] = d]
    BY <1>2, <1>3, RecvChunkDoes, WrittenSeq
  <1> QED
    BY <1>1, <1>4, <1>5, ReceivedAfter

(* RecvFailed leaves what has been received whole.                         *)
LEMMA RecvFailedReceived ==
    ASSUME IInv, Good, NEW e \in Ends, RecvFailed(e)
    PROVE  ReceivedOK'
  <1>1. received' = received
    BY RecvFailedDoes
  <1>2. CASE ~IsMapped(e)
    BY <1>1, <1>2, RecvFailedDoes, ReceivedKept
  <1>3. CASE IsMapped(e)
    <2>1. PICK f \in Files : f = file[e] /\ Attached(e) /\ There(f) # None
      BY <1>3, ReceiverHas DEF IsMapped, Receiving
    <2>2. cur[e] \in Nat /\ cur[e] < Size[f]
      BY <1>3, <2>1, RecvFailedDoes
    <2>3. f \notin received
      BY <2>1, <2>2, LackingNotReceived
    <2>4. \E d \in Seq(Data) : disk' = [disk EXCEPT ![Dest(f)][f] = d]
      BY <1>3, <2>1, <2>2, RecvFailedDoes, WrittenSeq
    <2> QED
      BY <1>1, <2>3, <2>4, ReceivedAfter
  <1> QED
    BY <1>2, <1>3

(* What RecvEnd calls received is the whole file.                          *)
LEMMA RecvEndReceived ==
    ASSUME IInv, NEW e \in Ends, RecvEnd(e)
    PROVE  ReceivedOK'
  <1>1. disk' = disk /\ received' = received \union {file[e]}
    BY RecvEndDoes
  <1>2. PICK f \in Files : f = file[e]
    BY RecvEndDoes
  <1>3. There(f) = Content(f)
    <2>1. PICK d \in Seq(Data) : d = There(f) /\ d # None
      BY <1>2, RecvEndDisk, LengthBound
    <2>2. Len(d) = Size[f] /\ \A i \in 1..Len(d) : d[i] = i
      BY <1>2, <2>1, RecvEndDisk DEF Prefix, Length
    <2> QED
      BY <2>1, <2>2, WholePart
  <1>4. \A g \in Files : There(g)' = There(g)
    BY <1>1 DEF There, Dest
  <1>5. received \subseteq Files
    BY DEF IInv, TypeOK
  <1> QED
    BY <1>1, <1>2, <1>3, <1>4, <1>5 DEF IInv, ReceivedOK, Content

-----------------------------------------------------------------------------
(* The invariant.                                                          *)

(* The invariant holds at the start.                                       *)
LEMMA InitInv ==
    ASSUME Good, Init
    PROVE  IInv
  <1>1. \A e \in Ends : at[e] = "idle" /\ file[e] = None /\ cur[e] = 0 /\ total[e] = 0
    BY DEF Init
  <1>2. \A w \in Workers : peer[w] = None /\ fileSize[w] = 0
    <2>1. \A h \in Garbage : h * Half = 0
      BY LimitAssumption, SMT DEF Good
    <2> QED
      BY <2>1 DEF Init, Ends
  <1>3. \A t \in Threads : Up(t) = <<>> /\ Down(t) = <<>> /\ InFlight(t) = {} /\ t \in Ends
    BY <1>2, NoneAssumption DEF Init, NoWire, Up, Down, InFlight, Ends
  <1>4. \A f \in Files : /\ Content(f) \in Seq(Data) /\ disk[Home(f)][f] = Content(f)
                         /\ There(f) = None
    BY ContentIs DEF Init, Home, Dest, There
  <1>5. TypeOK
    <2>1. fileSize \in [Ends -> Nat] /\ peer \in [Workers -> Threads \union {None}]
      <3>1. PICK h \in Garbage : fileSize = [e \in Ends |-> IF e \in Workers THEN h * Half ELSE 0]
        BY DEF Init
      <3>2. h * Half \in Nat
        BY LimitAssumption, SMT DEF Good
      <3> QED
        BY <3>1, <3>2 DEF Init
    <2>2. WireOK
      <3>1. <<>> \in Seq(Item) /\ Len(<<>>) <= Window
        BY LimitAssumption
      <3>2. NoWire \in [Sides -> Seq(Item)] /\ \A s \in Sides : NoWire[s] = <<>>
        BY <3>1 DEF NoWire, Sides
      <3> QED
        BY <3>1, <3>2 DEF WireOK, Init
    <2>3. disk \in [Sides -> [Files -> Seq(Data) \union {None}]]
      BY <1>4, ContentIs DEF Init, Sides
    <2>4. "idle" \in Place
      BY DEF Place
    <2>5. /\ action \in Files \union {None} /\ at \in [Ends -> Place]
          /\ file \in [Ends -> Files \union {None}]
          /\ cur \in [Ends -> Nat] /\ total \in [Ends -> Nat]
          /\ broken \subseteq Threads /\ received \subseteq Files
      BY <2>4 DEF Init
    <2>6. \A w \in Workers : peer[w] = None <=> at[w] = "idle"
      BY <1>1, <1>2 DEF Ends
    <2> QED
      BY <2>1, <2>2, <2>3, <2>5, <2>6 DEF TypeOK, WireOK, Sides
  <1>6. ConnInv
    <2>1. OneWorker /\ OneStart /\ Offsets
      BY <1>1, <1>2, <1>3, LimitAssumption DEF OneWorker, OneStart, Offsets
    <2>2. ASSUME NEW t \in Threads
          PROVE  ConnOK(t)
      BY <1>1, <1>3 DEF ConnOK, ThreadOK, Alone, Receiving
    <2> QED
      BY <2>1, <2>2 DEF ConnInv
  <1>7. OneHolder
    BY <1>1, <1>3 DEF OneHolder, Holds
  <1>8. DiskInv
    <2>1. ASSUME NEW r \in Ends
          PROVE  ~Attached(r) /\ ~IsMapped(r)
      BY <1>1 DEF Attached, IsMapped, Writing, Receiving
    <2> QED
      BY <1>4, <2>1 DEF DiskInv, Prefix
  <1>9. ReceivedOK
    BY DEF Init, ReceivedOK
  <1> QED
    BY <1>5, <1>6, <1>7, <1>8, <1>9 DEF IInv

(* The steps of the two ends of a transfer.                                *)
EndStep(e) == \/ SendHead(e) \/ SendChunk(e) \/ SendEnd(e) \/ SendFails(e)
              \/ RecvName(e) \/ RecvSize(e) \/ RecvChunk(e) \/ RecvEnd(e) \/ RecvFailed(e)

(* transFile and recvFile, at either end, keep the invariant.              *)
LEMMA EndInv ==
    ASSUME IInv, Good, NEW e \in Ends, EndStep(e)
    PROVE  IInv'
  <1>1. CASE SendHead(e)
    BY <1>1, SendHeadDoes, SendHeadConn, SendHeadHolds, SendHeadDisk, ReceivedKept
       DEF IInv, SendHead
  <1>2. CASE SendChunk(e)
    BY <1>2, SendChunkDoes, SendChunkConn, SendChunkHolds, SendChunkDisk, ReceivedKept
       DEF IInv, SendChunk
  <1>3. CASE SendEnd(e)
    BY <1>3, SendEndDoes, SendEndConn, SendEndHolds, SendEndDisk, ReceivedKept DEF IInv, SendEnd
  <1>4. CASE SendFails(e)
    BY <1>4, SendFailsDoes, SendFailsConn, SendFailsHolds, SendFailsDisk, ReceivedKept
       DEF IInv, SendFails
  <1>5. CASE RecvName(e)
    BY <1>5, RecvNameDoes, RecvNameConn, RecvNameHolds, RecvNameDisk, RecvNameReceived DEF IInv
  <1>6. CASE RecvSize(e)
    BY <1>6, RecvSizeDoes, RecvSizeConn, RecvSizeHolds, RecvSizeDisk, RecvSizeReceived DEF IInv
  <1>7. CASE RecvChunk(e)
    BY <1>7, RecvChunkDoes, RecvChunkConn, RecvChunkHolds, RecvChunkDisk, RecvChunkReceived DEF IInv
  <1>8. CASE RecvEnd(e)
    BY <1>8, RecvEndDoes, RecvEndConn, RecvEndHolds, RecvEndDisk, RecvEndReceived DEF IInv
  <1>9. CASE RecvFailed(e)
    BY <1>9, RecvFailedDoes, RecvFailedConn, RecvFailedHolds, RecvFailedDisk, RecvFailedReceived
       DEF IInv
  <1> QED
    BY <1>1, <1>2, <1>3, <1>4, <1>5, <1>6, <1>7, <1>8, <1>9 DEF EndStep

(* So does every step of a thread.                                         *)
LEMMA ThreadInv ==
    ASSUME IInv, Good, NEW t \in Threads, ThreadStep(t)
    PROVE  IInv'
  <1>1. CASE ThreadStart(t)
    BY <1>1, ThreadStartType, ThreadStartConn, ThreadStartHolds, ThreadStartDisk, ReceivedKept
       DEF IInv, ThreadStart
  <1>2. CASE PutsOffset(t)
    BY <1>2, PutsOffsetType, PutsOffsetConn, PutsOffsetHolds, PutsOffsetDisk, ReceivedKept
       DEF IInv, PutsOffset
  <1>3. CASE ClientTransFile(t) \/ ClientRecvFile(t)
    BY <1>3, EndInv DEF ClientTransFile, ClientRecvFile, EndStep, Ends
  <1> QED
    BY <1>1, <1>2, <1>3 DEF ThreadStep

(* So does every step of a worker.                                         *)
LEMMA WorkerInv ==
    ASSUME IInv, Good, NEW w \in Workers, WorkerStep(w)
    PROVE  IInv'
  <1>1. ASSUME NEW t \in Threads, Take(w, t)
        PROVE  IInv'
    BY <1>1, TakeType, TakeConn, TakeHolds, TakeDisk, ReceivedKept DEF IInv, Take
  <1>2. CASE PutsAnswer(w)
    BY <1>2, PutsAnswerDoes, PutsAnswerConn, PutsAnswerHolds, PutsAnswerDisk, ReceivedKept
       DEF IInv, PutsAnswer
  <1>3. CASE GetsOffset(w)
    BY <1>3, GetsOffsetDoes, GetsOffsetConn, GetsOffsetHolds, GetsOffsetDisk, ReceivedKept
       DEF IInv, GetsOffset
  <1>4. CASE ServerTransFile(w) \/ ServerRecvFile(w)
    BY <1>4, EndInv DEF ServerTransFile, ServerRecvFile, EndStep, Ends
  <1> QED
    BY <1>1, <1>2, <1>3, <1>4 DEF WorkerStep

(* So does a step in which nothing changes.                                *)
LEMMA StutterInv ==
    ASSUME IInv, UNCHANGED vars
    PROVE  IInv'
  <1> USE DEF vars
  <1>1. TypeOK'
    BY DEF IInv, TypeOK
  <1>2. ASSUME NEW t \in Threads
        PROVE  SameConn(t)
    BY DEF SameConn
  <1>3. ConnInv'
    BY <1>2, Undisturbed DEF IInv, ConnInv, OneWorker, OneStart, Offsets
  <1>4. OneHolder'
    BY <1>2, HoldsSame, OneHolderAfter
  <1>5. \A r \in Ends : (Attached(r)' => Attached(r)) /\ (IsMapped(r) => IsMapped(r)')
    BY DEF Attached, Writing, IsMapped, Up
  <1>6. DiskInv'
    BY <1>5, DiskKept
  <1>7. ReceivedOK'
    BY ReceivedKept
  <1> QED
    BY <1>1, <1>3, <1>4, <1>6, <1>7 DEF IInv

(* So does every step.                                                     *)
LEMMA NextInv ==
    ASSUME IInv, Good, [Next]_vars
    PROVE  IInv'
  <1>1. ASSUME NEW t \in Threads, NEW f \in Files, Issue(t, f)
        PROVE  IInv'
    BY <1>1, IssueType, IssueConn, IssueHolds, IssueDisk, ReceivedKept DEF IInv, Issue
  <1>2. ASSUME NEW t \in Threads, Break(t)
        PROVE  IInv'
    BY <1>2, BreakDoes, BreakConn, BreakHolds, BreakDisk, ReceivedKept DEF IInv, Break
  <1>3. ASSUME NEW s \in Sides, Stop(s)
        PROVE  IInv'
    BY <1>3, StopDoes, StopConn, StopHolds, StopDisk, ReceivedKept DEF IInv
  <1>4. CASE Stop("client") \/ Stop("server")
    BY <1>3, <1>4 DEF Sides
  <1>5. CASE UNCHANGED vars
    BY <1>5, StutterInv
  <1> QED
    BY <1>1, <1>2, <1>4, <1>5, ThreadInv, WorkerInv DEF Next

(* The inductive invariant of the transfers: types, connections in step,   *)
(* one holder of each file, right content on the disks.                    *)
THEOREM TransferInvariant ==
    ASSUME Good
    PROVE  Spec => []IInv
  <1>1. Init => IInv
    BY InitInv
  <1>2. IInv /\ [Next]_vars => IInv'
    BY NextInv
  <1> QED
    BY <1>1, <1>2, PTL DEF Spec

(* The fields keep their kinds, and a worker serves somebody exactly when  *)
(* it is busy.                                                             *)
THEOREM TransferTypeCorrect ==
    ASSUME Good
    PROVE  Spec => []TypeOK
  <1>1. IInv => TypeOK
    BY DEF IInv
  <1> QED
    BY <1>1, TransferInvariant, PTL

(* What a recvFile has returned 0 for is the whole file and stays so, for  *)
(* every number of threads, workers and files, every size and every order  *)
(* of failures (client.cpp:464, 480: "puts success", "gets success").      *)
THEOREM SuccessIsTheFile ==
    ASSUME Good
    PROVE  Spec => []SuccessMeansSame
  <1>1. IInv => SuccessMeansSame
    BY DEF IInv, ReceivedOK, SuccessMeansSame, Same, There
  <1> QED
    BY <1>1, TransferInvariant, PTL

-----------------------------------------------------------------------------
(* The two ends agree.                                                     *)

(* The chunks are what comes after the heads.                              *)
LEMMA ChunksUnderWay ==
    ASSUME NEW f \in Files, NEW h \in {0, 1, 2}, NEW c \in Nat, NEW q \in Seq(Item),
           Stream(f, h, c, q), h <= Len(q)
    PROVE  Cardinality({i \in 1..Len(q) : q[i][1] = "chunk"}) = Len(q) - h
  <1>1. PICK n \in Nat : n = Len(q) /\ h <= n
    BY LenProperties
  <1>2. \A i \in 1..n : q[i] = Script(f, h, c, i)
    BY <1>1 DEF Stream
  <1>3. \A i \in 1..n : Script(f, h, c, i)[1] = "chunk" <=> h < i
    <2> SUFFICES ASSUME NEW i \in 1..n
                 PROVE  Script(f, h, c, i)[1] = "chunk" <=> h < i
      OBVIOUS
    <2>1. CASE i < h
      <3>1. ~(h < i)
        BY <2>1, SMT
      <3> QED
        BY <2>1, <3>1 DEF Script
    <2>2. CASE i = h
      <3>1. ~(i < h) /\ ~(h < i)
        BY <2>2, SMT
      <3> QED
        BY <2>2, <3>1 DEF Script
    <2>3. CASE h < i
      <3>1. ~(i < h) /\ i # h
        BY <2>3, SMT
      <3> QED
        BY <2>3, <3>1 DEF Script, EndOfFile
    <2> QED
      BY <2>1, <2>2, <2>3, SMT
  <1>4. {i \in 1..n : q[i][1] = "chunk"} = {i \in 1..n : h < i}
    BY <1>2, <1>3
  <1>5. {i \in 1..n : h < i} = (h + 1)..n
    BY SMT
  <1>6. Cardinality((h + 1)..n) = n - h
    <2>1. h + 1 \in Int /\ n \in Int
      BY SMT
    <2>2. Cardinality((h + 1)..n) = IF h + 1 > n THEN 0 ELSE n - (h + 1) + 1
      BY <2>1, FS_Interval
    <2> QED
      BY <1>1, <2>2, SMT
  <1> QED
    BY <1>1, <1>4, <1>5, <1>6

(* Two ends of a connection that works, one sending and one receiving,     *)
(* differ by what is under way.                                            *)
LEMMA TwoEnds ==
    ASSUME IInv, NEW e \in Ends, NEW r \in Ends, at[e] = "send", at[r] \in Receiving,
           Conn(e) = Conn(r), Conn(e) \notin broken
    PROVE  cur[r] <= cur[e] /\ Len(In(r)) + cur[r] = Heads(r) + cur[e]
  <1>1. Conn(e) \in Threads /\ e # r /\ TypeOK
    BY Kinds DEF IInv, Receiving
  <1>2. CASE e \in Threads /\ r \in Threads
    BY <1>1, <1>2, ThreadEnd
  <1>3. CASE e \in Workers /\ r \in Workers
    <2>1. peer[e] = peer[r] /\ peer[e] # None
      BY <1>1, <1>3, WorkerEnd, NoneAssumption
    <2> QED
      BY <1>1, <1>3, <2>1 DEF IInv, ConnInv, OneWorker
  <1>4. CASE e \in Threads /\ r \in Workers
    <2>1. r \in InFlight(e) /\ e \notin broken /\ In(r) = Up(e)
      BY <1>4, ThreadEnd, WorkerEnd DEF InFlight
    <2>2. Sync(r, e)
      BY <1>4, <2>1 DEF IInv, ConnInv, ConnOK, Served
    <2> QED
      BY <2>1, <2>2 DEF Sync
  <1>5. CASE e \in Workers /\ r \in Threads
    <2>1. e \in InFlight(r) /\ r \notin broken /\ In(r) = Down(r)
      BY <1>5, ThreadEnd, WorkerEnd DEF InFlight
    <2>2. Sync(e, r) /\ at[r] # "done"
      BY <1>5, <2>1 DEF IInv, ConnInv, ConnOK, Served, Receiving
    <2> QED
      BY <2>1, <2>2 DEF Sync
  <1> QED
    BY <1>2, <1>3, <1>4, <1>5 DEF Ends

(* Two ends of a transfer that runs count from the same byte: what is      *)
(* under way is exactly what the receiver lacks (transFile.cpp:21-118,     *)
(* 131-218).                                                               *)
THEOREM TransfersAgree ==
    ASSUME Good
    PROVE  Spec => []EndsAgree
  <1>1. IInv => EndsAgree
    <2> SUFFICES ASSUME IInv, NEW e \in Ends, NEW r \in Ends, at[e] = "send", at[r] \in Receiving,
                        Conn(e) = Conn(r), Conn(e) \notin broken
                 PROVE  cur[e] = cur[r] + Cardinality({i \in 1..Len(In(r)) : In(r)[i][1] = "chunk"})
      BY DEF EndsAgree, Receiving
    <2>1. file[r] \in Files /\ Conn(r) \in Threads /\ StreamOK(r)
      BY Kinds DEF Receiving
    <2>2. PICK h \in {0, 1, 2} : h = Heads(r)
      BY HeadsOf
    <2>3. PICK c \in Nat, d \in Nat : c = cur[r] /\ d = cur[e]
      BY DEF IInv, TypeOK
    <2>4. PICK q \in Seq(Item) : q = In(r)
      BY <2>1, TypeParts, SidesOf DEF IInv, WireOK, In
    <2>5. PICK n \in Nat : n = Len(q)
      BY LenProperties
    <2>6. c <= d /\ n + c = h + d
      BY <2>2, <2>3, <2>4, <2>5, TwoEnds
    <2>7. h <= n /\ d = c + (n - h)
      BY <2>6, SMT
    <2>8. Stream(file[r], h, c, q)
      BY <2>1, <2>2, <2>3, <2>4, StreamIs
    <2>9. Cardinality({i \in 1..Len(q) : q[i][1] = "chunk"}) = n - h
      BY <2>1, <2>5, <2>7, <2>8, ChunksUnderWay
    <2> QED
      BY <2>3, <2>4, <2>7, <2>9
  <1> QED
    BY <1>1, TransferInvariant, PTL

-----------------------------------------------------------------------------
(* The transfers implement Copy.                                           *)

(* The right chunks at the beginning of d.                                 *)
Right(d, m) == IF d = None \/ Len(d) > m THEN 0
               ELSE CHOOSE n \in 0..Len(d) : /\ \A i \in 1..n : d[i] = i
                                             /\ n = Len(d) \/ d[n + 1] # n + 1

(* What has arrived, now and after the step.                               *)
LEMMA ArrivedIs ==
    ASSUME NEW f \in Files
    PROVE  /\ Arrived(f) = Right(There(f), Size[f])
           /\ Arrived(f)' = Right(There(f)', Size[f])
  BY DEF Arrived, Right, There, Dest

(* The number of right chunks is unique.                                   *)
LEMMA RightIs ==
    ASSUME NEW d \in Seq(Data), NEW m \in Nat, NEW k \in Nat, NEW n \in Nat, k = Len(d),
           k <= m, n <= k, \A i \in 1..n : d[i] = i, n = k \/ d[n + 1] # n + 1
    PROVE  Right(d, m) = n
  <1> DEFINE P(j) == (\A i \in 1..j : d[i] = i) /\ (j = k \/ d[j + 1] # j + 1)
  <1>1. n \in 0..k /\ P(n)
    BY SMT
  <1>2. ASSUME NEW j \in 0..k, P(j)
        PROVE  j = n
    <2>1. CASE j < n
      <3>1. j + 1 \in 1..n /\ j # k
        BY <2>1, SMT
      <3> QED
        BY <1>2, <3>1
    <2>2. CASE n < j
      <3>1. n + 1 \in 1..j /\ n # k
        BY <2>2, SMT
      <3> QED
        BY <1>2, <3>1
    <2> QED
      BY <2>1, <2>2, SMT
  <1> HIDE DEF P
  <1>3. (CHOOSE j \in 0..k : P(j)) = n
    BY <1>1, <1>2
  <1>4. ~(k > m) /\ d # None
    BY NoneAssumption, SMT
  <1>5. (CHOOSE j \in 0..k : P(j)) = Right(d, m)
    BY <1>4 DEF Right, P
  <1> QED
    BY <1>3, <1>5

(* It is the length of a part of f.                                        *)
LEMMA RightOfPart ==
    ASSUME NEW d \in Seq(Data), NEW m \in Nat, Len(d) <= m, \A i \in 1..Len(d) : d[i] = i
    PROVE  Right(d, m) = Len(d)
  <1>1. PICK k \in Nat : k = Len(d)
    BY LenProperties
  <1>2. k <= k
    BY SMT
  <1> QED
    BY <1>1, <1>2, RightIs

(* And the number of chunks before the holes of a mapped file.             *)
LEMMA RightOfFilled ==
    ASSUME NEW d, NEW m \in Nat, NEW n \in Nat, n <= m, Filled(d, m, n)
    PROVE  Right(d, m) = n
  <1>1. d \in Seq(Data) /\ Len(d) = m /\ \A i \in 1..m : d[i] = IF i <= n THEN i ELSE Hole
    BY DEF Filled
  <1>2. \A i \in 1..n : i \in 1..m /\ i <= n
    BY SMT
  <1>3. \A i \in 1..n : d[i] = i
    BY <1>1, <1>2
  <1>4. n = m \/ d[n + 1] # n + 1
    <2>1. CASE n < m
      <3>1. n + 1 \in 1..m /\ ~(n + 1 <= n) /\ n + 1 # Hole
        BY <2>1, SMT DEF Hole
      <3> QED
        BY <1>1, <3>1
    <2> QED
      BY <2>1, SMT
  <1>5. m <= m
    BY SMT
  <1> QED
    BY <1>1, <1>3, <1>4, <1>5, RightIs

(* A write to f leaves the other files.                                    *)
LEMMA WritesOnly ==
    ASSUME TypeOK, NEW f \in Files, NEW d \in Seq(Data), disk' = [disk EXCEPT ![Dest(f)][f] = d]
    PROVE  There(f)' = d /\ \A g \in Files : g # f => There(g)' = There(g)
  <1>1. \A u \in Sides, k \in Files : <<u, k>> # <<Dest(f), f>> => disk'[u][k] = disk[u][k]
    BY DiskSet, DiskTypes
  <1>2. disk'[Dest(f)][f] = d
    BY DiskSet, DiskTypes
  <1> QED
    BY <1>1, <1>2, DiskTypes DEF There, Dest

(* What has arrived of the file that e receives is what e counts.          *)
LEMMA ArrivedAt ==
    ASSUME IInv, NEW e \in Ends, Attached(e), There(file[e]) # None,
           IsMapped(e) => cur[e] \in Nat /\ cur[e] <= Size[file[e]]
    PROVE  Arrived(file[e]) = cur[e]
  <1>1. PICK f \in Files : f = file[e]
    BY AttachedHolds
  <1>2. PICK m \in Nat : m = Size[f]
    BY SizeAssumption
  <1>3. PICK d \in Seq(Data) : d = There(f) /\ d # None
    BY <1>1, LengthBound
  <1>4. ReceiverOK(e)
    BY DEF IInv, DiskInv
  <1>5. CASE IsMapped(e)
    <2>1. Filled(d, m, cur[e])
      BY <1>1, <1>2, <1>3, <1>4, <1>5 DEF ReceiverOK, Filled
    <2> QED
      BY <1>1, <1>2, <1>3, <1>5, <2>1, RightOfFilled, ArrivedIs
  <1>6. CASE ~IsMapped(e)
    <2>1. Len(d) = cur[e] /\ Len(d) <= m /\ \A i \in 1..Len(d) : d[i] = i
      BY <1>1, <1>2, <1>3, <1>4, <1>6, ReceivedPart DEF ReceiverOK, Prefix, Length
    <2>2. Right(d, m) = Len(d)
      BY <2>1, RightOfPart
    <2> QED
      BY <1>1, <1>2, <1>3, <2>1, <2>2, ArrivedIs
  <1> QED
    BY <1>5, <1>6

(* What Copy calls have.                                                   *)
have == [f \in Files |-> Arrived(f)]

Delivers(f) == /\ have[f] < Size[f]
               /\ have' = [have EXCEPT ![f] = have[f] + 1]
               /\ received' = received
Completes(f) == /\ have[f] = Size[f]
                /\ have' = have
                /\ received' = received \union {f}

(* A step by which nothing arrives is one that Copy does not see.          *)
LEMMA NothingArrives ==
    ASSUME \A f \in Files : Arrived(f)' = Arrived(f), received' = received
    PROVE  have' = have /\ received' = received
  BY DEF have

(* A step that writes nothing is one.                                      *)
LEMMA DiskSame ==
    ASSUME disk' = disk, received' = received
    PROVE  have' = have /\ received' = received
  <1>1. \A f \in Files : Arrived(f)' = Arrived(f)
    BY DEF Arrived, Dest
  <1> QED
    BY <1>1, NothingArrives

(* A write to f after which n right chunks are there.                      *)
LEMMA Written ==
    ASSUME IInv, NEW f \in Files, NEW d \in Seq(Data), disk' = [disk EXCEPT ![Dest(f)][f] = d],
           NEW n, Right(d, Size[f]) = n
    PROVE  have' = [have EXCEPT ![f] = n]
  <1>1. There(f)' = d /\ \A g \in Files : g # f => There(g)' = There(g)
    BY WritesOnly DEF IInv
  <1>2. Arrived(f)' = n
    BY <1>1, ArrivedIs
  <1>3. \A g \in Files : g # f => Arrived(g)' = Arrived(g)
    BY <1>1, ArrivedIs
  <1> QED
    BY <1>2, <1>3 DEF have

(* Making an empty file brings nothing.                                    *)
LEMMA RecvNameArrives ==
    ASSUME IInv, NEW e \in Ends, RecvName(e)
    PROVE  have' = have /\ received' = received
  <1>1. received' = received /\ at[e] = "name" /\ CanRecv(e)
    BY DEF RecvName
  <1>2. PICK f \in Files : f = file[e]
    BY <1>1, ReceiverHas DEF Receiving
  <1>3. CASE There(f) # None
    BY <1>1, <1>2, <1>3, RecvNameDoes, DiskSame
  <1>4. CASE There(f) = None
    <2>1. disk' = [disk EXCEPT ![Dest(f)][f] = <<>>] /\ <<>> \in Seq(Data) /\ Len(<<>>) = 0
      BY <1>2, <1>4, RecvNameDoes
    <2>2. Right(<<>>, Size[f]) = 0
      <3>1. 0 <= Size[f] /\ \A i \in 1..0 : FALSE
        BY SizeAssumption
      <3> QED
        BY <2>1, <3>1, RightOfPart, SizeAssumption
    <2>3. have' = [have EXCEPT ![f] = 0]
      BY <2>1, <2>2, Written
    <2>4. Arrived(f) = 0
      BY <1>4, ArrivedIs DEF Right
    <2> QED
      BY <1>1, <2>3, <2>4 DEF have
  <1> QED
    BY <1>3, <1>4

(* Stretching a file brings nothing.                                       *)
LEMMA RecvSizeArrives ==
    ASSUME IInv, NEW e \in Ends, RecvSize(e)
    PROVE  have' = have /\ received' = received
  <1>1. received' = received /\ at[e] = "size" /\ CanRecv(e)
    BY DEF RecvSize
  <1>2. PICK f \in Files : f = file[e]
    BY <1>1, ReceiverHas DEF Receiving
  <1>3. CASE ~Large(Size[f])
    BY <1>1, <1>2, <1>3, RecvSizeDoes, DiskSame
  <1>4. CASE Large(Size[f])
    <2>1. PICK s : s = Stretched(There(f), Size[f])
      OBVIOUS
    <2>2. disk' = [disk EXCEPT ![Dest(f)][f] = s]
      BY <1>2, <1>4, <2>1, RecvSizeDoes
    <2>3. Attached(e) /\ ~IsMapped(e) /\ There(f) # None
      BY <1>1, <1>2, ReceiverHas DEF Receiving, IsMapped
    <2>4. PICK n \in Nat, m \in Nat : n = Len(There(f)) /\ m = Size[f] /\ n <= m
      BY <2>3, LengthBound, SizeAssumption
    <2>5. Filled(s, m, n)
      BY <1>2, <2>1, <2>3, <2>4, ReceivedPart, LengthBound, StretchedIs DEF Prefix
    <2>6. Right(s, Size[f]) = n /\ s \in Seq(Data)
      BY <2>4, <2>5, RightOfFilled DEF Filled
    <2>7. Arrived(f) = n
      BY <1>2, <2>3, <2>4, LengthBound, ReceivedPart, RightOfPart, ArrivedIs DEF Prefix
    <2>8. have' = [have EXCEPT ![f] = n]
      BY <2>2, <2>6, Written
    <2> QED
      BY <1>1, <2>7, <2>8 DEF have
  <1> QED
    BY <1>3, <1>4

(* Cutting a mapped file back loses nothing.                               *)
LEMMA RecvFailedArrives ==
    ASSUME IInv, Good, NEW e \in Ends, RecvFailed(e)
    PROVE  have' = have /\ received' = received
  <1>1. received' = received
    BY RecvFailedDoes
  <1>2. CASE ~IsMapped(e)
    BY <1>1, <1>2, RecvFailedDoes, DiskSame
  <1>3. CASE IsMapped(e)
    <2>1. PICK f \in Files : f = file[e] /\ Attached(e) /\ There(f) # None /\ ReceiverOK(e)
      BY <1>3, ReceiverHas DEF IsMapped, Receiving
    <2>2. PICK n \in Nat, m \in Nat : n = cur[e] /\ m = Size[f] /\ n < m
      BY <1>3, <2>1, RecvFailedDoes, SizeAssumption
    <2>3. PICK d \in Seq(Data) : d = There(f)
      BY <2>1, LengthBound
    <2>4. Filled(d, m, n)
      BY <1>3, <2>1, <2>2, <2>3 DEF ReceiverOK, Filled
    <2>5. PICK s : s = SubSeq(d, 1, n)
      OBVIOUS
    <2>6. s \in Seq(Data) /\ Len(s) = n /\ \A i \in 1..n : s[i] = i
      BY <2>2, <2>4, <2>5, CutIs
    <2>7. n <= m
      BY <2>2, SMT
    <2>8. Right(s, Size[f]) = n
      BY <2>2, <2>6, <2>7, RightOfPart
    <2>9. disk' = [disk EXCEPT ![Dest(f)][f] = s]
      BY <1>3, <2>1, <2>2, <2>3, <2>5, RecvFailedDoes
    <2>10. have' = [have EXCEPT ![f] = n]
      BY <2>6, <2>8, <2>9, Written
    <2>11. Arrived(f) = n
      BY <2>1, <2>2, <2>7, ArrivedAt
    <2> QED
      BY <1>1, <2>10, <2>11 DEF have
  <1> QED
    BY <1>2, <1>3

(* RecvChunk is Deliver.                                                   *)
LEMMA RecvChunkArrives ==
    ASSUME IInv, NEW e \in Ends, RecvChunk(e)
    PROVE  \E f \in Files : Delivers(f)
  <1>1. received' = received /\ at[e] = "recv" /\ CanRecv(e)
    BY DEF RecvChunk
  <1>2. PICK f \in Files : f = file[e] /\ Attached(e) /\ There(f) # None /\ ReceiverOK(e)
    BY <1>1, ReceiverHas DEF Receiving
  <1>3. PICK n \in Nat, m \in Nat : n = cur[e] /\ m = Size[f] /\ n < m
    BY <1>2, RecvChunkDoes, SizeAssumption
  <1>4. n <= m /\ n + 1 <= m /\ n + 1 \in Nat
    BY <1>3, SMT
  <1>5. have[f] = n
    BY <1>2, <1>3, <1>4, ArrivedAt DEF have
  <1>6. PICK d \in Seq(Data) : d = There(f)
    BY <1>2, LengthBound
  <1>7. CASE IsMapped(e)
    <2>1. Filled(d, m, n)
      BY <1>2, <1>3, <1>6, <1>7 DEF ReceiverOK, Filled
    <2>2. PICK s : s = [d EXCEPT ![n + 1] = n + 1]
      OBVIOUS
    <2>3. Filled(s, m, n + 1)
      BY <1>3, <2>1, <2>2, FilledMore
    <2>4. disk' = [disk EXCEPT ![Dest(f)][f] = s]
      BY <1>2, <1>3, <1>6, <1>7, <2>2, RecvChunkDoes
    <2>5. Right(s, Size[f]) = n + 1 /\ s \in Seq(Data)
      BY <1>3, <1>4, <2>3, RightOfFilled DEF Filled
    <2>6. have' = [have EXCEPT ![f] = n + 1]
      BY <2>4, <2>5, Written
    <2> QED
      BY <1>1, <1>3, <1>5, <2>6 DEF Delivers
  <1>8. CASE ~IsMapped(e)
    <2>1. Len(d) = n /\ \A i \in 1..n : d[i] = i
      BY <1>2, <1>3, <1>6, <1>8, ReceivedPart DEF ReceiverOK, Length, Prefix
    <2>2. PICK s : s = Append(d, n + 1)
      OBVIOUS
    <2>3. s \in Seq(Data) /\ Len(s) = n + 1 /\ \A i \in 1..n + 1 : s[i] = i
      BY <2>1, <2>2, OneMore
    <2>4. disk' = [disk EXCEPT ![Dest(f)][f] = s]
      BY <1>2, <1>3, <1>6, <1>8, <2>2, RecvChunkDoes
    <2>5. Right(s, Size[f]) = n + 1
      BY <1>3, <1>4, <2>3, RightOfPart
    <2>6. have' = [have EXCEPT ![f] = n + 1]
      BY <2>3, <2>4, <2>5, Written
    <2> QED
      BY <1>1, <1>3, <1>5, <2>6 DEF Delivers
  <1> QED
    BY <1>7, <1>8

(* RecvEnd is Complete.                                                    *)
LEMMA RecvEndArrives ==
    ASSUME IInv, NEW e \in Ends, RecvEnd(e)
    PROVE  \E f \in Files : Completes(f)
  <1>1. at[e] = "recv" /\ disk' = disk /\ received' = received \union {file[e]}
    BY RecvEndDoes
  <1>2. PICK f \in Files : f = file[e] /\ Attached(e) /\ There(f) # None /\ cur[e] = Size[f]
    BY <1>1, RecvEndDoes, ReceiverHas DEF Receiving
  <1>3. cur[e] \in Nat /\ cur[e] <= Size[f]
    BY <1>2, SizeAssumption, SMT
  <1>4. have[f] = Size[f]
    BY <1>2, <1>3, ArrivedAt DEF have
  <1>5. have' = have
    BY <1>1 DEF have, Arrived, Dest
  <1> QED
    BY <1>1, <1>2, <1>4, <1>5 DEF Completes

(* Every step is a step of Copy or none.                                   *)
LEMMA CopyStep ==
    ASSUME IInv, Good, [Next]_vars
    PROVE  \/ have' = have /\ received' = received
           \/ \E f \in Files : Delivers(f) \/ Completes(f)
  <1>1. ASSUME NEW e \in Ends, EndStep(e)
        PROVE  \/ have' = have /\ received' = received
               \/ \E f \in Files : Delivers(f) \/ Completes(f)
    <2>1. CASE SendHead(e) \/ SendChunk(e) \/ SendEnd(e) \/ SendFails(e)
      BY <2>1, DiskSame DEF SendHead, SendChunk, SendEnd, SendFails
    <2>2. CASE RecvName(e) \/ RecvSize(e) \/ RecvFailed(e)
      BY <2>2, RecvNameArrives, RecvSizeArrives, RecvFailedArrives
    <2>3. CASE RecvChunk(e) \/ RecvEnd(e)
      BY <2>3, RecvChunkArrives, RecvEndArrives
    <2> QED
      BY <1>1, <2>1, <2>2, <2>3 DEF EndStep
  <1>2. ASSUME NEW t \in Threads,
               ThreadStart(t) \/ PutsOffset(t) \/ Break(t) \/ \E f \in Files : Issue(t, f)
        PROVE  have' = have /\ received' = received
    BY <1>2, DiskSame DEF ThreadStart, PutsOffset, Break, Issue
  <1>3. ASSUME NEW w \in Workers, PutsAnswer(w) \/ GetsOffset(w) \/ \E t \in Threads : Take(w, t)
        PROVE  have' = have /\ received' = received
    BY <1>3, DiskSame DEF PutsAnswer, GetsOffset, Take
  <1>4. CASE Stop("client") \/ Stop("server") \/ UNCHANGED vars
    BY <1>4, DiskSame DEF Stop, vars
  <1>5. ASSUME NEW t \in Threads, ThreadStep(t)
        PROVE  ThreadStart(t) \/ PutsOffset(t) \/ (t \in Ends /\ EndStep(t))
    BY <1>5 DEF ThreadStep, ClientTransFile, ClientRecvFile, EndStep, Ends
  <1>6. ASSUME NEW w \in Workers, WorkerStep(w)
        PROVE  \/ PutsAnswer(w) \/ GetsOffset(w) \/ \E t \in Threads : Take(w, t)
               \/ w \in Ends /\ EndStep(w)
    BY <1>6 DEF WorkerStep, ServerTransFile, ServerRecvFile, EndStep, Ends
  <1> QED
    BY <1>1, <1>2, <1>3, <1>4, <1>5, <1>6 DEF Next

(* The transfers implement Copy: chunks arrive in order, what has arrived  *)
(* is never lost, and a file is called received only when all of it is     *)
(* there.                                                                  *)
THEOREM TransfersImplementCopy ==
    ASSUME Good
    PROVE  Spec => ImplementsCopy
  <1>1. Init => Abstract!Init
    <2> SUFFICES ASSUME Init
                 PROVE  Abstract!Init
      OBVIOUS
    <2>1. \A f \in Files : There(f) = None
      BY DEF Init, Dest, Home, There
    <2>2. \A f \in Files : Arrived(f) = 0
      BY <2>1, ArrivedIs DEF Right
    <2> QED
      BY <2>2 DEF Init, Abstract!Init
  <1>2. IInv /\ [Next]_vars => [Abstract!Next]_<<have, received>>
    BY CopyStep DEF Abstract!Next, Abstract!Deliver, Abstract!Complete, have,
                    Delivers, Completes
  <1> QED
    BY <1>1, <1>2, TransferInvariant, PTL DEF Spec, ImplementsCopy, Abstract!Spec, have

-----------------------------------------------------------------------------
(* Nobody waits for what is never sent.                                    *)

(* All that r still lacks is under way to it.                              *)
Rest(r) == Len(In(r)) + cur[r] = Heads(r) + Whole(file[r])

(* An end that has left a connection in order has sent all that the other  *)
(* end lacks.                                                              *)
Closed(t) ==
    /\ at[t] \in Idle => \A w \in InFlight(t) : at[w] \in Receiving => Rest(w)
    /\ InFlight(t) = {} /\ Up(t) = <<>> /\ at[t] \in Receiving => Rest(t)

(* On every connection that works.                                         *)
Closing == \A t \in Threads \ broken : Closed(t)

(* The next step of e in transFile, in recvFile or in the exchange of      *)
(* offsets need not wait: there is room for what it sends, something to    *)
(* read, or nothing to do but to leave.                                    *)
Ready(e) ==
    \/ at[e] = "start" \/ (at[e] = "command" /\ file[e] \in Puts)
    \/ at[e] \in {"answer", "command"} \cup Receiving /\ CanRecv(e)
    \/ at[e] \in {"head", "send"} /\ CanSend(e)
    \/ at[e] \in {"send", "recv"} /\ Large(total[e]) /\ cur[e] >= total[e]

(* Of the two ends of a connection that works, one can go on; a thread     *)
(* that nobody serves can, or its command is there for a worker to take.   *)
NeverStuck ==
    \A t \in Threads \ broken :
        /\ \A w \in InFlight(t) : Ready(t) \/ Ready(w)
        /\ InFlight(t) = {} /\ at[t] \notin Idle => Ready(t) \/ Up(t) # <<>>

(* A step that leaves the places, files, counts and streams of a           *)
(* connection alone.                                                       *)
Alike(t) ==
    /\ at'[t] = at[t] /\ file'[t] = file[t] /\ cur'[t] = cur[t] /\ wire'[t] = wire[t]
    /\ InFlight(t)' = InFlight(t)
    /\ \A w \in InFlight(t) : at'[w] = at[w] /\ file'[w] = file[w] /\ cur'[w] = cur[w]

(* It leaves it closed, if it was.                                         *)
LEMMA ClosedAlike ==
    ASSUME TypeOK, NEW t \in Threads, Closed(t), Alike(t)
    PROVE  Closed(t)'
  <1>1. Up(t)' = Up(t) /\ Down(t)' = Down(t) /\ InFlight(t)' = InFlight(t)
    BY DEF Alike, Up, Down
  <1>2. Rest(t)' <=> Rest(t)
    BY <1>1, ThreadView DEF Alike, Rest, Heads, Whole, Large
  <1>3. ASSUME NEW w \in InFlight(t)
        PROVE  (Rest(w)' <=> Rest(w)) /\ at'[w] = at[w]
    <2>1. at'[w] = at[w] /\ file'[w] = file[w] /\ cur'[w] = cur[w]
      BY DEF Alike
    <2>2. w \in InFlight(t)'
      BY <1>1
    <2>3. In(w) = Up(t) /\ In(w)' = Up(t)'
      BY <2>2, WorkerView DEF InFlight
    <2> QED
      BY <1>1, <2>1, <2>3 DEF Rest, Heads, Whole, Large
  <1> QED
    BY <1>1, <1>2, <1>3 DEF Closed, Alike

(* A step of e on its own connection alone.                                *)
LEMMA OthersAlike ==
    ASSUME TypeOK, NEW e \in Ends, OnlyAt(e), peer' = peer \/ Leave(e), Conn(e) \in Threads,
           NEW t \in Threads, t # Conn(e)
    PROVE  Alike(t)
  <1>1. t # e /\ t \in Ends /\ wire'[t] = wire[t] /\ t # None
    BY ThreadEnd, NoneAssumption DEF OnlyAt, Ends
  <1>2. \A w \in Workers : w # e => peer'[w] = peer[w]
    BY LeaveAt
  <1>3. e \in Workers => peer[e] # t /\ peer'[e] # t
    BY <1>1, LeaveAt, WorkerEnd
  <1>4. InFlight(t)' = InFlight(t) /\ \A w \in InFlight(t) : w \in Ends /\ w # e
    BY <1>2, <1>3 DEF InFlight, Ends
  <1> QED
    BY <1>1, <1>4 DEF Alike, OnlyAt

(* So it is enough to look at the connection of e, while it works.         *)
LEMMA ClosingAfter ==
    ASSUME IInv, Closing, NEW e \in Ends, OnlyAt(e), peer' = peer \/ Leave(e), NEW c \in Threads,
           c = Conn(e), c \notin broken => Closed(c)'
    PROVE  Closing'
  <1>1. TypeOK /\ broken' = broken
    BY DEF IInv, OnlyAt
  <1> SUFFICES ASSUME NEW t \in Threads \ broken PROVE Closed(t)'
    BY <1>1 DEF Closing
  <1>2. CASE t = c
    BY <1>2
  <1>3. CASE t # c
    BY <1>1, <1>3, OthersAlike, ClosedAlike DEF Closing
  <1> QED
    BY <1>2, <1>3

(* A connection that works has both ends at the same file.                 *)
LEMMA OneFile ==
    ASSUME IInv, NEW t \in Threads, NEW w \in InFlight(t)
    PROVE  /\ Served(w, t) /\ ThreadOK(t) /\ w \in Ends /\ t \in Ends /\ w \in Workers
           /\ ~(at[t] \in Receiving /\ at[w] \in Receiving)
           /\ InFlight(t) = {w} /\ Conn(w) = t /\ Conn(t) = t
           /\ In(w) = Up(t) /\ In(t) = Down(t)
  <1>1. Served(w, t) /\ ThreadOK(t) /\ TypeOK /\ OneWorker /\ t # None
    BY NoneAssumption DEF IInv, ConnInv, ConnOK
  <1>2. ~(at[t] \in Receiving /\ at[w] \in Receiving)
    BY <1>1 DEF Served, WorkerOK, ThreadOK, Gets, Receiving
  <1>3. InFlight(t) = {w}
    BY <1>1 DEF OneWorker, InFlight
  <1> QED
    BY <1>1, <1>2, <1>3, WorkerView, ThreadView

(* A receiver that takes an item of all that it lacks.                     *)
LEMMA RestTaken ==
    ASSUME IInv, NEW e \in Ends, Takes(e), Advances(e), file'[e] = file[e], In(e)' = Coming(e),
           Rest(e)
    PROVE  Rest(e)'
  <1>1. TypeOK /\ StreamOK(e) /\ file[e] \in Files
    BY Kinds DEF IInv, Advances, Receiving
  <1>2. /\ Len(In(e)) + cur[e] \in Nat /\ Len(Coming(e)) + cur'[e] \in Nat
        /\ Len(In(e)) + cur[e] + Heads(e)' = Len(Coming(e)) + cur'[e] + Heads(e)
    BY <1>1, TakesStream
  <1>3. Whole(file[e])' = Whole(file[e]) /\ Whole(file[e]) \in Nat
    BY <1>1, WholeOf DEF Whole, Large
  <1>4. Heads(e) \in {0, 1, 2} /\ Heads(e)' \in {0, 1, 2}
    BY HeadsOf
  <1>5. PICK x \in Nat, y \in Nat, z \in Nat :
            x = Len(In(e)) + cur[e] /\ y = Len(Coming(e)) + cur'[e] /\ z = Whole(file[e])
    BY <1>2, <1>3
  <1>6. x = Heads(e) + z /\ x + Heads(e)' = y + Heads(e)
    BY <1>2, <1>5 DEF Rest
  <1>7. y = Heads(e)' + z
    BY <1>4, <1>6, SMT
  <1> QED
    BY <1>3, <1>5, <1>7 DEF Rest

(* So it leaves its connection closed.                                     *)
LEMMA TakesClosing ==
    ASSUME IInv, Closing, NEW e \in Ends, OnlyAt(e), peer' = peer, Conn(e) \in Threads,
           Takes(e), Advances(e), file'[e] = file[e]
    PROVE  Closing'
  <1>1. PICK t \in Threads : t = Conn(e)
    OBVIOUS
  <1>2. TypeOK /\ at[e] \in Receiving /\ at'[e] \in Receiving /\ (t \notin broken => Closed(t))
    BY <1>1 DEF IInv, Advances, Receiving, Closing
  <1>3. InFlight(t)' = InFlight(t)
    BY DEF InFlight
  <1>4. CASE e \in Threads
    <2>1. t = e /\ Up(t)' = Up(t) /\ In(e)' = Coming(e)
      BY <1>1, <1>4, ThreadView DEF Takes
    <2>2. at'[e] \notin Idle
      BY <1>2 DEF Receiving, Idle
    <2>3. Rest(e) => Rest(e)'
      BY <2>1, RestTaken
    <2>4. t \notin broken => Closed(t)'
      BY <1>2, <1>3, <2>1, <2>2, <2>3 DEF Closed
    <2> QED
      BY <1>1, <2>4, ClosingAfter
  <1>5. CASE e \in Workers
    <2>1. e \in InFlight(t)
      BY <1>1, <1>5, WorkerEnd DEF InFlight
    <2>2. InFlight(t) = {e} /\ In(e)' = Coming(e) /\ at'[t] = at[t]
      BY <1>2, <1>3, <2>1, OneFile, WorkerView, ThreadStays DEF InFlight
    <2>3. Rest(e) => Rest(e)'
      BY <2>2, RestTaken
    <2>4. t \notin broken => Closed(t)'
      BY <1>2, <1>3, <2>2, <2>3 DEF Closed
    <2> QED
      BY <1>1, <2>4, ClosingAfter
  <1> QED
    BY <1>4, <1>5 DEF Ends

(* A step of e that leaves e neither out of the connection nor in recvFile *)
(* has nothing to close.                                                   *)
LEMMA GoesOnClosing ==
    ASSUME IInv, Closing, NEW e \in Ends, OnlyAt(e), peer' = peer, Conn(e) \in Threads,
           at'[e] \notin Idle \cup Receiving
    PROVE  Closing'
  <1>1. PICK t \in Threads : t = Conn(e)
    OBVIOUS
  <1>2. TypeOK /\ InFlight(t)' = InFlight(t)
    BY DEF IInv, InFlight
  <1>3. CASE e \in Threads
    BY <1>1, <1>2, <1>3, ThreadView, ClosingAfter DEF Closed
  <1>4. CASE e \in Workers
    <2>1. e \in InFlight(t)
      BY <1>1, <1>4, WorkerEnd DEF InFlight
    <2>2. InFlight(t)' = {e}
      BY <1>2, <2>1, OneFile
    <2> QED
      BY <1>1, <2>2, ClosingAfter DEF Closed
  <1> QED
    BY <1>3, <1>4 DEF Ends

(* A sender leaves when all has been sent.                                 *)
LEMMA SendEndClosing ==
    ASSUME IInv, Closing, NEW e \in Ends, SendEnd(e)
    PROVE  Closing'
  <1>1. /\ TypeOK /\ TypeOK' /\ OnlyAt(e) /\ Leave(e) /\ Conn(e) \in Threads /\ file'[e] = file[e]
        /\ cur'[e] = cur[e] /\ cur[e] = Size[file[e]] /\ at[e] = "send"
        /\ file[e] \in Files /\ Size[file[e]] \in Nat
    <2>1. at[e] = "send"
      BY DEF SendEnd
    <2> QED
      BY <2>1, SendEndDoes, Kinds, SizeAssumption DEF IInv
  <1>2. PICK t \in Threads : t = Conn(e)
    BY <1>1
  \* With what the sender adds at the end, all that r lacks is under way.
  <1>3. ASSUME NEW r \in Ends, t \notin broken, at[r] \in Receiving, Conn(r) = t, file[r] = file[e],
               at'[r] = at[r], file'[r] = file[r], cur'[r] = cur[r], In(r) = Sent(e),
               In(r)' = Going(e)
        PROVE  Rest(r)'
    <2>1. Len(In(r)) + cur[r] = Heads(r) + cur[e]
      BY <1>1, <1>2, <1>3, TwoEnds
    <2>2. Heads(r)' = Heads(r) /\ Heads(r) \in {0, 1, 2} /\ cur[r] \in Nat
      BY <1>1, <1>3, HeadsOf DEF Heads, TypeOK
    <2>3. In(r) \in Seq(Item) /\ Len(In(r)) \in Nat
      BY <1>3, SendEndDoes, LenProperties
    <2>4. Len(Going(e)) = Len(In(r)) + (IF Large(Size[file[e]]) THEN 0 ELSE 1)
      BY <1>3, <2>3, SendEndDoes
    <2>5. Whole(file[r])' = Size[file[e]] + (IF Large(Size[file[e]]) THEN 0 ELSE 1)
      BY <1>3 DEF Whole, Large
    <2>6. PICK a \in Nat, c \in Nat, n \in Nat, k \in {0, 1} :
              /\ a = Len(In(r)) /\ c = cur[r] /\ n = Size[file[e]]
              /\ k = IF Large(Size[file[e]]) THEN 0 ELSE 1
      BY <1>1, <2>2, <2>3
    <2>7. a + c = Heads(r) + n /\ Len(Going(e)) = a + k /\ Whole(file[r])' = n + k
      BY <1>1, <2>1, <2>4, <2>5, <2>6
    <2>8. a + k + c = Heads(r) + (n + k)
      BY <2>2, <2>7, SMT
    <2> QED
      BY <1>3, <2>2, <2>6, <2>7, <2>8 DEF Rest
  <1>4. CASE e \in Threads
    <2>1. t = e /\ peer' = peer /\ InFlight(t)' = InFlight(t) /\ at'[t] = "done"
      BY <1>1, <1>2, <1>4, ThreadView, LeaveAt DEF InFlight
    <2>2. ASSUME NEW w \in InFlight(t), t \notin broken, at'[w] \in Receiving
          PROVE  Rest(w)'
      <3>1. /\ w \in Ends /\ Conn(w) = t /\ at'[w] = at[w] /\ file'[w] = file[w]
            /\ cur'[w] = cur[w] /\ In(w) = Sent(e) /\ In(w)' = Going(e)
        BY <1>1, <2>1, WorkerStays, OneFile, ThreadView
      <3>2. file[w] = file[e]
        BY <1>1, <2>1, OneFile DEF Served, WorkerOK, Idle
      <3> QED
        BY <1>3, <2>2, <3>1, <3>2
    <2>3. t \notin broken => Closed(t)'
      BY <2>1, <2>2 DEF Closed, Receiving
    <2> QED
      BY <1>1, <1>2, <2>3, ClosingAfter
  <1>5. CASE e \in Workers
    <2>1. e \in InFlight(t)
      BY <1>2, <1>5, WorkerEnd DEF InFlight
    <2>2. /\ at'[t] = at[t] /\ file'[t] = file[t] /\ cur'[t] = cur[t] /\ peer' # peer
          /\ InFlight(t)' = {}
      <3>1. peer'[e] = None /\ peer[e] = t /\ t # None
        BY <1>1, <1>5, <2>1, LeaveAt, NoneAssumption DEF InFlight
      <3> QED
        BY <1>1, <2>1, <3>1, ThreadStays
    <2>3. ASSUME t \notin broken, at[t] \in Receiving
          PROVE  Rest(t)'
      <3>1. t \in Ends /\ Conn(t) = t /\ In(t) = Sent(e) /\ In(t)' = Going(e)
        BY <1>1, <2>1, WorkerView, ThreadView
      <3>2. file[t] = file[e]
        BY <2>1, <2>3, OneFile DEF Served, WorkerOK, Receiving
      <3> QED
        BY <1>3, <2>2, <2>3, <3>1, <3>2
    <2>4. t \notin broken => Closed(t)'
      BY <2>2, <2>3 DEF Closed
    <2> QED
      BY <1>1, <1>2, <2>4, ClosingAfter
  <1> QED
    BY <1>4, <1>5 DEF Ends

(* A receiver leaves a connection whose other end receives nothing.        *)
LEMMA RecvEndClosing ==
    ASSUME IInv, Closing, NEW e \in Ends, RecvEnd(e)
    PROVE  Closing'
  <1>1. TypeOK /\ OnlyAt(e) /\ Leave(e) /\ Conn(e) \in Threads /\ at[e] = "recv"
    BY RecvEndDoes DEF IInv
  <1>2. PICK t \in Threads : t = Conn(e)
    BY <1>1
  <1>3. CASE e \in Threads
    <2>1. t = e /\ peer' = peer /\ InFlight(t)' = InFlight(t) /\ at'[t] = "done"
      BY <1>1, <1>2, <1>3, ThreadView, LeaveAt DEF InFlight
    <2>2. \A w \in InFlight(t) : at'[w] \notin Receiving
      BY <1>1, <2>1, WorkerStays, OneFile DEF Receiving
    <2>3. Closed(t)'
      BY <2>1, <2>2 DEF Closed, Receiving
    <2> QED
      BY <1>1, <1>2, <2>3, ClosingAfter
  <1>4. CASE e \in Workers
    <2>1. e \in InFlight(t)
      BY <1>2, <1>4, WorkerEnd DEF InFlight
    <2>2. peer'[e] = None /\ peer[e] = t /\ t # None
      BY <1>1, <1>4, <2>1, LeaveAt, NoneAssumption DEF InFlight
    <2>3. at'[t] = at[t] /\ InFlight(t)' = {} /\ at[t] \notin Receiving
      BY <1>1, <2>1, <2>2, ThreadStays, OneFile DEF Receiving
    <2>4. Closed(t)'
      BY <2>3 DEF Closed
    <2> QED
      BY <1>1, <1>2, <2>4, ClosingAfter
  <1> QED
    BY <1>3, <1>4 DEF Ends

(* transFile and recvFile leave every connection closed.                   *)
LEMMA EndClosing ==
    ASSUME IInv, Closing, NEW e \in Ends, EndStep(e)
    PROVE  Closing'
  <1>1. CASE SendHead(e)
    BY <1>1, SendHeadDoes, GoesOnClosing DEF Idle, Receiving
  <1>2. CASE SendChunk(e)
    BY <1>2, SendChunkDoes, GoesOnClosing DEF Idle, Receiving
  <1>3. CASE SendEnd(e)
    BY <1>3, SendEndClosing
  <1>4. CASE SendFails(e)
    BY <1>4, SendFailsDoes, ClosingAfter
  <1>5. CASE RecvName(e)
    <2>1. Advances(e)
      BY <1>5, RecvNameDoes DEF RecvName, Advances
    <2> QED
      BY <1>5, <2>1, RecvNameDoes, TakesClosing
  <1>6. CASE RecvSize(e)
    <2>1. Advances(e)
      BY <1>6, RecvSizeDoes DEF RecvSize, Advances
    <2> QED
      BY <1>6, <2>1, RecvSizeDoes, TakesClosing
  <1>7. CASE RecvChunk(e)
    <2>1. Advances(e)
      BY <1>7, RecvChunkDoes DEF Advances
    <2> QED
      BY <1>7, <2>1, RecvChunkDoes, TakesClosing
  <1>8. CASE RecvEnd(e)
    BY <1>8, RecvEndClosing
  <1>9. CASE RecvFailed(e)
    BY <1>9, RecvFailedDoes, ClosingAfter
  <1> QED
    BY <1>1, <1>2, <1>3, <1>4, <1>5, <1>6, <1>7, <1>8, <1>9 DEF EndStep

(* So does every step of a thread.                                         *)
LEMMA ThreadClosing ==
    ASSUME IInv, Closing, NEW t \in Threads, ThreadStep(t)
    PROVE  Closing'
  <1>1. t \in Ends /\ Conn(t) = t
    BY ThreadView
  <1>2. CASE ThreadStart(t)
    <2>1. /\ OnlyAt(t) /\ peer' = peer /\ InFlight(t)' = {} /\ at'[t] \in {"answer", "name"}
          /\ t \notin broken => Up(t)' # <<>>
      <3>1. OnlyAt(t) /\ peer' = peer /\ InFlight(t)' = {}
        BY <1>2, ThreadStartDoes DEF InFlight
      <3>2. action \in Puts \/ action \in Gets
        BY <1>2, ThreadStartDoes DEF Gets
      <3>3. \A x, y : << x, y >> # <<>> /\ << x >> # <<>>
        OBVIOUS
      <3> QED
        BY <1>2, <3>1, <3>2, <3>3, ThreadStartDoes
    <2>2. t \notin broken => Closed(t)'
      BY <2>1 DEF Closed
    <2> QED
      BY <1>1, <2>1, <2>2, ClosingAfter
  <1>3. CASE PutsOffset(t)
    BY <1>1, <1>3, PutsOffsetDoes, GoesOnClosing DEF Idle, Receiving
  <1>4. CASE ClientTransFile(t) \/ ClientRecvFile(t)
    BY <1>1, <1>4, EndClosing DEF ClientTransFile, ClientRecvFile, EndStep
  <1> QED
    BY <1>2, <1>3, <1>4 DEF ThreadStep

(* So does every step of a worker.                                         *)
LEMMA WorkerClosing ==
    ASSUME IInv, Good, Closing, NEW w \in Workers, WorkerStep(w)
    PROVE  Closing'
  <1>1. w \in Ends /\ Conn(w) = peer[w] /\ TypeOK
    BY WorkerEnd DEF IInv
  <1>2. ASSUME NEW t \in Threads, Take(w, t)
        PROVE  Closing'
    <2>1. /\ at[w] = "idle" /\ peer[w] = None /\ t # None /\ broken' = broken /\ cur' = cur
          /\ InFlight(t) = {}
      BY <1>1, <1>2, NoneAssumption DEF Take, TypeOK
    <2>2. at'[w] = "command" /\ \A x \in Ends : x # w => at'[x] = at[x]
      BY <1>1, <1>2, GotoAt DEF Take, Place
    <2>3. peer'[w] = t /\ \A v \in Workers : v # w => peer'[v] = peer[v]
      BY <1>1, <1>2 DEF Take, TypeOK
    <2>4. \A x \in Ends : x # w => file'[x] = file[x]
      BY <1>1, <1>2 DEF Take, TypeOK
    <2>5. \A u \in Threads : u # t => wire'[u] = wire[u]
      BY <1>1, <1>2, TakeWire
    <2>6. InFlight(t)' = {w}
      BY <2>1, <2>3 DEF InFlight
    <2>7. Closed(t)'
      BY <2>2, <2>6 DEF Closed, Receiving
    <2>8. ASSUME NEW u \in Threads \ broken, u # t
          PROVE  Closed(u)'
      <3>1. u \in Ends /\ u # w /\ u # None
        BY WorkerEnd, NoneAssumption DEF Ends
      <3>2. InFlight(u)' = InFlight(u) /\ \A v \in InFlight(u) : v \in Ends /\ v # w
        BY <2>1, <2>3, <2>8, <3>1 DEF InFlight, Ends
      <3>3. Alike(u)
        BY <2>1, <2>2, <2>4, <2>5, <2>8, <3>1, <3>2 DEF Alike
      <3> QED
        BY <1>1, <3>3, ClosedAlike DEF Closing
    <2> QED
      BY <2>1, <2>7, <2>8 DEF Closing
  <1>3. CASE PutsAnswer(w)
    <2>1. /\ OnlyAt(w) /\ peer' = peer /\ peer[w] \in Threads /\ at[w] = "command"
          /\ file[w] \in Puts
      BY <1>3, PutsAnswerDoes DEF PutsAnswer
    <2>2. PICK t \in Threads : t = peer[w]
      BY <2>1
    <2>3. w \in InFlight(t) /\ w \in InFlight(t)'
      BY <2>1, <2>2 DEF InFlight
    <2>4. at'[t] = at[t]
      BY <2>1, <2>3, ThreadStays
    <2>5. t \notin broken => at[t] = "answer"
      BY <2>1, <2>3, OneFile DEF Served, Sync
    <2>6. t \notin broken => Closed(t)'
      BY <2>3, <2>4, <2>5 DEF Closed, Idle
    <2> QED
      BY <1>1, <2>1, <2>2, <2>6, ClosingAfter
  <1>4. CASE GetsOffset(w)
    BY <1>1, <1>4, GetsOffsetDoes, GoesOnClosing DEF Idle, Receiving
  <1>5. CASE ServerTransFile(w) \/ ServerRecvFile(w)
    BY <1>1, <1>5, EndClosing DEF ServerTransFile, ServerRecvFile, EndStep
  <1> QED
    BY <1>2, <1>3, <1>4, <1>5 DEF WorkerStep

(* So does every step.                                                     *)
LEMMA NextClosing ==
    ASSUME IInv, Good, Closing, [Next]_vars
    PROVE  Closing'
  <1>1. TypeOK
    BY DEF IInv
  <1>2. ASSUME NEW t \in Threads, NEW f \in Files, Issue(t, f)
        PROVE  Closing'
    <2>1. t \in Ends /\ t \notin Workers
      BY ThreadEnd
    <2>2. /\ at'[t] = "start" /\ \A x \in Ends : x # t => at'[x] = at[x]
      BY <1>1, <1>2, <2>1, GotoAt DEF Issue, Place
    <2>3. file' = file /\ cur' = cur /\ peer' = peer /\ broken' = broken \ {t}
      BY <1>2 DEF Issue, local
    <2>4. \A u \in Threads : u # t => wire'[u] = wire[u]
      BY <1>1, <1>2 DEF Issue, TypeOK
    <2>5. Closed(t)'
      BY <2>2 DEF Closed, Idle, Receiving
    <2>6. ASSUME NEW u \in Threads \ broken, u # t
          PROVE  Closed(u)'
      <3>1. Alike(u)
        BY <2>1, <2>2, <2>3, <2>4, <2>6 DEF Alike, InFlight, Ends
      <3> QED
        BY <1>1, <3>1, ClosedAlike DEF Closing
    <2> QED
      BY <2>3, <2>5, <2>6 DEF Closing
  <1>3. ASSUME NEW t \in Threads, Break(t)
        PROVE  Closing'
    <2>1. broken' = broken \union {t} /\ \A u \in Threads : u # t => wire'[u] = wire[u]
      BY <1>3, BreakDoes
    <2>2. at' = at /\ file' = file /\ cur' = cur /\ peer' = peer
      BY <1>3 DEF Break, local
    <2>3. ASSUME NEW u \in Threads \ broken, u # t
          PROVE  Closed(u)'
      <3>1. Alike(u)
        BY <2>1, <2>2, <2>3 DEF Alike, InFlight
      <3> QED
        BY <1>1, <3>1, ClosedAlike DEF Closing
    <2> QED
      BY <2>1, <2>3 DEF Closing
  <1>4. CASE Stop("client") \/ Stop("server")
    BY <1>4, StopDoes DEF Closing, Sides
  <1>5. CASE UNCHANGED vars
    <2>1. \A u \in Threads : Alike(u)
      BY <1>5 DEF vars, Alike, InFlight
    <2> QED
      BY <1>1, <1>5, <2>1, ClosedAlike DEF Closing, vars
  <1> QED
    BY <1>2, <1>3, <1>4, <1>5, ThreadClosing, WorkerClosing DEF Next

(* A receiver to which all that it lacks is under way need not wait.       *)
LEMMA RestIsReady ==
    ASSUME IInv, NEW e \in Ends, at[e] \in Receiving, Rest(e)
    PROVE  Ready(e)
  <1>1. /\ file[e] \in Files /\ StreamOK(e) /\ cur[e] \in Nat /\ Conn(e) \in Threads
        /\ cur[e] <= Size[file[e]]
    BY Kinds DEF IInv, TypeOK, StreamOK
  <1>2. In(e) # <<>> => Ready(e)
    BY DEF Ready, CanRecv
  <1>3. ASSUME In(e) = <<>>
        PROVE  Ready(e)
    <2>1. Len(In(e)) = 0
      BY <1>3
    <2>2. PICK n \in Nat, k \in {0, 1} : /\ n = Size[file[e]] /\ Whole(file[e]) = n + k
                                         /\ k = 0 <=> Large(n)
      BY <1>1, WholeOf
    <2>3. cur[e] = Heads(e) + (n + k)
      BY <1>1, <2>1, <2>2 DEF Rest
    <2>4. Heads(e) = 0 /\ k = 0 /\ cur[e] = n
      BY <1>1, <2>2, <2>3, HeadsOf, SMT
    <2>5. at[e] = "recv"
      BY <2>4, HeadsOf DEF Receiving
    <2>6. total[e] = n
      <3>1. e \in Threads => ThreadOK(e)
        BY DEF IInv, ConnInv, ConnOK
      <3>2. e \in Workers => e \in InFlight(Conn(e))
        BY WorkerEnd DEF InFlight
      <3>3. e \in Workers => WorkerOK(e, Conn(e))
        BY <1>1, <3>2 DEF IInv, ConnInv, ConnOK, Served
      <3> QED
        BY <2>2, <2>5, <3>1, <3>3 DEF ThreadOK, WorkerOK, Ends
    <2> QED
      BY <2>2, <2>4, <2>5, <2>6 DEF Ready
  <1> QED
    BY <1>2, <1>3

(* While a connection works, its two ends never wait for each other, and   *)
(* none waits for one that has left: one of them can take its next step,   *)
(* whatever the sizes, the number of threads and workers and the order of  *)
(* breaks and restarts on other connections.  This is what TransfersEnd    *)
(* rests on (client.cpp:400-485; main.cpp:340-397; transFile.cpp:21-218).  *)
THEOREM TransfersNeverStick ==
    ASSUME Good
    PROVE  Spec => []NeverStuck
  <1>1. Init => IInv /\ Closing
    <2>1. Init => IInv
      BY InitInv
    <2>2. Init => \A t \in Threads : at[t] = "idle" /\ InFlight(t) = {}
      BY NoneAssumption DEF Init, InFlight, Ends
    <2> QED
      BY <2>1, <2>2 DEF Closing, Closed, Receiving
  <1>2. IInv /\ Closing /\ [Next]_vars => (IInv /\ Closing)'
    BY NextInv, NextClosing
  <1>3. ASSUME IInv, Closing, NEW t \in Threads \ broken, NEW w \in InFlight(t)
        PROVE  Ready(t) \/ Ready(w)
    <2>1. /\ WorkerOK(w, t) /\ Sync(w, t) /\ ThreadOK(t) /\ w \in Ends /\ t \in Ends
          /\ Conn(w) = t /\ Conn(t) = t /\ In(w) = Up(t) /\ In(t) = Down(t) /\ TypeOK
      BY <1>3, OneFile DEF Served, IInv
    <2>2. Other(t) = "server" /\ Other(w) = "client"
      BY <2>1, ThreadEnd, WorkerEnd DEF InFlight
    <2>3. /\ Up(t) = <<>> => CanSend(t)
          /\ Down(t) = <<>> => CanSend(w)
      BY <1>3, <2>1, <2>2, LimitAssumption DEF CanSend, Up, Down
    <2>4. at[w] \in {"command", "head", "send"} \cup Receiving /\ at[t] \in Place
      BY <2>1 DEF WorkerOK, TypeOK
    <2>5. CASE at[w] = "command"
      <3>1. file[w] \in Puts \/ Up(t) # <<>>
        BY <2>1, <2>5, SizeAssumption DEF Sync, WorkerOK, Gets
      <3> QED
        BY <2>1, <2>5, <3>1 DEF Ready, CanRecv
    <2>6. CASE at[w] = "head"
      BY <2>1, <2>3, <2>6 DEF Sync, Ready
    <2>7. CASE at[w] = "send"
      <3>1. CASE at[t] \in Receiving
        BY <2>1, <2>3, <2>7, <3>1 DEF Ready, CanRecv
      <3>2. CASE at[t] \notin Receiving
        <4>1. Large(total[w]) /\ cur[w] = total[w] /\ cur[w] \in Nat
          BY <2>1, <2>7, <3>2 DEF Sync, WorkerOK, TypeOK
        <4> QED
          BY <2>7, <4>1 DEF Ready
      <3> QED
        BY <3>1, <3>2
    <2>8. CASE at[w] \in Receiving
      <3>1. at[t] \in Idle => Rest(w)
        BY <1>3, <2>8 DEF Closing, Closed
      <3>2. at[t] \notin Receiving \cup {"start", "command"}
        BY <1>3, <2>1, <2>8, OneFile DEF WorkerOK, ThreadOK
      <3>3. CASE at[t] \in Idle
        BY <1>3, <2>1, <2>8, <3>1, <3>3, RestIsReady
      <3>4. CASE at[t] = "answer"
        <4>1. Down(t) # <<>>
          BY <2>1, <2>8, <3>4 DEF Sync, Receiving
        <4> QED
          BY <2>1, <3>4, <4>1 DEF Ready, CanRecv
      <3>5. CASE at[t] = "head"
        BY <2>1, <2>3, <3>5 DEF Sync, Ready
      <3>6. CASE at[t] = "send"
        BY <2>1, <2>3, <2>8, <3>6 DEF Ready, CanRecv
      <3> QED
        BY <2>4, <3>2, <3>3, <3>4, <3>5, <3>6 DEF Place, Receiving, Idle
    <2> QED
      BY <2>4, <2>5, <2>6, <2>7, <2>8
  <1>4. ASSUME IInv, Closing, NEW t \in Threads \ broken, InFlight(t) = {}, at[t] \notin Idle,
               Up(t) = <<>>
        PROVE  Ready(t)
    <2>1. ThreadOK(t) /\ Alone(t) /\ TypeOK /\ t \in Ends
      BY <1>4, ThreadView DEF IInv, ConnInv, ConnOK
    <2>2. CASE at[t] \in Receiving
      BY <1>4, <2>1, <2>2, RestIsReady DEF Closing, Closed
    <2>3. CASE at[t] = "send"
      <3>1. Large(total[t]) /\ cur[t] = total[t] /\ cur[t] \in Nat
        BY <1>4, <2>1, <2>3 DEF Alone, ThreadOK, TypeOK
      <3> QED
        BY <2>3, <3>1 DEF Ready
    <2>4. CASE at[t] = "start"
      BY <2>4 DEF Ready
    <2>5. at[t] \notin {"answer", "head", "command"} /\ at[t] \in Place
      BY <1>4, <2>1 DEF Alone, ThreadOK, TypeOK
    <2> QED
      BY <1>4, <2>2, <2>3, <2>4, <2>5 DEF Place, Receiving, Idle
  <1>5. IInv /\ Closing => NeverStuck
    BY <1>3, <1>4 DEF NeverStuck
  <1> QED
    BY <1>1, <1>2, <1>5, PTL DEF Spec
=============================================================================
