----------------------------- MODULE SocketChat -----------------------------
(***************************************************************************)
(* The TCP chats of 20190201 and 20190202: one server with a person at it, *)
(* clients that connect one after the other.  prog is the version:         *)
(*   "select"  20190201/tcp_chat                                           *)
(*   "lowat"   20190201/tcp_chat_op, SO_RCVLOWAT of 10 bytes               *)
(*   "epoll"   20190201/epoll                                              *)
(*   "edge"    20190202/epoll_et, EPOLLET on connections, a 10-byte buffer *)
(* The server knows its latest connection only, newid: one that comes      *)
(* before is neither read nor closed any more.                             *)
(* Text is counted in units of 9 bytes: one unit is below the low-water    *)
(* mark and two are more than the small buffer holds.                      *)
(* Left out: an accept or a connect that fails, a full socket buffer, the  *)
(* empty line that recv's -1 prints after a reset, and descriptors from 64 *)
(* on, whose bits select(15, ...) leaves set.                              *)
(***************************************************************************)
EXTENDS Naturals, FiniteSets

CONSTANTS Progs, Clients,
          Units,        \* bound: units a person sends over a connection
          Watched,      \* connections select(15, ...) can watch: descriptors 4..14 are 11
          NoConn,       \* newid of no connection: -1, or what is on the stack
          Listener      \* newid that happens to be the listening socket

VARIABLES prog,
          server,       \* "up", "gone", "killed"
          newid,
          conn,         \* conn[c] at the server: "none", "backlog", "open", "closed"
          number,       \* number[c]: c's descriptor, counted from the first after the listener
          client,       \* "new", "open", "closed"
          toServer, toClient,   \* units sent and not read
          said,         \* said[c]: units sent by c; saidTo[c]: units sent to c
          saidTo,
          edge,         \* connections with an event since the last epoll_wait
          reset         \* the connections of clients that have answered with RST
vars == <<prog, server, newid, conn, number, client, toServer, toClient, said, saidTo, edge, reset>>

Initial == [c \in Clients |-> 0]

Init ==
  /\ prog \in Progs
  /\ server = "up"
  \* newid is not initialised in tcp_server.c:24 and tcp_server_op.c:30.
  /\ newid \in IF prog \in {"select", "lowat"} THEN {NoConn, Listener} ELSE {NoConn}
  /\ conn = [c \in Clients |-> "none"] /\ number = Initial /\ client = [c \in Clients |-> "new"]
  /\ toServer = Initial /\ toClient = Initial /\ said = Initial /\ saidTo = Initial
  /\ edge = {} /\ reset = {}

Low == IF prog = "lowat" THEN 2 ELSE 1

(***************************************************************************)
(* The client.                                                             *)
(***************************************************************************)
Connect(c) ==
  /\ client[c] = "new" /\ server = "up"
  /\ client' = [client EXCEPT ![c] = "open"]
  /\ conn' = [conn EXCEPT ![c] = "backlog"]
  /\ UNCHANGED <<prog, server, newid, number, toServer, toClient, said, saidTo, edge, reset>>

SayClient(c, n) ==
  /\ client[c] = "open" /\ conn[c] # "closed" /\ said[c] + n <= Units
  /\ said' = [said EXCEPT ![c] = @ + n]
  /\ toServer' = [toServer EXCEPT ![c] = @ + n]
  /\ edge' = edge \union {c}
  /\ UNCHANGED <<prog, server, newid, conn, number, client, toClient, saidTo, reset>>

\* The client's socket has data up to its mark, or is at its end.
HearClient(c) ==
  /\ client[c] = "open" /\ toClient[c] > 0
  /\ toClient[c] >= Low \/ conn[c] = "closed"
  /\ toClient' = [toClient EXCEPT ![c] = 0]
  /\ UNCHANGED <<prog, server, newid, conn, number, client, toServer, said, saidTo, edge, reset>>

CloseClient(c) ==
  /\ client' = [client EXCEPT ![c] = "closed"]
  /\ edge' = edge \union {c}
  /\ UNCHANGED <<prog, server, newid, conn, number, toServer, toClient, said, saidTo, reset>>

EndHeard(c) == client[c] = "open" /\ toClient[c] = 0 /\ conn[c] = "closed" /\ CloseClient(c)
QuitClient(c) == client[c] = "open" /\ CloseClient(c)

(***************************************************************************)
(* The server.                                                             *)
(***************************************************************************)
\* A connection gets the lowest descriptor that is free.
Open == {c \in Clients : conn[c] = "open"}
Lowest == CHOOSE n \in 1 .. Cardinality(Clients) :
            /\ \A c \in Open : number[c] # n
            /\ \A m \in 1 .. n - 1 : \E c \in Open : number[c] = m

Accept(c) ==
  /\ server = "up" /\ conn[c] = "backlog"
  /\ number' = [number EXCEPT ![c] = Lowest]
  /\ conn' = [conn EXCEPT ![c] = "open"]
  /\ newid' = c
  /\ UNCHANGED <<prog, server, client, toServer, toClient, said, saidTo, edge, reset>>

\* What the process has open is closed with it.
EndServer(how) ==
  /\ server' = how
  /\ conn' = [c \in Clients |-> IF conn[c] = "none" THEN "none" ELSE "closed"]
  /\ UNCHANGED <<prog, newid, number, client, toServer, toClient, said, saidTo, edge, reset>>

\* A line goes to newid.  The first one to a client that has closed is answered
\* with RST, the next one raises SIGPIPE; so does one to the listening socket.
SayServer(n) ==
  /\ server = "up"
  /\ IF newid \notin Clients
     THEN newid = Listener /\ EndServer("killed")
     ELSE /\ conn[newid] = "open"
          /\ IF newid \in reset THEN EndServer("killed")
             ELSE /\ IF client[newid] = "closed"
                     THEN reset' = reset \union {newid} /\ UNCHANGED <<toClient, saidTo>>
                     ELSE /\ saidTo[newid] + n <= Units
                          /\ saidTo' = [saidTo EXCEPT ![newid] = @ + n]
                          /\ toClient' = [toClient EXCEPT ![newid] = @ + n]
                          /\ UNCHANGED reset
                  /\ UNCHANGED <<prog, server, newid, conn, number, client, toServer, said, edge>>

\* Mutant: every version reports an event once.
ReadableEdge(c) == c \in edge

\* The descriptors the call looks at.
Seen(c) == prog \in {"select", "lowat"} => number[c] <= Watched

\* select and epoll report newid while there is something; EPOLLET only once.
Readable(c) ==
  /\ Seen(c)
  /\ IF prog = "edge" THEN c \in edge ELSE toServer[c] >= Low \/ client[c] = "closed"

Taken == IF prog = "edge" THEN 1 ELSE toServer[newid]     \* the buffer's size

Recv ==
  /\ server = "up" /\ newid \in Clients /\ conn[newid] = "open" /\ Readable(newid)
  /\ IF toServer[newid] > 0
     THEN toServer' = [toServer EXCEPT ![newid] = @ - Taken] /\ UNCHANGED conn
     ELSE conn' = [conn EXCEPT ![newid] = "closed"] /\ UNCHANGED toServer
  /\ edge' = edge \ {newid}
  /\ UNCHANGED <<prog, server, newid, number, client, toClient, said, saidTo, reset>>

QuitServer == server = "up" /\ EndServer("gone")

ServerStep == (\E c \in Clients : Accept(c)) \/ Recv

Next ==
  \/ \E c \in Clients : Connect(c) \/ HearClient(c) \/ EndHeard(c) \/ QuitClient(c)
  \/ \E c \in Clients, n \in 1 .. 2 : SayClient(c, n)
  \/ ServerStep \/ QuitServer
  \/ \E n \in 1 .. 2 : SayServer(n)

\* The programs run; the people need not type.
FairSpec ==
  /\ Init /\ [][Next]_vars
  /\ WF_vars(Recv) /\ \A c \in Clients : WF_vars(Accept(c)) /\ WF_vars(HearClient(c) \/ EndHeard(c))

(***************************************************************************)
(* Properties                                                              *)
(***************************************************************************)
Current(c) == server = "up" /\ newid = c /\ conn[c] = "open"

\* With level-triggered events, no low-water mark and a buffer that is large
\* enough, the server reads all its latest client has sent and closes the
\* connection after it, however lines, the end of the client and other
\* connections fall between two waits: with select, as long as its descriptor is
\* below 15.  Connections before the latest are not closed (tcp_server.c:54) and
\* keep theirs, so that this may end with the 12th (OthersServed).
CurrentServed ==
  \A c \in Clients :
    (Current(c) /\ prog \in {"select", "epoll"} /\ Seen(c) /\ (toServer[c] > 0 \/ client[c] = "closed"))
      ~> (\/ ~Current(c)
          \/ toServer[c] = 0 /\ client[c] # "closed")

\* The same of every connection.  Not so: select looks at descriptors below 15
\* only (tcp_server.c:32).
OthersServed ==
  \A c \in Clients :
    (Current(c) /\ prog \in {"select", "epoll"} /\ (toServer[c] > 0 \/ client[c] = "closed"))
      ~> (\/ ~Current(c)
          \/ toServer[c] = 0 /\ client[c] # "closed")

\* The same of the other two.  Not so: a short line waits for the next one
\* (tcp_server_op.c:62), the rest of a long one for the next event
\* (epoll_et/tcp_server_epoll.c:57, with the buffer of :31).
AllServed ==
  \A c \in Clients :
    (Current(c) /\ (toServer[c] > 0 \/ client[c] = "closed"))
      ~> (\/ ~Current(c)
          \/ toServer[c] = 0 /\ client[c] # "closed")

\* A client that comes before the latest is read too.  Not so (tcp_server.c:54).
OldServed ==
  \A c \in Clients : (conn[c] = "open" /\ client[c] = "closed") ~> (conn[c] = "closed")

\* A client that closes does not end the server.  Not so (tcp_server.c:41).
ServerSurvives == server # "killed"
=============================================================================
