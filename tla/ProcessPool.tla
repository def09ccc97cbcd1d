---------------------------- MODULE ProcessPool ----------------------------
(***************************************************************************)
(* The file servers of 20190202, 20190203 and 20190204 with a pool of      *)
(* processes, and their clients.  The parent accepts connections and       *)
(* passes them to idle children over socket pairs; a child sends the file, *)
(* closes the connection and writes "finish".  The three are one program   *)
(* that was extended; prog says which one a behaviour is of.               *)
(*                                                                         *)
(* A client's stream is counted in items: the header, the chunks and the   *)
(* length 0 at the end.                                                    *)
(***************************************************************************)
EXTENDS Naturals, Sequences, FiniteSets

CONSTANTS Programs,     \* a subset of {"2", "3", "4"}: the day of 201902xx
          ChildNum,     \* argv[2]
          Clients,
          Items,        \* items a client has to receive
          Window,       \* bound: items in a connection's buffers
          Exit          \* the message -1

ASSUME PoolAssumption == /\ Programs \subseteq {"2", "3", "4"}
                         /\ ChildNum \in Nat \ {0} /\ Items \in Nat \ {0}
                         /\ Exit \notin Clients

Children == 1..ChildNum

VARIABLES prog,
          parent,       \* "loop", "wait" (for its children), "gone", "killed"
          sigpipe,      \* SIGUSR1 has been written to the pipe
          busy,         \* busy[j]: the parent's flag
          watched,      \* the children whose socket is in the epoll set
          down,         \* down[j]: what the parent has sent child j
          up,           \* up[j]: "finish"es the parent has not read
          child,        \* child[j]: "recv", "send", "finish", "exited", "killed"
          conn,         \* conn[j]: the connection child j works on
          held,         \* held[c]: who has client c's descriptor on the server
          client,       \* client[c]: "new", "open", "success", "crash", "left"
          sent, got     \* items sent to and received by c

vars == <<prog, parent, sigpipe, busy, watched, down, up, child, conn, held, client, sent, got>>
pool == <<busy, watched, down, up, child, conn>>
stream == <<client, sent, got>>

Total == IF prog = "2" THEN 1 ELSE Items    \* 20190202 sends one line of text
IgnoresSigpipe == prog = "4"                \* MSG_NOSIGNAL, and results looked at

Init == /\ prog \in Programs
        /\ parent = "loop" /\ sigpipe = FALSE
        /\ busy = [j \in Children |-> FALSE] /\ watched = {}
        /\ down = [j \in Children |-> <<>>] /\ up = [j \in Children |-> 0]
        /\ child = [j \in Children |-> "recv"] /\ conn = [j \in Children |-> Exit]
        /\ held = [c \in Clients |-> "none"]
        /\ client = [c \in Clients |-> "new"]
        /\ sent = [c \in Clients |-> 0] /\ got = [c \in Clients |-> 0]

(***************************************************************************)
(* The clients.                                                            *)
(***************************************************************************)
\* The listening socket is the parent's and, since they are forked after it is
\* made, every child's: connections wait there until the last of them is gone.
Dead(j) == child[j] \in {"killed", "exited"}
Listening == parent = "loop" \/ \E j \in Children : ~Dead(j)
Unlistened(h) == [c \in Clients |-> IF h[c] = "backlog" THEN "closed" ELSE h[c]]

Connect(c) ==
    /\ client[c] = "new" /\ Listening
    /\ client' = [client EXCEPT ![c] = "open"]
    /\ held' = [held EXCEPT ![c] = "backlog"]
    /\ UNCHANGED <<prog, parent, sigpipe, pool, sent, got>>

\* The client of 20190202 prints what one recv gives it.
ReceiveText(c) ==
    /\ prog = "2" /\ client[c] = "open"
    /\ \/ sent[c] = 1
       \/ held[c] = "closed"
    /\ got' = [got EXCEPT ![c] = sent[c]]
    /\ client' = [client EXCEPT ![c] = IF sent[c] = 1 THEN "success" ELSE "crash"]
    /\ UNCHANGED <<prog, parent, sigpipe, pool, held, sent>>

\* One item; the last one ends it with "download success".
Receive(c) ==
    /\ prog # "2" /\ client[c] = "open" /\ got[c] < sent[c]
    /\ got' = [got EXCEPT ![c] = @ + 1]
    /\ client' = IF got'[c] = Total THEN [client EXCEPT ![c] = "success"] ELSE client
    /\ UNCHANGED <<prog, parent, sigpipe, pool, held, sent>>

\* The connection is closed too early: "Server crash".  Before 20190204 recv_n
\* adds the 0 it gets to total and goes on for ever.
ServerCrash(c) ==
    /\ client[c] = "open" /\ held[c] = "closed" /\ got[c] = sent[c]
    /\ prog = "4"
    /\ client' = [client EXCEPT ![c] = "crash"]
    /\ UNCHANGED <<prog, parent, sigpipe, pool, held, sent, got>>

HangUp(c) ==
    /\ client[c] = "open"
    /\ client' = [client EXCEPT ![c] = "left"]
    /\ UNCHANGED <<prog, parent, sigpipe, pool, held, sent, got>>

(***************************************************************************)
(* The parent.                                                             *)
(***************************************************************************)

Idle == {j \in Children : ~busy[j]}
First(S) == CHOOSE j \in S : \A k \in S : j <= k

\* send_fd: the descriptor, or -1 with the descriptor 0 beside it.
SendFd(j, m) == [down EXCEPT ![j] = Append(@, m)]

\* The first idle child gets the connection, and is watched and marked.
Give(c) ==
    LET j == First(Idle)
    IN /\ parent = "loop" /\ held[c] = "backlog" /\ Idle # {} /\ ~Dead(j)
       /\ down' = SendFd(j, c)
       /\ held' = [held EXCEPT ![c] = "passed"]
       /\ watched' = watched \union {j}
       /\ busy' = [busy EXCEPT ![j] = TRUE]
       /\ UNCHANGED <<prog, parent, sigpipe, up, child, conn, stream>>

\* The parent alone has what it has accepted and not passed on.
ParentDies ==
    LET h == [c \in Clients |-> IF held[c] = "forgotten" THEN "closed" ELSE held[c]]
    IN held' = IF \A j \in Children : Dead(j) THEN Unlistened(h) ELSE h

\* sendmsg on the socket of a child that is dead raises SIGPIPE.
GiveToDead(c) ==
    /\ parent = "loop" /\ held[c] = "backlog" /\ Idle # {} /\ Dead(First(Idle))
    /\ parent' = "killed"
    /\ ParentDies
    /\ UNCHANGED <<prog, sigpipe, pool, stream>>

\* With no idle child the loop ends without a word: newfd stays open.
Forget(c) ==
    /\ parent = "loop" /\ held[c] = "backlog" /\ Idle = {}
    /\ held' = [held EXCEPT ![c] = "forgotten"]
    /\ UNCHANGED <<prog, parent, sigpipe, pool, stream>>

\* Mutant: the child stays in the epoll set.
FinishedWatched(j) ==
    /\ parent = "loop" /\ j \in watched /\ (up[j] > 0 \/ Dead(j))
    /\ up' = [up EXCEPT ![j] = 0]
    /\ busy' = [busy EXCEPT ![j] = FALSE]
    /\ UNCHANGED <<prog, parent, sigpipe, watched, down, child, conn, held, stream>>

\* A watched socket is readable: a "finish", or the end of a dead child.
Finished(j) ==
    /\ parent = "loop" /\ j \in watched /\ (up[j] > 0 \/ Dead(j))
    /\ up' = [up EXCEPT ![j] = 0]
    /\ watched' = watched \ {j}
    /\ busy' = [busy EXCEPT ![j] = FALSE]
    /\ UNCHANGED <<prog, parent, sigpipe, down, child, conn, held, stream>>

SigFunc == /\ prog # "2" /\ ~sigpipe /\ parent = "loop"
           /\ sigpipe' = TRUE
           /\ UNCHANGED <<prog, parent, pool, held, stream>>

\* Mutant: only idle children are told to exit.
StartExitIdle ==
    /\ parent = "loop" /\ sigpipe /\ ~\E j \in Children : Dead(j)
    /\ parent' = "wait"
    /\ down' = [j \in Children |-> IF busy[j] THEN down[j] ELSE Append(down[j], Exit)]
    /\ UNCHANGED <<prog, sigpipe, busy, watched, up, child, conn, held, stream>>

\* The parent closes its listening socket and tells one child after the other to
\* exit, up to a dead one.
StartExit ==
    /\ parent = "loop" /\ sigpipe
    /\ down' = [j \in Children |-> IF \E k \in 1..j : Dead(k) THEN down[j] ELSE Append(down[j], Exit)]
    /\ IF \E j \in Children : Dead(j)
       THEN parent' = "killed" /\ ParentDies
       ELSE parent' = "wait" /\ UNCHANGED held
    /\ UNCHANGED <<prog, sigpipe, busy, watched, up, child, conn, stream>>

\* All children have been waited for; exit closes what is left.
Gone ==
    /\ parent = "wait" /\ \A j \in Children : Dead(j)
    /\ parent' = "gone"
    /\ ParentDies
    /\ UNCHANGED <<prog, sigpipe, pool, stream>>

(***************************************************************************)
(* The children.                                                           *)
(***************************************************************************)

\* Child j ends; h is held but for what the listening socket still keeps.
Dies(j, how, h) ==
    /\ child' = [child EXCEPT ![j] = how]
    /\ held' = IF parent # "loop" /\ \A k \in Children \ {j} : Dead(k) THEN Unlistened(h) ELSE h

RecvFd(j) ==
    /\ child[j] = "recv" /\ down[j] # <<>>
    /\ down' = [down EXCEPT ![j] = Tail(@)]
    /\ IF Head(down[j]) = Exit
       THEN Dies(j, "exited", held) /\ UNCHANGED conn
       ELSE /\ child' = [child EXCEPT ![j] = "send"]
            /\ conn' = [conn EXCEPT ![j] = Head(down[j])]
            /\ UNCHANGED held
    /\ UNCHANGED <<prog, parent, sigpipe, busy, watched, up, stream>>

\* 20190202: one send, whose result nobody looks at.
SendText(j) ==
    /\ prog = "2" /\ child[j] = "send" /\ sent[conn[j]] = 0
    /\ sent' = [sent EXCEPT ![conn[j]] = 1]
    /\ UNCHANGED <<prog, parent, sigpipe, pool, held, client, got>>

\* send_n blocks while the client does not read; to a client that has hung up
\* the first sends still succeed.
SendItem(j) ==
    LET c == conn[j]
    IN /\ prog # "2" /\ child[j] = "send" /\ sent[c] < Total
       /\ client[c] # "left" => sent[c] - got[c] < Window
       /\ sent' = [sent EXCEPT ![c] = @ + 1]
       /\ UNCHANGED <<prog, parent, sigpipe, pool, held, client, got>>

\* Mutant: the child does not close its client.
CloseNothing(j) ==
    /\ child[j] = "send" /\ sent[conn[j]] = Total
    /\ child' = [child EXCEPT ![j] = "finish"]
    /\ UNCHANGED <<prog, parent, sigpipe, busy, watched, down, up, conn, held, stream>>

\* Mutant: the last item is not waited for.
CloseWithoutEnd(j) ==
    LET c == conn[j]
    IN /\ child[j] = "send" /\ sent[c] + 1 >= Total
       /\ held' = [held EXCEPT ![c] = "closed"]
       /\ child' = [child EXCEPT ![j] = "finish"]
       /\ UNCHANGED <<prog, parent, sigpipe, busy, watched, down, up, conn, stream>>

\* The file has been sent, or (20190204) sending has failed: close.
CloseClient(j) ==
    LET c == conn[j]
    IN /\ child[j] = "send"
       /\ sent[c] = Total \/ (IgnoresSigpipe /\ client[c] = "left")
       /\ held' = [held EXCEPT ![c] = "closed"]
       /\ child' = [child EXCEPT ![j] = "finish"]
       /\ UNCHANGED <<prog, parent, sigpipe, busy, watched, down, up, conn, stream>>

\* Without MSG_NOSIGNAL the child is killed by SIGPIPE.
Killed(j) ==
    LET c == conn[j]
    IN /\ child[j] = "send" /\ ~IgnoresSigpipe /\ client[c] = "left" /\ sent[c] < Total
       /\ Dies(j, "killed", [held EXCEPT ![c] = "closed"])
       /\ UNCHANGED <<prog, parent, sigpipe, busy, watched, down, up, conn, stream>>

\* The parent's end of j's socket is also open in the children forked after j.
\* When they are all gone, recvmsg finds the end, and "finish" raises SIGPIPE.
Orphan(j) == parent = "killed" /\ \A k \in Children : k > j => Dead(k)

WriteFinish(j) ==
    /\ child[j] = "finish" /\ ~Orphan(j)
    /\ up' = [up EXCEPT ![j] = @ + 1]
    /\ child' = [child EXCEPT ![j] = "recv"]
    /\ UNCHANGED <<prog, parent, sigpipe, busy, watched, down, conn, held, stream>>

OrphanDies(j) ==
    /\ Orphan(j)
    /\ child[j] = "finish" \/ (child[j] = "recv" /\ down[j] = <<>>)
    /\ Dies(j, "killed", held)
    /\ UNCHANGED <<prog, parent, sigpipe, busy, watched, down, up, conn, stream>>

ParentStep == \/ \E c \in Clients : Give(c) \/ GiveToDead(c) \/ Forget(c)
              \/ \E j \in Children : Finished(j)
              \/ StartExit \/ Gone
ChildStep(j) == RecvFd(j) \/ SendText(j) \/ SendItem(j) \/ CloseClient(j) \/ Killed(j) \/ WriteFinish(j)
                \/ OrphanDies(j)
ClientReads(c) == ReceiveText(c) \/ Receive(c) \/ ServerCrash(c)

Next == \/ ParentStep \/ SigFunc
        \/ \E j \in Children : ChildStep(j)
        \/ \E c \in Clients : Connect(c) \/ ClientReads(c) \/ HangUp(c)

Spec == Init /\ [][Next]_vars

\* The processes run; clients go on reading, or leave.
Fair == /\ WF_vars(ParentStep) /\ \A j \in Children : WF_vars(ChildStep(j))
        /\ \A c \in Clients : WF_vars(ClientReads(c))
FairSpec == Spec /\ Fair

(***************************************************************************)
(* Properties                                                              *)
(***************************************************************************)

\* The fields keep their kinds; at most one "finish" is unread.
TypeOK ==
    /\ prog \in {"2", "3", "4"}
    /\ parent \in {"loop", "wait", "gone", "killed"} /\ sigpipe \in BOOLEAN
    /\ busy \in [Children -> BOOLEAN] /\ watched \subseteq Children
    /\ down \in [Children -> Seq(Clients \union {Exit})] /\ up \in [Children -> {0, 1}]
    /\ child \in [Children -> {"recv", "send", "finish", "exited", "killed"}]
    /\ conn \in [Children -> Clients \union {Exit}]
    /\ held \in [Clients -> {"none", "backlog", "passed", "forgotten", "closed"}]
    /\ client \in [Clients -> {"new", "open", "success", "crash", "left"}]
    /\ sent \in [Clients -> Nat] /\ got \in [Clients -> Nat]

\* What the parent believes about a child, against where the child is: a child
\* without the flag has nothing under way in either direction and is waiting; one
\* with the flag is watched and has exactly one connection in transit, in hand or
\* reported.  Only a child that SIGPIPE has killed, which those of 20190204 are
\* not, makes the flag wrong.
FlagsAgree ==
    parent = "loop" =>
      \A j \in Children :
        /\ busy[j] <=> j \in watched
        /\ child[j] = "killed" => prog # "4"
        /\ ~busy[j] => down[j] = <<>> /\ up[j] = 0 /\ child[j] \in {"recv", "killed"}
        /\ busy[j] /\ child[j] # "killed" =>
             \/ child[j] = "recv" /\ up[j] = 1 /\ down[j] = <<>>
             \/ child[j] = "recv" /\ up[j] = 0 /\ Len(down[j]) = 1
             \/ child[j] \in {"send", "finish"} /\ up[j] = 0 /\ down[j] = <<>>

\* A connection that has been passed is with one child, in its socket or in its
\* hands, and no child has a connection that is anybody else's or closed.
Has(j, c) == (child[j] = "send" /\ conn[j] = c) \/ (\E i \in DOMAIN down[j] : down[j][i] = c)
OneServer ==
    \A c \in Clients :
      /\ held[c] = "passed" <=> \E j \in Children : Has(j, c)
      /\ \A j, k \in Children : Has(j, c) /\ Has(k, c) => j = k

\* A client that says "download success" has all of the file, and one of 20190204
\* that says "Server crash" was never passed to a child: those finish their
\* client even when the server is told to exit.
ClientsAreTold ==
    \A c \in Clients : /\ client[c] = "success" => got[c] = Total
                       /\ client[c] = "crash" => sent[c] = 0

\* A server that is told to exit does (or, before 20190204, is killed), although
\* children are busy and may be dead.
ExitReturns == sigpipe ~> parent \in {"gone", "killed"}
=============================================================================
