----------------------------- MODULE MCExercises -----------------------------
(***************************************************************************)
(* The smaller programs, which share nothing: a behaviour is one of one    *)
(* of them, and part says of which.                                        *)
(***************************************************************************)
EXTENDS ThreadPoolCancel

CONSTANTS Chats, Lines1, Lines2,
          SocketChats, People, Units, Watched, NoConn, Listener,
          CounterProgs, N

ASSUME ProgsAssumption == Chats \subseteq {"pipe", "ipc"} /\ N \in Nat

VARIABLES part,
          cprog, side, begun, met, pipe, typed, ipc, handed, slot, shown,
          sprog, server, newid, sock, number, person, toServer, toClient, said, saidTo, edge, reset,
          nprog, proc, rounds, val, reg, holder, sem, tickets, sold, product, nmain

H == INSTANCE Chat WITH Progs <- Chats, prog <- cprog, pc <- side, queue <- handed,
                        Lines <- <<Lines1, Lines2>>
S == INSTANCE SocketChat WITH Progs <- SocketChats, Clients <- People,
                              prog <- sprog, conn <- sock, client <- person
K == INSTANCE Counters WITH Progs <- CounterProgs, prog <- nprog, pc <- proc, main <- nmain

chat == <<cprog, side, begun, met, pipe, typed, ipc, handed, slot, shown>>
sockets == <<sprog, server, newid, sock, number, person, toServer, toClient, said, saidTo, edge, reset>>
counters == <<nprog, proc, rounds, val, reg, holder, sem, tickets, sold, product, nmain>>
all == <<part, vars, chat, sockets, counters>>

Pool(A) == part = "pool" /\ A /\ UNCHANGED <<part, chat, sockets, counters>>
Chat_(A) == part = "chat" /\ A /\ UNCHANGED <<part, vars, sockets, counters>>
Sockets(A) == part = "sockets" /\ A /\ UNCHANGED <<part, vars, chat, counters>>
Counters_(A) == part = "counters" /\ A /\ UNCHANGED <<part, vars, chat, sockets>>

\* The other parts stay in one initial state.
Fixed(x, values) == x = CHOOSE v \in values : TRUE

SumInit ==
  /\ part \in {"pool", "chat", "sockets", "counters"}
  /\ Init /\ H!Init /\ S!Init /\ K!Init
  /\ part # "chat" => Fixed(cprog, Chats)
  /\ part # "sockets" => Fixed(sprog, SocketChats) /\ newid = NoConn
  /\ part # "counters" => Fixed(nprog, CounterProgs)

SumNext == Pool(Next) \/ Chat_(H!Next) \/ Sockets(S!Next) \/ Counters_(K!Next)

\* The fairness of the parts.
SumSpec ==
  /\ SumInit /\ [][SumNext]_all
  /\ SF_all(Pool(MainStep)) /\ \A t \in Threads : SF_all(Pool(ThreadStep(t)))
  /\ \A c \in Clients : WF_all(Pool(Receive(c)))
  /\ WF_all(Chat_(H!Displays)) /\ \A p \in {1, 2} : WF_all(Chat_(H!Program(p)))
  /\ WF_all(Sockets(S!Recv))
  /\ \A c \in People : /\ WF_all(Sockets(S!Accept(c)))
                       /\ WF_all(Sockets(S!HearClient(c) \/ S!EndHeard(c)))
  /\ WF_all(Counters_(K!JoinSellers))
  /\ \A p \in {1, 2} : SF_all(Counters_(K!Alive /\ K!Step(p)))

(***************************************************************************)
(* Properties of the parts                                                 *)
(***************************************************************************)
\* What one side of the FIFO chat types the other sees, all of it and in order
\* (20190127/B.c, 20190121/homework/chat).
NothingLost == H!NothingLost

\* The opens of the two sides do not wait for each other for ever.
Connects == part = "chat" => H!Connects

\* The end of a side of the chat ends the other side.
BothEnd == H!BothEnd

\* The socket server reads what its latest client sends, and its end, as long as
\* select looks at its descriptor (tcp_server.c:32).
CurrentServed == S!CurrentServed

\* The sum under a lock is the number of additions.
Exact == K!Exact

\* The counting processes end, for all that SEM_UNDO takes back.
Finishes == part = "counters" => K!Finishes
=============================================================================
