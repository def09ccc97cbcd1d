-------------------------- MODULE MCFirstVersion --------------------------
(***************************************************************************)
(* The first version of FileServer: connections, logins and commands, as   *)
(* instances of the three modules that share nothing but the program.  A   *)
(* behaviour is one of one of them; part says of which.                    *)
(***************************************************************************)
EXTENDS FileServerV1

CONSTANTS Sessions, Names, Depth, Garbage, Window, Builders, Large, Orderly,
          Logins, People, UserNames, Known

VARIABLES part,
          tree, known, cur, cpc, wpc, wcmd, entries, up, down, fault,
          rows, homes, lpc, who, userName, salt, buf, buf1, typed, lfault

C == INSTANCE CommandsV1
L == INSTANCE LoginV1 WITH Workers <- Logins, Names <- UserNames, pc <- lpc, fault <- lfault

cvars == <<tree, known, cur, cpc, wpc, wcmd, entries, up, down, fault>>
lvars == <<rows, homes, lpc, who, userName, salt, buf, buf1, typed, lfault>>
all == <<part, vars, cvars, lvars>>

Server(A) == part = "server" /\ A /\ UNCHANGED <<part, cvars, lvars>>
Commands(A) == part = "commands" /\ A /\ UNCHANGED <<part, vars, lvars>>
Login_(A) == part = "login" /\ A /\ UNCHANGED <<part, vars, cvars>>

SumInit == part \in {"server", "commands", "login"} /\ Init /\ C!Init /\ L!Init
SumNext == Server(Next) \/ Commands(C!Next) \/ Login_(L!Next)

SumSpec ==
    /\ SumInit /\ [][SumNext]_all
    /\ \A w \in Workers : WF_vars(part = "server" /\ WorkerStep(w))
    /\ WF_vars(part = "server" /\ Supervise)
    /\ \A c \in Conns : WF_vars(part = "server" /\ HangUp(c))
    /\ \A s \in Sessions :
         /\ WF_cvars(part = "commands" /\ fault = "no" /\ C!ServerClient(s))
         /\ WF_cvars(part = "commands" /\ fault = "no" /\ C!Hear(s))

(***************************************************************************)
(* Properties of the parts                                                 *)
(***************************************************************************)
\* Client and worker never take one item of the stream for another, through
\* every command, refusal and hang-up, with files of up to 100 MB (main.cpp:252-531,
\* client.cpp:140-278).
Aligned == C!Aligned

\* A session's curPath is a directory that exists, while another session makes and
\* removes names around it, if its user keeps them apart (main.cpp:294, 316).
PathsExist == C!PathsExist

\* Every command comes to its end at the client (main.cpp:249-531).
Answered == C!Answered

\* Whoever is served has typed the name and a password of its row, although the
\* worker's buffers still hold what earlier clients left (main.cpp:135-220).
Authenticated == L!Authenticated
=============================================================================
