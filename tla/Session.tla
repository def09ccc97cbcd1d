------------------------------- MODULE Session -------------------------------
(***************************************************************************)
(* Sessions of FileServerAdvance (src/main.cpp, client/client.cpp): how a  *)
(* client chooses, registers, logs in, gives commands and opens data       *)
(* connections, as the client and main exchange it message by message.     *)
(*                                                                         *)
(* Main is one thread and reads with a blocking recv_n in the middle of a  *)
(* dialogue, so a client that makes it wait makes every other client wait. *)
(* Both ends send bytes without a frame: what an item of the stream means  *)
(* depends on where its reader is.  Here an item carries the meaning its   *)
(* sender gave it (its kind), and a reader that expects another kind is    *)
(* stuck; a length and the string it announces are one item, which arrives *)
(* whole or not at all.                                                    *)
(*                                                                         *)
(* tok maps a token to a descriptor.  MD5 called with NULL returns its own *)
(* static buffer: md5 is its content, and node[fd].token only says whether *)
(* the node points to it.  A use of a NULL pointer ends the behaviour      *)
(* (fault).  How connections are torn down step by step, and when the      *)
(* supervisor does it, is ConnTable's subject; here a teardown is one step *)
(* and never hits the connection main is reading from.                     *)
(***************************************************************************)
EXTENDS Integers, Sequences, FiniteSets

CONSTANTS
    Fd,       \* descriptors; a client keeps its connection's number as name
    Person,   \* who may sit at a client; also the hash of the password
    Name,     \* user names
    Rows,     \* rows of the table when the server starts
    Command,  \* the commands users give: some of AllCommands
    Second,   \* what time(NULL) may return, in any order
    Unique,   \* UserName is a key of the table UserInfo
    Wrong,    \* the hash of a mistyped password
    None      \* no value; also the empty string, which is what a buffer
              \* holds when recv_n or a statement has failed

ASSUME RowsAssumption == Rows \subseteq Name \X Person
ASSUME SecondAssumption == Second # {}
ASSUME UniqueAssumption == Unique \in BOOLEAN
ASSUME DistinctAssumption ==
    None \notin Fd \cup Person \cup Name \cup {Wrong} /\ Wrong \notin Person

(* "other" gets an answer and does nothing here; "unknown" gets none.      *)
AllCommands == {"remove", "gets", "puts", "other", "unknown"}
ASSUME CommandAssumption == Command \subseteq AllCommands

Token == Second \X Name
ASSUME TokenAssumption == None \notin Token

FileHash == <<"file">>  \* what MD5 leaves in its buffer for a file

Item == ({"header"} \X {1, 2}) \cup ({"choice"} \X {"login", "register"})
        \cup ({"step"} \X {1, 2, 3}) \cup ({"name"} \X Name)
        \cup ({"secret"} \X (Person \cup {Wrong})) \cup ({"salt"} \X {"salt"})
        \cup ({"command"} \X AllCommands)
        \cup ({"opened"} \X BOOLEAN) \cup ({"token"} \X Token)
ASSUME ItemAssumption == \A x \in Item : x[2] # None

Answer == ({"salt"} \X {"salt"}) \cup ({"login"} \X {FALSE})
          \cup ({"token"} \X Token) \cup ({"exists"} \X BOOLEAN)
          \cup ({"done", "transfer"} \X BOOLEAN) \cup ({"granted"} \X {TRUE})

Node == [state : 0..3, UserName : Name \cup {None}, absPath : Name \cup {None},
         token : BOOLEAN, queued : BOOLEAN]
ASSUME NodeAssumption == None \notin Node

VARIABLES
    UserInfo,  \* rows of the table: <<UserName, PassWord>>
    tok,       \* tok[t]: the descriptor mapped to token t, or None (0)
    md5,       \* the content of MD5's buffer, or None
    node,      \* node[fd]: the session of mp[fd], or None
    srv,       \* main: its place and the descriptor it serves
    chan,      \* chan[fd]: sent by the client and not read by main
    reply,     \* reply[fd]: sent by main and not read by the client
    client,    \* client[fd]: the client process or data thread
    threads,   \* tokens of data threads that have not connected yet
    fault      \* main has used a NULL pointer

dataVars == <<UserInfo, tok, md5>>
srvVars == <<node, srv>>
vars == <<UserInfo, tok, md5, node, srv, chan, reply, client, threads, fault>>

Fresh == [state |-> 0, UserName |-> None, absPath |-> None, token |-> FALSE,
          queued |-> FALSE]
NoClient == [pc |-> "none", person |-> None, token |-> None]
Idle == [pc |-> "loop", fd |-> None]

Init ==
    /\ UserInfo = Rows
    /\ tok = [t \in Token |-> None]
    /\ md5 = None
    /\ node = [fd \in Fd |-> None]
    /\ srv = Idle
    /\ chan = [fd \in Fd |-> << >>]
    /\ reply = [fd \in Fd |-> << >>]
    /\ client = [fd \in Fd |-> NoClient]
    /\ threads = {}
    /\ fault = FALSE

-----------------------------------------------------------------------------
(* The client. *)
At(fd, pc) == client[fd].pc = pc

(* Sends the items and goes on at pc. *)
Say(fd, items, pc) ==
    /\ chan' = [chan EXCEPT ![fd] = @ \o items]
    /\ client' = [client EXCEPT ![fd].pc = pc]
    /\ UNCHANGED <<dataVars, srvVars, reply, threads, fault>>

(* Main's next answer is of this kind and says v.                          *)
Told(fd, kind, v) == reply[fd] # << >> /\ Head(reply[fd]) = <<kind, v>>

(* Reads the answer, sends the items and becomes c.                        *)
Hear(fd, items, c) ==
    /\ reply' = [reply EXCEPT ![fd] = Tail(@)]
    /\ chan' = [chan EXCEPT ![fd] = @ \o items]
    /\ client' = [client EXCEPT ![fd] = c]
    /\ UNCHANGED <<dataVars, srvVars, fault>>

To(fd, pc) == [client[fd] EXCEPT !.pc = pc]

Connect(fd, p) ==
    /\ At(fd, "none")
    /\ client' = [client EXCEPT ![fd] = [pc |-> "choose", person |-> p, token |-> None]]
    /\ UNCHANGED <<dataVars, srvVars, chan, reply, threads, fault>>

Choose(fd) ==
    /\ At(fd, "choose")
    /\ \/ Say(fd, <<<<"header", 1>>, <<"choice", "login">>>>, "name")
       \/ Say(fd, <<<<"header", 1>>, <<"choice", "register">>>>, "newName")

SendName(fd) ==
    \E n \in Name :
        LET named == <<<<"header", 1>>, <<"step", 1>>, <<"name", n>>>> IN
        \/ At(fd, "name") /\ Say(fd, named, "salt")
        \/ At(fd, "newName") /\ Say(fd, named, "isFree")

(* The header goes out before the password is typed: main waits for more.  *)
GetSalt(fd) ==
    /\ At(fd, "salt")
    /\ Told(fd, "salt", "salt")
    /\ Hear(fd, <<<<"header", 1>>>>, To(fd, "password"))
    /\ threads' = threads

SendPassword(fd) ==
    \E secret \in {client[fd].person, Wrong} :
        \/ /\ At(fd, "password")
           /\ Say(fd, <<<<"step", 2>>, <<"secret", secret>>>>, "result")
        \/ /\ At(fd, "passwordAgain")
           /\ Say(fd, <<<<"header", 1>>, <<"step", 3>>, <<"secret", secret>>>>,
                  "lastResult")

(* After a second failure the client process ends.                         *)
GetResult(fd) ==
    /\ At(fd, "result") \/ At(fd, "lastResult")
    /\ \/ \E t \in Token :
             /\ Told(fd, "token", t)
             /\ Hear(fd, << >>, [To(fd, "session") EXCEPT !.token = t])
       \/ /\ Told(fd, "login", FALSE)
          /\ Hear(fd, << >>, To(fd, IF At(fd, "result") THEN "passwordAgain"
                                                       ELSE "gone"))
    /\ threads' = threads

GetNameAnswer(fd) ==
    /\ At(fd, "isFree")
    /\ \/ Told(fd, "exists", TRUE) /\ Hear(fd, << >>, To(fd, "newName"))
       \/ Told(fd, "exists", FALSE) /\ Hear(fd, << >>, To(fd, "newPassword"))
    /\ threads' = threads

(* The salt goes out first; hashing the password takes a while.            *)
SendNewPassword(fd) ==
    \/ /\ At(fd, "newPassword")
       /\ Say(fd, <<<<"header", 1>>, <<"step", 2>>, <<"salt", "salt">>>>, "hashing")
    \/ /\ At(fd, "hashing")
       /\ Say(fd, <<<<"secret", client[fd].person>>>>, "choose")

(* A command; a puts first tells main whether it could open the file.  The *)
(* next one waits until main has read the last (a bound of the model).     *)
SendCommand(fd) ==
    /\ At(fd, "session")
    /\ chan[fd] = << >>
    /\ \E c \in Command :
        LET cmd == <<<<"header", 1>>, <<"command", c>>>> IN
        CASE c \in {"remove", "other"} -> Say(fd, cmd, "answer")
          [] c = "gets" -> Say(fd, cmd, "transferAnswer")
          [] c = "puts" -> \/ Say(fd, cmd \o <<<<"opened", TRUE>>>>, "transferAnswer")
                           \/ Say(fd, cmd \o <<<<"opened", FALSE>>>>, "session")
          [] c = "unknown" -> Say(fd, cmd, "session")

(* A transfer that may go ahead gets a data thread.                        *)
GetAnswer(fd) ==
    \E ok \in BOOLEAN :
        \/ /\ At(fd, "answer") /\ Told(fd, "done", ok)
           /\ Hear(fd, << >>, To(fd, "session"))
           /\ threads' = threads
        \/ /\ At(fd, "transferAnswer") /\ Told(fd, "transfer", ok)
           /\ Hear(fd, << >>, To(fd, "session"))
           /\ threads' = threads \cup (IF ok THEN {client[fd].token} ELSE {})

(* threadFunc connects and sends 2 and the token, or cannot connect.       *)
DataConnect(t) ==
    /\ t \in threads
    /\ threads' = threads \ {t}
    /\ \/ \E d \in Fd :
             /\ At(d, "none")
             /\ chan' = [chan EXCEPT ![d] = <<<<"header", 2>>, <<"token", t>>>>]
             /\ client' = [client EXCEPT
                   ![d] = [pc |-> "data", person |-> None, token |-> t]]
       \/ UNCHANGED <<chan, client>>
    /\ UNCHANGED <<dataVars, srvVars, reply, fault>>

(* The client ends, or its machine or network does, at any point.  What it *)
(* has sent last may not arrive.                                           *)
HangUp(fd) ==
    /\ client[fd].pc \notin {"none", "gone"}
    /\ client' = [client EXCEPT ![fd] = [NoClient EXCEPT !.pc = "gone"]]
    /\ \E k \in 0..Len(chan[fd]) :
          chan' = [chan EXCEPT ![fd] = SubSeq(@, 1, k)]
    /\ reply' = [reply EXCEPT ![fd] = << >>]
    /\ UNCHANGED <<dataVars, srvVars, threads, fault>>

-----------------------------------------------------------------------------
(* Main. *)

(* What recv_n gives main at pc: an item of the kind, or None once the     *)
(* client is gone and everything it sent is read.  It blocks otherwise.    *)
Recv(fd, kind, v) ==
    \/ chan[fd] # << >> /\ Head(chan[fd]) = <<kind, v>>
    \/ chan[fd] = << >> /\ At(fd, "gone") /\ v = None

Reads(fd, pc, kind, v) == srv = [pc |-> pc, fd |-> fd] /\ Recv(fd, kind, v)

Unread(fd) == [chan EXCEPT ![fd] = IF @ = << >> THEN @ ELSE Tail(@)]

(* Takes the item and reads on at pc.                                      *)
ReadOn(fd, pc) ==
    /\ chan' = Unread(fd)
    /\ srv' = [pc |-> pc, fd |-> fd]
    /\ UNCHANGED <<dataVars, node, reply, client, threads, fault>>

(* Takes the item, leaves n as the session, answers, and is done with fd.  *)
Finish(fd, n, answers) ==
    /\ chan' = Unread(fd)
    /\ node' = [node EXCEPT ![fd] = n]
    /\ reply' = [reply EXCEPT ![fd] = IF At(fd, "gone") THEN @ ELSE @ \o answers]
    /\ srv' = Idle
    /\ UNCHANGED <<client, threads>>

(* close(fd), free(mp[fd]), mp.erase(fd); the other end can only notice.   *)
TearDown(fd) ==
    /\ node' = [node EXCEPT ![fd] = None]
    /\ chan' = [chan EXCEPT ![fd] = << >>]
    /\ reply' = [reply EXCEPT ![fd] = << >>]
    /\ client' = [client EXCEPT ![fd] = NoClient]
    /\ threads' = threads

Drop(fd) == TearDown(fd) /\ srv' = Idle

Accept(fd) ==
    /\ srv = Idle
    /\ ~At(fd, "none")
    /\ node[fd] = None
    /\ node' = [node EXCEPT ![fd] = Fresh]
    /\ UNCHANGED <<dataVars, srv, chan, reply, client, threads, fault>>

(* One event of epoll_wait: the header, then the rest by the state.  A     *)
(* header that does not come counts as 1.                                  *)
Event(fd) ==
    /\ srv = Idle
    /\ node[fd] # None
    /\ ~node[fd].queued
    /\ \E h \in {1, 2, None} :
          /\ Recv(fd, "header", h)
          /\ ReadOn(fd, IF h = 2 THEN "token"
                        ELSE CASE node[fd].state = 0 -> "choice"
                               [] node[fd].state = 1 -> "login"
                               [] node[fd].state = 2 -> "register"
                               [] node[fd].state = 3 -> "action")

ReadChoice(fd) ==
    \E c \in {"login", "register", None} :
        /\ Reads(fd, "choice", "choice", c)
        /\ IF c = None THEN Drop(fd)
           ELSE Finish(fd, [node[fd] EXCEPT !.state = IF c = "login" THEN 1 ELSE 2],
                       << >>)
        /\ UNCHANGED <<dataVars, fault>>

(* userRegister: the number of the step.                                   *)
ReadRegister(fd) ==
    \E k \in {1, 2, None} :
        /\ Reads(fd, "register", "step", k)
        /\ IF k = None THEN Drop(fd) /\ UNCHANGED <<dataVars, fault>>
           ELSE ReadOn(fd, IF k = 1 THEN "newName" ELSE "newSalt")

(* A statement that fails counts as a name that is taken.                  *)
RegisterName(fd) ==
    \E n \in Name \cup {None}, exists \in BOOLEAN :
        /\ Reads(fd, "newName", "name", n)
        /\ (\E row \in UserInfo : row[1] = n) => exists
        /\ Finish(fd, IF exists THEN node[fd] ELSE [node[fd] EXCEPT !.UserName = n],
                  <<<<"exists", exists>>>>)
        /\ UNCHANGED <<dataVars, fault>>

RegisterSalt(fd) ==
    /\ \E salt \in {"salt", None} : Reads(fd, "newSalt", "salt", salt)
    /\ ReadOn(fd, "newSecret")

(* The row may be refused or lost; the client is registered all the same.  *)
RegisterSecret(fd) ==
    LET name == node[fd].UserName IN
    \E secret \in Person \cup {None} :
        /\ Reads(fd, "newSecret", "secret", secret)
        /\ \/ /\ ~(Unique /\ \E row \in UserInfo : row[1] = name)
              /\ UserInfo' = UserInfo \cup {<<name, secret>>}
           \/ UserInfo' = UserInfo
        /\ Finish(fd, [node[fd] EXCEPT !.state = 0], << >>)
        /\ UNCHANGED <<tok, md5, fault>>

(* Mutant: a login broken off is left to a later event. *)
ReadLoginLater(fd) ==
    \E k \in {1, 2, 3, None} :
        /\ Reads(fd, "login", "step", k)
        /\ IF k = None THEN Finish(fd, node[fd], << >>) /\ UNCHANGED <<dataVars, fault>>
           ELSE ReadOn(fd, CASE k = 1 -> "name" [] k = 2 -> "secret"
                             [] k = 3 -> "lastSecret")

(* userLogin: the number of the step.                                      *)
ReadLogin(fd) ==
    \E k \in {1, 2, 3, None} :
        /\ Reads(fd, "login", "step", k)
        /\ IF k = None THEN Drop(fd) /\ UNCHANGED <<dataVars, fault>>
           ELSE ReadOn(fd, CASE k = 1 -> "name" [] k = 2 -> "secret"
                             [] k = 3 -> "lastSecret")

(* Mutant: an unknown user gets no answer. *)
LoginNameKnown(fd) ==
    \E n \in Name \cup {None} :
        /\ Reads(fd, "name", "name", n)
        /\ Finish(fd, [node[fd] EXCEPT !.UserName = n],
                  IF \E row \in UserInfo : row[1] = n THEN <<<<"salt", "salt">>>> ELSE << >>)
        /\ UNCHANGED <<dataVars, fault>>

(* An unknown user gets a salt as well.                                    *)
LoginName(fd) ==
    \E n \in Name \cup {None} :
        /\ Reads(fd, "name", "name", n)
        /\ Finish(fd, [node[fd] EXCEPT !.UserName = n], <<<<"salt", "salt">>>>)
        /\ UNCHANGED <<dataVars, fault>>

(* Mutant: the password of any user will do. *)
StoredForAnyone(n) == {row[2] : row \in UserInfo} \cup {None}

(* What "select PassWord" leaves in the buffer: nothing, if it fails.      *)
Stored(n) == {row[2] : row \in {r \in UserInfo : r[1] = n}} \cup {None}

LoggedIn(fd) == [node[fd] EXCEPT !.state = 3, !.token = TRUE,
                                 !.absPath = node[fd].UserName]

LoginSecret(fd) ==
    \E secret \in Person \cup {Wrong, None} :
        /\ \/ Reads(fd, "secret", "secret", secret)
           \/ Reads(fd, "lastSecret", "secret", secret)
        /\ \/ /\ secret \in Stored(node[fd].UserName)
              /\ \E time \in Second : md5' = <<time, node[fd].UserName>>
              /\ tok' = [tok EXCEPT ![md5'] = fd]
              /\ Finish(fd, LoggedIn(fd), <<<<"token", md5'>>>>)
           \/ /\ Stored(node[fd].UserName) # {secret}
              /\ IF srv.pc = "secret"
                 THEN Finish(fd, node[fd], <<<<"login", FALSE>>>>)
                 ELSE Drop(fd)
              /\ UNCHANGED <<tok, md5>>
        /\ UNCHANGED <<UserInfo, fault>>

(* userAction fails: tok.erase(pnode->pUserInfo->token), whatever that is. *)
LogOut(fd) ==
    /\ Reads(fd, "action", "command", None)
    /\ tok' = [t \in Token |-> IF t = md5 THEN None ELSE tok[t]]
    /\ Drop(fd)
    /\ UNCHANGED <<UserInfo, md5, fault>>

(* A remove of a file's last copy has MD5 hash it.  The last command       *)
(* stands for one that gets no answer.                                     *)
Action(fd) ==
    \/ \E c \in {"remove", "other"}, ok \in BOOLEAN :
          /\ Reads(fd, "action", "command", c)
          /\ md5' \in {md5} \cup (IF c = "remove" /\ ok THEN {FileHash} ELSE {})
          /\ Finish(fd, node[fd], <<<<"done", ok>>>>)
          /\ UNCHANGED <<UserInfo, tok, fault>>
    \/ \E ok \in BOOLEAN :
          /\ Reads(fd, "action", "command", "gets")
          /\ Finish(fd, node[fd], <<<<"transfer", ok>>>>)
          /\ UNCHANGED <<dataVars, fault>>
    \/ Reads(fd, "action", "command", "puts") /\ ReadOn(fd, "opened")
    \/ /\ Reads(fd, "action", "command", "unknown")
       /\ Finish(fd, node[fd], << >>)
       /\ UNCHANGED <<dataVars, fault>>

(* Mutant: puts is answered though the client has no file to send. *)
PutsAnswered(fd) ==
    \E opened \in {TRUE, FALSE, None}, ok \in BOOLEAN :
        /\ Reads(fd, "opened", "opened", opened)
        /\ Finish(fd, node[fd], <<<<"transfer", ok>>>>)
        /\ UNCHANGED <<dataVars, fault>>

Puts(fd) ==
    \E opened \in {TRUE, FALSE, None}, ok \in BOOLEAN :
        /\ Reads(fd, "opened", "opened", opened)
        /\ Finish(fd, node[fd],
                  IF opened = FALSE THEN << >> ELSE <<<<"transfer", ok>>>>)
        /\ UNCHANGED <<dataVars, fault>>

-----------------------------------------------------------------------------
(* Data connections: the token presented is looked up in tok and compared  *)
(* with the token of the session mapped to it; mp[tok[buf]] of a session   *)
(* that has ended, or one without a token, is a NULL pointer.              *)
Holder(t) == IF t = None THEN None ELSE tok[t]
NoSession(f) == f # None /\ (IF node[f] = None THEN TRUE ELSE ~node[f].token)

(* Mutant: whoever is at the descriptor tok names will do. *)
TokenGrantUnchecked(fd, t) ==
    LET f == Holder(t) IN
    /\ Reads(fd, "token", "token", t)
    /\ f # None /\ ~NoSession(f)
    /\ \/ Finish(fd, [node[fd] EXCEPT !.absPath = node[f].absPath, !.queued = TRUE],
                 <<<<"granted", TRUE>>>>)
       \/ Drop(fd)
    /\ UNCHANGED <<dataVars, fault>>

(* It is this one: the worker gets the connection unless the queue is full. *)
TokenGrant(fd, t) ==
    LET f == Holder(t) IN
    /\ Reads(fd, "token", "token", t)
    /\ f # None /\ ~NoSession(f) /\ md5 = t
    /\ \/ Finish(fd, [node[fd] EXCEPT !.absPath = node[f].absPath, !.queued = TRUE],
                 <<<<"granted", TRUE>>>>)
       \/ Drop(fd)
    /\ UNCHANGED <<dataVars, fault>>

TokenRefuse(fd, t) ==
    LET f == Holder(t) IN
    /\ Reads(fd, "token", "token", t)
    /\ f = None \/ (~NoSession(f) /\ md5 # t)
    /\ Drop(fd)
    /\ UNCHANGED <<dataVars, fault>>

TokenFault(fd, t) ==
    /\ Reads(fd, "token", "token", t)
    /\ NoSession(Holder(t))
    /\ fault' = TRUE
    /\ UNCHANGED <<dataVars, srvVars, chan, reply, client, threads>>

(* A worker has taken the connection, made the transfer and closed it.     *)
WorkerDone(fd) ==
    /\ node[fd] # None
    /\ node[fd].queued
    /\ TearDown(fd)
    /\ UNCHANGED <<dataVars, srv, fault>>

(* The supervisor closes an idle connection; it knows nothing of tok.      *)
TimeOut(fd) ==
    /\ node[fd] # None
    /\ ~node[fd].queued
    /\ srv.fd # fd
    /\ TearDown(fd)
    /\ UNCHANGED <<dataVars, srv, fault>>

-----------------------------------------------------------------------------
ClientStep(fd) ==
    \/ \E p \in Person : Connect(fd, p)
    \/ Choose(fd) \/ SendName(fd) \/ GetSalt(fd) \/ SendPassword(fd)
    \/ GetResult(fd) \/ GetNameAnswer(fd) \/ SendNewPassword(fd)
    \/ SendCommand(fd) \/ GetAnswer(fd) \/ HangUp(fd)

(* Main in the middle of an event. *)
Serve(fd) ==
    \/ ReadChoice(fd) \/ ReadRegister(fd) \/ ReadLogin(fd)
    \/ RegisterName(fd) \/ RegisterSalt(fd) \/ RegisterSecret(fd)
    \/ LoginName(fd) \/ LoginSecret(fd)
    \/ LogOut(fd) \/ Action(fd) \/ Puts(fd)
    \/ \E t \in Token \cup {None} :
          TokenGrant(fd, t) \/ TokenRefuse(fd, t) \/ TokenFault(fd, t)

(* Main alone writes the table, tok, md5 and the sessions it reads, so the *)
(* steps of the others take place while it is idle or blocked.             *)
Blocked == srv # Idle /\ chan[srv.fd] = << >> /\ ~At(srv.fd, "gone")

Next ==
    /\ ~fault
    /\ \/ \E fd \in Fd : Accept(fd) \/ Event(fd) \/ Serve(fd)
       \/ /\ srv = Idle \/ Blocked
          /\ \/ \E fd \in Fd : ClientStep(fd) \/ WorkerDone(fd) \/ TimeOut(fd)
             \/ \E t \in threads : DataConnect(t)

Spec == Init /\ [][Next]_vars

(* Main goes on with an event as soon as there is something to read, and   *)
(* epoll_wait reports every ready descriptor to a loop that serves them    *)
(* all; workers end.  Of the users it is assumed that one main is blocked  *)
(* on types the password or hangs up: main has no timeout of its own.      *)
FairSpec ==
    /\ Spec
    /\ WF_vars(\E fd \in Fd : Serve(fd))
    /\ WF_vars(~fault /\ Blocked /\ (SendPassword(srv.fd) \/ SendNewPassword(srv.fd)))
    /\ \A fd \in Fd : SF_vars(Accept(fd) \/ Event(fd))
    /\ \A fd \in Fd : WF_vars(~fault /\ WorkerDone(fd))

-----------------------------------------------------------------------------
(* Type invariant (main.cpp:19-20, 62-70, 581-591; client.cpp:9, 31-41).   *)
ClientPc == {"none", "gone", "choose", "name", "salt", "password", "result",
             "passwordAgain", "lastResult", "newName", "isFree",
             "newPassword", "hashing", "session", "answer",
             "transferAnswer", "data"}

TypeOK ==
    /\ UserInfo \subseteq (Name \cup {None}) \X (Person \cup {None})
    /\ tok \in [Token -> Fd \cup {None}]
    /\ md5 \in Token \cup {FileHash, None}
    /\ node \in [Fd -> {None} \cup Node]
    /\ srv \in [pc : {"loop", "choice", "login", "register", "action", "token",
                      "name", "secret", "lastSecret", "newName", "newSalt",
                      "newSecret", "opened"},
                fd : Fd \cup {None}]
    /\ chan \in [Fd -> Seq(Item)] /\ reply \in [Fd -> Seq(Answer)]
    /\ client \in [Fd -> [pc : ClientPc, person : Person \cup {None},
                          token : Token \cup {None}]]
    /\ threads \subseteq Token
    /\ fault \in BOOLEAN

(* Neither end ever takes one thing for another: whatever paths the two    *)
(* have gone through the dialogues (two kinds of data connection, retries  *)
(* of a name or a password, a puts of no file, the return to the choice    *)
(* after registering), what comes next in the stream is what its reader is *)
(* about to read (main.cpp:117-191, 259-261, 352, 588-604, 630-675 against *)
(* client.cpp:53-163, 177-241, 403-432).                                   *)
Expected(fd) ==
    IF srv.fd # fd THEN {"header"}
    ELSE CASE srv.pc \in {"login", "register"} -> {"step"}
           [] srv.pc \in {"name", "newName"} -> {"name"}
           [] srv.pc \in {"secret", "lastSecret", "newSecret"} -> {"secret"}
           [] srv.pc = "newSalt" -> {"salt"}
           [] srv.pc = "action" -> {"command"}
           [] OTHER -> {srv.pc}

Awaited(fd) ==
    CASE At(fd, "salt") -> {"salt"}
      [] At(fd, "result") \/ At(fd, "lastResult") -> {"token", "login"}
      [] At(fd, "isFree") -> {"exists"}
      [] At(fd, "answer") -> {"done"}
      [] At(fd, "transferAnswer") -> {"transfer"}
      [] At(fd, "data") -> {"granted"}
      [] OTHER -> {}

Aligned ==
    \A fd \in Fd :
        /\ chan[fd] # << >> => Head(chan[fd])[1] \in Expected(fd)
        /\ reply[fd] # << >> => Head(reply[fd])[1] \in Awaited(fd)

(* Who is in a session, and still there, has proved to be a person whose   *)
(* password is stored under the session's name, whatever the order of      *)
(* registrations, failed logins, lost statements and reused descriptors    *)
(* (main.cpp:645-699).                                                     *)
Authenticated ==
    \A fd \in Fd :
        node[fd] # None /\ ~At(fd, "gone") =>
            (node[fd].state = 3 => <<node[fd].UserName, client[fd].person>> \in UserInfo)

(* A data connection that is let through works in the directory of the     *)
(* user its token was made for, although tok may be stale, descriptors are *)
(* used again and all sessions share one buffer (main.cpp:195-200, 660).   *)
OwnDirectory ==
    \A fd \in Fd :
        node[fd] # None /\ client[fd].token # None =>
            (node[fd].queued => node[fd].absPath = client[fd].token[2])

(* A client that waits for an answer gets it, or its connection ends: main *)
(* neither blocks for ever in another dialogue nor forgets one.            *)
Waiting(fd) == Awaited(fd) # {}
Answered ==
    \A fd \in Fd : Waiting(fd) ~> ~Waiting(fd) \/ reply[fd] # << >> \/ fault

(* Every connection whose client has gone is closed and its descriptor     *)
(* free again, wherever in a dialogue the client was (main.cpp:117-118,    *)
(* 131, 146, 158, 170, 190-193).                                           *)
HungUpIsReaped ==
    \A fd \in Fd : At(fd, "gone") ~> At(fd, "none") \/ fault

(* "token authentication: ... success" (main.cpp:190, 194): a token that   *)
(* main gave out is accepted as long as its session lasts.                 *)
LiveTokenAccepted ==
    [][\A d, fd \in Fd :
        /\ node[fd] # None /\ node[fd].state = 3
        /\ At(fd, "session") /\ At(d, "data")
        /\ client[d].token = client[fd].token
        => ~TokenRefuse(d, client[d].token)]_vars

(* "the user name exists already" (client.cpp:136): a name is one person's.*)
NameHasOneOwner ==
    \A r1, r2 \in UserInfo : r1[1] = r2[1] => r1 = r2
=============================================================================
